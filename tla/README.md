# TLA+ models of the mpd PPPoE device (`src/src/pppoe.c`)

These modules model the PPPoE physical-device driver of mpd and check it with
TLC. The driver is `src/src/pppoe.c`; `src/src/event.h` declares the event
loop it runs in.

## The system

mpd runs one thread with a cooperative event loop (`event.h`). Every callback
runs to completion: the host's open and close calls, the 9 s connect timer,
the read event of a parent's control socket (`csock`) and the read event of
its data socket (`dsock`). Concurrency comes from the order of these
callbacks, and from the kernel `ng_pppoe` node, which queues control
messages on `csock` on its own schedule.

| Part (spec name) | Code | What it does |
|---|---|---|
| ParentIfRegistry | `PppoeIfs[]`, `PppoeGetNode`, `PppoeReleaseNode`, `CreatePppoeNode` | One ng_pppoe node and socket pair per parent interface, shared by reference count. |
| ListenerSet | `struct PppoeList`, `PppoeListen`, `PppoeUnListen`, `PppoeNodeUpdate` | One `listen-<service>` hook per parent and service, shared by reference count. |
| LinkSession | `PppoeInit`, `PppoeInst`, `PppoeOpen`, `PppoeClose`, `PppoeDoClose`, `PppoeConnectTimeout`, `PppoeShutdown` | Per-link state DOWN → CONNECTING → READY → UP. |
| CtrlDemux | `PppoeCtrlReadEvent` | Routes SUCCESS/FAIL/CLOSE/SETMAXP by hook name `mpd<pid>-<id>` to a link. |
| IncomingDispatcher | `PppoeListenEvent` | On a PADI on `listen-<s>`, picks a link or instantiates a template, parks the session on a tee, and replays the frame. |
| TagCodec | `get_tag`, `get_vs_tag`, `print_tags`, vendor sub-TLV loop | Parses PPPoE tags of received frames. |
| StatusAndAccessors | `PppoeGetMtu`, `PppoeGetMru`, `PppoeOriginated`, `PppoeCallingNum`, `PppoeStat`, ... | What the link framework reads of a link: MTU/MRU, origin, peer identity, status text. |
| ConfigSurface | `PppoeSetCommand` | `set pppoe iface/service/acname/max-payload/mac-format`. |

How the parts interact:
- `set iface`/`set service` and the update callback acquire and release parents and listeners.
- An outgoing open acquires the parent and sends CONNECT.
- An accepted call uses the parent of the listening link.
- Every session leaves through `PppoeDoClose`. That path is taken by close, the timer, FAIL and CLOSE.

## Modules

| Module | Models |
|---|---|
| `PppoeRegistryOps` | The registry record and the pure operators `CreatePppoeNode`, `PppoeGetNode`, `PppoeReleaseNode`, `PppoeListen`, `PppoeUnListen` and `PppoeInstRefs` (`PppoeInst`). The C functions are called in sequence inside one handler, so each is a record → record operator and a handler composes them exactly as the code does. The record also holds one piece of kernel state, `ether[p]`: the hooks of parent `p`'s ether node that an ng_pppoe node made by mpd hangs from. Such a node outlives the slot and its sockets. |
| `PppoeRegistry` | ParentIfRegistry and ListenerSet, driven by every handler that touches them: `set iface`, `set service`, enabling incoming, `PppoeNodeUpdate`, outgoing open, accept with template instantiation, close and shutdown of instances. The session is one bit per link (`active`); `hook` is `pi->hook`, given by `set iface <name> <hook>`. |
| `PppoeLink` | LinkSession, CtrlDemux and IncomingDispatcher, with the kernel node as environment. Parents come from the same `PppoeRegistryOps`. `set iface` and `set max-payload` (`SetIface`, `SetMaxPayload`) act on live links in `ReconfSpec`. `set mac-format` (`SetMacFormat`) too. The accessors (`PppoeGetMtu`, `PppoeGetMru`, `PppoeOriginated`, `PppoePeerMacAddr`, `PppoePeerIface`, `PppoeCallingNum`, `PppoeCalledNum`, `PppoeSelfName`, `PppoePeerName`) are operators over the link state, read by the properties as the link framework reads them. A MAC rendered in a `mac-format` layout is the record (layout, octets): the layouts differ only in separators. |
| `PppoeSession` | The abstract LinkSession of spec 4.4: per link only the phys state and `opened`, with the transitions the spec draws (dial, offer, open, established, abandon, drop, close) and weak fairness on abandoning a negotiation. `PppoeLink` implements it: `LinkSessionRefinement` is `INSTANCE PppoeSession WITH state <- pstate`, checked as a property. |
| `PppoeTags` | TagCodec at byte level: `get_tag`, `get_vs_tag`, `print_tags` and the decoding in `PppoeListenEvent` (lines 1284-1322) of the Service-Name into `real_session` and of the BBF vendor tag's sub-TLVs into `agent_cid`/`agent_rid`. Each walker is a `RECURSIVE` operator that also returns the offsets it reads. One `Decode` step handles one received frame. A reference decoder, written from the wire format of the spec, gives the values the code should produce. |
| `MCPppoeRegistry`, `MCPppoeLink`, `MCPppoeLinkReconf`, `MCPppoeTags` | Constants for TLC. `MCPppoeTags` builds the frames from tags. |

State correspondence in `PppoeLink`:

| Variable | Code |
|---|---|
| `pstate` | `l->state` |
| `opened` | `pi->opened` |
| `incoming` | `pi->incoming` |
| `timer` | `pi->connectTimer` running |
| `mpReply` | `pi->mp_reply` |
| `ks[l]` | The kernel session behind hook `mpd<pid>-<l>`: `none/connecting/offering/up/dead`. `gen` numbers the session and `wired` says whether the hook reaches ng_ppp or still ends in the tee. `node` is the ng_pppoe node (by parent path) holding the hook, `slot` the csock its messages go to (`NoSlot` once that socket is closed), `got` the PPP-Max-Payload the server returned. |
| `path` | `pi->path` (`set iface`) |
| `maxPayload` | `pi->max_payload` (`set max-payload`) |
| `orphan[l]` | A session hook of link `l` left on a node it no longer uses, because `PppoeDoClose` disconnected on the node of the new `pi->PIf`: `none`, `parked` (on a tee) or `wired` (holding ng_ppp's upper hook, which makes every later connect of the link fail). |
| `msgq[i]` | The FIFO of control messages on slot `i`'s `csock`. |
| `peer[l]` | `pi->peeraddr` (`zero`, or `caller`: the source of the accepted PADI), `pi->real_session` (`*` from `PppoeInit`, empty, or a service), `pi->agent_cid`/`agent_rid` (empty, or `frame`: what `PppoeTags` decodes from the accepted frame). |
| `macFormat` | `pi->mac_format` (`set mac-format`) |
| `physOpen` | Whether the host has the phys layer open. The host may open again after `PhysDown`, or close. |

`gen` is a ghost counter, used only to state which session a message belongs to.

Each action is the whole handler, with every fail label:
- `PppoeOpenOutgoing`: the choice `c` is what the environment makes of `CreatePppoeNode`, and `sendOk` of the graph messages. `PppoeLink` uses the default hook (`set iface <name>`).
- `PppoeOpenIncoming`: its success and fail3 branches.
- `PppoeCtrlReadEvent`: with the PIf and DOWN checks.
- `PppoeListenEvent`: with the tee failure path.
- `PppoeClose`, `PppoeConnectTimeout`: both go through `PppoeDoClose`, which sends the disconnect to the node of `pi->PIf`. With `pi->PIf` NULL the code dereferences it and the daemon dies: the model has no step there.
- `SetIface`: `pi->path` changes; for a listening link `PppoeUnListen`, `PppoeReleaseNode`, `PppoeGetNode` and `PppoeListen` run in the handler. Sockets the release closes lose their queued messages, and sessions created through them lose their csock.
- `SetMaxPayload`: accepted in `PPPOE_MRU .. ETHER_MAX_LEN - 8`; out of range the command's `Error` returns.

Kernel actions:
- `KernelSuccess`, `KernelFail`, `KernelClose` and `KernelMaxp` append to `msgq` and are bounded by `MaxQueue`.
- A session torn down by `PppoeDoClose` emits nothing further. Messages it already queued stay queued.
- A message goes to the csock of the socket node that created the session (`ks[l].slot`); once that socket is closed it is lost.

`CreatePppoeNode` (in `PppoeRegistryOps`) has three outcomes:
- `ok`: every call succeeds.
- `fail`: a call fails before any node is made. This covers `IfaceSetFlag`, `NgMkSockNode`, LISTTYPES, kldload, LISTHOOKS, a node of another type on orphans/divert, and sending MKPEER.
- `nodeid`: MKPEER made the node and `NgGetNodeID` failed.

The outcome decides what happens only where the code calls `CreatePppoeNode`, so `GetNodeOutcomes` offers the choice there alone.

An ng_pppoe node on the orphans or divert hook is adopted. Otherwise MKPEER hangs one from `pi->hook`, and the kernel refuses that when the hook is taken.

`gNgEtherLoaded` only selects which failures can occur, so it is not a variable. A failed kldload ends in `assert(0)`, which aborts and has no step. With `NDEBUG` it fails at LISTHOOKS instead, which is an ordinary `fail`.

## Runs

| Run | Expect | Shows |
|---|---|---|
| `registry` | pass | `RefsCountHolders`: every slot's and every listener entry's `refs` equals the number of links pointing at it. `FreeSlotIsClean`: a freed slot has closed sockets and no entries or hooks. `UniqueParentPath`. `ListenerOnOwnParent`: a link's listener entry lives on the parent it holds, so `PppoeUnListen` works on the right node. The run uses the `divert` hook, which the scan adopts besides the default, so a node left behind is adopted again. `LeftNodeAdoptable` is not checked here: with only adoptable hooks it holds whatever the code does; `registry_left_node` asks it with a hook the scan does not know. |
| `registry_listen_failure` | violation | `ListenerHookIffEntry` fails. A failed graph message in `PppoeListen` leaves an entry with no listening hook, and later links only add references to it. |
| `registry_stale_parent` | violation | `ActiveOnConfiguredIface` fails. `set iface` on an opened, non-listening link keeps the old `PIf`, and the next open uses it. |
| `registry_left_node` | violation | `LeftNodeAdoptable` fails. With `set iface <name> lower`, `CreatePppoeNode` hangs its node from a hook its own scan never looks at (only orphans and divert, line 1003). Once the node outlives the slot, every later MKPEER for the interface collides with it, and the parent can never be acquired again. TLC finds a 4-step path: a failed `NgGetNodeID`. A release of the last reference reaches the same state. |
| `link` | pass | `NoLeakedSessionHook`: DOWN ⇒ no session hook. `ConnectTimerWhileNegotiating`: the timer runs exactly in CONNECTING/READY. `DownReportsDefaults`: a DOWN link reports the default MTU/MRU (1492), a local origin, a zero peer MAC and no agent ids; a max-payload echoed in a closed session, or a SETMAXP still queued when it closed, does not carry over. `NegotiationEnds`: CONNECTING/READY ~> UP or DOWN. `SessionEndReachesLink`: a session the kernel ended (FAIL/CLOSE) is always removed from its link. `LinkSessionRefinement`: the link implements `PppoeSession`, fairness included. |
| `link_stale_message` | violation | `StaleMessageIgnored` fails. A SUCCESS of a closed session brings up the next session of the same link. |
| `link_incoming_fail` | violation | `SessionHookWhileActive` fails. fail3 of an incoming open leaves the link CONNECTING without a session. |
| `link_stale_opened` | violation | `UpImpliesWired` fails. A stale `opened` lets SUCCESS take an accepted call UP while it is still parked on the tee. |
| `reconf_session` | violation | `SessionReportsToParent` fails. `set iface` on a listening link with a live session, even naming the same interface, closes the csock its session reports to and re-acquires the parent. The peer's CLOSE is then lost; with another interface `PppoeDoClose` disconnects on the wrong node; with a failed re-acquire `pi->PIf` is NULL under a live link. |
| `tags` | pass | `TagWalkWithinLength`: no walk, and no copy of the Service-Name value, reads past `ph->length`. `ServiceNameAgrees`: `real_session` is the first complete Service-Name, clamped to its buffer, or the listener's service. `AgentIdsTerminated`: the id buffers keep a NUL whatever sub-TLV lengths arrive. All three hold with signed and with unsigned `char`. |
| `tags_length_trust` | violation | `TagReadsWithinReceived` fails. `ph->length` is never checked against the bytes received, although `get_tag`'s comment assumes it was. |
| `tags_agent_overlay` | violation | `AgentIdIsSentValue` fails. Circuit-ID "AB" followed by "C" leaves `agent_cid` = "CB". |

The findings in `PROJECT.json` give the code lines and the spec text each violation contradicts.

## Bounds

- **registry**: 3 links, where 1 is a template, 2 exist at start and 3 is the spare id for an instance. 2 slots, 2 real paths plus `undefined:`, and 2 services.
  - This is the smallest setting with two links sharing a slot and a template instance holding references.
  - It also lets two parents compete for slots and lets a link move between them.
  - Paths are symmetric.
  - The violation runs use one slot, which also gives the full-table case.
  - `set iface` gives one hook name per run: `divert` in the passing run, `lower` in `registry_left_node`. With two names the run grows past what TLC finishes in minutes. One name per run still shows what matters: a hook the scan adopts, and one it does not.
- **link**: 2 links on one parent and one service. Link 1 dials out with max-payload 1500. Link 2 also accepts calls.
  - Servers return 1492 or 1500, so both outcomes of the echo check occur.
  - Each link has at most 2 sessions and there are 4 in total. With 2 sessions, messages of the first can meet the second.
  - `csock` holds at most 3 messages, enough for SUCCESS, SETMAXP and CLOSE of one session to wait together.
- **reconf_session**: the same two links, with 2 slots and paths `p1`, `p2`. `set iface` may name either path, so a link can move or re-apply its path. `set max-payload` gets 1491 (rejected), 1492 and 1500.
  - There is one session per link and at most 2 messages per csock. The question is what one reconfiguration does to one live session.

- **tags**: frames of zero, one or two tags. The tags are Service-Names "", "A" and "ABC", a Service-Name that claims more bytes than it has, an AC-Name, a vendor tag with another vendor id, and BBF vendor tags with up to two sub-TLVs and an optional odd trailing byte.
  - `ph->length` is one short of the tags, equal to them, or 6 beyond them. Beyond the received bytes, `response[]` holds either a constant non-NUL byte or the header and value of an earlier frame's Service-Name.
  - The buffers are scaled from 64 to 3 bytes, so a 3-byte value reaches the clamps exactly as a 64-byte value does in the code.
  - `size_t` is 16 bits wide. Only its wrap of small negative values matters here, and 16 bits show that as 64 bits do.
  - The overlay run uses only sub-TLVs that need no clamp and fill the value exactly, so the overlay is the only way to break `AgentIdIsSentValue` there.
  - The checks run with `CHECK_DEADLOCK FALSE`. The handler decodes one frame and returns, so the model stops after `Decode`.

`set iface` is given real interface paths only. An interface literally named `undefined` would map to `undefined:` and make `PppoeGetNode` skip the link. The model leaves this input out.

## Refinement

`PppoeSession` states what the host sees of a link (spec 4.4), and `PppoeLink` is checked to implement it with the identity mapping on `pstate` and `opened`: every step of the link is a step of the abstract machine or leaves both unchanged, and the abstract weak fairness on `Abandon` (a negotiation does not last forever) follows from the fairness below. SUCCESS on a READY link that the host has opened takes it UP: this is the diagram's READY → UP "success while opened" edge.

## Fairness

`WF` is assumed on `PppoeCtrlReadEvent` of each slot and on `PppoeConnectTimeout` of each link. The `link` run uses it (`FairSpec`). The event loop serves every ready descriptor and fires every due timer (`EVENT_READ | EVENT_RECURRING`, `EVENT_TIMEOUT` in `event.h`).

No fairness is assumed for the kernel, the peer or the host. A server may never answer, and only the connect timer ends such a negotiation.

## Not modelled (yet)

- **`print_tags` output**: only its reads are modelled. Its log text, including the uninitialised `tag[32]` for unknown tag types, is not.
- **Outgoing tags and PPP-Max-Payload**: mpd builds no tags. It hands the service and max-payload to the kernel node in control messages, and gets the negotiated value back as SETMAXP (modelled in `PppoeLink`).
- **`SubTlvReadsWithinTag`**: `PppoeTags` still defines it. Checked alone, it fails on a vendor value `<<1>>` after the id: the sub-TLV loop reads `b[pos + 1]` past the tag. Spec 9 already flags that expression, so there is no run for it; its run slot went to `registry_left_node`.
- **The abort at `assert(0)`** after a failed kldload: it ends the process, and no state of the model represents that.
- **`PppoeStat` and `PppoeIsSync`**: the status text prints the fields the accessors return; `PppoeIsSync` returns 1.
- **Two things the identity model shows but no run asks**: `pi->peeraddr` is written only by `PppoeListenEvent`, so for an outgoing session `PppoeCalledNum` and `PppoePeerMacAddr` report the all-zero MAC in every state (spec 4.4 says `peer_mac` is valid in CONNECTING/READY/UP); and `PppoeInit` leaves `real_session` as `*` until the first close, where spec 4.4 says it is empty in DOWN. `DownReportsDefaults` therefore does not state `real_session`.
- **`PppoeGetMtu`/`PppoeGetMru` against the current server**: they are modelled, but whether the reported MTU is the value the *current* server echoed is not checked: a SETMAXP of an earlier session already breaks it in the `link` instance (the `link_stale_message` finding), and `set max-payload` under a live session (hazard at line 872) would break it in `ReconfSpec`, whose run asks the `set iface` question.
- **What happens after the NULL-`PIf` crash**: the daemon dies; the model has no step for the link there.
- **`acname`**: a string used only as the OFFER payload.
