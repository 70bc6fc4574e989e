------------------------------ MODULE PppoeLink ------------------------------
(***************************************************************************)
(* The per-link PPPoE session state machine of src/src/pppoe.c together    *)
(* with the two event-loop callbacks of a parent interface: the control   *)
(* message demultiplexer (PppoeCtrlReadEvent) and the incoming-request     *)
(* dispatcher (PppoeListenEvent), the connect timer, and the ng_pppoe      *)
(* node as the environment that answers asynchronously.                    *)
(*                                                                         *)
(* mpd is single threaded: each handler below is one atomic step.  What    *)
(* interleaves is the order in which the event loop serves the host's      *)
(* open/close, the timer, and the csock/dsock of a parent, and the kernel  *)
(* side, which queues control messages on csock in its own order.          *)
(***************************************************************************)
EXTENDS Naturals, Sequences, FiniteSets, Functions

CONSTANTS
    Links, Slots, Paths, Undefined, Services, NoPath, NoSlot, NoList,
    EtherHooks,     \* pi->hook values (ETHER_DEFAULT_HOOK here)
    LinkPath,       \* pi->path of each link at start (set iface <name>)
    LinkService,    \* pi->session of each link (set service)
    IncomingLinks,  \* links with LINK_CONF_INCOMING enabled
    MaxPayload,     \* pi->max_payload of each link at start
    PeerPayloads,   \* PPP-Max-Payload values a server may return
    PayloadInputs,  \* values given to set max-payload
    MaxGen,         \* bound on sessions per link
    MaxSessions,    \* bound on sessions of all links together
    MaxQueue        \* bound on messages waiting on one csock

ASSUME /\ LinkPath \in [Links -> Paths \ {Undefined}]
       /\ LinkService \in [Links -> Services]
       /\ IncomingLinks \subseteq Links
       /\ MaxPayload \in [Links -> Nat]
       /\ MaxGen \in Nat /\ MaxSessions \in Nat /\ MaxQueue \in Nat

INSTANCE PppoeRegistryOps

PhysStates == {"DOWN", "CONNECTING", "READY", "UP"}

\* Control messages the ng_pppoe node sends to the socket node that issued
\* NGM_PPPOE_CONNECT / NGM_PPPOE_OFFER for hook mpd<pid>-<link>.
Cmds == {"SUCCESS", "FAIL", "CLOSE", "SETMAXP"}

\* The ng_pppoe session behind hook mpd<pid>-<l>: none (no hook),
\* connecting (client, PADI/PADR sent), offering (server, OFFER+SERVICE
\* given and the PADI replayed), up (SUCCESS sent), dead (FAIL or CLOSE
\* sent, hook still attached).  gen numbers the session; wired says the
\* hook leads to the link's ng_ppp node rather than to the ng_tee; node is
\* the ng_pppoe node holding the hook (one per parent path); slot is the
\* csock its control messages go to (the socket node that created it),
\* NoSlot once that socket is closed; got is the PPP-Max-Payload the
\* server returned (0: none).
KStates == {"none", "connecting", "offering", "up", "dead"}
NoSession == [st |-> "none", gen |-> 0, wired |-> FALSE, node |-> NoPath,
              slot |-> NoSlot, got |-> 0]

\* What is left of an earlier session of a link on a node it no longer
\* uses: nothing, a hook parked on its tee, or a hook wired to ng_ppp.
OrphanStates == {"none", "parked", "wired"}

\* What a link knows of its peer: mac is pi->peeraddr (NoMac: all zero,
\* Caller: the source address of the accepted PADI), session is
\* pi->real_session ("*" is PppoeInit's copy of the default service, ""
\* empty, else a service name), cid and rid are pi->agent_cid and
\* pi->agent_rid ("": empty, "frame": the values PppoeTags decodes from
\* the accepted frame).
NoMac == "zero"
Caller == "caller"
NoPeer == [mac |-> NoMac, session |-> "", cid |-> "", rid |-> ""]

\* pi->mac_format: MAC_UNFORMATTED, MAC_UNIX_LIKE, MAC_CISCO_LIKE, MAC_IETF.
MacFormats == {"unformatted", "unix-like", "cisco-like", "ietf"}

VARIABLES
    reg,        \* registry record (PppoeRegistryOps)
    pstate,     \* l->state
    opened,     \* pi->opened
    incoming,   \* pi->incoming
    timer,      \* pi->connectTimer running
    mpReply,    \* pi->mp_reply (u_char flag, 0 or 1)
    gen,        \* sessions started on each link (auxiliary)
    ks,         \* the ng_pppoe session of each link's hook
    msgq,       \* control messages queued on each slot's csock
    physOpen,   \* the link framework has the phys layer open (host view)
    path,       \* pi->path
    maxPayload, \* pi->max_payload
    orphan,     \* session hook of the link left on another node
    peer,       \* pi->peeraddr, real_session, agent_cid, agent_rid
    macFormat   \* pi->mac_format

conf == <<path, maxPayload, macFormat>>
vars == <<reg, pstate, opened, incoming, timer, mpReply, gen, ks, msgq,
          physOpen, path, maxPayload, orphan, peer, macFormat>>

Msg == [cmd : Cmds, link : Links, gen : 0..MaxGen, val : Nat]

TypeOK ==
    /\ reg \in RegType
    /\ pstate \in [Links -> PhysStates]
    /\ opened \in [Links -> BOOLEAN]
    /\ incoming \in [Links -> BOOLEAN]
    /\ timer \in [Links -> BOOLEAN]
    /\ mpReply \in [Links -> {0, 1}]
    /\ gen \in [Links -> 0..MaxGen]
    /\ ks \in [Links -> [st : KStates, gen : 0..MaxGen, wired : BOOLEAN,
                         node : Paths \cup {NoPath},
                         slot : Slots \cup {NoSlot},
                         got : {0} \cup PeerPayloads]]
    /\ msgq \in [Slots -> Seq(Msg)]
    /\ physOpen \in [Links -> BOOLEAN]
    /\ path \in [Links -> Paths]
    /\ maxPayload \in [Links -> 0..65535]
    /\ orphan \in [Links -> OrphanStates]
    /\ peer \in [Links -> [mac : {NoMac, Caller},
                           session : {"*", ""} \cup Services,
                           cid : {"", "frame"}, rid : {"", "frame"}]]
    /\ macFormat \in [Links -> MacFormats]

\* PppoeInit.
Init ==
    /\ reg = RegInit
    /\ pstate = [l \in Links |-> "DOWN"]
    /\ opened = [l \in Links |-> FALSE]
    /\ incoming = [l \in Links |-> FALSE]
    /\ timer = [l \in Links |-> FALSE]
    /\ mpReply = [l \in Links |-> 0]
    /\ gen = [l \in Links |-> 0]
    /\ ks = [l \in Links |-> NoSession]
    /\ msgq = [i \in Slots |-> <<>>]
    /\ physOpen = [l \in Links |-> FALSE]
    /\ path = LinkPath
    /\ maxPayload = MaxPayload
    /\ orphan = [l \in Links |-> "none"]
    /\ peer = [l \in Links |-> [NoPeer EXCEPT !.session = "*"]]
    /\ macFormat = [l \in Links |-> "unformatted"]

\* The ng_pppoe node of link l's parent, "[node_id]:" of pi->PIf.
NodeOf(l) == reg.ifpath[reg.pif[l]]

\* The session hook of link l is on the node of its parent.
HookHere(l) == reg.pif[l] # NoSlot /\ ks[l].node = NodeOf(l)

\* PhysDown(l, ...): the link framework no longer has the phys open; it
\* may open it again (redial, or answer the next call) or close it.
PhysDown(l) == physOpen' = [physOpen EXCEPT ![l] = FALSE]

\* Model bound: a new session may start on link l.
CanStart(l) ==
    /\ gen[l] < MaxGen
    /\ SumFunction(gen) < MaxSessions

\* Faulty variant of PppoeDoClose: the session hook is not disconnected.
DoCloseNoDisconnect(l) ==
    IF pstate[l] = "DOWN"
    THEN UNCHANGED <<pstate, incoming, timer, mpReply, ks, orphan, peer>>
    ELSE /\ reg.pif[l] # NoSlot
         /\ timer' = [timer EXCEPT ![l] = FALSE]
         /\ pstate' = [pstate EXCEPT ![l] = "DOWN"]
         /\ incoming' = [incoming EXCEPT ![l] = FALSE]
         /\ mpReply' = [mpReply EXCEPT ![l] = 0]
         /\ peer' = [peer EXCEPT ![l] = NoPeer]
         /\ UNCHANGED <<ks, orphan>>

\* Faulty variant of PppoeDoClose: pi->mp_reply is not cleared.
DoCloseKeepsMpReply(l) ==
    IF pstate[l] = "DOWN"
    THEN UNCHANGED <<pstate, incoming, timer, mpReply, ks, orphan, peer>>
    ELSE /\ reg.pif[l] # NoSlot
         /\ ks' = [ks EXCEPT ![l] = NoSession]
         /\ orphan' = IF HookHere(l) \/ ks[l].st = "none" THEN orphan
                      ELSE [orphan EXCEPT ![l] =
                              IF ks[l].wired \/ @ = "wired" THEN "wired"
                              ELSE "parked"]
         /\ timer' = [timer EXCEPT ![l] = FALSE]
         /\ pstate' = [pstate EXCEPT ![l] = "DOWN"]
         /\ incoming' = [incoming EXCEPT ![l] = FALSE]
         /\ peer' = [peer EXCEPT ![l] = NoPeer]
         /\ UNCHANGED mpReply

-----------------------------------------------------------------------------
(* PppoeDoClose: disconnect the session hook, stop the timer, go DOWN and  *)
(* forget the peer.  A no-op in DOWN.  The ng_pppoe session goes with its  *)
(* hook; messages it already queued stay on csock.  The disconnect is sent *)
(* to the node of pi->PIf: a hook on another node stays (orphan).  With    *)
(* pi->PIf NULL the dereference kills the process: there is no step.       *)
PppoeDoClose(l) ==
    IF pstate[l] = "DOWN"
    THEN UNCHANGED <<pstate, incoming, timer, mpReply, ks, orphan, peer>>
    ELSE /\ reg.pif[l] # NoSlot
         /\ ks' = [ks EXCEPT ![l] = NoSession]
         /\ orphan' = IF HookHere(l) \/ ks[l].st = "none" THEN orphan
                      ELSE [orphan EXCEPT ![l] =
                              IF ks[l].wired \/ @ = "wired" THEN "wired"
                              ELSE "parked"]
         /\ timer' = [timer EXCEPT ![l] = FALSE]
         /\ pstate' = [pstate EXCEPT ![l] = "DOWN"]
         /\ incoming' = [incoming EXCEPT ![l] = FALSE]
         /\ peer' = [peer EXCEPT ![l] = NoPeer]
         /\ mpReply' = [mpReply EXCEPT ![l] = 0]

\* Host: PhysClose -> PppoeClose.
PppoeClose(l) ==
    /\ opened' = [opened EXCEPT ![l] = FALSE]
    /\ PppoeDoClose(l)
    /\ PhysDown(l)
    /\ UNCHANGED <<reg, gen, msgq, conf>>

\* Faulty variant of PppoeConnectTimeout: PhysDown without PppoeDoClose.
ConnectTimeoutNoClose(l) ==
    /\ timer[l]
    /\ PhysDown(l)
    /\ UNCHANGED <<reg, opened, gen, msgq, pstate, incoming, timer, mpReply, ks,
                   conf, orphan, peer>>

\* Event loop: connect timer expiry, PppoeConnectTimeout.
PppoeConnectTimeout(l) ==
    /\ timer[l]
    /\ PppoeDoClose(l)
    /\ PhysDown(l)
    /\ UNCHANGED <<reg, opened, gen, msgq, conf>>

\* Host: PhysOpen -> PppoeOpen on an outgoing link.  Acquire the parent,
\* connect ng_ppp's hook to a new session hook, send SETMAXP and CONNECT;
\* any failed graph message disconnects the hook again (fail2).  The
\* connect fails by itself while a hook of that name is still attached,
\* or while ng_ppp's hook is still held by an orphaned session.
PppoeOpenOutgoing(l) ==
    /\ ~physOpen[l] /\ ~incoming[l]
    /\ opened' = [opened EXCEPT ![l] = TRUE]
    /\ IF pstate[l] # "DOWN"
       THEN /\ physOpen' = [physOpen EXCEPT ![l] = TRUE]
            /\ UNCHANGED <<reg, pstate, incoming, timer, mpReply, gen, ks, msgq,
                           peer>>
       ELSE /\ CanStart(l)
            /\ \E sendOk \in BOOLEAN, c \in GetNodeOutcomes(reg, l, path[l]) :
                 LET r1 == PppoeGetNode(reg, l, path[l], ETHER_DEFAULT_HOOK, c)
                     i  == r1.pif[l]
                 IN  /\ reg' = r1
                     /\ IF /\ i # NoSlot /\ sendOk /\ ks[l].st = "none"
                           /\ orphan[l] # "wired"
                        THEN /\ ks' = [ks EXCEPT ![l] =
                                  [st |-> "connecting", gen |-> gen[l] + 1,
                                   wired |-> TRUE, node |-> r1.ifpath[i],
                                   slot |-> i, got |-> 0]]
                             /\ gen' = [gen EXCEPT ![l] = @ + 1]
                             /\ timer' = [timer EXCEPT ![l] = TRUE]
                             /\ pstate' = [pstate EXCEPT ![l] = "CONNECTING"]
                             /\ mpReply' = [mpReply EXCEPT ![l] = 0]
                             /\ peer' = [peer EXCEPT ![l].session = LinkService[l],
                                                      ![l].cid = "", ![l].rid = ""]
                             /\ physOpen' = [physOpen EXCEPT ![l] = TRUE]
                        ELSE /\ ks' = IF i = NoSlot THEN ks
                                        ELSE [ks EXCEPT ![l] = NoSession]
                             /\ PhysDown(l)
                             /\ UNCHANGED <<gen, timer, pstate, mpReply, peer>>
            /\ UNCHANGED <<incoming, msgq>>
    /\ UNCHANGED <<conf, orphan>>

\* Host: PhysOpen -> PppoeOpen on an accepted call.  Connect the tee's
\* "right" hook to ng_ppp and shut the tee down, which splices the session
\* hook to ng_ppp.  If the session already reported SUCCESS, go UP.  On a
\* failed connect (fail3) the session hook is disconnected and PhysDown
\* reported; the link state is left as it is.  Both use "[node_id]:" of
\* pi->PIf: a NULL PIf kills the process (no step); a tee on another node
\* is not found, and ng_ppp's hook held by an orphan refuses the connect.
PppoeOpenIncoming(l) ==
    /\ ~physOpen[l] /\ incoming[l]
    /\ reg.pif[l] # NoSlot
    /\ opened' = [opened EXCEPT ![l] = TRUE]
    /\ \/ /\ HookHere(l) /\ ks[l].st # "none" /\ orphan[l] # "wired"
          /\ ks' = [ks EXCEPT ![l].wired = TRUE]
          /\ physOpen' = [physOpen EXCEPT ![l] = TRUE]
          /\ IF pstate[l] = "READY"
             THEN /\ timer' = [timer EXCEPT ![l] = FALSE]
                  /\ pstate' = [pstate EXCEPT ![l] = "UP"]
             ELSE UNCHANGED <<timer, pstate>>
       \/ /\ ks' = IF HookHere(l) THEN [ks EXCEPT ![l] = NoSession] ELSE ks
          /\ PhysDown(l)
          /\ UNCHANGED <<timer, pstate>>
    /\ UNCHANGED <<reg, incoming, mpReply, gen, msgq, conf, orphan, peer>>

\* Host: the link framework's update callback, PppoeNodeUpdate, for a link
\* accepting calls: acquire the parent and listen for its service.
PppoeNodeUpdate(l) ==
    /\ l \in IncomingLinks
    /\ reg.plist[l] = NoList
    /\ \E c \in GetNodeOutcomes(reg, l, path[l]) :
         reg' = PppoeListen(PppoeGetNode(reg, l, path[l],
                                         ETHER_DEFAULT_HOOK, c),
                            l, LinkService[l], "ok")
    /\ UNCHANGED <<pstate, opened, incoming, timer, mpReply, gen, ks, msgq,
                   physOpen, conf, orphan, peer>>

-----------------------------------------------------------------------------
(* PppoeCtrlReadEvent: read one message from the csock of slot i.  It is   *)
(* routed by the link id in its hook name to a link that still uses this   *)
(* parent; a message for a DOWN link is dropped.                           *)

\* Faulty variant of the SUCCESS case: the link goes UP whether or not
\* the host has opened it (the pi->opened test dropped).
OnSuccessIgnoresOpened(l) ==
    /\ timer' = [timer EXCEPT ![l] = FALSE]
    /\ pstate' = [pstate EXCEPT ![l] = "UP"]
    /\ UNCHANGED <<incoming, mpReply, ks>>

\* Faulty variant of the SUCCESS case: the connect timer is not stopped.
OnSuccessNoTimerStop(l) ==
    /\ pstate' = [pstate EXCEPT ![l] = IF opened[l] THEN "UP" ELSE "READY"]
    /\ UNCHANGED <<incoming, mpReply, ks, timer>>

\* NGM_PPPOE_SUCCESS.
OnSuccess(l) ==
    /\ IF opened[l]
       THEN /\ timer' = [timer EXCEPT ![l] = FALSE]
            /\ pstate' = [pstate EXCEPT ![l] = "UP"]
       ELSE /\ pstate' = [pstate EXCEPT ![l] = "READY"]
            /\ UNCHANGED timer
    /\ UNCHANGED <<incoming, mpReply, ks>>

\* Faulty variant of the SETMAXP case: the returned value is stored in
\* the u_char pi->mp_reply (truncated to 8 bits) instead of the flag 1.
OnSetMaxpStoresValue(l, v) ==
    /\ mpReply' = [mpReply EXCEPT ![l] =
                     IF maxPayload[l] > 0 /\ maxPayload[l] = v THEN v % 256
                     ELSE @]
    /\ UNCHANGED <<pstate, incoming, timer, ks>>

\* NGM_PPPOE_SETMAXP: record that the server echoed our value.
OnSetMaxp(l, v) ==
    /\ mpReply' = [mpReply EXCEPT ![l] =
                     IF maxPayload[l] > 0 /\ maxPayload[l] = v THEN 1 ELSE @]
    /\ UNCHANGED <<pstate, incoming, timer, ks>>

\* Faulty variant of PppoeCtrlReadEvent: NGM_PPPOE_CLOSE falls to the
\* log-only default case.
CtrlReadDropsClose(i) ==
    /\ msgq[i] # <<>>
    /\ msgq' = [msgq EXCEPT ![i] = Tail(@)]
    /\ LET m == Head(msgq[i])
           l == m.link
       IN  IF reg.pif[l] # i \/ pstate[l] = "DOWN" \/ m.cmd = "CLOSE"
           THEN UNCHANGED <<pstate, incoming, timer, mpReply, ks, physOpen,
                            orphan, peer>>
           ELSE CASE m.cmd = "SUCCESS" -> OnSuccess(l)
                                          /\ UNCHANGED <<physOpen, orphan, peer>>
                  [] m.cmd = "FAIL"    -> PppoeDoClose(l) /\ PhysDown(l)
                  [] m.cmd = "SETMAXP" -> OnSetMaxp(l, m.val)
                                          /\ UNCHANGED <<physOpen, orphan, peer>>
    /\ UNCHANGED <<reg, opened, gen, conf>>

PppoeCtrlReadEvent(i) ==
    /\ msgq[i] # <<>>
    /\ msgq' = [msgq EXCEPT ![i] = Tail(@)]
    /\ LET m == Head(msgq[i])
           l == m.link
       IN  IF reg.pif[l] # i \/ pstate[l] = "DOWN"
           THEN UNCHANGED <<pstate, incoming, timer, mpReply, ks, physOpen,
                            orphan, peer>>
           ELSE CASE m.cmd = "SUCCESS" -> OnSuccess(l)
                                          /\ UNCHANGED <<physOpen, orphan, peer>>
                  [] m.cmd = "FAIL"    -> PppoeDoClose(l) /\ PhysDown(l)
                  [] m.cmd = "CLOSE"   -> PppoeDoClose(l) /\ PhysDown(l)
                  [] m.cmd = "SETMAXP" -> OnSetMaxp(l, m.val)
                                          /\ UNCHANGED <<physOpen, orphan, peer>>
    /\ UNCHANGED <<reg, opened, gen, conf>>

-----------------------------------------------------------------------------
(* PppoeListenEvent: a PADI/PADR frame on hook listen-<s> of slot i.  The  *)
(* first link (lowest id) that is idle, on this parent, configured for s   *)
(* and accepting calls gets it: a tee is put on its session hook, the      *)
(* node is told OFFER and SERVICE, the frame is replayed.  Any failed      *)
(* graph message shuts the tee down, taking the session hook with it.      *)

Candidates(i, s) ==
    {k \in Links : pstate[k] = "DOWN" /\ reg.pif[k] = i
                   /\ LinkService[k] = s /\ k \in IncomingLinks}

PppoeListenEvent(i, s) ==
    /\ reg.lhook[i][s] = "listening"
    /\ Candidates(i, s) # {}
    /\ LET k == LowestOf(Candidates(i, s))
       IN  /\ CanStart(k)
           /\ \E ok \in BOOLEAN :
                IF ok /\ ks[k].st = "none"
                THEN /\ ks' = [ks EXCEPT ![k] =
                          [st |-> "offering", gen |-> gen[k] + 1,
                           wired |-> FALSE, node |-> reg.ifpath[i],
                           slot |-> i, got |-> 0]]
                     /\ gen' = [gen EXCEPT ![k] = @ + 1]
                     /\ pstate' = [pstate EXCEPT ![k] = "CONNECTING"]
                     /\ incoming' = [incoming EXCEPT ![k] = TRUE]
                     /\ timer' = [timer EXCEPT ![k] = TRUE]
                     /\ peer' = [peer EXCEPT ![k] =
                          [mac |-> Caller, session |-> s,
                           cid |-> "frame", rid |-> "frame"]]
                ELSE /\ ks' = [ks EXCEPT ![k] = NoSession]
                     /\ UNCHANGED <<gen, pstate, incoming, timer, peer>>
    /\ UNCHANGED <<reg, opened, mpReply, msgq, physOpen, conf, orphan>>

-----------------------------------------------------------------------------
(* The ng_pppoe node and the peer (environment, not in src/).              *)

\* A message goes to the csock of the socket node that created the
\* session; once that socket is closed it is lost.
Emit(l, cmd, v) ==
    LET i == ks[l].slot
    IN  IF i = NoSlot THEN UNCHANGED msgq
        ELSE /\ Len(msgq[i]) < MaxQueue
             /\ msgq' = [msgq EXCEPT ![i] = Append(@,
                          [cmd |-> cmd, link |-> l, gen |-> ks[l].gen, val |-> v])]

\* Discovery completes (PADS sent or received).
KernelSuccess(l) ==
    /\ ks[l].st \in {"connecting", "offering"}
    /\ ks' = [ks EXCEPT ![l].st = "up"]
    /\ Emit(l, "SUCCESS", 0)
    /\ UNCHANGED <<reg, pstate, opened, incoming, timer, mpReply, gen,
                   physOpen, conf, orphan, peer>>

\* Discovery gives up.
KernelFail(l) ==
    /\ ks[l].st \in {"connecting", "offering"}
    /\ ks' = [ks EXCEPT ![l].st = "dead"]
    /\ Emit(l, "FAIL", 0)
    /\ UNCHANGED <<reg, pstate, opened, incoming, timer, mpReply, gen,
                   physOpen, conf, orphan, peer>>

\* The peer sends PADT.
KernelClose(l) ==
    /\ ks[l].st = "up"
    /\ ks' = [ks EXCEPT ![l].st = "dead"]
    /\ Emit(l, "CLOSE", 0)
    /\ UNCHANGED <<reg, pstate, opened, incoming, timer, mpReply, gen,
                   physOpen, conf, orphan, peer>>

\* The server's PADS carries PPP-Max-Payload v (client sessions, once).
KernelMaxp(l, v) ==
    /\ ks[l].st = "connecting" /\ ks[l].got = 0
    /\ ks' = [ks EXCEPT ![l].got = v]
    /\ Emit(l, "SETMAXP", v)
    /\ UNCHANGED <<reg, pstate, opened, incoming, timer, mpReply, gen,
                   physOpen, conf, orphan, peer>>

-----------------------------------------------------------------------------
(* PppoeSetCommand, the operator's set commands, given at any time.        *)

PPPOE_MTU == 1492
PPPOE_MRU == 1492
ETHER_MAX_LEN == 1518

\* set iface <name>: pi->path changes and pi->hook is ETHER_DEFAULT_HOOK;
\* a listening link gives up its listener and parent and takes those of
\* the new path.  The last reference to the old parent closes its
\* sockets: messages queued there are lost, and sessions created through
\* them can no longer report.
SetIface(l, p) ==
    /\ path' = [path EXCEPT ![l] = p]
    /\ IF reg.plist[l] = NoList
       THEN UNCHANGED <<reg, ks, msgq>>
       ELSE LET r1    == PppoeReleaseNode(PppoeUnListen(reg, l), l)
                freed == {i \in Slots : reg.sock[i] /\ ~r1.sock[i]}
            IN  /\ \E c \in GetNodeOutcomes(r1, l, p) :
                      reg' = PppoeListen(PppoeGetNode(r1, l, p,
                                                      ETHER_DEFAULT_HOOK, c),
                                         l, LinkService[l], "ok")
                /\ msgq' = [i \in Slots |->
                              IF i \in freed THEN <<>> ELSE msgq[i]]
                /\ ks' = [k \in Links |->
                            IF ks[k].slot \in freed
                            THEN [ks[k] EXCEPT !.slot = NoSlot] ELSE ks[k]]
    /\ UNCHANGED <<pstate, opened, incoming, timer, mpReply, gen, physOpen,
                   maxPayload, orphan, peer, macFormat>>

\* set max-payload: accepted within PPPOE_MRU .. ETHER_MAX_LEN - 8.
SetMaxPayload(l, v) ==
    /\ PPPOE_MRU <= v /\ v <= ETHER_MAX_LEN - 8
    /\ maxPayload' = [maxPayload EXCEPT ![l] = v]
    /\ UNCHANGED <<reg, pstate, opened, incoming, timer, mpReply, gen, ks,
                   msgq, physOpen, path, orphan, peer, macFormat>>

\* set mac-format: one of the four names, else rejected.
SetMacFormat(l, f) ==
    /\ f \in MacFormats
    /\ macFormat' = [macFormat EXCEPT ![l] = f]
    /\ UNCHANGED <<reg, pstate, opened, incoming, timer, mpReply, gen, ks,
                   msgq, physOpen, path, maxPayload, orphan, peer>>

-----------------------------------------------------------------------------
(* The accessors the link framework calls on a link at any time.  The MTU  *)
(* and MRU are the max-payload once a server echoed it, else the type's    *)
(* default (useConf = 0) or the configured value confMtu, which lives     *)
(* outside this file.                                                      *)

PppoeGetMtu(l, useConf, confMtu) ==
    IF maxPayload[l] > 0 /\ mpReply[l] > 0 THEN maxPayload[l]
    ELSE IF useConf = 0 THEN PPPOE_MTU ELSE confMtu

PppoeGetMru(l, useConf, confMru) ==
    IF maxPayload[l] > 0 /\ mpReply[l] > 0 THEN maxPayload[l]
    ELSE IF useConf = 0 THEN PPPOE_MRU ELSE confMru

PppoeOriginated(l) == IF incoming[l] THEN "REMOTE" ELSE "LOCAL"

\* The six octets of pi->peeraddr rendered in a mac-format layout
\* (ether_ntoa_r is the unix-like one).
MacText(l, layout) == [layout |-> layout, octets |-> peer[l].mac]

\* PppoePeerMacAddr: 1 and nothing written for a buffer under 18 bytes.
PppoePeerMacAddr(l, bufLen) ==
    IF bufLen < 18 THEN [ret |-> 1]
    ELSE [ret |-> 0, buf |-> MacText(l, "unix-like")]

\* PppoePeerIface: pi->iface, set with pi->path by set iface.
PppoePeerIface(l) == path[l]

\* The caller's MAC for an accepted call, else real_session; the called
\* number the other way round.  mac_format is always one of MacFormats,
\* so the "unknown" default case is never taken.
PppoeCallingNum(l) ==
    IF incoming[l] THEN MacText(l, macFormat[l]) ELSE peer[l].session

PppoeCalledNum(l) ==
    IF ~incoming[l] THEN MacText(l, macFormat[l]) ELSE peer[l].session

PppoeSelfName(l) == peer[l].cid

PppoePeerName(l) == peer[l].rid

-----------------------------------------------------------------------------
Next ==
    \/ \E l \in Links :
          \/ PppoeOpenOutgoing(l) \/ PppoeOpenIncoming(l) \/ PppoeClose(l)
          \/ PppoeConnectTimeout(l) \/ PppoeNodeUpdate(l)
          \/ KernelSuccess(l) \/ KernelFail(l) \/ KernelClose(l)
          \/ \E v \in PeerPayloads : KernelMaxp(l, v)
    \/ \E i \in Slots :
          \/ PppoeCtrlReadEvent(i)
          \/ \E s \in Services : PppoeListenEvent(i, s)

\* The event loop serves every ready descriptor and due timer.
Fairness ==
    /\ \A i \in Slots : WF_vars(PppoeCtrlReadEvent(i))
    /\ \A l \in Links : WF_vars(PppoeConnectTimeout(l))

Spec == Init /\ [][Next]_vars
FairSpec == Spec /\ Fairness

ConfigNext ==
    \E l \in Links :
       \/ \E p \in Paths \ {Undefined} : SetIface(l, p)
       \/ \E v \in PayloadInputs : SetMaxPayload(l, v)
       \/ \E f \in MacFormats \cup {"bogus"} : SetMacFormat(l, f)

\* The links with the operator reconfiguring them at any time.
ReconfSpec == Init /\ [][Next \/ ConfigNext]_vars

-----------------------------------------------------------------------------
(* Properties.                                                             *)

\* Every way out of a session (close, timeout, FAIL, CLOSE) and every
\* failed open or accept removes the session hook from the ng_pppoe node:
\* a DOWN link leaves no session behind (spec 3, DOWN invariant).
NoLeakedSessionHook ==
    \A l \in Links : pstate[l] = "DOWN" => ks[l].st = "none"

\* A link without a session reports what the link framework would get for
\* a fresh one: the type's default MTU and MRU, a local origin, a zero
\* peer MAC and no agent ids (spec 4.4, DOWN).  A max-payload echoed in a
\* closed session (PppoeDoClose clears mp_reply, incoming and the peer),
\* or a SETMAXP still queued when it closed (dropped in DOWN by
\* PppoeCtrlReadEvent), never carries over into what the accessors return.
DownReportsDefaults ==
    \A l \in Links :
       pstate[l] = "DOWN" =>
          /\ PppoeGetMtu(l, 0, 0) = PPPOE_MTU
          /\ PppoeGetMru(l, 0, 0) = PPPOE_MRU
          /\ PppoeOriginated(l) = "LOCAL"
          /\ PppoePeerMacAddr(l, 18).buf.octets = NoMac
          /\ PppoeSelfName(l) = "" /\ PppoePeerName(l) = ""

\* The 9 s connect timer runs exactly while a session is negotiating
\* (CONNECTING, or READY waiting for the host's open): it is never left
\* running on an UP session, where it would tear a working link down.
ConnectTimerWhileNegotiating ==
    \A l \in Links : timer[l] <=> pstate[l] \in {"CONNECTING", "READY"}

\* Spec 3 / 7: a link that is not DOWN has its session hook on the node
\* (CONNECTING: "graph session hook allocated"); a graph error while
\* wiring the session unwinds it and takes the link DOWN.
SessionHookWhileActive ==
    \A l \in Links : pstate[l] # "DOWN" => ks[l].st # "none"

\* Spec 5: a message the kernel queued for an earlier session of a link
\* (same hook name mpd<pid>-<id>) is discarded; only the current session's
\* messages change the link.
StaleMessageIgnored ==
    [][\A i \in Slots :
         (msgq[i] # <<>> /\ msgq'[i] = Tail(msgq[i])
          /\ Head(msgq[i]).gen # gen[Head(msgq[i]).link])
         => UNCHANGED <<pstate, timer, mpReply, incoming>>]_vars

\* Spec 3 (UP: "session hook wired to PPP engine's upper hook"): when
\* SUCCESS takes a link UP, the session hook leads to its ng_ppp node, not
\* to the tee an accepted call is parked on until the host opens the link.
UpImpliesWired ==
    \A l \in Links : pstate[l] = "UP" => ks[l].wired

\* A negotiating session always ends: the link reaches UP or DOWN, by the
\* kernel's answer or by the connect timer.
NegotiationEnds ==
    \A l \in Links :
       pstate[l] \in {"CONNECTING", "READY"} ~> pstate[l] \in {"UP", "DOWN"}

\* Spec 4.4: the host sees its link move only along the LinkSession state
\* machine (DOWN, CONNECTING, READY, UP; SUCCESS gives UP only to an
\* opened link, READY otherwise), whatever order the kernel's messages,
\* the timer and the host's calls come in, and no negotiation lasts
\* forever.
Session == INSTANCE PppoeSession WITH state <- pstate
LinkSessionRefinement == Session!Spec

\* A session the ng_pppoe node has ended (FAIL or CLOSE sent) is always
\* taken off its link: the message reaches a csock mpd reads, and
\* PppoeCtrlReadEvent hands it to the link, whose PppoeDoClose removes the
\* session hook.
SessionEndReachesLink ==
    \A l \in Links : ks[l].st = "dead" ~> ks[l].st = "none"

\* The session of a link reports to the csock of the parent the link
\* holds: its messages pass the PIf check of PppoeCtrlReadEvent, and
\* PppoeDoClose and the incoming open address its own node.  It is the
\* set iface of a listening link that re-acquires pi->PIf under a session.
SessionReportsToParent ==
    \A l \in Links : ks[l].st # "none" => ks[l].slot = reg.pif[l]

=============================================================================
