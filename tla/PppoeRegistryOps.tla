-------------------------- MODULE PppoeRegistryOps --------------------------
(***************************************************************************)
(* The parent-interface registry (PppoeIfs[] of src/src/pppoe.c) and the   *)
(* per-parent listener lists, as pure operators on one record `r`.         *)
(*                                                                         *)
(* The C functions PppoeGetNode, PppoeReleaseNode, PppoeListen and         *)
(* PppoeUnListen are called in sequence inside one handler (set iface,     *)
(* PppoeNodeUpdate, PppoeShutdown); writing them as functions from record  *)
(* to record lets an action compose them exactly as the handler does.      *)
(*                                                                         *)
(* r.ifpath[i]  ifnodepath of slot i (NoPath when the slot is free)        *)
(* r.refs[i]    refs of slot i                                             *)
(* r.sock[i]    csock/dsock of slot i open and their events registered     *)
(* r.lists[i]   the SLIST of slot i: service -> refs of its entry (0: none)*)
(* r.lhook[i]   kernel state of hook listen-<s> between the socket node of *)
(*              slot i and the ng_pppoe node: none/connected/listening     *)
(* r.pif[l]     pi->PIf of link l (NoSlot for NULL)                        *)
(* r.plist[l]   pi->list of link l: <<slot, service>> of the entry it      *)
(*              points to, or NoList                                       *)
(* r.ether[p]   kernel state: the hooks of the ether node of parent p that *)
(*              an ng_pppoe node mpd made hangs from; such a node outlives *)
(*              the slot and its sockets                                   *)
(***************************************************************************)
EXTENDS Naturals, FiniteSets

CONSTANTS
    Links,      \* link ids (gLinks[] indexes), a finite set of naturals
    Slots,      \* 1..PPPOE_MAXPARENTIFS
    Paths,      \* parent node paths an interface name can produce
    Undefined,  \* the path "undefined:" of an unconfigured link
    Services,   \* service names
    NoPath, NoSlot, NoList,
    EtherHooks  \* hook names `set iface <name> <hook>` may give

ASSUME Undefined \in Paths /\ NoPath \notin Paths /\ NoSlot \notin Slots

HookStates == {"none", "connected", "listening"}

\* PppoeListen outcomes: both graph messages sent, NGM_CONNECT failed,
\* or NGM_PPPOE_LISTEN failed after the hook was connected.
ListenOutcomes == {"ok", "connfail", "listenfail"}

RegType ==
    [ifpath : [Slots -> Paths \cup {NoPath}],
     refs   : [Slots -> Nat],
     sock   : [Slots -> BOOLEAN],
     lists  : [Slots -> [Services -> Nat]],
     lhook  : [Slots -> [Services -> HookStates]],
     pif    : [Links -> Slots \cup {NoSlot}],
     plist  : [Links -> (Slots \X Services) \cup {NoList}],
     ether  : [Paths -> SUBSET EtherHooks]]

\* static struct PppoeIf PppoeIfs[] is zero-filled; links start with
\* PIf = NULL (PppoeInit) and list = NULL (Malloc zero-fills).
RegInit ==
    [ifpath |-> [i \in Slots |-> NoPath],
     refs   |-> [i \in Slots |-> 0],
     sock   |-> [i \in Slots |-> FALSE],
     lists  |-> [i \in Slots |-> [s \in Services |-> 0]],
     lhook  |-> [i \in Slots |-> [s \in Services |-> "none"]],
     pif    |-> [l \in Links |-> NoSlot],
     plist  |-> [l \in Links |-> NoList],
     ether  |-> [p \in Paths |-> {}]]

LowestOf(S)  == CHOOSE x \in S : \A y \in S : x =< y
HighestOf(S) == CHOOSE x \in S : \A y \in S : x >= y

-----------------------------------------------------------------------------
(* CreatePppoeNode.                                                        *)

\* ETHER_DEFAULT_HOOK, the hook of `set iface <name>` without a hook.
ETHER_DEFAULT_HOOK == "orphans"

\* The hooks of the ether node whose ng_pppoe peer CreatePppoeNode adopts
\* (NG_ETHER_HOOK_ORPHAN and NG_ETHER_HOOK_DIVERT).
AdoptHooks == {"orphans", "divert"}

\* What the environment makes of CreatePppoeNode: every call succeeds;
\* one fails before any node is made ("fail": IfaceSetFlag, NgMkSockNode,
\* LISTTYPES, kldload, LISTHOOKS, a node of another type on orphans or
\* divert, sending MKPEER); or MKPEER made the node and NgGetNodeID
\* failed.  Every failure closes both sockets and returns 0.  The
\* gNgEtherLoaded cache only selects which of these failures can happen,
\* and a failed kldload aborts at assert(0) (no step) or, with NDEBUG,
\* fails at LISTHOOKS; neither changes what the registry can observe.
CreateOutcomes == {"ok", "fail", "nodeid"}

\* CreatePppoeNode for parent p and hook h: the ng_pppoe node on orphans or
\* divert is adopted; with none, MKPEER hangs a new one from h, which the
\* kernel refuses when h already has a peer.  Gives whether it returned 1
\* and the hooks of p's ether node afterwards.
CreatePppoeNode(r, p, h, outcome) ==
    CASE outcome = "fail"             -> [ok |-> FALSE, ether |-> r.ether[p]]
      [] r.ether[p] \cap AdoptHooks # {} -> [ok |-> TRUE, ether |-> r.ether[p]]
      [] h \in r.ether[p]            -> [ok |-> FALSE, ether |-> r.ether[p]]
      [] OTHER -> [ok |-> outcome = "ok", ether |-> r.ether[p] \cup {h}]

\* The outcomes of CreatePppoeNode a call of PppoeGetNode(l) can meet: it
\* is called only when l holds no parent, p is defined, no slot serves p
\* and a slot is free.
GetNodeOutcomes(r, l, p) ==
    IF /\ r.pif[l] = NoSlot /\ p # Undefined
       /\ \A i \in Slots : r.ifpath[i] # p
       /\ \E i \in Slots : r.ifpath[i] = NoPath
    THEN CreateOutcomes ELSE {"ok"}

-----------------------------------------------------------------------------

\* Faulty variant of PppoeGetNode: the scan for a slot already serving p
\* is left out, so every acquisition takes a free slot.
GetNodeNoLookup(r, l, p, h, outcome) ==
    LET free == {i \in Slots : r.ifpath[i] = NoPath}
        c == CreatePppoeNode(r, p, h, outcome)
        r1 == [r EXCEPT !.ether[p] = c.ether]
        f == HighestOf(free)
    IN  IF r.pif[l] # NoSlot \/ p = Undefined \/ free = {} THEN r
        ELSE IF ~c.ok THEN r1
        ELSE [r1 EXCEPT !.ifpath[f] = p, !.refs[f] = 1, !.sock[f] = TRUE,
                        !.pif[l] = f]

\* PppoeGetNode(l) for a link whose pi->path is p and pi->hook h; outcome
\* is what the environment makes of CreatePppoeNode.  The scan stops at
\* the first slot holding p; with no match, `free` is the last free slot
\* seen.
PppoeGetNode(r, l, p, h, outcome) ==
    LET match == {i \in Slots : r.ifpath[i] = p}
        free  == {i \in Slots : r.ifpath[i] = NoPath}
        c     == CreatePppoeNode(r, p, h, outcome)
        r1    == [r EXCEPT !.ether[p] = c.ether]
    IN  IF r.pif[l] # NoSlot \/ p = Undefined THEN r
        ELSE IF match # {} THEN
            LET j == LowestOf(match)
            IN  [r EXCEPT !.refs[j] = @ + 1, !.pif[l] = j]
        ELSE IF free = {} THEN r
        ELSE IF ~c.ok THEN r1
        ELSE LET f == HighestOf(free)
             IN  [r1 EXCEPT !.ifpath[f] = p, !.refs[f] = 1, !.sock[f] = TRUE,
                            !.pif[l] = f]

\* Faulty variants of PppoeReleaseNode: pi->PIf is not reset to NULL, or
\* the last reference leaves csock/dsock open.
ReleaseNodeKeepsPIf(r, l) ==
    IF r.pif[l] = NoSlot THEN r
    ELSE LET i == r.pif[l]
         IN  IF r.refs[i] = 1
             THEN [r EXCEPT !.refs[i] = 0, !.ifpath[i] = NoPath,
                            !.sock[i] = FALSE,
                            !.lhook[i] = [s \in Services |-> "none"]]
             ELSE [r EXCEPT !.refs[i] = @ - 1]

ReleaseNodeKeepsSockets(r, l) ==
    IF r.pif[l] = NoSlot THEN r
    ELSE LET i == r.pif[l]
         IN  IF r.refs[i] = 1
             THEN [r EXCEPT !.refs[i] = 0, !.ifpath[i] = NoPath,
                            !.lhook[i] = [s \in Services |-> "none"],
                            !.pif[l] = NoSlot]
             ELSE [r EXCEPT !.refs[i] = @ - 1, !.pif[l] = NoSlot]

\* PppoeReleaseNode(l): the last reference frees the slot and closes both
\* sockets, which destroys every hook of the socket node (the listen-*
\* hooks).  The slot's SLIST head is left as it is.
PppoeReleaseNode(r, l) ==
    IF r.pif[l] = NoSlot THEN r
    ELSE LET i == r.pif[l]
         IN  IF r.refs[i] = 1
             THEN [r EXCEPT !.refs[i] = 0, !.ifpath[i] = NoPath,
                            !.sock[i] = FALSE,
                            !.lhook[i] = [s \in Services |-> "none"],
                            !.pif[l] = NoSlot]
             ELSE [r EXCEPT !.refs[i] = @ - 1, !.pif[l] = NoSlot]

\* PppoeListen(l) for service s = pi->session.  The entry is allocated,
\* inserted and referenced before the two graph messages are sent, and is
\* kept when either of them fails.
PppoeListen(r, l, s, outcome) ==
    IF r.plist[l] # NoList \/ r.pif[l] = NoSlot THEN r
    ELSE LET i == r.pif[l]
         IN  IF r.lists[i][s] > 0
             THEN [r EXCEPT !.lists[i][s] = @ + 1, !.plist[l] = <<i, s>>]
             ELSE [r EXCEPT !.lists[i][s] = 1, !.plist[l] = <<i, s>>,
                            !.lhook[i][s] =
                                CASE outcome = "connfail"   -> @
                                  [] outcome = "listenfail" -> "connected"
                                  [] outcome = "ok"         -> "listening"]

\* The outcomes of PppoeListen(l) for service s a call can meet: the graph
\* messages are sent only for a link with a parent and no entry, when no
\* entry for s exists on that parent yet.
ListenOutcomesFor(r, l, s) ==
    IF r.plist[l] = NoList /\ r.pif[l] # NoSlot /\ r.lists[r.pif[l]][s] = 0
    THEN ListenOutcomes ELSE {"ok"}

\* The registries PppoeGetNode(l) followed by PppoeListen(l) can leave.
GetNodeAndListen(r, l, p, h, s) ==
    LET got(c) == PppoeGetNode(r, l, p, h, c)
    IN  UNION {{PppoeListen(got(c), l, s, out) :
                   out \in ListenOutcomesFor(got(c), l, s)} :
                 c \in GetNodeOutcomes(r, l, p)}

\* PppoeUnListen(l): the reference is dropped on the entry pi->list points
\* to; the hook is disconnected on the node of pi->PIf.
PppoeUnListen(r, l) ==
    IF r.plist[l] = NoList THEN r
    ELSE LET e == r.plist[l]
             i == r.pif[l]
         IN  IF r.lists[e[1]][e[2]] = 1
             THEN [r EXCEPT !.lists[e[1]][e[2]] = 0,
                            !.lhook[i][e[2]] = "none",
                            !.plist[l] = NoList]
             ELSE [r EXCEPT !.lists[e[1]][e[2]] = @ - 1, !.plist[l] = NoList]

\* Faulty variant of PppoeInst: the instance copies PIf without taking a
\* reference on it.
InstRefsNoSlotRef(r, l, lt) ==
    LET e == r.plist[lt]
        r2 == IF e = NoList THEN r
              ELSE [r EXCEPT !.lists[e[1]][e[2]] = @ + 1]
    IN  [r2 EXCEPT !.pif[l] = r.pif[lt], !.plist[l] = e]

\* PppoeInst(l, lt): the instance copies the template's PIf and list
\* pointers and takes a reference on each.
PppoeInstRefs(r, l, lt) ==
    LET i == r.pif[lt]
        e == r.plist[lt]
        r1 == IF i = NoSlot THEN r
              ELSE [r EXCEPT !.refs[i] = @ + 1]
        r2 == IF e = NoList THEN r1
              ELSE [r1 EXCEPT !.lists[e[1]][e[2]] = @ + 1]
    IN  [r2 EXCEPT !.pif[l] = i, !.plist[l] = e]

=============================================================================
