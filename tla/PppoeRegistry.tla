---------------------------- MODULE PppoeRegistry ----------------------------
(***************************************************************************)
(* ParentIfRegistry and ListenerSet of src/src/pppoe.c driven by every     *)
(* handler that acquires or releases them: set iface, set service, the     *)
(* update callback (PppoeNodeUpdate), outgoing open, an accepted incoming  *)
(* call (with template instantiation, PppoeInst), session teardown and     *)
(* link shutdown (PppoeShutdown).                                          *)
(*                                                                         *)
(* The session itself is abstracted to one bit per link, active[l]         *)
(* (l->state # PHYS_STATE_DOWN); PppoeLink models it in full.              *)
(***************************************************************************)
EXTENDS Naturals, FiniteSets, FiniteSetsExt

CONSTANTS
    Links, Slots, Paths, Undefined, Services, NoPath, NoSlot, NoList,
    AnyService,   \* "*", the service a link starts with (PppoeInit)
    Templates,    \* links created as templates (l->tmpl)
    InitLinks,    \* links that exist at start (static links and templates)
    EtherHooks    \* hooks `set iface <name> <hook>` may give

ASSUME AnyService \in Services /\ Templates \subseteq InitLinks
       /\ InitLinks \subseteq Links

INSTANCE PppoeRegistryOps

VARIABLES
    reg,        \* the registry record of PppoeRegistryOps
    path,       \* pi->path of each link
    hook,       \* pi->hook of each link
    session,    \* pi->session of each link
    incoming,   \* LINK_CONF_INCOMING enabled in l->conf.options
    active,     \* l->state # PHYS_STATE_DOWN
    exists      \* gLinks[l] # NULL

vars == <<reg, path, hook, session, incoming, active, exists>>

TypeOK ==
    /\ reg \in RegType
    /\ path \in [Links -> Paths]
    /\ hook \in [Links -> EtherHooks \cup {"undefined"}]
    /\ session \in [Links -> Services]
    /\ incoming \in [Links -> BOOLEAN]
    /\ active \in [Links -> BOOLEAN]
    /\ exists \in [Links -> BOOLEAN]

Init ==
    /\ reg = RegInit
    /\ path = [l \in Links |-> Undefined]
    /\ hook = [l \in Links |-> "undefined"]
    /\ session = [l \in Links |-> AnyService]
    /\ incoming = [l \in Links |-> FALSE]
    /\ active = [l \in Links |-> FALSE]
    /\ exists = [l \in Links |-> l \in InitLinks]

-----------------------------------------------------------------------------
(* Configuration surface (PppoeSetCommand) and the update callback.        *)

\* Faulty variant of set iface: the parent is swapped without dropping the
\* listener entry first.
SetIfaceNoUnListen(l, p, h) ==
    /\ exists[l] /\ p # Undefined
    /\ path' = [path EXCEPT ![l] = p]
    /\ hook' = [hook EXCEPT ![l] = h]
    /\ IF reg.plist[l] # NoList
       THEN LET r1 == PppoeReleaseNode(reg, l)
            IN  reg' \in GetNodeAndListen(r1, l, p, h, session[l])
       ELSE UNCHANGED reg
    /\ UNCHANGED <<session, incoming, active, exists>>

\* set iface: a listening link re-subscribes on the new parent.
SetIface(l, p, h) ==
    /\ exists[l] /\ p # Undefined
    /\ path' = [path EXCEPT ![l] = p]
    /\ hook' = [hook EXCEPT ![l] = h]
    /\ IF reg.plist[l] # NoList
       THEN LET r1 == PppoeReleaseNode(PppoeUnListen(reg, l), l)
            IN  reg' \in GetNodeAndListen(r1, l, p, h, session[l])
       ELSE UNCHANGED reg
    /\ UNCHANGED <<session, incoming, active, exists>>

\* set service: a listening link re-subscribes under the new name.
SetService(l, s) ==
    /\ exists[l]
    /\ session' = [session EXCEPT ![l] = s]
    /\ IF reg.plist[l] # NoList
       THEN LET r1 == PppoeUnListen(reg, l)
            IN  \E out \in ListenOutcomesFor(r1, l, s) :
                  reg' = PppoeListen(r1, l, s, out)
       ELSE UNCHANGED reg
    /\ UNCHANGED <<path, hook, incoming, active, exists>>

\* set link enable/disable incoming (link framework, outside src/).
SetIncoming(l, b) ==
    /\ exists[l]
    /\ incoming' = [incoming EXCEPT ![l] = b]
    /\ UNCHANGED <<reg, path, hook, session, active, exists>>

\* PppoeNodeUpdate, called by the link framework.
PppoeNodeUpdate(l) ==
    /\ exists[l]
    /\ \/ /\ reg.plist[l] = NoList /\ incoming[l]
          /\ reg' \in GetNodeAndListen(reg, l, path[l], hook[l], session[l])
       \/ /\ reg.plist[l] # NoList /\ ~incoming[l]
          /\ reg' = IF active[l] THEN PppoeUnListen(reg, l)
                    ELSE PppoeReleaseNode(PppoeUnListen(reg, l), l)
    /\ UNCHANGED <<path, hook, session, incoming, active, exists>>

-----------------------------------------------------------------------------
(* Sessions, abstracted to acquiring the parent and going active.          *)

\* PppoeOpen, outgoing: acquire the parent for pi->path, then go
\* CONNECTING unless a graph message fails (sendOk).
PppoeOpen(l) ==
    /\ exists[l] /\ l \notin Templates /\ ~active[l]
    /\ \E sendOk \in BOOLEAN, c \in GetNodeOutcomes(reg, l, path[l]) :
         LET r1 == PppoeGetNode(reg, l, path[l], hook[l], c)
         IN  /\ reg' = r1
             /\ active' = [active EXCEPT ![l] = r1.pif[l] # NoSlot /\ sendOk]
    /\ UNCHANGED <<path, hook, session, incoming, exists>>

\* The link PppoeListenEvent selects for a request on listen-<s> of slot i:
\* the first idle link on that parent, for that service, accepting calls.
Candidates(i, s) ==
    {k \in Links : exists[k] /\ ~active[k] /\ reg.pif[k] = i
                   /\ session[k] = s /\ incoming[k]}

\* PppoeShutdown(l): PppoeDoClose, PppoeUnListen, PppoeReleaseNode.
ShutdownRegistry(r, l) == PppoeReleaseNode(PppoeUnListen(r, l), l)

\* PppoeListenEvent: a PADI on listen-<s>.  A template is instantiated
\* (LinkInst takes the lowest free link id and calls PppoeInst); when the
\* graph messages fail, a non-static instance is shut down.
PppoeListenEvent(i, s) ==
    /\ reg.lhook[i][s] = "listening"
    /\ Candidates(i, s) # {}
    /\ LET k == LowestOf(Candidates(i, s))
           spare == {m \in Links : ~exists[m]}
       IN  IF k \in Templates
           THEN /\ spare # {}
                /\ LET m == LowestOf(spare)
                       r1 == PppoeInstRefs(reg, m, k)
                   IN  /\ path' = [path EXCEPT ![m] = path[k]]
                       /\ hook' = [hook EXCEPT ![m] = hook[k]]
                       /\ session' = [session EXCEPT ![m] = session[k]]
                       /\ incoming' = [incoming EXCEPT ![m] = incoming[k]]
                       /\ \/ /\ active' = [active EXCEPT ![m] = TRUE]
                             /\ exists' = [exists EXCEPT ![m] = TRUE]
                             /\ reg' = r1
                          \/ /\ reg' = ShutdownRegistry(r1, m)
                             /\ UNCHANGED <<active, exists>>
           ELSE /\ UNCHANGED <<path, hook, session, incoming>>
                /\ \/ /\ active' = [active EXCEPT ![k] = TRUE]
                      /\ UNCHANGED <<reg, exists>>
                   \/ /\ k \in InitLinks
                      /\ UNCHANGED <<reg, active, exists>>
                   \/ /\ k \notin InitLinks
                      /\ reg' = ShutdownRegistry(reg, k)
                      /\ exists' = [exists EXCEPT ![k] = FALSE]
                      /\ UNCHANGED active

\* PppoeDoClose (timeout, FAIL, CLOSE, close()): the parent is kept.
PppoeDoClose(l) ==
    /\ active[l]
    /\ active' = [active EXCEPT ![l] = FALSE]
    /\ UNCHANGED <<reg, path, hook, session, incoming, exists>>

\* LinkShutdown of an instance by the link framework: PppoeShutdown.
PppoeShutdown(l) ==
    /\ exists[l] /\ l \notin InitLinks
    /\ reg' = ShutdownRegistry(reg, l)
    /\ active' = [active EXCEPT ![l] = FALSE]
    /\ exists' = [exists EXCEPT ![l] = FALSE]
    /\ UNCHANGED <<path, hook, session, incoming>>

Next ==
    \/ \E l \in Links :
          \/ PppoeNodeUpdate(l) \/ PppoeOpen(l) \/ PppoeDoClose(l)
          \/ PppoeShutdown(l)
          \/ \E p \in Paths, h \in EtherHooks : SetIface(l, p, h)
          \/ \E s \in Services : SetService(l, s)
          \/ \E b \in BOOLEAN : SetIncoming(l, b)
    \/ \E i \in Slots, s \in Services : PppoeListenEvent(i, s)

Spec == Init /\ [][Next]_vars

-----------------------------------------------------------------------------
(* Properties.                                                             *)

\* Every slot's refs, and every listener entry's refs, equal the number of
\* links holding a pointer to it, across instantiation, re-configuration,
\* update and shutdown (PppoeGetNode/ReleaseNode/Listen/UnListen/Inst).
RefsCountHolders ==
    /\ \A i \in Slots :
          reg.refs[i] = Quantify(Links, LAMBDA l : reg.pif[l] = i)
    /\ \A i \in Slots, s \in Services :
          reg.lists[i][s] = Quantify(Links, LAMBDA l : reg.plist[l] = <<i, s>>)

\* A free slot (empty ifnodepath) has no references, closed sockets, and
\* neither listener entries nor listen hooks left over for its next user:
\* PppoeReleaseNode does not clear the slot's SLIST.
FreeSlotIsClean ==
    \A i \in Slots :
       /\ (reg.ifpath[i] = NoPath) <=> (reg.refs[i] = 0)
       /\ reg.sock[i] <=> (reg.refs[i] > 0)
       /\ reg.ifpath[i] = NoPath =>
             \A s \in Services : reg.lists[i][s] = 0 /\ reg.lhook[i][s] = "none"

\* Spec 4.2: acquire adopts the ng_pppoe node it finds on the parent's
\* ether node, and release leaves that node to the kernel.  So every node
\* mpd left behind on a parent no slot serves is one the hook scan of the
\* next CreatePppoeNode adopts, never one its MKPEER runs into, whatever
\* hooks `set iface` gave and however acquisitions failed or were undone.
LeftNodeAdoptable ==
    \A p \in Paths :
       (\A i \in Slots : reg.ifpath[i] # p) /\ reg.ether[p] # {}
          => reg.ether[p] \cap AdoptHooks # {}

\* PppoeGetNode de-duplicates: no two slots serve the same parent path.
UniqueParentPath ==
    \A i, j \in Slots : i # j /\ reg.ifpath[i] # NoPath
                        => reg.ifpath[i] # reg.ifpath[j]

\* The listener entry a link points to lives on the parent it holds, so
\* PppoeUnListen disconnects the hook on the right node.
ListenerOnOwnParent ==
    \A l \in Links : reg.plist[l] # NoList => reg.plist[l][1] = reg.pif[l]

\* Spec 3.3 / 8.3: the hook listen-<service> exists, with the ng_pppoe node
\* listening on it, exactly while the listener entry exists (PppoeListen).
ListenerHookIffEntry ==
    \A i \in Slots, s \in Services :
       (reg.lists[i][s] > 0) <=> (reg.lhook[i][s] = "listening")

\* Spec 4.4 / 4.7: a link runs its session on the parent of the interface
\* it is configured for: whenever a link becomes active (outgoing open or
\* accepted call), the slot it holds serves its pi->path.
ActiveOnConfiguredIface ==
    [][\A l \in Links :
         ~active[l] /\ active'[l] => reg'.ifpath[reg'.pif[l]] = path'[l]]_vars

=============================================================================
