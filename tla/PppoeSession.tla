----------------------------- MODULE PppoeSession -----------------------------
(***************************************************************************)
(* What a PPPoE link promises its host (spec 4.4, LinkSession): the phys  *)
(* state of each link and whether the host holds it open, with no graph,  *)
(* no sessions and no messages.  A link is dialled or offered a call,     *)
(* becomes established (UP if the host has it open, else READY until it  *)
(* opens it), and drops back to DOWN by a failure, by the peer, or by the *)
(* host's close.  A link negotiating forever is not allowed: the connect  *)
(* timer abandons it.  PppoeLink implements this module.                  *)
(***************************************************************************)
CONSTANT Links

VARIABLES state, opened

vars == <<state, opened>>

Negotiating == {"CONNECTING", "READY"}

TypeOK ==
    /\ state \in [Links -> {"DOWN", "CONNECTING", "READY", "UP"}]
    /\ opened \in [Links -> BOOLEAN]

Init ==
    /\ state = [l \in Links |-> "DOWN"]
    /\ opened = [l \in Links |-> FALSE]

\* open() on a DOWN outgoing link starts a session.
Dial(l) ==
    /\ state[l] = "DOWN"
    /\ state' = [state EXCEPT ![l] = "CONNECTING"]
    /\ opened' = [opened EXCEPT ![l] = TRUE]

\* A peer's request is given to an idle link the host has not opened.
Offer(l) ==
    /\ state[l] = "DOWN"
    /\ state' = [state EXCEPT ![l] = "CONNECTING"]
    /\ UNCHANGED opened

\* open() otherwise: the host holds the link; a READY link goes UP.
Open(l) ==
    /\ opened' = [opened EXCEPT ![l] = TRUE]
    /\ \/ UNCHANGED state
       \/ /\ state[l] = "READY"
          /\ state' = [state EXCEPT ![l] = "UP"]

\* SUCCESS: the session is established.
Established(l) ==
    /\ state[l] \in Negotiating
    /\ state' = [state EXCEPT ![l] = IF opened[l] THEN "UP" ELSE "READY"]
    /\ UNCHANGED opened

\* A negotiating link gives up (FAIL, connect timer).
Abandon(l) ==
    /\ state[l] \in Negotiating
    /\ state' = [state EXCEPT ![l] = "DOWN"]
    /\ UNCHANGED opened

\* The session ends under a link that is not DOWN (CLOSE from the peer).
Drop(l) ==
    /\ state[l] # "DOWN"
    /\ state' = [state EXCEPT ![l] = "DOWN"]
    /\ UNCHANGED opened

\* close(): the host lets go; the link is DOWN.
Close(l) ==
    /\ opened' = [opened EXCEPT ![l] = FALSE]
    /\ state' = [state EXCEPT ![l] = "DOWN"]

Next ==
    \E l \in Links :
       \/ Dial(l) \/ Offer(l) \/ Open(l) \/ Established(l)
       \/ Abandon(l) \/ Drop(l) \/ Close(l)

Spec == Init /\ [][Next]_vars /\ \A l \in Links : WF_vars(Abandon(l))

=============================================================================
