-------------------------- MODULE MCPppoeLinkReconf --------------------------
(* PppoeLink with the operator's set commands: two links on interface p1,  *)
(* link 1 dialling out with max-payload 1500, link 2 accepting calls; set  *)
(* iface may move either to p2 (two parent slots) and set max-payload may  *)
(* be given an out-of-range, a lower and the same value.  One session per  *)
(* link: the question is what a reconfiguration does to a live one.        *)
EXTENDS PppoeLink, TLC

CONSTANTS p1, p2, s1

MCLinks == {1, 2}
MCSlots == {1, 2}
\* ETHER_DEFAULT_HOOK only: the links are configured by `set iface <name>`.
MCEtherHooks == {"orphans"}
MCLinkPath == [l \in MCLinks |-> p1]
MCLinkService == [l \in MCLinks |-> s1]
MCIncomingLinks == {2}
MCMaxPayload == (1 :> 1500) @@ (2 :> 0)
MCPeerPayloads == {1500}
MCPayloadInputs == {1491, 1492, 1500}
MCMaxGen == 1
MCMaxSessions == 2
MCMaxQueue == 2

=============================================================================
