----------------------------- MODULE MCPppoeLink -----------------------------
(* Model-checking instance of PppoeLink: two links on one interface and    *)
(* one service, link 1 dialling out with max-payload 1500, link 2 also     *)
(* accepting calls; two sessions per link, so that messages of a first     *)
(* session can meet the second.                                            *)
EXTENDS PppoeLink, TLC

CONSTANTS p1, s1

MCLinks == {1, 2}
MCSlots == {1}
\* ETHER_DEFAULT_HOOK only: the links are configured by `set iface <name>`.
MCEtherHooks == {"orphans"}
MCLinkPath == [l \in MCLinks |-> p1]
MCLinkService == [l \in MCLinks |-> s1]
MCIncomingLinks == {2}
MCMaxPayload == (1 :> 1500) @@ (2 :> 0)
MCPeerPayloads == {1492, 1500}
MCPayloadInputs == {1491, 1492, 1500}
MCMaxGen == 2
MCMaxSessions == 4
MCMaxQueue == 3
=============================================================================
