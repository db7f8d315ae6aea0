------------------------------ MODULE MCMiner ------------------------------
(* Models of the Miner for TLC: one peer producer; one or two ingress tasks. *)
EXTENDS Miner

CONSTANTS me, p1, i1, i2

MCMe == me
MCPeers == {p1}
MCIngress1 == {i1}
MCIngress2 == {i1, i2}
=============================================================================
