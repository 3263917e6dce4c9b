--------------------------- MODULE MCLockFreeQueue ---------------------------
(* Two clients and three commands: a command can be pushed, executed,      *)
(* recycled and pushed again between another thread's read of a tail and   *)
(* its compare-and-swap.                                                   *)
EXTENDS LockFreeQueue

CONSTANTS c1, c2, k1, k2, k3

MCClients == {c1, c2}
MCCommands == {k1, k2, k3}
=============================================================================
