---------------------------- MODULE MCForkServer ----------------------------
(* Clients for ForkServer: one that sends, and more than there may be          *)
(* processes.                                                                *)
EXTENDS ForkServer

CONSTANTS c1, c2, c3

Clients == {c1, c2, c3}
Messages == [c \in Clients |-> IF c = c1 THEN 1 ELSE 0]
=============================================================================
