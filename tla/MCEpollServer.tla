--------------------------- MODULE MCEpollServer ----------------------------
(* Clients for EpollServer: c1 sends more than a buffer and a window hold, and  *)
(* c3 is one more than there are descriptors.                              *)
EXTENDS EpollServer

CONSTANTS c1, c2, c3

Clients == {c1, c2, c3}
Bytes == [c \in Clients |-> CASE c = c1 -> 2 [] c = c2 -> 1 [] c = c3 -> 0]
=============================================================================
