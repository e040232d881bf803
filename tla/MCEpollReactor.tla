--------------------------- MODULE MCEpollReactor ---------------------------
(* Clients for EpollReactor: c1 sends as much as the buffer and more than the *)
(* window holds, and c3 is one more than there are slots.                    *)
EXTENDS EpollReactor

CONSTANTS c1, c2, c3

Clients == {c1, c2, c3}
Bytes == [c \in Clients |-> CASE c = c1 -> 2 [] c = c2 -> 1 [] c = c3 -> 0]
=============================================================================
