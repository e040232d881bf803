------------------------------- MODULE Streams -------------------------------
(* The two libraries of plan6-network that read and write byte streams, each   *)
(* under a caller of its own: a behaviour runs the functions of wrap.c, or the  *)
(* message sockets of NetWork.                                                 *)
EXTENDS WrapIO, MessageSocket

VARIABLE library
vars == <<library, wrapvars, msgvars>>

Init ==
  /\ WrapInit /\ MsgInit
  /\ \/ library = "wrap"
     \/ library = "NetWork" /\ functions = {} /\ newline = {} /\ \A f \in Fd : ends[f] = 0

Next ==
  \/ library = "wrap" /\ WrapNext /\ UNCHANGED <<library, msgvars>>
  \/ library = "NetWork" /\ MsgNext /\ UNCHANGED <<library, wrapvars>>

Spec == Init /\ [][Next]_vars

\* The receiver calls recvMsg() again and again.
FairSpec == Spec /\ WF_vars(library = "NetWork" /\ Receives /\ UNCHANGED <<library, wrapvars>>)

\* The state of both is well-formed, and read_buf neither loses nor repeats a byte.
Inv == WrapTypeOK /\ MsgTypeOK /\ NothingLost
=============================================================================
