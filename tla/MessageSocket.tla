---------------------------- MODULE MessageSocket ----------------------------
(***************************************************************************)
(* plan6-network/NetWork/socket.cpp: two ends of a connection, one calling    *)
(* TcpSocket::sendMsg() for message after message and one calling recvMsg().  *)
(* A message is a header that holds its length, and its bytes; each is given *)
(* to one write(), and only the bytes are read in a loop.                    *)
(*                                                                         *)
(* A byte is <<message, part, position>>.  A write() may be cut short by a    *)
(* signal or an error, and a read() may return less than it asks for.        *)
(***************************************************************************)
EXTENDS Integers, Sequences

CONSTANTS
  Messages,     \* the sizes of the messages to send, one after the other
  HeaderSize,   \* sizeof(uint32_t)
  Garbage       \* lengths that bytes other than a header may be taken for

ASSUME MessageAssumption ==
  Messages \in Seq(Nat) /\ HeaderSize \in Nat \ {0} /\ Garbage \subseteq Nat /\ Garbage # {}

VARIABLES
  nextMsg,    \* the message to send next
  sending,    \* what sendMsg() is about to write: "no", "header" or "data"
  accepted,   \* history: the messages for which sendMsg() returned 0
  wire,       \* bytes written and not read yet
  closed,     \* the sender has closed its end
  receiving,  \* what recvMsg() reads: "header" or "data"
  len, msg,   \* its length and what it has read of the bytes
  inbox,      \* history: the messages recvMsg() returned
  trouble     \* history: a call has failed, or a write() was cut short

msgvars == <<nextMsg, sending, accepted, wire, closed, receiving, len, msg, inbox, trouble>>
sender == <<nextMsg, sending, accepted, closed>>
receiver == <<receiving, len, msg, inbox>>

MsgInit ==
  /\ nextMsg = 1 /\ sending = "no" /\ accepted = <<>>
  /\ wire = <<>> /\ closed = FALSE
  /\ receiving = "header" /\ len = 0 /\ msg = <<>> /\ inbox = <<>>
  /\ trouble = FALSE

Smaller(a, b) == IF a < b THEN a ELSE b
Part(m, part, n) == [k \in 1..n |-> <<m, part, k>>]

-----------------------------------------------------------------------------
(* sendMsg()                                                               *)

Finish == sending' = "no" /\ nextMsg' = nextMsg + 1

\* An empty message is refused, and nothing is written.
SendMsg ==
  /\ sending = "no" /\ nextMsg <= Len(Messages) /\ ~closed
  /\ \/ Messages[nextMsg] > 0 /\ sending' = "header" /\ UNCHANGED nextMsg
     \/ Messages[nextMsg] = 0 /\ Finish
  /\ UNCHANGED <<accepted, wire, closed, receiver, trouble>>

\* n = 0 stands for a write() that fails.
WriteHeader ==
  /\ sending = "header"
  /\ \E n \in 0..HeaderSize :
       /\ wire' = wire \o Part(nextMsg, "header", n)
       /\ IF n = HeaderSize THEN sending' = "data" /\ UNCHANGED <<nextMsg, trouble>>
                            ELSE Finish /\ trouble' = TRUE
  /\ UNCHANGED <<accepted, closed, receiver>>

\* Any count but -1 is a success.
WriteData ==
  /\ sending = "data"
  /\ \E n \in 0..Messages[nextMsg] :
       /\ wire' = wire \o Part(nextMsg, "data", n)
       /\ accepted' = IF n > 0 THEN Append(accepted, nextMsg) ELSE accepted
       /\ trouble' = (trouble \/ n < Messages[nextMsg])
  /\ Finish
  /\ UNCHANGED <<closed, receiver>>

Close ==
  /\ sending = "no" /\ ~closed
  /\ closed' = TRUE
  /\ UNCHANGED <<nextMsg, sending, accepted, wire, receiver, trouble>>

-----------------------------------------------------------------------------
(* recvMsg()                                                               *)

\* The length in the header; in bytes that are no header, anything.
LengthIn(bytes) ==
  LET m == bytes[1][1]
  IN IF bytes = Part(m, "header", HeaderSize) THEN {Messages[m]} ELSE Garbage

Drop(n) == wire' = SubSeq(wire, n + 1, Len(wire))

ReadHeader ==
  /\ receiving = "header" /\ wire # <<>>
  /\ \E n \in 1..Smaller(HeaderSize, Len(wire)) :
       /\ Drop(n)
       /\ IF n < HeaderSize
            THEN trouble' = TRUE /\ UNCHANGED receiver
            ELSE /\ receiving' = "data" /\ msg' = <<>>
                 /\ len' \in LengthIn(SubSeq(wire, 1, HeaderSize))
                 /\ UNCHANGED <<inbox, trouble>>
  /\ UNCHANGED sender

\* while (recved < len)
MissingMutant == Len(msg) <= len
Missing == Len(msg) < len

ReadData ==
  /\ receiving = "data" /\ Missing /\ wire # <<>>
  /\ \E n \in 1..Len(wire) :
       /\ n <= len - Len(msg)
       /\ msg' = msg \o SubSeq(wire, 1, n)
       /\ Drop(n)
  /\ UNCHANGED <<sender, receiving, len, inbox, trouble>>

\* What recvMsg() returns as the message.
ReceivedMutant == SubSeq(msg, 1, len - 1)
Received == msg

RecvMsgReturns ==
  /\ receiving = "data" /\ ~Missing
  /\ inbox' = Append(inbox, Received)
  /\ receiving' = "header"
  /\ UNCHANGED <<sender, wire, len, msg, trouble>>

\* A read() that fails, which it may at any time, or that returns the end of the
\* stream, in the header or in the bytes.
ReadFails ==
  /\ receiving = "data" => Missing
  /\ receiving' = "header" /\ trouble' = TRUE
  /\ UNCHANGED <<sender, wire, len, msg, inbox>>

EndOfStream == wire = <<>> /\ closed /\ ReadFails

Sends == SendMsg \/ WriteHeader \/ WriteData \/ Close
Receives == ReadHeader \/ ReadData \/ RecvMsgReturns \/ EndOfStream
MsgNext == Sends \/ Receives \/ ReadFails

MsgSpec == MsgInit /\ [][MsgNext]_msgvars

-----------------------------------------------------------------------------
(* Properties                                                              *)

MsgTypeOK ==
  /\ nextMsg \in 1..(Len(Messages) + 1) /\ sending \in {"no", "header", "data"}
  /\ receiving \in {"header", "data"} /\ len \in Nat
  /\ closed \in BOOLEAN /\ trouble \in BOOLEAN

\* Until a call of either end fails or a write() is cut short, the messages received
\* are those sent, whole, in order and apart, however their bytes were cut on the way.
InStep ==
  ~trouble =>
    /\ Len(inbox) <= Len(accepted)
    /\ \A k \in 1..Len(inbox) : inbox[k] = Part(accepted[k], "data", Messages[accepted[k]])

\* What sendMsg() reported as sent is received, unless a call fails.
AllArrive ==
  \A k \in 1..Len(Messages) : (Len(accepted) >= k) ~> (Len(inbox) >= k \/ trouble)
=============================================================================
