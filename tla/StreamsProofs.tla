---------------------------- MODULE StreamsProofs ----------------------------
(***************************************************************************)
(* Proofs about Streams, for any descriptors, streams, buffers and messages.  *)
(*                                                                         *)
(* The functions of wrap.c: what is in read_buf is a piece of one stream      *)
(* (ReadAhead), which ends where the reading stands if the caller uses one    *)
(* function only (UpToHere); a call of its own then has the bytes in between  *)
(* (Own).                                                                  *)
(*                                                                         *)
(* The message sockets: as long as no call fails, the messages lie one after  *)
(* the other on the wire.  InStep alone is not inductive; LaidOut places      *)
(* every byte that is still to be read.                                     *)
(***************************************************************************)
EXTENDS Streams, SequenceTheorems, FiniteSetTheorems, TLAPS

\* A call has its arguments, and bytes of a stream.
Calls == [function : functions, fd : Fd, size : Sizes, got : Seq(Fd \X Int),
          at : {"run", "return"}, ret : Int, pure : BOOLEAN]

CallOK == functions \subseteq {"Readn", "Readline", "Writen"} /\ (call # NoCall => call \in Calls)

\* read_buf was filled by one read().
ReadAhead ==
  ahead # <<>> => \E f \in Fd, o \in Nat : \A k \in 1..Len(ahead) : ahead[k] = <<f, o + k>>

\* What Readline() has so far is no complete line.
NoLineYet ==
  Runs("Readline") => Got + 1 <= call.size /\ \A k \in 1..(Got - 1) : call.got[k] \notin newline

\* Why a call returned.
Reason ==
  call # NoCall /\ call.at = "return" /\ call.ret # -1 =>
    /\ call.function = "Readline" => Line
    /\ call.function = "Readn" => Whole

OneFunction == functions \in {{"Readn"}, {"Readline"}}

\* With one function, read_buf holds the last bytes that were read.
UpToHere ==
  OneFunction =>
    /\ functions = {"Readn"} => ahead = <<>>
    /\ ahead # <<>> => \E f \in Fd : /\ Len(ahead) <= taken[f]
                                     /\ \A k \in 1..Len(ahead) : ahead[k] = <<f, taken[f] - Len(ahead) + k>>

\* And a call has the bytes before them.
Own ==
  OneFunction /\ call # NoCall /\ call.pure =>
    /\ \A k \in 1..Len(ahead) : ahead[k][1] = call.fd
    /\ Len(ahead) + Got <= taken[call.fd]
    /\ \A k \in 1..Got : call.got[k] = <<call.fd, taken[call.fd] - Len(ahead) - Got + k>>

WrapInv == taken \in [Fd -> Nat] /\ WrapTypeOK /\ CallOK /\ ReadAhead /\ NothingLost /\ NoLineYet /\ Reason /\ UpToHere /\ Own

\* The messages whose header has been written.
Begun == IF sending = "data" THEN Append(accepted, nextMsg) ELSE accepted

\* pos[k] is where the k-th of them begins, counted from what is read next: the
\* messages follow each other up to the last byte that was written,
Spaced(pos) ==
  /\ \A k \in 1..Len(Begun) : pos[k + 1] = pos[k] + HeaderSize + Messages[Begun[k]]
  /\ pos[Len(Begun) + 1] = Len(wire) + IF sending = "data" THEN Messages[nextMsg] ELSE 0
  /\ \A k \in 1..Len(accepted) : pos[k + 1] <= Len(wire)

\* what is on the wire is in its place,
InPlace(pos) ==
  /\ \A k \in 1..Len(Begun) : \A j \in 1..HeaderSize :
       pos[k] + j \in 1..Len(wire) => wire[pos[k] + j] = <<Begun[k], "header", j>>
  /\ \A k \in 1..Len(Begun) : \A j \in 1..Messages[Begun[k]] :
       pos[k] + HeaderSize + j \in 1..Len(wire) => wire[pos[k] + HeaderSize + j] = <<Begun[k], "data", j>>

\* and the receiver is at the first message it has not returned.
Reading(pos) ==
  /\ Len(inbox) <= Len(accepted)
  /\ receiving = "header" => pos[Len(inbox) + 1] = 0
  /\ receiving = "data" =>
       /\ Len(inbox) + 1 <= Len(Begun)
       /\ pos[Len(inbox) + 1] = 0 - (HeaderSize + Len(msg))
       /\ len = Messages[Begun[Len(inbox) + 1]]
       /\ Len(msg) <= len
       /\ \A j \in 1..Len(msg) : msg[j] = <<Begun[Len(inbox) + 1], "data", j>>

Laid(pos) == Spaced(pos) /\ InPlace(pos) /\ Reading(pos)

LaidOut == ~trouble => \E pos \in [1..(Len(Begun) + 1) -> Int] : Laid(pos)

\* Every byte belongs to a message, and sendMsg() is at a message that is not empty.
Piece == (1..Len(Messages)) \X {"header", "data"} \X Nat

MsgShape ==
  /\ wire \in Seq(Piece) /\ msg \in Seq(Piece) /\ inbox \in Seq(Seq(Piece))
  /\ accepted \in Seq(1..Len(Messages))
  /\ sending # "no" => nextMsg \in 1..Len(Messages) /\ Messages[nextMsg] > 0

MsgInv == MsgTypeOK /\ MsgShape /\ LaidOut /\ InStep

IInv == WrapInv /\ MsgInv

-----------------------------------------------------------------------------
(* Sequences, and how often a byte is in one                               *)

\* A sequence and a piece that follows it.
LEMMA Joined ==
  ASSUME NEW S, NEW s \in Seq(S), NEW n \in Nat, NEW t \in [1..n -> S]
  PROVE  /\ s \o t \in Seq(S) /\ Len(s \o t) = Len(s) + n
         /\ \A k \in 1..Len(s) : (s \o t)[k] = s[k]
         /\ \A k \in 1..n : (s \o t)[Len(s) + k] = t[k]
<1>1. t \in Seq(S) /\ Len(t) = n /\ Len(s) \in Nat
  OBVIOUS
<1>2. /\ s \o t \in Seq(S) /\ Len(s \o t) = Len(s) + Len(t)
      /\ \A k \in 1..(Len(s) + Len(t)) : (s \o t)[k] = IF k <= Len(s) THEN s[k] ELSE t[k - Len(s)]
  BY <1>1, ConcatProperties
<1>3. \A k \in 1..n : Len(s) + k \in 1..(Len(s) + Len(t)) /\ ~(Len(s) + k <= Len(s)) /\ Len(s) + k - Len(s) = k
  BY <1>1
<1> QED
  BY <1>1, <1>2, <1>3

\* A sequence and an element more.
LEMMA Longer ==
  ASSUME NEW S, NEW s \in Seq(S), NEW e \in S
  PROVE  /\ Append(s, e) \in Seq(S) /\ Len(Append(s, e)) = Len(s) + 1
         /\ \A k \in 1..Len(s) : Append(s, e)[k] = s[k]
         /\ Append(s, e)[Len(s) + 1] = e
<1>1. Len(s) \in Nat
  OBVIOUS
<1>2. /\ Append(s, e) \in Seq(S) /\ Len(Append(s, e)) = Len(s) + 1
      /\ \A k \in 1..(Len(s) + 1) : Append(s, e)[k] = IF k <= Len(s) THEN s[k] ELSE e
  BY AppendProperties
<1> QED
  BY <1>1, <1>2

\* The first element and the others.
LEMMA FirstAndRest ==
  ASSUME NEW S, NEW s \in Seq(S), s # <<>>
  PROVE  /\ Head(s) = s[1] /\ Head(s) \in S /\ Len(s) \in Nat \ {0}
         /\ Tail(s) \in Seq(S) /\ Len(Tail(s)) = Len(s) - 1
         /\ \A k \in 1..(Len(s) - 1) : Tail(s)[k] = s[k + 1]
<1>1. Len(s) \in Nat /\ Len(s) > 0
  BY EmptySeq
<1>2. Tail(s) \in Seq(S) /\ Len(Tail(s)) = Len(s) - 1 /\ \A k \in 1..(Len(s) - 1) : Tail(s)[k] = s[k + 1]
  BY HeadTailProperties
<1>3. Head(s) = s[1] /\ s[1] \in S
  BY <1>1, ElementOfSeq
<1> QED
  BY <1>1, <1>2, <1>3

\* What is left of a sequence when the first n elements are gone.
LEMMA Dropped ==
  ASSUME NEW S, NEW s \in Seq(S), NEW n \in 1..Len(s)
  PROVE  /\ SubSeq(s, 1, n) \in [1..n -> S] /\ SubSeq(s, 1, n) \in Seq(S) /\ Len(SubSeq(s, 1, n)) = n
         /\ \A k \in 1..n : SubSeq(s, 1, n)[k] = s[k]
         /\ SubSeq(s, n + 1, Len(s)) \in Seq(S) /\ Len(SubSeq(s, n + 1, Len(s))) = Len(s) - n
         /\ \A k \in 1..(Len(s) - n) : SubSeq(s, n + 1, Len(s))[k] = s[n + k]
<1>1. Len(s) \in Nat /\ n \in Nat /\ n >= 1 /\ n <= Len(s)
  OBVIOUS
<1>2. /\ SubSeq(s, 1, n) \in Seq(S) /\ Len(SubSeq(s, 1, n)) = n
      /\ \A k \in 1..n : SubSeq(s, 1, n)[k] = s[k]
  BY <1>1, SubSeqProperties
<1>3. /\ SubSeq(s, n + 1, Len(s)) \in Seq(S) /\ Len(SubSeq(s, n + 1, Len(s))) = Len(s) - n
      /\ \A k \in 1..(Len(s) - n) : SubSeq(s, n + 1, Len(s))[k] = s[n + k]
  BY <1>1, SubSeqProperties
<1>4. SubSeq(s, 1, n) \in [1..n -> S]
  BY <1>2, LenProperties
<1> QED
  BY <1>2, <1>3, <1>4

\* In a sequence without repetitions a byte is once or not at all.
LEMMA CountOnce ==
  ASSUME NEW b, NEW s, \A j, k \in 1..Len(s) : s[j] = s[k] => j = k
  PROVE  Count(b, s) = IF \E k \in 1..Len(s) : s[k] = b THEN 1 ELSE 0
<1>1. CASE \E k \in 1..Len(s) : s[k] = b
  <2>1. PICK k \in 1..Len(s) : s[k] = b
    BY <1>1
  <2>2. {j \in 1..Len(s) : s[j] = b} = {k}
    BY <2>1
  <2>3. Cardinality({k}) = 1
    BY FS_Singleton
  <2> QED
    BY <1>1, <2>2, <2>3 DEF Count
<1>2. CASE ~\E k \in 1..Len(s) : s[k] = b
  <2>1. {j \in 1..Len(s) : s[j] = b} = {}
    BY <1>2
  <2> QED
    BY <1>2, <2>1, FS_EmptySet DEF Count
<1> QED
  BY <1>1, <1>2

\* Bytes are numbered in their stream.
LEMMA Bytes ==
  /\ \A f, k : <<f, k>> \in Byte <=> f \in Fd /\ k \in 1..Length[f]
  /\ \A b \in Byte : b = <<b[1], b[2]>> /\ b[1] \in Fd /\ b[2] \in 1..Length[b[1]] /\ b[2] \in Nat
BY WrapAssumption DEF Byte

\* The bytes one read() gives.
LEMMA NextBytesFacts ==
  ASSUME NEW f \in Fd, taken[f] \in 0..Length[f], NEW n \in 1..Left(f)
  PROVE  /\ n \in Nat /\ taken[f] + n \in 0..Length[f]
         /\ NextBytes(f, n) \in [1..n -> Byte] /\ NextBytes(f, n) \in Seq(Byte) /\ Len(NextBytes(f, n)) = n
         /\ \A k \in 1..n : NextBytes(f, n)[k] = <<f, taken[f] + k>>
         /\ \A b \in Byte : Count(b, NextBytes(f, n)) =
               IF b[1] = f /\ taken[f] < b[2] /\ b[2] <= taken[f] + n THEN 1 ELSE 0
<1>1. Length[f] \in Nat /\ taken[f] \in Nat /\ n \in Nat /\ n >= 1 /\ taken[f] + n <= Length[f]
  BY WrapAssumption DEF Left
<1>2. \A k \in 1..n : <<f, taken[f] + k>> \in Byte
  BY <1>1, Bytes
<1>3. NextBytes(f, n) \in [1..n -> Byte] /\ \A k \in 1..n : NextBytes(f, n)[k] = <<f, taken[f] + k>>
  BY <1>2 DEF NextBytes
<1>4. NextBytes(f, n) \in Seq(Byte) /\ Len(NextBytes(f, n)) = n
  BY <1>1, <1>3
<1>5. \A j, k \in 1..Len(NextBytes(f, n)) : NextBytes(f, n)[j] = NextBytes(f, n)[k] => j = k
  BY <1>1, <1>3, <1>4
<1>6. ASSUME NEW b \in Byte
      PROVE  Count(b, NextBytes(f, n)) = IF b[1] = f /\ taken[f] < b[2] /\ b[2] <= taken[f] + n THEN 1 ELSE 0
  <2>1. Count(b, NextBytes(f, n)) = IF \E k \in 1..n : NextBytes(f, n)[k] = b THEN 1 ELSE 0
    BY <1>4, <1>5, CountOnce
  <2>2. b = <<b[1], b[2]>> /\ b[2] \in Nat
    BY Bytes
  <2>3. (\E k \in 1..n : NextBytes(f, n)[k] = b) <=> b[1] = f /\ taken[f] < b[2] /\ b[2] <= taken[f] + n
    <3>1. ASSUME NEW k \in 1..n, NextBytes(f, n)[k] = b PROVE b[1] = f /\ taken[f] < b[2] /\ b[2] <= taken[f] + n
      BY <1>1, <1>3, <3>1
    <3>2. ASSUME b[1] = f, taken[f] < b[2], b[2] <= taken[f] + n PROVE \E k \in 1..n : NextBytes(f, n)[k] = b
      <4>1. b[2] - taken[f] \in 1..n /\ taken[f] + (b[2] - taken[f]) = b[2]
        BY <1>1, <2>2, <3>2
      <4> QED
        BY <1>3, <2>2, <3>2, <4>1
    <3> QED
      BY <3>1, <3>2
  <2> QED
    BY <2>1, <2>3
<1> QED
  BY <1>1, <1>3, <1>4, <1>6

-----------------------------------------------------------------------------
(* wrap.c                                                                  *)

\* A byte is in read_buf once, if at all.
LEMMA AheadOnce ==
  ASSUME ReadAhead
  PROVE  \A j, k \in 1..Len(ahead) : ahead[j] = ahead[k] => j = k
<1>1. CASE ahead = <<>>
  BY <1>1
<1>2. CASE ahead # <<>>
  <2>1. PICK f \in Fd, o \in Nat : \A k \in 1..Len(ahead) : ahead[k] = <<f, o + k>>
    BY <1>2 DEF ReadAhead
  <2> QED
    BY <2>1
<1> QED
  BY <1>1, <1>2

\* The caller may begin with anything.
LEMMA WrapInitInv == WrapInit => WrapInv
<1> SUFFICES ASSUME WrapInit PROVE WrapInv
  OBVIOUS
<1>1. /\ newline \subseteq Byte /\ ends \in [Fd -> {0, -1}] /\ functions \subseteq {"Readn", "Readline", "Writen"}
      /\ taken = [f \in Fd |-> 0] /\ ahead = <<>> /\ call = NoCall /\ handed = [b \in Byte |-> 0]
  BY WrapAssumption DEF WrapInit
<1>2. ahead \in Seq(Byte) /\ Len(ahead) = 0
  BY <1>1
<1>3. WrapTypeOK /\ taken \in [Fd -> Nat]
  BY <1>1, <1>2, WrapAssumption DEF WrapTypeOK
<1>4. NothingLost
  <2>1. ASSUME NEW b \in Byte PROVE handed[b] + Count(b, ahead) = IF b[2] <= taken[b[1]] THEN 1 ELSE 0
    <3>1. Count(b, ahead) = 0
      BY <1>2, CountOnce
    <3>2. ~(b[2] <= taken[b[1]])
      BY <1>1, Bytes, WrapAssumption
    <3> QED
      BY <1>1, <3>1, <3>2
  <2> QED
    BY <2>1 DEF NothingLost
<1>5. CallOK /\ ReadAhead /\ NoLineYet /\ Reason /\ UpToHere /\ Own
  BY <1>1 DEF CallOK, ReadAhead, NoLineYet, Reason, UpToHere, Own, Runs, Running
<1> QED
  BY <1>3, <1>4, <1>5 DEF WrapInv

\* A running call.
LEMMA RunningCall ==
  ASSUME WrapInv, Running
  PROVE  /\ call \in Calls /\ call.at = "run" /\ call.fd \in Fd /\ call.size \in Nat \ {0} /\ call.size \in Sizes
         /\ call.function \in functions /\ functions \subseteq {"Readn", "Readline", "Writen"}
         /\ call.got \in Seq(Fd \X Int) /\ Got \in Nat /\ Got <= call.size
         /\ taken[call.fd] \in 0..Length[call.fd] /\ Length[call.fd] \in Nat
<1>1. call \in Calls /\ call.at = "run" /\ functions \subseteq {"Readn", "Readline", "Writen"} /\ Got <= call.size
  BY DEF WrapInv, CallOK, WrapTypeOK, Running, Calls
<1>2. /\ call.fd \in Fd /\ call.size \in Sizes /\ call.function \in functions /\ call.got \in Seq(Fd \X Int)
  BY <1>1 DEF Calls
<1>3. Got \in Nat
  BY <1>2 DEF Got
<1>4. call.size \in Nat \ {0} /\ Length[call.fd] \in Nat
  BY <1>2, WrapAssumption
<1>5. taken[call.fd] \in 0..Length[call.fd]
  BY <1>2 DEF WrapInv, WrapTypeOK
<1> QED
  BY <1>1, <1>2, <1>3, <1>4, <1>5

\* A call begins with no bytes.
LEMMA StartStep ==
  ASSUME WrapInv, Start
  PROVE  WrapInv'
<1>1. PICK g \in functions, f \in Fd, n \in Sizes :
        call' = [function |-> g, fd |-> f, size |-> n, got |-> <<>>, at |-> "run", ret |-> 0,
                 pure |-> \A k \in 1..Len(ahead) : ahead[k][1] = f]
  BY DEF Start
<1>2. UNCHANGED <<newline, ends, functions, taken, ahead, handed>>
  BY DEF Start, fixed
<1>3. /\ call'.function = g /\ call'.fd = f /\ call'.size = n /\ call'.got = <<>> /\ call'.at = "run"
      /\ call'.pure = (\A k \in 1..Len(ahead) : ahead[k][1] = f) /\ Len(call'.got) = 0
      /\ n \in Nat \ {0}
  BY <1>1, WrapAssumption
<1>4. WrapTypeOK' /\ ReadAhead' /\ NothingLost' /\ UpToHere'
  <2>1. call'.fd \in Fd /\ call'.size \in Sizes /\ Len(call'.got) <= call'.size
    BY <1>3
  <2>2. WrapTypeOK'
    BY <1>2, <2>1 DEF WrapInv, WrapTypeOK, Got
  <2>3. ReadAhead' /\ UpToHere'
    BY <1>2 DEF WrapInv, ReadAhead, UpToHere, OneFunction
  <2>4. NothingLost'
    BY <1>2 DEF WrapInv, NothingLost
  <2> QED
    BY <2>2, <2>3, <2>4
<1>5. CallOK'
  <2>1. functions \subseteq {"Readn", "Readline", "Writen"}
    BY DEF WrapInv, CallOK
  <2> QED
    BY <1>1, <1>2, <2>1 DEF CallOK, Calls
<1>6. NoLineYet' /\ Reason'
  BY <1>3 DEF NoLineYet, Reason, Got
<1>7. Own'
  <2>1. ASSUME OneFunction, call'.pure
        PROVE  /\ \A k \in 1..Len(ahead) : ahead[k][1] = f
               /\ Len(ahead) <= taken[f]
    <3>1. \A k \in 1..Len(ahead) : ahead[k][1] = f
      BY <1>3, <2>1
    <3>2. CASE ahead = <<>>
      BY <3>2 DEF WrapInv, WrapTypeOK
    <3>3. CASE ahead # <<>>
      <4>1. PICK e \in Fd : Len(ahead) <= taken[e] /\ \A k \in 1..Len(ahead) : ahead[k] = <<e, taken[e] - Len(ahead) + k>>
        BY <2>1, <3>3 DEF WrapInv, UpToHere
      <4>2. 1 \in 1..Len(ahead)
        BY <3>3, FirstAndRest DEF WrapInv, WrapTypeOK
      <4>3. e = f
        BY <3>1, <4>1, <4>2
      <4> QED
        BY <3>1, <4>1, <4>3
    <3> QED
      BY <3>1, <3>2, <3>3
  <2> QED
    <3>1. Len(ahead) \in Nat
      BY DEF WrapInv, WrapTypeOK
    <3>2. Got' = 0
      BY <1>3 DEF Got
    <3>3. ASSUME OneFunction', call'.pure
          PROVE  /\ \A k \in 1..Len(ahead') : ahead'[k][1] = call'.fd
                 /\ Len(ahead') + Got' <= taken'[call'.fd]
                 /\ \A k \in 1..Got' : call'.got[k] = <<call'.fd, taken'[call'.fd] - Len(ahead') - Got' + k>>
      <4>1. OneFunction
        BY <1>2, <3>3 DEF OneFunction
      <4>2. Len(ahead) + Got' = Len(ahead) /\ 1..Got' = {}
        BY <3>1, <3>2
      <4> QED
        BY <1>2, <1>3, <2>1, <3>3, <4>1, <4>2
    <3> QED
      BY <3>3 DEF Own
<1> QED
  BY <1>2, <1>4, <1>5, <1>6, <1>7 DEF WrapInv

\* A call that goes on with more bytes in the caller's buffer.
LEMMA GoesOn ==
  ASSUME WrapInv, Running, NEW n \in Nat, NEW bytes \in [1..n -> Fd \X Int], Got + n <= call.size,
         call' = [call EXCEPT !.got = call.got \o bytes], UNCHANGED fixed
  PROVE  /\ CallOK' /\ Reason' /\ Got' = Got + n /\ Got' <= call'.size
         /\ call'.fd = call.fd /\ call'.size = call.size /\ call'.function = call.function /\ call'.pure = call.pure
         /\ \A k \in 1..Got : call'.got[k] = call.got[k]
         /\ \A k \in 1..n : call'.got[Got + k] = bytes[k]
<1>1. call \in Calls /\ call.at = "run" /\ call.got \in Seq(Fd \X Int)
  BY RunningCall
<1>2. /\ call.got \o bytes \in Seq(Fd \X Int) /\ Len(call.got \o bytes) = Got + n
      /\ \A k \in 1..Got : (call.got \o bytes)[k] = call.got[k]
      /\ \A k \in 1..n : (call.got \o bytes)[Got + k] = bytes[k]
  <2> DEFINE s == call.got
             S == Fd \X Int
  <2>1. s \in Seq(S) /\ n \in Nat /\ bytes \in [1..n -> S] /\ Len(s) = Got
    BY <1>1 DEF Got
  <2> HIDE DEF s, S
  <2>2. /\ s \o bytes \in Seq(S) /\ Len(s \o bytes) = Len(s) + n
        /\ \A k \in 1..Len(s) : (s \o bytes)[k] = s[k]
        /\ \A k \in 1..n : (s \o bytes)[Len(s) + k] = bytes[k]
    BY <2>1, Joined
  <2> QED
    BY <2>1, <2>2 DEF s, S
<1>3. /\ call'.got = call.got \o bytes /\ call'.at = "run" /\ call'.fd = call.fd /\ call'.size = call.size
      /\ call'.function = call.function /\ call'.pure = call.pure
  BY <1>1 DEF Calls
<1>4. call' \in Calls
  BY <1>1, <1>2 DEF Calls
<1>5. CallOK'
  BY <1>4 DEF WrapInv, CallOK, fixed, Calls
<1>6. Reason'
  BY <1>3 DEF Reason
<1> QED
  BY <1>2, <1>3, <1>5, <1>6 DEF Got

\* A call that returns has what it had.
LEMMA GoesBack ==
  ASSUME WrapInv, Running, NEW r \in Int, Returns(r), UNCHANGED <<fixed, taken, ahead, handed>>,
         r # -1 /\ call.function = "Readline" => Line', r # -1 /\ call.function = "Readn" => Whole'
  PROVE  WrapInv'
<1>1. call \in Calls /\ call.at = "run" /\ call # NoCall
  BY RunningCall DEF Running
<1>2. UNCHANGED <<newline, ends, functions, taken, ahead, handed>>
  BY DEF fixed
<1>3. /\ call'.got = call.got /\ call'.at = "return" /\ call'.fd = call.fd /\ call'.size = call.size /\ call'.ret = r
      /\ call'.function = call.function /\ call'.pure = call.pure /\ call' \in Calls
  BY <1>1 DEF Calls, Returns
<1>4. WrapTypeOK'
  BY <1>1, <1>2, <1>3 DEF WrapInv, WrapTypeOK, Got
<1>5. CallOK'
  BY <1>2, <1>3 DEF WrapInv, CallOK, Calls
<1>6. ReadAhead' /\ UpToHere'
  BY <1>2 DEF WrapInv, ReadAhead, UpToHere, OneFunction
<1>7. NothingLost'
  BY <1>2 DEF WrapInv, NothingLost
<1>8. NoLineYet' /\ Reason'
  BY <1>3 DEF NoLineYet, Runs, Running, Reason
<1>9. Own'
  BY <1>1, <1>2, <1>3 DEF WrapInv, Own, OneFunction, Got
<1> QED
  BY <1>2, <1>4, <1>5, <1>6, <1>7, <1>8, <1>9 DEF WrapInv

\* Readn() takes the next bytes of its descriptor.
LEMMA ReadMoreStep ==
  ASSUME WrapInv, ReadMore
  PROVE  WrapInv'
<1> DEFINE f == call.fd
<1>1. Running /\ call.function = "Readn" /\ Got < call.size /\ UNCHANGED <<newline, ends, functions, ahead>> /\ UNCHANGED fixed
  BY DEF ReadMore, Runs, fixed
<1>2. PICK n \in 1..Left(f) :
        /\ n <= call.size - Got
        /\ call' = [call EXCEPT !.got = call.got \o NextBytes(f, n)]
        /\ Stored(NextBytes(f, n))
        /\ taken' = [taken EXCEPT ![f] = taken[f] + n]
  BY DEF ReadMore
<1>3. /\ f \in Fd /\ call.size \in Nat /\ Got \in Nat /\ taken[f] \in 0..Length[f] /\ Length[f] \in Nat /\ "Readn" \in functions
  BY <1>1, RunningCall
<1> HIDE DEF f
<1>4. /\ n \in Nat /\ taken[f] + n \in 0..Length[f] /\ NextBytes(f, n) \in [1..n -> Byte]
      /\ \A k \in 1..n : NextBytes(f, n)[k] = <<f, taken[f] + k>>
      /\ \A b \in Byte : Count(b, NextBytes(f, n)) = IF b[1] = f /\ taken[f] < b[2] /\ b[2] <= taken[f] + n THEN 1 ELSE 0
  BY <1>3, NextBytesFacts
<1>5. NextBytes(f, n) \in [1..n -> Fd \X Int]
  BY <1>4, Bytes
<1>6. /\ CallOK' /\ Reason' /\ Got' = Got + n /\ Got' <= call'.size /\ call'.fd = f /\ call'.size = call.size
      /\ call'.function = "Readn" /\ call'.pure = call.pure
      /\ \A k \in 1..Got : call'.got[k] = call.got[k]
      /\ \A k \in 1..n : call'.got[Got + k] = NextBytes(f, n)[k]
  <2>1. Got + n <= call.size
    BY <1>2, <1>3, <1>4
  <2> QED
    BY <1>1, <1>2, <1>4, <1>5, <2>1, GoesOn DEF f
<1>7. /\ taken'[f] = taken[f] + n /\ \A e \in Fd : e # f => taken'[e] = taken[e]
  BY <1>2, <1>3 DEF WrapInv, WrapTypeOK
<1>8. handed' \in [Byte -> Nat] /\ \A b \in Byte : handed'[b] = handed[b] + Count(b, NextBytes(f, n))
  <2>1. \A b \in Byte : Count(b, NextBytes(f, n)) \in Nat /\ handed[b] \in Nat
    BY <1>4 DEF WrapInv, WrapTypeOK
  <2>2. handed' = [b \in Byte |-> handed[b] + Count(b, NextBytes(f, n))]
    BY <1>2 DEF Stored
  <2> QED
    BY <2>1, <2>2
<1>9. WrapTypeOK' /\ taken' \in [Fd -> Nat]
  <2>1. \A e \in Fd : taken'[e] \in 0..Length[e]
    BY <1>3, <1>4, <1>7 DEF WrapInv, WrapTypeOK
  <2>2. taken' \in [Fd -> Nat]
    BY <1>2, <1>3, <1>4 DEF WrapInv
  <2>3. newline' \subseteq Byte /\ ends' \in [Fd -> {0, -1}] /\ ahead' \in Seq(Byte) /\ Len(ahead') <= BufSize
    BY <1>1 DEF WrapInv, WrapTypeOK
  <2>4. call'.fd \in Fd /\ call'.size \in Sizes
    BY <1>1, <1>3, <1>6, RunningCall
  <2> QED
    BY <1>6, <1>8, <2>1, <2>2, <2>3, <2>4 DEF WrapTypeOK
<1>10. ReadAhead'
  BY <1>1 DEF WrapInv, ReadAhead
<1>11. NothingLost'
  <2>1. ASSUME NEW b \in Byte PROVE handed'[b] + Count(b, ahead) = IF b[2] <= taken'[b[1]] THEN 1 ELSE 0
    <3>1. b[1] \in Fd /\ b[2] \in Nat /\ handed[b] \in Nat /\ taken[b[1]] \in Nat /\ taken[f] \in Nat
      BY <1>3, Bytes DEF WrapInv, WrapTypeOK
    <3>2. Count(b, ahead) \in Nat /\ handed[b] + Count(b, ahead) = IF b[2] <= taken[b[1]] THEN 1 ELSE 0
      BY AheadOnce, CountOnce DEF WrapInv, NothingLost
    <3>3. Count(b, NextBytes(f, n)) = IF b[1] = f /\ taken[f] < b[2] /\ b[2] <= taken[f] + n THEN 1 ELSE 0
      BY <1>4
    <3>4. CASE b[1] = f
      <4>1. taken'[b[1]] = taken[b[1]] + n /\ taken[f] = taken[b[1]] /\ n \in Nat
        BY <1>4, <1>7, <3>4
      <4>2. handed'[b] = handed[b] + IF taken[b[1]] < b[2] /\ b[2] <= taken[b[1]] + n THEN 1 ELSE 0
        BY <1>8, <3>3, <3>4, <4>1
      <4> QED
        BY <3>1, <3>2, <4>1, <4>2
    <3>5. CASE b[1] # f
      BY <1>7, <1>8, <3>1, <3>2, <3>3, <3>5
    <3> QED
      BY <3>4, <3>5
  <2> QED
    BY <1>1, <2>1 DEF NothingLost
<1>12. NoLineYet'
  BY <1>6 DEF NoLineYet, Runs
<1>13. OneFunction => functions = {"Readn"} /\ ahead = <<>> /\ Len(ahead) = 0
  BY <1>3 DEF WrapInv, UpToHere, OneFunction
<1>14. UpToHere'
  BY <1>1, <1>13 DEF UpToHere, OneFunction
<1>15. Own'
  <2> SUFFICES ASSUME OneFunction', call'.pure, call' # NoCall
               PROVE  /\ \A k \in 1..Len(ahead') : ahead'[k][1] = call'.fd
                      /\ Len(ahead') + Got' <= taken'[call'.fd]
                      /\ \A k \in 1..Got' : call'.got[k] = <<call'.fd, taken'[call'.fd] - Len(ahead') - Got' + k>>
    BY DEF Own
  <2>1. OneFunction /\ call # NoCall /\ call.pure /\ Len(ahead) = 0 /\ Len(ahead') = 0
    BY <1>1, <1>6, <1>13 DEF OneFunction, Running
  <2>2. Got <= taken[f] /\ \A k \in 1..Got : call.got[k] = <<f, taken[f] - Got + k>>
    BY <1>3, <2>1 DEF WrapInv, Own, f
  <2>3. ASSUME NEW k \in 1..(Got + n) PROVE call'.got[k] = <<f, taken[f] - Got + k>>
    <3>1. CASE k \in 1..Got
      BY <1>6, <2>2, <3>1
    <3>2. CASE k \notin 1..Got
      <4>1. k - Got \in 1..n /\ Got + (k - Got) = k /\ taken[f] + (k - Got) = taken[f] - Got + k
        BY <1>3, <1>4, <3>2
      <4> QED
        BY <1>4, <1>6, <4>1
    <3> QED
      BY <3>1, <3>2
  <2>4. taken[f] + n - 0 - (Got + n) = taken[f] - Got /\ 0 + (Got + n) <= taken[f] + n
    BY <1>3, <1>4, <2>2
  <2>5. Len(ahead') + Got' <= taken'[call'.fd]
    BY <1>6, <1>7, <2>1, <2>4
  <2>6. ASSUME NEW k \in 1..Got' PROVE call'.got[k] = <<call'.fd, taken'[call'.fd] - Len(ahead') - Got' + k>>
    <3>1. taken'[call'.fd] - Len(ahead') - Got' = taken[f] - Got
      <4>1. taken'[call'.fd] = taken[f] + n /\ Len(ahead') = 0 /\ Got' = Got + n
        BY <1>6, <1>7, <2>1
      <4> QED
        BY <1>3, <1>4, <4>1
    <3>2. call'.got[k] = <<f, taken[f] - Got + k>>
      BY <1>6, <2>3
    <3> QED
      BY <1>6, <3>1, <3>2
  <2>7. 1..Len(ahead') = {}
    BY <2>1
  <2> QED
    BY <2>5, <2>6, <2>7
<1> QED
  BY <1>6, <1>9, <1>10, <1>11, <1>12, <1>14, <1>15 DEF WrapInv

\* Readn() returns what it has: all that was asked for, or all there is.
LEMMA ReadnReturnsStep ==
  ASSUME WrapInv, ReadnReturns
  PROVE  WrapInv'
<1>1. Running /\ call.function = "Readn" /\ UNCHANGED <<fixed, taken, ahead, handed>>
  BY DEF ReadnReturns, Runs
<1>2. /\ call \in Calls /\ call.fd \in Fd /\ call.size \in Nat /\ Got \in Nat
  BY <1>1, RunningCall
<1>3. PICK r \in Int : Returns(r) /\ (r # -1 => r = Got /\ (Got = call.size \/ Left(call.fd) = 0))
  BY <1>2 DEF ReadnReturns
<1>4. Got' = Got /\ call'.fd = call.fd /\ call'.size = call.size /\ call'.ret = r
  BY <1>2, <1>3 DEF Returns, Calls, Got
<1>5. r # -1 => Whole'
  BY <1>1, <1>3, <1>4 DEF Whole, Left
<1> QED
  BY <1>1, <1>3, <1>5, GoesBack

\* my_read() fills an empty read_buf.
LEMMA FillStep ==
  ASSUME WrapInv, Fill
  PROVE  WrapInv'
<1> DEFINE f == call.fd
<1>1. /\ Running /\ call.function = "Readline" /\ ahead = <<>> /\ Len(ahead) = 0
      /\ UNCHANGED <<newline, ends, functions, call, handed>>
  BY DEF Fill, Continues, Runs, Empty, fixed
<1>2. PICK n \in 1..Left(f) :
        n <= BufSize /\ ahead' = NextBytes(f, n) /\ taken' = [taken EXCEPT ![f] = taken[f] + n]
  BY DEF Fill
<1>3. f \in Fd /\ taken[f] \in 0..Length[f] /\ Length[f] \in Nat /\ "Readline" \in functions /\ Got \in Nat
  BY <1>1, RunningCall
<1>4. /\ n \in Nat \ {0} /\ taken[f] + n \in 0..Length[f] /\ ahead' \in Seq(Byte) /\ Len(ahead') = n
      /\ \A k \in 1..n : ahead'[k] = <<f, taken[f] + k>>
      /\ \A b \in Byte : Count(b, ahead') = IF b[1] = f /\ taken[f] < b[2] /\ b[2] <= taken[f] + n THEN 1 ELSE 0
  <2> HIDE DEF f
  <2> QED
    BY <1>2, <1>3, NextBytesFacts
<1>5. /\ taken'[f] = taken[f] + n /\ taken' \in [Fd -> Nat] /\ \A e \in Fd : e # f => taken'[e] = taken[e]
  <2> HIDE DEF f
  <2> QED
    BY <1>2, <1>3, <1>4 DEF WrapInv
<1>6. WrapTypeOK'
  <2>1. \A e \in Fd : taken'[e] \in 0..Length[e]
    <3> HIDE DEF f
    <3> QED
      BY <1>3, <1>4, <1>5 DEF WrapInv, WrapTypeOK
  <2> QED
    BY <1>1, <1>2, <1>4, <2>1 DEF WrapInv, WrapTypeOK, Got
<1>7. CallOK' /\ NoLineYet' /\ Reason'
  <2>1. call.at = "run"
    BY <1>1, RunningCall
  <2> QED
    BY <1>1, <2>1 DEF WrapInv, CallOK, Calls, NoLineYet, Runs, Running, Got, Reason
<1>8. ReadAhead'
  <2>1. \A k \in 1..Len(ahead') : ahead'[k] = <<f, taken[f] + k>>
    BY <1>4
  <2>2. taken[f] \in Nat
    BY <1>3
  <2> QED
    BY <1>3, <2>1, <2>2 DEF ReadAhead
<1>9. NothingLost'
  <2>1. ASSUME NEW b \in Byte PROVE handed[b] + Count(b, ahead') = IF b[2] <= taken'[b[1]] THEN 1 ELSE 0
    <3> HIDE DEF f
    <3>1. b[1] \in Fd /\ b[2] \in Nat /\ handed[b] \in Nat /\ taken[b[1]] \in Nat
      BY Bytes DEF WrapInv, WrapTypeOK
    <3>2. Count(b, ahead) = 0 /\ handed[b] + Count(b, ahead) = IF b[2] <= taken[b[1]] THEN 1 ELSE 0
      BY <1>1, CountOnce DEF WrapInv, NothingLost
    <3>3. handed[b] = IF b[2] <= taken[b[1]] THEN 1 ELSE 0
      BY <3>1, <3>2
    <3>4. CASE b[1] = f
      <4>1. taken'[b[1]] = taken[b[1]] + n
        BY <1>5, <3>4
      <4>2. Count(b, ahead') = IF taken[b[1]] < b[2] /\ b[2] <= taken[b[1]] + n THEN 1 ELSE 0
        BY <1>4, <3>4
      <4> QED
        BY <1>4, <3>1, <3>3, <4>1, <4>2
    <3>5. CASE b[1] # f
      <4>1. taken'[b[1]] = taken[b[1]] /\ Count(b, ahead') = 0
        BY <1>4, <1>5, <3>1, <3>5
      <4> QED
        BY <3>1, <3>3, <4>1
    <3> QED
      BY <3>4, <3>5
  <2> QED
    BY <1>1, <2>1 DEF NothingLost
<1>10. UpToHere'
  <2> HIDE DEF f
  <2>1. n <= taken'[f] /\ \A k \in 1..n : ahead'[k] = <<f, taken'[f] - n + k>>
    BY <1>3, <1>4, <1>5
  <2> QED
    BY <1>1, <1>3, <1>4, <2>1 DEF UpToHere, OneFunction
<1>11. Own'
  <2> SUFFICES ASSUME OneFunction', call.pure, call # NoCall
               PROVE  /\ \A k \in 1..n : ahead'[k][1] = f
                      /\ n + Got <= taken'[f]
                      /\ \A k \in 1..Got : call.got[k] = <<f, taken'[f] - n - Got + k>>
    BY <1>1, <1>4 DEF Own, Got
  <2>1. Got <= taken[f] /\ \A k \in 1..Got : call.got[k] = <<f, taken[f] - Got + k>>
    BY <1>1, <1>3 DEF WrapInv, Own, OneFunction
  <2> HIDE DEF f
  <2>2. taken'[f] - n - Got = taken[f] - Got /\ n + Got <= taken'[f]
    BY <1>3, <1>4, <1>5, <2>1
  <2> QED
    BY <1>4, <2>1, <2>2
<1> QED
  BY <1>5, <1>6, <1>7, <1>8, <1>9, <1>10, <1>11 DEF WrapInv

\* Readline() takes the first byte of read_buf.
LEMMA TakeByteStep ==
  ASSUME WrapInv, TakeByte
  PROVE  WrapInv'
<1> DEFINE f == call.fd
<1> DEFINE b0 == Head(ahead)
<1>1. /\ Running /\ call.function = "Readline" /\ ~LineEnds /\ Got + 1 < call.size /\ ahead # <<>>
      /\ call' = [call EXCEPT !.got = Append(call.got, b0)] /\ Stored(<<b0>>) /\ ahead' = Tail(ahead)
      /\ UNCHANGED <<newline, ends, functions, taken>> /\ UNCHANGED fixed
  BY DEF TakeByte, Continues, Runs, Empty, fixed
<1>2. /\ f \in Fd /\ call.size \in Nat /\ Got \in Nat /\ taken[f] \in Nat /\ "Readline" \in functions
      /\ call.got \in Seq(Fd \X Int) /\ call # NoCall
  BY <1>1, RunningCall DEF Running
<1>3. /\ ahead \in Seq(Byte) /\ b0 = ahead[1] /\ b0 \in Byte /\ Len(ahead) \in Nat \ {0}
      /\ ahead' \in Seq(Byte) /\ Len(ahead') = Len(ahead) - 1
      /\ \A k \in 1..(Len(ahead) - 1) : ahead'[k] = ahead[k + 1]
  <2>1. ahead \in Seq(Byte)
    BY DEF WrapInv, WrapTypeOK
  <2> QED
    BY <1>1, <2>1, FirstAndRest
<1> HIDE DEF b0
<1>4. PICK one \in [1..1 -> Fd \X Int] : one[1] = b0 /\ Append(call.got, b0) = call.got \o one
  <2>1. b0 \in Fd \X Int
    BY <1>3, Bytes
  <2>2. [k \in 1..1 |-> b0] \in [1..1 -> Fd \X Int] /\ Append(call.got, b0) = call.got \o [k \in 1..1 |-> b0]
    BY <1>2, <2>1
  <2>3. [k \in 1..1 |-> b0][1] = b0
    OBVIOUS
  <2> QED
    BY <2>2, <2>3
<1>5. /\ CallOK' /\ Reason' /\ Got' = Got + 1 /\ Got' <= call'.size /\ call'.fd = f /\ call'.size = call.size
      /\ call'.function = "Readline" /\ call'.pure = call.pure
      /\ \A k \in 1..Got : call'.got[k] = call.got[k]
      /\ call'.got[Got + 1] = b0
  <2>1. /\ CallOK' /\ Reason' /\ Got' = Got + 1 /\ Got' <= call'.size /\ call'.fd = f /\ call'.size = call.size
        /\ call'.function = "Readline" /\ call'.pure = call.pure
        /\ \A k \in 1..Got : call'.got[k] = call.got[k]
        /\ \A k \in 1..1 : call'.got[Got + k] = one[k]
    <3>1. Got + 1 <= call.size /\ call' = [call EXCEPT !.got = call.got \o one] /\ 1 \in Nat
      BY <1>1, <1>2, <1>4
    <3> QED
      BY <1>1, <3>1, GoesOn
  <2>2. 1 \in 1..1
    OBVIOUS
  <2> QED
    BY <1>4, <2>1, <2>2
<1>6. /\ \A b \in Byte : Count(b, ahead) = IF \E k \in 1..Len(ahead) : ahead[k] = b THEN 1 ELSE 0
      /\ \A j, k \in 1..Len(ahead) : ahead[j] = ahead[k] => j = k
  BY AheadOnce, CountOnce DEF WrapInv
<1>7. \A b \in Byte : Count(b, ahead') = IF \E k \in 1..Len(ahead) : k # 1 /\ ahead[k] = b THEN 1 ELSE 0
  <2>1. \A j, k \in 1..Len(ahead') : ahead'[j] = ahead'[k] => j = k
    BY <1>3, <1>6
  <2>2. ASSUME NEW b \in Byte
        PROVE  (\E k \in 1..Len(ahead') : ahead'[k] = b) <=> \E k \in 1..Len(ahead) : k # 1 /\ ahead[k] = b
    <3>1. ASSUME NEW k \in 1..Len(ahead'), ahead'[k] = b PROVE \E j \in 1..Len(ahead) : j # 1 /\ ahead[j] = b
      <4>1. k + 1 \in 1..Len(ahead) /\ k + 1 # 1 /\ ahead[k + 1] = b
        BY <1>3, <3>1
      <4> QED
        BY <4>1
    <3>2. ASSUME NEW k \in 1..Len(ahead), k # 1, ahead[k] = b PROVE \E j \in 1..Len(ahead') : ahead'[j] = b
      <4>1. k - 1 \in 1..Len(ahead') /\ (k - 1) + 1 = k
        BY <1>3, <3>2
      <4>2. ahead'[k - 1] = ahead[(k - 1) + 1]
        BY <1>3, <4>1
      <4> QED
        BY <3>2, <4>1, <4>2
    <3> QED
      BY <3>1, <3>2
  <2> QED
    BY <2>1, <2>2, CountOnce
<1>8. \A b \in Byte : Count(b, <<b0>>) = IF b = b0 THEN 1 ELSE 0
  <2>1. Len(<<b0>>) = 1 /\ <<b0>>[1] = b0 /\ \A j, k \in 1..Len(<<b0>>) : j = k
    OBVIOUS
  <2>2. \A b : (\E k \in 1..Len(<<b0>>) : <<b0>>[k] = b) <=> b = b0
    BY <2>1
  <2> QED
    BY <2>1, <2>2, CountOnce
<1>9. handed' \in [Byte -> Nat] /\ \A b \in Byte : handed'[b] = handed[b] + Count(b, <<b0>>) /\ handed[b] \in Nat
  <2>1. \A b \in Byte : Count(b, <<b0>>) \in Nat /\ handed[b] \in Nat
    BY <1>8 DEF WrapInv, WrapTypeOK
  <2>2. handed' = [b \in Byte |-> handed[b] + Count(b, <<b0>>)]
    BY <1>1 DEF Stored
  <2> QED
    BY <2>1, <2>2
<1>10. NothingLost'
  <2>1. ASSUME NEW b \in Byte PROVE handed'[b] + Count(b, ahead') = IF b[2] <= taken[b[1]] THEN 1 ELSE 0
    <3>1. 1 \in 1..Len(ahead)
      BY <1>3
    <3>2. Count(b, <<b0>>) + Count(b, ahead') = Count(b, ahead) /\ Count(b, <<b0>>) \in Nat /\ Count(b, ahead') \in Nat
      <4>1. CASE b = b0
        <5>1. ahead[1] = b
          BY <1>3, <4>1
        <5>2. ~\E k \in 1..Len(ahead) : k # 1 /\ ahead[k] = b
          BY <1>6, <3>1, <5>1
        <5>3. Count(b, <<b0>>) = 1 /\ Count(b, ahead') = 0 /\ Count(b, ahead) = 1
          BY <1>6, <1>7, <1>8, <3>1, <4>1, <5>1, <5>2
        <5> QED
          BY <5>3
      <4>2. CASE b # b0
        <5>1. ahead[1] # b
          BY <1>3, <4>2
        <5>2. (\E k \in 1..Len(ahead) : k # 1 /\ ahead[k] = b) <=> \E k \in 1..Len(ahead) : ahead[k] = b
          BY <5>1
        <5>3. Count(b, <<b0>>) = 0 /\ Count(b, ahead') = Count(b, ahead) /\ Count(b, ahead) \in {0, 1}
          BY <1>6, <1>7, <1>8, <4>2, <5>2
        <5> QED
          BY <5>3
      <4> QED
        BY <4>1, <4>2
    <3>3. handed[b] + Count(b, ahead) = IF b[2] <= taken[b[1]] THEN 1 ELSE 0
      BY DEF WrapInv, NothingLost
    <3> QED
      BY <1>9, <3>2, <3>3
  <2> QED
    BY <1>1, <2>1 DEF NothingLost
<1>11. WrapTypeOK' /\ taken' \in [Fd -> Nat]
  <2>1. call'.fd \in Fd /\ call'.size \in Sizes
    BY <1>1, <1>2, <1>5, RunningCall
  <2>2. Len(ahead') <= BufSize
    BY <1>3, WrapAssumption DEF WrapInv, WrapTypeOK
  <2> QED
    BY <1>1, <1>3, <1>5, <1>9, <2>1, <2>2 DEF WrapInv, WrapTypeOK
<1>12. ReadAhead'
  <2>1. PICK e \in Fd, o \in Nat : \A k \in 1..Len(ahead) : ahead[k] = <<e, o + k>>
    BY <1>1 DEF WrapInv, ReadAhead
  <2>2. ASSUME NEW k \in 1..Len(ahead') PROVE ahead'[k] = <<e, (o + 1) + k>>
    <3>1. k + 1 \in 1..Len(ahead) /\ ahead'[k] = ahead[k + 1] /\ o + (k + 1) = (o + 1) + k
      BY <1>3
    <3> QED
      BY <2>1, <3>1
  <2>3. o + 1 \in Nat
    OBVIOUS
  <2> QED
    BY <2>2, <2>3 DEF ReadAhead
<1>13. NoLineYet'
  <2>1. \A k \in 1..Got : call.got[k] \notin newline
    <3>1. \A k \in 1..(Got - 1) : call.got[k] \notin newline
      BY <1>1 DEF WrapInv, NoLineYet, Runs
    <3> QED
      BY <1>1, <1>2, <3>1 DEF LineEnds
  <2>2. Got' + 1 <= call'.size /\ Got' - 1 = Got
    <3>1. Got' = Got + 1 /\ call'.size = call.size
      BY <1>5
    <3>2. Got \in Nat /\ call.size \in Nat /\ Got + 1 < call.size
      BY <1>1, <1>2
    <3> QED
      BY <3>1, <3>2
  <2>3. \A k \in 1..(Got' - 1) : call'.got[k] \notin newline'
    <3>1. newline' = newline /\ \A k \in 1..Got : call'.got[k] = call.got[k]
      BY <1>1, <1>5
    <3> QED
      BY <2>1, <2>2, <3>1
  <2> QED
    BY <2>2, <2>3 DEF NoLineYet
<1>14. ASSUME OneFunction
       PROVE  \E e \in Fd : /\ Len(ahead) <= taken[e]
                            /\ \A k \in 1..Len(ahead) : ahead[k] = <<e, taken[e] - Len(ahead) + k>>
  BY <1>1, <1>14 DEF WrapInv, UpToHere
<1>15. UpToHere'
  <2> SUFFICES ASSUME OneFunction
               PROVE  \E e \in Fd : /\ Len(ahead') <= taken[e]
                                    /\ \A k \in 1..Len(ahead') : ahead'[k] = <<e, taken[e] - Len(ahead') + k>>
    BY <1>1, <1>2 DEF UpToHere, OneFunction
  <2>1. PICK e \in Fd : /\ Len(ahead) <= taken[e]
                        /\ \A k \in 1..Len(ahead) : ahead[k] = <<e, taken[e] - Len(ahead) + k>>
    BY <1>14
  <2>2. taken[e] \in Nat
    BY DEF WrapInv
  <2>3. ASSUME NEW k \in 1..Len(ahead') PROVE ahead'[k] = <<e, taken[e] - Len(ahead') + k>>
    <3>1. k + 1 \in 1..Len(ahead) /\ ahead'[k] = ahead[k + 1] /\ taken[e] - Len(ahead) + (k + 1) = taken[e] - Len(ahead') + k
      <4>1. Len(ahead') = Len(ahead) - 1 /\ Len(ahead) \in Nat \ {0}
        BY <1>3
      <4>2. k + 1 \in 1..Len(ahead) /\ taken[e] - Len(ahead) + (k + 1) = taken[e] - Len(ahead') + k
        BY <2>2, <4>1
      <4> QED
        BY <1>3, <4>1, <4>2
    <3> QED
      BY <2>1, <3>1
  <2>4. Len(ahead') <= taken[e]
    BY <1>3, <2>1, <2>2
  <2> QED
    BY <2>3, <2>4
<1>16. Own'
  <2> SUFFICES ASSUME OneFunction, call.pure
               PROVE  /\ \A k \in 1..Len(ahead') : ahead'[k][1] = f
                      /\ Len(ahead') + Got' <= taken[f]
                      /\ \A k \in 1..Got' : call'.got[k] = <<f, taken[f] - Len(ahead') - Got' + k>>
    BY <1>1, <1>5 DEF Own, OneFunction
  <2>1. /\ \A k \in 1..Len(ahead) : ahead[k][1] = f
        /\ Len(ahead) + Got <= taken[f]
        /\ \A k \in 1..Got : call.got[k] = <<f, taken[f] - Len(ahead) - Got + k>>
    BY <1>2 DEF WrapInv, Own
  <2> HIDE DEF f
  <2>2. PICK e \in Fd : \A k \in 1..Len(ahead) : ahead[k] = <<e, taken[e] - Len(ahead) + k>>
    BY <1>14
  <2>3. 1 \in 1..Len(ahead) /\ b0 = <<f, taken[f] - Len(ahead) + 1>>
    <3>1. 1 \in 1..Len(ahead)
      BY <1>3
    <3>2. e = f
      BY <2>1, <2>2, <3>1
    <3> QED
      BY <1>3, <2>2, <3>1, <3>2
  <2>4. Len(ahead') + Got' = Len(ahead) + Got /\ taken[f] - Len(ahead') - Got' = taken[f] - Len(ahead) - Got
    <3>1. Len(ahead') = Len(ahead) - 1 /\ Got' = Got + 1
      BY <1>3, <1>5
    <3>2. Len(ahead) \in Nat /\ Got \in Nat /\ taken[f] \in Nat
      BY <1>2, <1>3
    <3>3. \A a, g, t \in Nat : (a - 1) + (g + 1) = a + g /\ t - (a - 1) - (g + 1) = t - a - g
      OBVIOUS
    <3>4. /\ (Len(ahead) - 1) + (Got + 1) = Len(ahead) + Got
          /\ taken[f] - (Len(ahead) - 1) - (Got + 1) = taken[f] - Len(ahead) - Got
      BY <3>2, <3>3
    <3> QED
      BY <3>1, <3>4
  <2>5. \A k \in 1..Len(ahead') : ahead'[k][1] = f
    BY <1>3, <2>1
  <2>6. ASSUME NEW k \in 1..Got' PROVE call'.got[k] = <<f, taken[f] - Len(ahead) - Got + k>>
    <3>1. CASE k \in 1..Got
      BY <1>5, <2>1, <3>1
    <3>2. CASE k \notin 1..Got
      <4>1. k = Got + 1 /\ taken[f] - Len(ahead) - Got + k = taken[f] - Len(ahead) + 1
        <5>1. Got' = Got + 1 /\ Len(ahead) \in Nat /\ Got \in Nat /\ taken[f] \in Nat
          BY <1>2, <1>3, <1>5
        <5> QED
          BY <3>2, <5>1
      <4> QED
        BY <1>5, <2>3, <4>1
    <3> QED
      BY <3>1, <3>2
  <2> QED
    BY <2>1, <2>4, <2>5, <2>6
<1> QED
  BY <1>5, <1>10, <1>11, <1>12, <1>13, <1>15, <1>16 DEF WrapInv

\* Readline() returns a line, a full buffer, or what was left.
LEMMA ReadlineReturnsStep ==
  ASSUME WrapInv, ReadlineReturns
  PROVE  WrapInv'
<1>1. Running /\ call.function = "Readline" /\ UNCHANGED <<fixed, taken, ahead, handed>>
  BY DEF ReadlineReturns, Runs
<1>2. /\ call \in Calls /\ call.fd \in Fd /\ call.size \in Nat /\ Got \in Nat /\ newline' = newline
  BY <1>1, RunningCall DEF fixed
<1>3. Got + 1 <= call.size /\ \A k \in 1..(Got - 1) : call.got[k] \notin newline
  BY <1>1 DEF WrapInv, NoLineYet, Runs
<1>4. PICK r \in Int :
        /\ Returns(r)
        /\ \/ LineEnds /\ r = Got
           \/ Got + 1 >= call.size /\ r = Got + 1
           \/ ahead = <<>> /\ Left(call.fd) = 0 /\ r \in {Got, -1}
  <2>1. CASE LineEnds /\ Returns(Got)
    BY <1>2, <2>1
  <2>2. CASE ~LineEnds /\ ~Continues /\ Returns(Got + 1)
    <3>1. ~(Got + 1 < call.size)
      BY <1>1, <2>2 DEF Continues, Runs
    <3>2. Got + 1 \in Int /\ Got + 1 >= call.size
      BY <1>2, <3>1
    <3> QED
      BY <2>2, <3>2
  <2>3. CASE Continues /\ Empty /\ Left(call.fd) = 0 /\ Returns(IF ends[call.fd] = 0 THEN Got ELSE -1)
    BY <1>2, <2>3 DEF Empty
  <2> QED
    BY <2>1, <2>2, <2>3 DEF ReadlineReturns
<1>5. Got' = Got /\ call'.got = call.got /\ call'.fd = call.fd /\ call'.size = call.size /\ call'.ret = r
  BY <1>2, <1>4 DEF Returns, Calls, Got
<1>6. (LineEnds <=> LineEnds') /\ Left(call.fd)' = Left(call.fd) /\ ahead' = ahead
  BY <1>1, <1>2, <1>5 DEF LineEnds, Left
<1>7. ASSUME r # -1 PROVE Line'
  <2>1. \A k \in 1..(Got' - 1) : call'.got[k] \notin newline'
    BY <1>2, <1>3, <1>5
  <2>2. CASE LineEnds /\ r = Got
    BY <1>5, <1>6, <2>1, <2>2 DEF Line
  <2>3. CASE Got + 1 >= call.size /\ r = Got + 1
    <3>1. Got = call.size - 1 /\ r = call.size
      BY <1>2, <1>3, <2>3
    <3> QED
      BY <1>5, <2>1, <3>1 DEF Line
  <2>4. CASE ahead = <<>> /\ Left(call.fd) = 0 /\ r = Got
    BY <1>5, <1>6, <2>1, <2>4 DEF Line, Left
  <2> QED
    BY <1>4, <1>7, <2>2, <2>3, <2>4
<1> QED
  BY <1>1, <1>4, <1>7, GoesBack

\* Writen() has written more of the caller's buffer; no stream is read.
LEMMA WritenStep ==
  ASSUME WrapInv, WriteMore \/ WritenReturns
  PROVE  WrapInv'
<1>1. Running /\ call.function = "Writen" /\ UNCHANGED <<fixed, taken, ahead, handed>>
  BY DEF WriteMore, WritenReturns, Runs
<1>2. /\ call \in Calls /\ call.fd \in Fd /\ call.size \in Nat /\ Got \in Nat /\ Got <= call.size /\ "Writen" \in functions
  BY <1>1, RunningCall
<1>3. CASE WritenReturns
  <2>1. PICK r \in Int : Returns(r)
    BY <1>2, <1>3 DEF WritenReturns
  <2> QED
    BY <1>1, <2>1, GoesBack
<1>4. CASE WriteMore
  <2>1. PICK n \in 1..(call.size - Got) : call' = [call EXCEPT !.got = call.got \o [k \in 1..n |-> <<call.fd, Got + k>>]]
    BY <1>4 DEF WriteMore
  <2>2. PICK bytes \in [1..n -> Fd \X Int] : call' = [call EXCEPT !.got = call.got \o bytes]
    <3>1. [k \in 1..n |-> <<call.fd, Got + k>>] \in [1..n -> Fd \X Int]
      BY <1>2
    <3> QED
      BY <2>1, <3>1
  <2>3. n \in Nat /\ Got + n <= call.size
    BY <1>2
  <2>4. /\ CallOK' /\ Reason' /\ Got' <= call'.size /\ call'.fd = call.fd /\ call'.size = call.size
        /\ call'.function = "Writen"
    BY <1>1, <2>2, <2>3, GoesOn
  <2>5. WrapTypeOK' /\ taken' \in [Fd -> Nat]
    <3>1. call'.fd \in Fd /\ call'.size \in Sizes
      BY <1>1, <1>2, <2>4, RunningCall
    <3> QED
      BY <1>1, <2>4, <3>1 DEF WrapInv, WrapTypeOK, fixed
  <2>6. ReadAhead' /\ NoLineYet' /\ UpToHere'
    BY <1>1, <2>4 DEF WrapInv, ReadAhead, NoLineYet, Runs, UpToHere, OneFunction, fixed
  <2>7. NothingLost'
    BY <1>1 DEF WrapInv, NothingLost, fixed
  <2>8. Own'
    <3>1. ~OneFunction'
      BY <1>1, <1>2 DEF OneFunction, fixed
    <3> QED
      BY <3>1 DEF Own
  <2> QED
    BY <2>4, <2>5, <2>6, <2>7, <2>8 DEF WrapInv
<1> QED
  BY <1>3, <1>4

\* The invariant is inductive for the caller of wrap.c.
LEMMA WrapStep ==
  ASSUME WrapInv, [WrapNext]_wrapvars
  PROVE  WrapInv'
<1>1. CASE WrapNext
  BY <1>1, StartStep, ReadMoreStep, ReadnReturnsStep, FillStep, TakeByteStep, ReadlineReturnsStep, WritenStep
     DEF WrapNext
<1>2. CASE UNCHANGED wrapvars
  <2>1. UNCHANGED <<newline, ends, functions, taken, ahead, call, handed>>
    BY <1>2 DEF wrapvars
  <2>2. WrapTypeOK' /\ taken' \in [Fd -> Nat] /\ CallOK' /\ ReadAhead'
    <3>1. WrapTypeOK' /\ taken' \in [Fd -> Nat]
      BY <2>1 DEF WrapInv, WrapTypeOK, Got
    <3>2. CallOK'
      BY <2>1 DEF WrapInv, CallOK, Calls
    <3>3. ReadAhead'
      BY <2>1 DEF WrapInv, ReadAhead
    <3> QED
      BY <3>1, <3>2, <3>3
  <2>3. NothingLost' /\ NoLineYet'
    BY <2>1 DEF WrapInv, NothingLost, NoLineYet, Runs, Running, Got
  <2>4. Reason'
    BY <2>1 DEF WrapInv, Reason, Line, Whole, LineEnds, Left, Got
  <2>5. UpToHere' /\ Own'
    BY <2>1 DEF WrapInv, UpToHere, Own, OneFunction, Got
  <2> QED
    BY <2>2, <2>3, <2>4, <2>5 DEF WrapInv
<1> QED
  BY <1>1, <1>2

\* The bytes that were handed out are those before the ones in read_buf.
LEMMA HandedOut ==
  ASSUME WrapInv, OneFunction, call # NoCall, call.pure, NEW k \in 1..Length[call.fd]
  PROVE  handed[<<call.fd, k>>] = IF k <= taken[call.fd] - Len(ahead) THEN 1 ELSE 0
<1> DEFINE f == call.fd
<1> DEFINE b == <<f, k>>
<1>1. f \in Fd /\ Length[f] \in Nat /\ k \in Nat /\ taken[f] \in Nat /\ Len(ahead) \in Nat /\ Len(ahead) <= taken[f]
  <2>1. f \in Fd
    BY DEF WrapInv, WrapTypeOK
  <2>2. Got \in Nat
    BY DEF WrapInv, CallOK, Calls, Got
  <2>3. Len(ahead) \in Nat
    BY DEF WrapInv, WrapTypeOK
  <2>4. Len(ahead) + Got <= taken[f]
    BY DEF WrapInv, Own
  <2> QED
    BY <2>1, <2>2, <2>3, <2>4, WrapAssumption DEF WrapInv
<1>2. b \in Byte /\ handed[b] \in Nat
  BY <1>1, Bytes DEF WrapInv, WrapTypeOK
<1>3. handed[b] + Count(b, ahead) = IF k <= taken[f] THEN 1 ELSE 0
  BY <1>2 DEF WrapInv, NothingLost
<1>4. Count(b, ahead) = IF \E j \in 1..Len(ahead) : ahead[j] = b THEN 1 ELSE 0
  BY AheadOnce, CountOnce DEF WrapInv
<1>5. \A j \in 1..Len(ahead) : ahead[j] = <<f, taken[f] - Len(ahead) + j>>
  <2>1. CASE ahead = <<>>
    BY <2>1
  <2>2. CASE ahead # <<>>
    <3>1. PICK e \in Fd : \A j \in 1..Len(ahead) : ahead[j] = <<e, taken[e] - Len(ahead) + j>>
      BY <2>2 DEF WrapInv, UpToHere
    <3>2. \A j \in 1..Len(ahead) : ahead[j][1] = f
      BY DEF WrapInv, Own
    <3>3. \A j \in 1..Len(ahead) : e = f
      BY <3>1, <3>2
    <3> QED
      BY <3>1, <3>3
  <2> QED
    BY <2>1, <2>2
<1> HIDE DEF f
<1>6. (\E j \in 1..Len(ahead) : ahead[j] = b) <=> taken[f] - Len(ahead) < k /\ k <= taken[f]
  <2>1. ASSUME NEW j \in 1..Len(ahead), ahead[j] = b PROVE taken[f] - Len(ahead) < k /\ k <= taken[f]
    BY <1>1, <1>5, <2>1
  <2>2. ASSUME taken[f] - Len(ahead) < k, k <= taken[f] PROVE \E j \in 1..Len(ahead) : ahead[j] = b
    <3>1. k - (taken[f] - Len(ahead)) \in 1..Len(ahead)
          /\ taken[f] - Len(ahead) + (k - (taken[f] - Len(ahead))) = k
      BY <1>1, <2>2
    <3> QED
      BY <1>5, <3>1
  <2> QED
    BY <2>1, <2>2
<1>7. CASE \E j \in 1..Len(ahead) : ahead[j] = b
  BY <1>1, <1>2, <1>3, <1>4, <1>6, <1>7 DEF f
<1>8. CASE ~\E j \in 1..Len(ahead) : ahead[j] = b
  BY <1>1, <1>2, <1>3, <1>4, <1>6, <1>8 DEF f
<1> QED
  BY <1>7, <1>8

\* What the invariant says of a call that returned.
LEMMA Returned == WrapInv => OwnBytes
<1> SUFFICES ASSUME WrapInv, call # NoCall, call.at = "return", call.ret # -1, call.pure
             PROVE  /\ call.function = "Readline" => Line
                    /\ call.function = "Readn" => Whole
                    /\ OneFunction =>
                         \E first \in 0..Length[call.fd] :
                           /\ \A k \in 1..Got : call.got[k] = <<call.fd, first + k>>
                           /\ \A k \in 1..Length[call.fd] :
                                handed[<<call.fd, k>>] = IF k <= first + Got THEN 1 ELSE 0
  BY DEF OwnBytes, OneFunction
<1>1. (call.function = "Readline" => Line) /\ (call.function = "Readn" => Whole)
  BY DEF WrapInv, Reason
<1>2. ASSUME OneFunction
      PROVE  \E first \in 0..Length[call.fd] :
               /\ \A k \in 1..Got : call.got[k] = <<call.fd, first + k>>
               /\ \A k \in 1..Length[call.fd] : handed[<<call.fd, k>>] = IF k <= first + Got THEN 1 ELSE 0
  <2> DEFINE f == call.fd
  <2> DEFINE first == taken[f] - Len(ahead) - Got
  <2>1. f \in Fd /\ taken[f] \in 0..Length[f] /\ Len(ahead) \in Nat
    BY DEF WrapInv, WrapTypeOK
  <2>2. Got \in Nat /\ Length[f] \in Nat
    BY <2>1, WrapAssumption DEF WrapInv, CallOK, Calls, Got
  <2>3. Len(ahead) + Got <= taken[f] /\ \A k \in 1..Got : call.got[k] = <<f, first + k>>
    BY <1>2 DEF WrapInv, Own
  <2>4. first \in 0..Length[f] /\ first + Got = taken[f] - Len(ahead)
    BY <2>1, <2>2, <2>3
  <2>5. \A k \in 1..Length[f] : handed[<<f, k>>] = IF k <= first + Got THEN 1 ELSE 0
    BY <1>2, <2>4, HandedOut
  <2> HIDE DEF first
  <2> QED
    BY <2>3, <2>4, <2>5
<1> QED
  BY <1>1, <1>2

-----------------------------------------------------------------------------
(* NetWork                                                                 *)

\* The sizes of the messages, and of their headers.
LEMMA MessageSizes ==
  /\ Len(Messages) \in Nat /\ HeaderSize \in Nat \ {0}
  /\ \A m \in 1..Len(Messages) : Messages[m] \in Nat
BY MessageAssumption, ElementOfSeq

\* The first n bytes of a part of a message.
LEMMA Parts ==
  ASSUME NEW m \in 1..Len(Messages), NEW part \in {"header", "data"}, NEW n \in Nat
  PROVE  Part(m, part, n) \in [1..n -> Piece] /\ \A k \in 1..n : Part(m, part, n)[k] = <<m, part, k>>
<1>1. \A k \in 1..n : <<m, part, k>> \in Piece
  BY DEF Piece
<1> QED
  BY <1>1 DEF Part

\* The two ends begin with nothing on the wire.
LEMMA MsgInitInv == MsgInit => MsgInv
<1> SUFFICES ASSUME MsgInit PROVE MsgInv
  OBVIOUS
<1>1. /\ accepted = <<>> /\ wire = <<>> /\ msg = <<>> /\ inbox = <<>> /\ len = 0 /\ nextMsg = 1
      /\ sending = "no" /\ receiving = "header" /\ closed = FALSE /\ trouble = FALSE
  BY DEF MsgInit
<1>2. MsgTypeOK
  <2>1. 1 \in 1..(Len(Messages) + 1)
    BY MessageSizes
  <2> QED
    BY <1>1, <2>1 DEF MsgTypeOK
<1>3. MsgShape
  BY <1>1 DEF MsgShape
<1>4. Begun = <<>> /\ Len(Begun) = 0 /\ Len(wire) = 0 /\ Len(inbox) = 0 /\ Len(accepted) = 0
  BY <1>1 DEF Begun
<1>5. LaidOut
  <2> DEFINE pos == [k \in 1..1 |-> 0]
  <2>1. pos \in [1..(Len(Begun) + 1) -> Int] /\ pos[1] = 0
    BY <1>4
  <2> HIDE DEF pos
  <2>2. Spaced(pos) /\ InPlace(pos) /\ Reading(pos)
    BY <1>1, <1>4, <2>1 DEF Spaced, InPlace, Reading
  <2> QED
    BY <2>1, <2>2 DEF LaidOut, Laid
<1>6. InStep
  BY <1>4 DEF InStep
<1> QED
  BY <1>2, <1>3, <1>5, <1>6 DEF MsgInv

\* The bytes of the messages stay bytes of the messages.
LEMMA MsgShapeStep ==
  ASSUME MsgTypeOK, MsgShape, MsgNext
  PROVE  MsgTypeOK' /\ MsgShape'
<1>1. CASE SendMsg \/ Close
  <2>1. UNCHANGED <<accepted, wire, receiving, len, msg, inbox, trouble>>
    BY <1>1 DEF SendMsg, Close, receiver
  <2>2. /\ nextMsg' \in 1..(Len(Messages) + 1) /\ sending' \in {"no", "header", "data"} /\ closed' \in BOOLEAN
        /\ sending' # "no" => nextMsg' \in 1..Len(Messages) /\ Messages[nextMsg'] > 0
    <3>1. Len(Messages) \in Nat /\ \A m \in 1..Len(Messages) : Messages[m] \in Nat
      BY MessageSizes
    <3>2. CASE SendMsg
      BY <3>1, <3>2 DEF SendMsg, Finish, MsgTypeOK, MsgShape
    <3>3. CASE Close
      BY <3>3 DEF Close, MsgTypeOK, MsgShape
    <3> QED
      BY <1>1, <3>2, <3>3
  <2> QED
    BY <2>1, <2>2 DEF MsgTypeOK, MsgShape
<1>2. CASE WriteHeader
  <2>1. sending = "header" /\ UNCHANGED <<accepted, closed, receiving, len, msg, inbox>>
    BY <1>2 DEF WriteHeader, receiver
  <2>2. PICK n \in 0..HeaderSize :
          /\ wire' = wire \o Part(nextMsg, "header", n)
          /\ IF n = HeaderSize THEN sending' = "data" /\ UNCHANGED <<nextMsg, trouble>>
                               ELSE Finish /\ trouble' = TRUE
    BY <1>2 DEF WriteHeader
  <2>3. nextMsg \in 1..Len(Messages) /\ Messages[nextMsg] > 0
    BY <2>1 DEF MsgShape
  <2>4. wire' \in Seq(Piece)
    <3>1. n \in Nat
      BY MessageSizes
    <3>2. Part(nextMsg, "header", n) \in [1..n -> Piece]
      BY <2>3, <3>1, Parts
    <3> QED
      BY <2>2, <3>1, <3>2, Joined DEF MsgShape
  <2>5. /\ nextMsg' \in 1..(Len(Messages) + 1) /\ sending' \in {"no", "header", "data"} /\ trouble' \in BOOLEAN
        /\ sending' # "no" => nextMsg' \in 1..Len(Messages) /\ Messages[nextMsg'] > 0
    <3>1. nextMsg + 1 \in 1..(Len(Messages) + 1) /\ nextMsg \in 1..(Len(Messages) + 1)
      BY <2>3, MessageSizes
    <3>2. CASE n = HeaderSize
      BY <2>2, <2>3, <3>1, <3>2 DEF MsgTypeOK
    <3>3. CASE n # HeaderSize
      BY <2>2, <3>1, <3>3 DEF Finish
    <3> QED
      BY <3>2, <3>3
  <2> QED
    BY <2>1, <2>4, <2>5 DEF MsgTypeOK, MsgShape
<1>3. CASE WriteData
  <2>1. sending = "data" /\ sending' = "no" /\ nextMsg' = nextMsg + 1 /\ UNCHANGED <<closed, receiving, len, msg, inbox>>
    BY <1>3 DEF WriteData, Finish, receiver
  <2>2. PICK n \in 0..Messages[nextMsg] :
          /\ wire' = wire \o Part(nextMsg, "data", n)
          /\ accepted' = IF n > 0 THEN Append(accepted, nextMsg) ELSE accepted
          /\ trouble' = (trouble \/ n < Messages[nextMsg])
    BY <1>3 DEF WriteData
  <2>3. nextMsg \in 1..Len(Messages) /\ Messages[nextMsg] \in Nat
    BY <2>1, MessageSizes DEF MsgShape
  <2>4. wire' \in Seq(Piece)
    <3>1. n \in Nat /\ Part(nextMsg, "data", n) \in [1..n -> Piece]
      BY <2>3, Parts
    <3> QED
      BY <2>2, <3>1, Joined DEF MsgShape
  <2>5. accepted' \in Seq(1..Len(Messages))
    BY <2>2, <2>3, Longer DEF MsgShape
  <2>6. nextMsg' \in 1..(Len(Messages) + 1) /\ trouble' \in BOOLEAN
    BY <2>1, <2>2, <2>3, MessageSizes
  <2> QED
    BY <2>1, <2>4, <2>5, <2>6 DEF MsgTypeOK, MsgShape
<1>4. CASE ReadHeader
  <2>1. receiving = "header" /\ wire # <<>> /\ UNCHANGED <<nextMsg, sending, accepted, closed>>
    BY <1>4 DEF ReadHeader, sender
  <2>2. PICK n \in 1..Smaller(HeaderSize, Len(wire)) :
          /\ Drop(n)
          /\ IF n < HeaderSize
               THEN trouble' = TRUE /\ UNCHANGED receiver
               ELSE /\ receiving' = "data" /\ msg' = <<>>
                    /\ len' \in LengthIn(SubSeq(wire, 1, HeaderSize))
                    /\ UNCHANGED <<inbox, trouble>>
    BY <1>4 DEF ReadHeader
  <2>3. wire \in Seq(Piece) /\ Len(wire) \in Nat \ {0} /\ n \in 1..Len(wire) /\ n <= HeaderSize
    <3>1. wire \in Seq(Piece) /\ Len(wire) \in Nat \ {0}
      BY <2>1, FirstAndRest DEF MsgShape
    <3> QED
      BY <3>1, MessageSizes DEF Smaller
  <2>4. wire' \in Seq(Piece)
    BY <2>2, <2>3, Dropped DEF Drop
  <2>5. CASE n < HeaderSize
    BY <2>1, <2>2, <2>4, <2>5 DEF MsgTypeOK, MsgShape, receiver
  <2>6. CASE ~(n < HeaderSize)
    <3>1. n = HeaderSize
      BY <2>3, <2>6, MessageSizes
    <3>2. SubSeq(wire, 1, HeaderSize)[1] \in Piece
      BY <2>3, <3>1, Dropped, MessageSizes
    <3>3. SubSeq(wire, 1, HeaderSize)[1][1] \in 1..Len(Messages)
      BY <3>2 DEF Piece
    <3>4. len' \in Nat
      BY <2>2, <2>6, <3>3, MessageSizes, MessageAssumption DEF LengthIn
    <3> QED
      BY <2>1, <2>2, <2>4, <2>6, <3>4 DEF MsgTypeOK, MsgShape
  <2> QED
    BY <2>5, <2>6
<1>5. CASE ReadData
  <2>1. UNCHANGED <<nextMsg, sending, accepted, closed, receiving, len, inbox, trouble>>
    BY <1>5 DEF ReadData, sender
  <2>2. PICK n \in 1..Len(wire) : msg' = msg \o SubSeq(wire, 1, n) /\ Drop(n)
    BY <1>5 DEF ReadData
  <2>3. wire' \in Seq(Piece) /\ SubSeq(wire, 1, n) \in Seq(Piece)
    BY <2>2, Dropped DEF Drop, MsgShape
  <2>4. msg' \in Seq(Piece)
    BY <2>2, <2>3, ConcatProperties DEF MsgShape
  <2> QED
    BY <2>1, <2>3, <2>4 DEF MsgTypeOK, MsgShape
<1>6. CASE RecvMsgReturns
  <2>1. /\ UNCHANGED <<nextMsg, sending, accepted, closed, wire, len, msg, trouble>>
        /\ receiving' = "header" /\ inbox' = Append(inbox, msg)
    BY <1>6 DEF RecvMsgReturns, Received, sender
  <2>2. inbox' \in Seq(Seq(Piece))
    BY <2>1, Longer DEF MsgShape
  <2> QED
    BY <2>1, <2>2 DEF MsgTypeOK, MsgShape
<1>7. CASE EndOfStream \/ ReadFails
  BY <1>7 DEF EndOfStream, ReadFails, sender, MsgTypeOK, MsgShape
<1> QED
  BY <1>1, <1>2, <1>3, <1>4, <1>5, <1>6, <1>7 DEF MsgNext, Sends, Receives

\* The messages that are begun, and where they are.
LEMMA BegunFacts ==
  ASSUME MsgTypeOK, MsgShape
  PROVE  /\ Begun \in Seq(1..Len(Messages)) /\ Len(accepted) \in Nat /\ Len(wire) \in Nat /\ Len(inbox) \in Nat
         /\ Len(msg) \in Nat
         /\ \A k \in 1..Len(Begun) : Begun[k] \in 1..Len(Messages) /\ Messages[Begun[k]] \in Nat
         /\ \A k \in 1..Len(accepted) : Begun[k] = accepted[k]
         /\ sending # "data" => Begun = accepted /\ Len(Begun) = Len(accepted)
         /\ sending = "data" => /\ Begun = Append(accepted, nextMsg) /\ Len(Begun) = Len(accepted) + 1
                                /\ Begun[Len(accepted) + 1] = nextMsg
<1>1. accepted \in Seq(1..Len(Messages)) /\ Len(accepted) \in Nat
  BY DEF MsgShape
<1>2. CASE sending # "data"
  BY <1>1, <1>2, ElementOfSeq, MessageSizes DEF Begun, MsgShape
<1>3. CASE sending = "data"
  <2>1. nextMsg \in 1..Len(Messages)
    BY <1>3 DEF MsgShape
  <2>2. /\ Begun = Append(accepted, nextMsg) /\ Begun \in Seq(1..Len(Messages)) /\ Len(Begun) = Len(accepted) + 1
        /\ \A k \in 1..Len(accepted) : Begun[k] = accepted[k]
        /\ Begun[Len(accepted) + 1] = nextMsg
    BY <1>1, <1>3, <2>1, Longer DEF Begun
  <2>3. \A k \in 1..Len(Begun) : Begun[k] \in 1..Len(Messages) /\ Messages[Begun[k]] \in Nat
    BY <2>2, ElementOfSeq, MessageSizes
  <2> QED
    BY <1>1, <1>3, <2>2, <2>3 DEF MsgShape
<1> QED
  BY <1>2, <1>3

\* The places of the messages that are begun.
Places == [1..(Len(Begun) + 1) -> Int]

\* Where the parts of an accepted message end.
LEMMA Ends ==
  ASSUME MsgTypeOK, MsgShape, NEW pos \in Places, Spaced(pos), NEW k \in 1..Len(accepted)
  PROVE  /\ \A j \in 1..HeaderSize : pos[k] + j <= Len(wire)
         /\ \A j \in 1..Messages[Begun[k]] : pos[k] + HeaderSize + j <= Len(wire)
<1>1. k \in 1..Len(Begun) /\ k \in 1..(Len(Begun) + 1) /\ Len(wire) \in Nat /\ Messages[Begun[k]] \in Nat
  BY BegunFacts
<1>2. pos[k] \in Int /\ HeaderSize \in Nat
  BY <1>1, MessageSizes DEF Places
<1>3. pos[k] + HeaderSize + Messages[Begun[k]] <= Len(wire)
  BY <1>1 DEF Spaced
<1>4. \A p \in Int : \A h, m, w \in Nat : p + h + m <= w =>
        (\A j \in 1..h : p + j <= w) /\ \A j \in 1..m : p + h + j <= w
  OBVIOUS
<1> QED
  BY <1>1, <1>2, <1>3, <1>4

\* The header of a message goes behind what is on the wire.
LEMMA WriteHeaderStep ==
  ASSUME MsgInv, WriteHeader, ~trouble'
  PROVE  LaidOut' /\ InStep'
<1> DEFINE N == Len(accepted)
<1>1. /\ sending = "header" /\ sending' = "data" /\ UNCHANGED <<nextMsg, trouble, accepted, closed, receiving, len, msg, inbox>>
      /\ wire' = wire \o Part(nextMsg, "header", HeaderSize)
  BY DEF WriteHeader, receiver
<1>2. nextMsg \in 1..Len(Messages) /\ Messages[nextMsg] \in Nat /\ HeaderSize \in Nat \ {0}
  BY <1>1, MessageSizes DEF MsgInv, MsgShape
<1>3. /\ Len(wire') = Len(wire) + HeaderSize /\ Len(wire) \in Nat
      /\ \A k \in 1..Len(wire) : wire'[k] = wire[k]
      /\ \A k \in 1..HeaderSize : wire'[Len(wire) + k] = <<nextMsg, "header", k>>
  <2>1. /\ Part(nextMsg, "header", HeaderSize) \in [1..HeaderSize -> Piece]
        /\ \A k \in 1..HeaderSize : Part(nextMsg, "header", HeaderSize)[k] = <<nextMsg, "header", k>>
    BY <1>2, Parts
  <2>2. wire \in Seq(Piece)
    BY DEF MsgInv, MsgShape
  <2> QED
    BY <1>1, <1>2, <2>1, <2>2, Joined
<1>4. /\ Begun = accepted /\ Len(Begun) = N /\ N \in Nat /\ Len(inbox) \in Nat
      /\ \A k \in 1..N : Messages[Begun[k]] \in Nat
  BY <1>1, BegunFacts DEF MsgInv
<1>5. MsgTypeOK' /\ MsgShape'
  BY MsgShapeStep DEF MsgInv, MsgNext, Sends
<1>6. /\ Len(Begun') = N + 1 /\ Begun'[N + 1] = nextMsg /\ \A k \in 1..N : Begun'[k] = Begun[k]
  <2>1. Begun' = Append(accepted, nextMsg) /\ accepted \in Seq(1..Len(Messages))
    BY <1>1 DEF Begun, MsgInv, MsgShape
  <2> QED
    BY <1>2, <1>4, <2>1, Longer
<1>7. PICK old \in Places : Spaced(old) /\ InPlace(old) /\ Reading(old)
  BY <1>1 DEF MsgInv, LaidOut, Laid, Places
<1>8. PICK pos \in [1..(Len(Begun') + 1) -> Int] :
        /\ \A k \in 1..(N + 1) : pos[k] = old[k] /\ old[k] \in Int
        /\ pos[N + 2] = Len(wire) + HeaderSize + Messages[nextMsg]
  <2> DEFINE new == [k \in 1..(N + 2) |-> IF k = N + 2 THEN Len(wire) + HeaderSize + Messages[nextMsg] ELSE old[k]]
  <2>1. \A k \in 1..(N + 1) : old[k] \in Int
    BY <1>4 DEF Places
  <2>2. N + 2 \in 1..(N + 2) /\ \A k \in 1..(N + 1) : k \in 1..(N + 2) /\ k # N + 2
    BY <1>4
  <2>3. Len(wire) + HeaderSize + Messages[nextMsg] \in Int /\ \A k \in 1..(N + 2) : k # N + 2 => k \in 1..(N + 1)
    BY <1>2, <1>3, <1>4
  <2>4. 1..(Len(Begun') + 1) = 1..(N + 2)
    BY <1>4, <1>6
  <2>5. /\ new \in [1..(Len(Begun') + 1) -> Int]
        /\ \A k \in 1..(N + 1) : new[k] = old[k] /\ old[k] \in Int
        /\ new[N + 2] = Len(wire) + HeaderSize + Messages[nextMsg]
    BY <2>1, <2>2, <2>3, <2>4
  <2> QED
    BY <2>5
<1> HIDE DEF N
<1>9. pos[N + 1] = Len(wire) /\ \A k \in 1..N : pos[k + 1] <= Len(wire) /\ pos[k + 1] = pos[k] + HeaderSize + Messages[Begun[k]]
  <2>1. N + 1 \in 1..(N + 1) /\ \A k \in 1..N : k \in 1..(N + 1) /\ k + 1 \in 1..(N + 1)
    BY <1>4
  <2>2. old[N + 1] = Len(wire)
    BY <1>1, <1>3, <1>4, <1>7 DEF Spaced
  <2>3. \A k \in 1..N : old[k + 1] <= Len(wire) /\ old[k + 1] = old[k] + HeaderSize + Messages[Begun[k]]
    BY <1>4, <1>7 DEF Spaced, N
  <2> QED
    BY <1>8, <2>1, <2>2, <2>3
<1>10. Spaced(pos)'
  <2>1. ASSUME NEW k \in 1..(N + 1) PROVE pos[k + 1] = pos[k] + HeaderSize + Messages[Begun'[k]]
    <3>1. CASE k \in 1..N
      BY <1>6, <1>9, <3>1
    <3>2. CASE k \notin 1..N
      <4>1. k = N + 1 /\ k + 1 = N + 2
        BY <1>4, <3>2
      <4> QED
        BY <1>6, <1>8, <1>9, <4>1
    <3> QED
      BY <3>1, <3>2
  <2>2. pos[(N + 1) + 1] = Len(wire') + Messages[nextMsg]
    BY <1>3, <1>4, <1>8
  <2>3. \A k \in 1..N : pos[k + 1] <= Len(wire')
    <3>1. \A k \in 1..N : pos[k + 1] \in Int
      <4>1. \A k \in 1..N : k + 1 \in 1..(N + 1)
        BY <1>4
      <4> QED
        BY <1>8, <4>1
    <3>2. Len(wire) \in Int /\ Len(wire') \in Int /\ Len(wire) <= Len(wire')
      BY <1>2, <1>3
    <3>3. \A k \in 1..N : pos[k + 1] <= Len(wire)
      BY <1>9
    <3> QED
      BY <3>1, <3>2, <3>3
  <2> QED
    BY <1>1, <1>6, <2>1, <2>2, <2>3 DEF Spaced, N
<1>11. InPlace(pos)'
  <2>1. ASSUME NEW k \in 1..(N + 1), NEW j \in 1..HeaderSize, pos[k] + j \in 1..Len(wire')
        PROVE  wire'[pos[k] + j] = <<Begun'[k], "header", j>>
    <3>1. CASE k \in 1..N
      <4>1. pos[k] = old[k]
        BY <1>4, <1>8, <3>1
      <4>2. pos[k] + j <= Len(wire)
        BY <1>7, <3>1, <4>1, Ends DEF MsgInv, N
      <4>3. pos[k] + j \in 1..Len(wire)
        BY <1>3, <2>1, <4>2
      <4>4. wire[pos[k] + j] = <<Begun[k], "header", j>>
        BY <1>4, <1>7, <3>1, <4>1, <4>3 DEF InPlace
      <4> QED
        BY <1>3, <1>6, <3>1, <4>3, <4>4
    <3>2. CASE k \notin 1..N
      <4>1. k = N + 1
        BY <1>4, <3>2
      <4> QED
        BY <1>3, <1>6, <1>9, <4>1
    <3> QED
      BY <3>1, <3>2
  <2>2. ASSUME NEW k \in 1..(N + 1), NEW j \in 1..Messages[Begun'[k]], pos[k] + HeaderSize + j \in 1..Len(wire')
        PROVE  wire'[pos[k] + HeaderSize + j] = <<Begun'[k], "data", j>>
    <3>1. CASE k \in 1..N
      <4>1. pos[k] = old[k] /\ Begun'[k] = Begun[k] /\ j \in 1..Messages[Begun[k]]
        BY <1>4, <1>6, <1>8, <3>1
      <4>2. pos[k] + HeaderSize + j <= Len(wire)
        <5>1. k \in 1..Len(accepted)
          BY <3>1 DEF N
        <5>2. old[k] + HeaderSize + j <= Len(wire)
          BY <1>7, <4>1, <5>1, Ends DEF MsgInv
        <5> QED
          BY <4>1, <5>2
      <4>3. pos[k] + HeaderSize + j \in 1..Len(wire)
        BY <1>3, <2>2, <4>2
      <4>4. wire[pos[k] + HeaderSize + j] = <<Begun[k], "data", j>>
        BY <1>4, <1>7, <3>1, <4>1, <4>3 DEF InPlace
      <4> QED
        BY <1>3, <4>1, <4>3, <4>4
    <3>2. CASE k \notin 1..N
      <4>1. k = N + 1 /\ j \in 1..Messages[nextMsg]
        BY <1>4, <1>6, <3>2
      <4>2. pos[k] + HeaderSize + j > Len(wire')
        <5>1. pos[k] = Len(wire)
          BY <1>9, <4>1
        <5>2. HeaderSize \in Nat /\ Len(wire) \in Nat /\ Len(wire') = Len(wire) + HeaderSize /\ j \in Nat /\ j >= 1
          BY <1>2, <1>3, <4>1
        <5> QED
          BY <5>1, <5>2
      <4> QED
        BY <1>2, <1>3, <2>2, <4>2
    <3> QED
      BY <3>1, <3>2
  <2> QED
    BY <1>6, <2>1, <2>2 DEF InPlace
<1>12. Reading(pos)'
  <2>1. Len(inbox) <= N
    BY <1>7 DEF Reading, N
  <2>2. Len(inbox) + 1 \in 1..(N + 1) /\ pos[Len(inbox) + 1] = old[Len(inbox) + 1]
    BY <1>4, <1>8, <2>1
  <2>3. CASE receiving = "header"
    BY <1>1, <1>7, <2>1, <2>2, <2>3 DEF Reading, N
  <2>4. CASE receiving = "data"
    <3>1. /\ Len(inbox) + 1 <= N /\ old[Len(inbox) + 1] = 0 - (HeaderSize + Len(msg))
          /\ len = Messages[Begun[Len(inbox) + 1]] /\ Len(msg) <= len
          /\ \A j \in 1..Len(msg) : msg[j] = <<Begun[Len(inbox) + 1], "data", j>>
      BY <1>4, <1>7, <2>4 DEF Reading
    <3>2. Begun'[Len(inbox) + 1] = Begun[Len(inbox) + 1] /\ Len(inbox) + 1 <= N + 1
      BY <1>4, <1>6, <3>1
    <3> QED
      BY <1>1, <1>6, <2>1, <2>2, <2>4, <3>1, <3>2 DEF Reading, N
  <2> QED
    BY <1>1, <2>3, <2>4 DEF MsgInv, MsgTypeOK
<1>13. LaidOut'
  BY <1>8, <1>10, <1>11, <1>12 DEF LaidOut, Laid
<1>14. InStep'
  BY <1>1 DEF MsgInv, InStep
<1> QED
  BY <1>13, <1>14

\* The bytes of a message go behind its header; nothing else moves.
LEMMA WriteDataStep ==
  ASSUME MsgInv, WriteData, ~trouble'
  PROVE  LaidOut' /\ InStep'
<1> DEFINE N == Len(accepted)
<1> DEFINE size == Messages[nextMsg]
<1>1. sending = "data" /\ sending' = "no" /\ UNCHANGED <<receiving, len, msg, inbox>>
  BY DEF WriteData, Finish, receiver
<1>2. nextMsg \in 1..Len(Messages) /\ size \in Nat \ {0} /\ HeaderSize \in Nat \ {0}
  BY <1>1, MessageSizes DEF MsgInv, MsgShape
<1>3. /\ wire' = wire \o Part(nextMsg, "data", size) /\ accepted' = Append(accepted, nextMsg) /\ ~trouble
  <2>1. PICK n \in 0..size :
          /\ wire' = wire \o Part(nextMsg, "data", n)
          /\ accepted' = IF n > 0 THEN Append(accepted, nextMsg) ELSE accepted
          /\ trouble' = (trouble \/ n < size)
    BY DEF WriteData
  <2>2. ~(n < size) /\ ~trouble
    BY <2>1
  <2>3. n = size /\ n > 0
    BY <1>2, <2>2
  <2> QED
    BY <2>1, <2>2, <2>3
<1>4. /\ Len(wire') = Len(wire) + size /\ Len(wire) \in Nat
      /\ \A k \in 1..Len(wire) : wire'[k] = wire[k]
      /\ \A k \in 1..size : wire'[Len(wire) + k] = <<nextMsg, "data", k>>
  <2> HIDE DEF size
  <2>1. Part(nextMsg, "data", size) \in [1..size -> Piece] /\ \A k \in 1..size : Part(nextMsg, "data", size)[k] = <<nextMsg, "data", k>>
    BY <1>2, Parts
  <2>2. wire \in Seq(Piece)
    BY DEF MsgInv, MsgShape
  <2> QED
    BY <1>2, <1>3, <2>1, <2>2, Joined
<1>5. /\ Len(Begun) = N + 1 /\ Begun[N + 1] = nextMsg /\ N \in Nat /\ Len(inbox) \in Nat
      /\ Begun' = Begun /\ accepted' = Begun /\ \A k \in 1..N : Begun[k] = accepted[k] /\ Messages[Begun[k]] \in Nat
  <2>1. Begun = Append(accepted, nextMsg) /\ Len(Begun) = N + 1 /\ Begun[N + 1] = nextMsg /\ N \in Nat /\ Len(inbox) \in Nat
    BY <1>1, BegunFacts DEF MsgInv
  <2>2. \A k \in 1..N : Begun[k] = accepted[k] /\ Messages[Begun[k]] \in Nat
    <3>1. /\ \A k \in 1..Len(accepted) : Begun[k] = accepted[k]
          /\ \A k \in 1..Len(Begun) : Messages[Begun[k]] \in Nat
      BY BegunFacts DEF MsgInv
    <3>2. \A k \in 1..N : k \in 1..Len(Begun)
      BY <2>1
    <3> QED
      BY <3>1, <3>2
  <2>3. Begun' = accepted'
    BY <1>1 DEF Begun
  <2> QED
    BY <1>3, <2>1, <2>2, <2>3
<1>6. PICK pos \in Places : Spaced(pos) /\ InPlace(pos) /\ Reading(pos)
  BY <1>3 DEF MsgInv, LaidOut, Laid, Places
<1>7. \A k \in 1..(N + 2) : pos[k] \in Int
  BY <1>5 DEF Places
<1>8. /\ \A k \in 1..N : pos[k + 1] <= Len(wire)
      /\ \A k \in 1..(N + 1) : pos[k + 1] = pos[k] + HeaderSize + Messages[Begun[k]]
      /\ pos[N + 2] = Len(wire) + size
  <2>1. (N + 1) + 1 = N + 2
    BY <1>5
  <2> QED
    BY <1>1, <1>5, <1>6, <2>1 DEF Spaced
<1>9. pos[N + 1] = Len(wire) - HeaderSize
  <2>1. N + 1 \in 1..(N + 1) /\ N + 1 \in 1..(N + 2) /\ (N + 1) + 1 = N + 2
    BY <1>5
  <2>2. pos[N + 2] = pos[N + 1] + HeaderSize + size /\ pos[N + 1] \in Int
    BY <1>5, <1>7, <1>8, <2>1
  <2>3. size \in Nat /\ HeaderSize \in Nat /\ Len(wire) \in Nat /\ pos[N + 2] = Len(wire) + size
    BY <1>2, <1>4, <1>8
  <2> HIDE DEF size, N
  <2> QED
    BY <2>2, <2>3
<1> HIDE DEF N, size
<1>10. Spaced(pos)'
  <2>1. ASSUME NEW k \in 1..(N + 1) PROVE pos[k + 1] <= Len(wire')
    <3>1. k + 1 \in 1..(N + 2) /\ pos[k + 1] \in Int
      BY <1>5, <1>7
    <3>2. CASE k \in 1..N
      BY <1>2, <1>4, <1>8, <3>1, <3>2
    <3>3. CASE k \notin 1..N
      <4>1. k + 1 = N + 2
        BY <1>5, <3>3
      <4> QED
        BY <1>2, <1>4, <1>8, <4>1
    <3> QED
      BY <3>2, <3>3
  <2>2. pos[(N + 1) + 1] = Len(wire') + 0
    <3>1. (N + 1) + 1 = N + 2
      BY <1>5
    <3> QED
      BY <1>2, <1>4, <1>8, <3>1
  <2> QED
    BY <1>1, <1>5, <1>8, <2>1, <2>2 DEF Spaced
<1>11. InPlace(pos)'
  <2>1. ASSUME NEW k \in 1..(N + 1), NEW j \in 1..HeaderSize, pos[k] + j \in 1..Len(wire')
        PROVE  wire'[pos[k] + j] = <<Begun[k], "header", j>>
    <3>1. pos[k] + j <= Len(wire)
      <4>1. CASE k \in 1..N
        BY <1>6, <4>1, Ends DEF MsgInv, N
      <4>2. CASE k \notin 1..N
        <5>1. k = N + 1
          BY <1>5, <4>2
        <5> QED
          BY <1>2, <1>4, <1>9, <5>1
      <4> QED
        BY <4>1, <4>2
    <3>2. pos[k] + j \in 1..Len(wire)
      BY <1>4, <2>1, <3>1
    <3>3. wire[pos[k] + j] = <<Begun[k], "header", j>>
      BY <1>5, <1>6, <3>2 DEF InPlace
    <3> QED
      BY <1>4, <3>2, <3>3
  <2>2. ASSUME NEW k \in 1..(N + 1), NEW j \in 1..Messages[Begun[k]], pos[k] + HeaderSize + j \in 1..Len(wire')
        PROVE  wire'[pos[k] + HeaderSize + j] = <<Begun[k], "data", j>>
    <3>1. CASE k \in 1..N
      <4>1. pos[k] + HeaderSize + j <= Len(wire)
        BY <1>6, <3>1, Ends DEF MsgInv, N
      <4>2. pos[k] + HeaderSize + j \in 1..Len(wire)
        BY <1>4, <2>2, <4>1
      <4>3. wire[pos[k] + HeaderSize + j] = <<Begun[k], "data", j>>
        BY <1>5, <1>6, <4>2 DEF InPlace
      <4> QED
        BY <1>4, <4>2, <4>3
    <3>2. CASE k \notin 1..N
      <4>1. k = N + 1
        BY <1>5, <3>2
      <4>2. j \in 1..size /\ Begun[k] = nextMsg
        BY <1>5, <4>1 DEF size
      <4>3. pos[k] + HeaderSize + j = Len(wire) + j
        BY <1>2, <1>4, <1>9, <4>1, <4>2
      <4> QED
        BY <1>4, <4>2, <4>3
    <3> QED
      BY <3>1, <3>2
  <2> QED
    BY <1>5, <2>1, <2>2 DEF InPlace
<1>12. Reading(pos)'
  <2>1. Len(inbox) <= N /\ Len(accepted') = N + 1 /\ Len(inbox) <= N + 1
    BY <1>5, <1>6 DEF Reading, N
  <2>2. UNCHANGED <<Begun, receiving, len, msg, inbox>>
    BY <1>1, <1>5
  <2> QED
    BY <1>6, <2>1, <2>2 DEF Reading
<1>13. LaidOut'
  <2>1. pos \in [1..(Len(Begun') + 1) -> Int]
    BY <1>5 DEF Places
  <2> QED
    BY <1>10, <1>11, <1>12, <2>1 DEF LaidOut, Laid
<1>14. InStep'
  <2>1. \A k \in 1..Len(inbox) : k \in 1..N /\ accepted'[k] = accepted[k]
    BY <1>3, <1>5 DEF MsgInv, InStep, N
  <2>2. Len(inbox) <= Len(accepted')
    BY <1>3, <1>5 DEF MsgInv, InStep, N
  <2> QED
    BY <1>1, <1>3, <2>1, <2>2 DEF MsgInv, InStep
<1> QED
  BY <1>13, <1>14

\* What the receiver reads is gone; the rest moves up.
LEMMA Moved ==
  ASSUME MsgTypeOK, MsgShape, UNCHANGED <<nextMsg, sending, accepted>>,
         NEW old \in Places, Spaced(old), InPlace(old), NEW n \in 1..Len(wire), Drop(n)
  PROVE  \E pos \in Places :
           /\ pos \in Places' /\ Spaced(pos)' /\ InPlace(pos)'
           /\ \A k \in 1..(Len(Begun) + 1) : pos[k] = old[k] - n
<1>1. /\ Begun' = Begun /\ Len(Begun) \in Nat /\ Len(accepted) \in Nat /\ Len(accepted) <= Len(Begun)
      /\ \A k \in 1..Len(Begun) : Messages[Begun[k]] \in Nat
  BY BegunFacts DEF Begun
<1>2. HeaderSize \in Nat /\ n \in Nat /\ Len(wire) \in Nat /\ n <= Len(wire)
  BY BegunFacts, MessageSizes
<1>3. Len(wire') = Len(wire) - n /\ \A k \in 1..(Len(wire) - n) : wire'[k] = wire[n + k]
  <2>1. wire \in Seq(Piece)
    BY DEF MsgShape
  <2> QED
    BY <2>1, Dropped DEF Drop
<1>4. \A k \in 1..(Len(Begun) + 1) : old[k] \in Int
  BY DEF Places
<1>5. PICK pos \in Places : \A k \in 1..(Len(Begun) + 1) : pos[k] = old[k] - n
  <2> DEFINE new == [k \in 1..(Len(Begun) + 1) |-> old[k] - n]
  <2>1. new \in Places /\ \A k \in 1..(Len(Begun) + 1) : new[k] = old[k] - n
    BY <1>2, <1>4 DEF Places
  <2> HIDE DEF new
  <2> QED
    BY <2>1
<1>6. \A k \in 1..Len(Begun) : k \in 1..(Len(Begun) + 1) /\ k + 1 \in 1..(Len(Begun) + 1)
  BY <1>1
<1>7. Spaced(pos)'
  <2>1. ASSUME NEW k \in 1..Len(Begun) PROVE pos[k + 1] = pos[k] + HeaderSize + Messages[Begun[k]]
    <3>1. old[k + 1] = old[k] + HeaderSize + Messages[Begun[k]]
      BY DEF Spaced
    <3>2. pos[k + 1] = old[k + 1] - n /\ pos[k] = old[k] - n /\ old[k] \in Int /\ Messages[Begun[k]] \in Nat
      BY <1>1, <1>4, <1>5, <1>6
    <3> QED
      BY <1>2, <3>1, <3>2
  <2>2. pos[Len(Begun) + 1] = Len(wire') + IF sending = "data" THEN Messages[nextMsg] ELSE 0
    <3>1. Len(Begun) + 1 \in 1..(Len(Begun) + 1)
      BY <1>1
    <3>2. pos[Len(Begun) + 1] = old[Len(Begun) + 1] - n
      BY <1>5, <3>1
    <3>3. old[Len(Begun) + 1] = Len(wire) + IF sending = "data" THEN Messages[nextMsg] ELSE 0
      BY DEF Spaced
    <3>4. CASE sending = "data"
      <4>1. Messages[nextMsg] \in Nat
        BY <3>4, MessageSizes DEF MsgShape
      <4> QED
        BY <1>2, <1>3, <3>2, <3>3, <3>4, <4>1
    <3>5. CASE sending # "data"
      BY <1>2, <1>3, <3>2, <3>3, <3>5
    <3> QED
      BY <3>4, <3>5
  <2>3. ASSUME NEW k \in 1..Len(accepted) PROVE pos[k + 1] <= Len(wire')
    <3>1. k + 1 \in 1..(Len(Begun) + 1) /\ old[k + 1] <= Len(wire)
      BY <1>1 DEF Spaced
    <3>2. pos[k + 1] = old[k + 1] - n /\ old[k + 1] \in Int
      BY <1>4, <1>5, <3>1
    <3> QED
      BY <1>2, <1>3, <3>1, <3>2
  <2> QED
    BY <1>1, <2>1, <2>2, <2>3 DEF Spaced
<1>8. InPlace(pos)'
  <2>1. ASSUME NEW q \in Int, q - n \in 1..Len(wire') PROVE q \in 1..Len(wire) /\ wire'[q - n] = wire[q]
    <3>1. q - n \in 1..(Len(wire) - n) /\ n + (q - n) = q /\ q \in 1..Len(wire)
      BY <1>2, <1>3, <2>1
    <3>2. wire'[q - n] = wire[n + (q - n)]
      BY <1>3, <3>1
    <3> QED
      BY <3>1, <3>2
  <2>2. ASSUME NEW k \in 1..Len(Begun), NEW j \in 1..HeaderSize, pos[k] + j \in 1..Len(wire')
        PROVE  wire'[pos[k] + j] = <<Begun[k], "header", j>>
    <3>1. old[k] \in Int /\ pos[k] = old[k] - n
      BY <1>4, <1>5, <1>6
    <3>2. old[k] + j \in Int /\ pos[k] + j = (old[k] + j) - n
      BY <1>2, <3>1
    <3>3. old[k] + j \in 1..Len(wire) /\ wire'[pos[k] + j] = wire[old[k] + j]
      BY <2>1, <2>2, <3>2
    <3> QED
      BY <3>3 DEF InPlace
  <2>3. ASSUME NEW k \in 1..Len(Begun), NEW j \in 1..Messages[Begun[k]], pos[k] + HeaderSize + j \in 1..Len(wire')
        PROVE  wire'[pos[k] + HeaderSize + j] = <<Begun[k], "data", j>>
    <3>1. old[k] \in Int /\ pos[k] = old[k] - n
      BY <1>4, <1>5, <1>6
    <3>2. old[k] + HeaderSize + j \in Int /\ pos[k] + HeaderSize + j = (old[k] + HeaderSize + j) - n
      BY <1>1, <1>2, <3>1
    <3>3. old[k] + HeaderSize + j \in 1..Len(wire) /\ wire'[pos[k] + HeaderSize + j] = wire[old[k] + HeaderSize + j]
      BY <2>1, <2>3, <3>2
    <3> QED
      BY <3>3 DEF InPlace
  <2> QED
    BY <1>1, <2>2, <2>3 DEF InPlace
<1> QED
  BY <1>1, <1>5, <1>7, <1>8 DEF Places

\* A header that is read whole is the one of the next message.
LEMMA ReadHeaderStep ==
  ASSUME MsgInv, ReadHeader, ~trouble'
  PROVE  LaidOut' /\ InStep'
<1> DEFINE N == Len(inbox)
<1>1. receiving = "header" /\ wire # <<>> /\ UNCHANGED <<nextMsg, sending, accepted, closed>>
  BY DEF ReadHeader, sender
<1>2. wire \in Seq(Piece) /\ Len(wire) \in Nat \ {0} /\ HeaderSize \in Nat \ {0}
  BY <1>1, FirstAndRest, MessageSizes DEF MsgInv, MsgShape
<1>3. PICK n \in 1..Smaller(HeaderSize, Len(wire)) :
        /\ Drop(n)
        /\ IF n < HeaderSize
             THEN trouble' = TRUE /\ UNCHANGED receiver
             ELSE /\ receiving' = "data" /\ msg' = <<>>
                  /\ len' \in LengthIn(SubSeq(wire, 1, HeaderSize))
                  /\ UNCHANGED <<inbox, trouble>>
  BY DEF ReadHeader
<1>4. /\ n = HeaderSize /\ n \in 1..Len(wire) /\ receiving' = "data" /\ msg' = <<>> /\ UNCHANGED <<inbox, trouble>>
      /\ len' \in LengthIn(SubSeq(wire, 1, HeaderSize)) /\ ~trouble /\ Len(msg') = 0
  <2>1. ~(n < HeaderSize)
    BY <1>3
  <2>2. n = HeaderSize /\ n \in 1..Len(wire)
    BY <1>2, <2>1 DEF Smaller
  <2> QED
    BY <1>3, <2>1, <2>2
<1>5. /\ Begun' = Begun /\ Len(Begun) \in Nat /\ N \in Nat /\ Len(accepted) \in Nat /\ Len(accepted) <= Len(Begun)
      /\ \A k \in 1..Len(Begun) : Begun[k] \in 1..Len(Messages)
      /\ sending # "data" => Begun = accepted
  <2>1. Begun' = Begun
    BY <1>1 DEF Begun
  <2>2. /\ Len(Begun) \in Nat /\ N \in Nat /\ Len(accepted) \in Nat /\ Len(accepted) <= Len(Begun)
        /\ \A k \in 1..Len(Begun) : Begun[k] \in 1..Len(Messages)
        /\ sending # "data" => Begun = accepted
    BY BegunFacts DEF MsgInv
  <2> QED
    BY <2>1, <2>2
<1>6. PICK old \in Places : Spaced(old) /\ InPlace(old) /\ Reading(old)
  BY <1>4 DEF MsgInv, LaidOut, Laid, Places
<1>7. old[N + 1] = 0 /\ N <= Len(accepted)
  BY <1>1, <1>6 DEF Reading
<1>8. N + 1 \in 1..Len(Begun) /\ N + 1 \in 1..(Len(Begun) + 1)
  <2>1. old[Len(Begun) + 1] > 0
    <3>1. CASE sending = "data"
      <4>1. Messages[nextMsg] \in Nat
        BY <3>1, MessageSizes DEF MsgInv, MsgShape
      <4> QED
        BY <1>2, <1>6, <3>1, <4>1 DEF Spaced
    <3>2. CASE sending # "data"
      BY <1>2, <1>6, <3>2 DEF Spaced
    <3> QED
      BY <3>1, <3>2
  <2>2. N # Len(Begun)
    BY <1>7, <2>1
  <2> QED
    BY <1>5, <1>7, <2>2
<1> DEFINE m == Begun[N + 1]
<1>9. len' = Messages[m]
  <2>1. m \in 1..Len(Messages)
    BY <1>5, <1>8
  <2>2. \A j \in 1..HeaderSize : wire[j] = <<m, "header", j>>
    <3>1. ASSUME NEW j \in 1..HeaderSize PROVE wire[j] = <<m, "header", j>>
      <4>1. old[N + 1] + j = j /\ j \in 1..Len(wire)
        BY <1>2, <1>4, <1>7
      <4> QED
        BY <1>6, <1>8, <4>1 DEF InPlace
    <3> QED
      BY <3>1
  <2>3. /\ SubSeq(wire, 1, HeaderSize) \in [1..HeaderSize -> Piece]
        /\ \A j \in 1..HeaderSize : SubSeq(wire, 1, HeaderSize)[j] = wire[j]
    BY <1>2, <1>4, Dropped
  <2>4. /\ Part(m, "header", HeaderSize) \in [1..HeaderSize -> Piece]
        /\ \A j \in 1..HeaderSize : Part(m, "header", HeaderSize)[j] = <<m, "header", j>>
    BY <1>2, <2>1, Parts
  <2>5. SubSeq(wire, 1, HeaderSize) = Part(m, "header", HeaderSize)
    <3> DEFINE one == SubSeq(wire, 1, HeaderSize)
    <3> DEFINE two == Part(m, "header", HeaderSize)
    <3>1. /\ one \in [1..HeaderSize -> Piece] /\ two \in [1..HeaderSize -> Piece]
          /\ \A j \in 1..HeaderSize : one[j] = two[j]
      BY <2>2, <2>3, <2>4
    <3> HIDE DEF one, two
    <3>2. one = [j \in 1..HeaderSize |-> one[j]] /\ two = [j \in 1..HeaderSize |-> two[j]]
      BY <3>1
    <3>3. [j \in 1..HeaderSize |-> one[j]] = [j \in 1..HeaderSize |-> two[j]]
      BY <3>1
    <3> QED
      BY <3>2, <3>3 DEF one, two
  <2>6. SubSeq(wire, 1, HeaderSize)[1][1] = m
    BY <1>2, <2>2, <2>3
  <2> HIDE DEF m
  <2> QED
    BY <1>4, <2>5, <2>6 DEF LengthIn
<1>10. PICK pos \in Places :
         /\ pos \in Places' /\ Spaced(pos)' /\ InPlace(pos)'
         /\ \A k \in 1..(Len(Begun) + 1) : pos[k] = old[k] - n
  BY <1>1, <1>3, <1>4, <1>6, Moved DEF MsgInv
<1>11. Reading(pos)'
  <2>1. pos[N + 1] = 0 - (HeaderSize + 0)
    BY <1>2, <1>4, <1>7, <1>8, <1>10
  <2>2. N + 1 <= Len(Begun) /\ Messages[m] >= 0
    BY <1>5, <1>8, MessageSizes
  <2>3. \A j \in 1..Len(msg') : FALSE
    BY <1>4
  <2> QED
    BY <1>1, <1>4, <1>5, <1>7, <1>9, <2>1, <2>2, <2>3 DEF Reading
<1>12. LaidOut'
  BY <1>10, <1>11 DEF LaidOut, Laid, Places
<1>13. InStep'
  BY <1>1, <1>4 DEF MsgInv, InStep
<1> QED
  BY <1>12, <1>13

\* The bytes that are read go on where the message was.
LEMMA ReadDataStep ==
  ASSUME MsgInv, ReadData, ~trouble'
  PROVE  LaidOut' /\ InStep'
<1> DEFINE N == Len(inbox)
<1> DEFINE m == Begun[N + 1]
<1>1. receiving = "data" /\ UNCHANGED <<nextMsg, sending, accepted, closed, receiving, len, inbox, trouble>>
  BY DEF ReadData, sender
<1>2. PICK n \in 1..Len(wire) : n <= len - Len(msg) /\ msg' = msg \o SubSeq(wire, 1, n) /\ Drop(n)
  BY DEF ReadData
<1>3. /\ Len(Begun) \in Nat /\ N \in Nat /\ Len(accepted) \in Nat /\ Len(wire) \in Nat /\ Len(msg) \in Nat
      /\ HeaderSize \in Nat /\ len \in Nat /\ n \in Nat
  BY BegunFacts, MessageSizes DEF MsgInv, MsgTypeOK
<1>4. Begun' = Begun
  BY <1>1 DEF Begun
<1>5. PICK old \in Places : Spaced(old) /\ InPlace(old) /\ Reading(old)
  BY <1>1 DEF MsgInv, LaidOut, Laid, Places
<1>6. /\ N <= Len(accepted) /\ N + 1 <= Len(Begun) /\ old[N + 1] = 0 - (HeaderSize + Len(msg)) /\ len = Messages[m]
      /\ Len(msg) <= len /\ \A j \in 1..Len(msg) : msg[j] = <<m, "data", j>>
  BY <1>1, <1>5 DEF Reading
<1>7. N + 1 \in 1..Len(Begun) /\ N + 1 \in 1..(Len(Begun) + 1)
  BY <1>3, <1>6
<1>8. PICK pos \in Places :
        /\ pos \in Places' /\ Spaced(pos)' /\ InPlace(pos)'
        /\ \A k \in 1..(Len(Begun) + 1) : pos[k] = old[k] - n
  BY <1>1, <1>2, <1>5, Moved DEF MsgInv
<1>9. /\ Len(msg') = Len(msg) + n
      /\ \A j \in 1..Len(msg) : msg'[j] = msg[j]
      /\ \A j \in 1..n : msg'[Len(msg) + j] = wire[j]
  <2>1. msg \in Seq(Piece) /\ wire \in Seq(Piece)
    BY DEF MsgInv, MsgShape
  <2>2. SubSeq(wire, 1, n) \in [1..n -> Piece] /\ \A j \in 1..n : SubSeq(wire, 1, n)[j] = wire[j]
    BY <2>1, Dropped
  <2> QED
    BY <1>2, <1>3, <2>1, <2>2, Joined
<1>10. ASSUME NEW j \in 1..Len(msg') PROVE msg'[j] = <<m, "data", j>>
  <2>1. CASE j \in 1..Len(msg)
    BY <1>6, <1>9, <2>1
  <2>2. CASE j \notin 1..Len(msg)
    <3>1. j - Len(msg) \in 1..n /\ Len(msg) + (j - Len(msg)) = j /\ j \in 1..len
      BY <1>2, <1>3, <1>9, <2>2
    <3>2. old[N + 1] + HeaderSize + j = j - Len(msg) /\ j - Len(msg) \in 1..Len(wire)
      BY <1>3, <1>6, <3>1
    <3>3. wire[old[N + 1] + HeaderSize + j] = <<m, "data", j>>
      BY <1>5, <1>6, <1>7, <3>1, <3>2 DEF InPlace
    <3> QED
      BY <1>9, <3>1, <3>2, <3>3
  <2> QED
    BY <2>1, <2>2
<1>11. Reading(pos)'
  <2>1. pos[N + 1] = 0 - (HeaderSize + Len(msg')) /\ Len(msg') <= len
    <3>1. pos[N + 1] = old[N + 1] - n
      BY <1>7, <1>8
    <3> QED
      BY <1>2, <1>3, <1>6, <1>9, <3>1
  <2> QED
    BY <1>1, <1>4, <1>6, <1>10, <2>1 DEF Reading
<1>12. LaidOut'
  BY <1>8, <1>11 DEF LaidOut, Laid, Places
<1>13. InStep'
  BY <1>1 DEF MsgInv, InStep
<1> QED
  BY <1>12, <1>13

\* A message is returned when it is whole, and the next one begins there.
LEMMA ReturnsStep ==
  ASSUME MsgInv, RecvMsgReturns, ~trouble'
  PROVE  LaidOut' /\ InStep'
<1> DEFINE N == Len(inbox)
<1> DEFINE m == Begun[N + 1]
<1>1. /\ receiving = "data" /\ ~Missing /\ receiving' = "header" /\ inbox' = Append(inbox, msg)
      /\ UNCHANGED <<nextMsg, sending, accepted, closed, wire, len, msg, trouble>>
  BY DEF RecvMsgReturns, Received, sender
<1>2. /\ Len(Begun) \in Nat /\ N \in Nat /\ Len(accepted) \in Nat /\ Len(wire) \in Nat /\ Len(msg) \in Nat
      /\ HeaderSize \in Nat /\ len \in Nat
      /\ sending # "data" => Len(Begun) = Len(accepted)
      /\ sending = "data" => Len(Begun) = Len(accepted) + 1
      /\ \A k \in 1..Len(accepted) : Begun[k] = accepted[k]
  BY BegunFacts, MessageSizes DEF MsgInv, MsgTypeOK
<1>3. Begun' = Begun
  BY <1>1 DEF Begun
<1>4. PICK pos \in Places : Spaced(pos) /\ InPlace(pos) /\ Reading(pos)
  BY <1>1 DEF MsgInv, LaidOut, Laid, Places
<1>5. /\ N <= Len(accepted) /\ N + 1 <= Len(Begun) /\ pos[N + 1] = 0 - (HeaderSize + Len(msg)) /\ len = Messages[m]
      /\ Len(msg) <= len /\ \A j \in 1..Len(msg) : msg[j] = <<m, "data", j>>
  BY <1>1, <1>4 DEF Reading
<1>6. N + 1 \in 1..Len(Begun) /\ Len(msg) = len
  <2>1. ~(Len(msg) < len)
    BY <1>1 DEF Missing
  <2> QED
    BY <1>2, <1>5, <2>1
<1>7. pos[(N + 1) + 1] = 0
  <2>1. pos[(N + 1) + 1] = pos[N + 1] + HeaderSize + Messages[m]
    BY <1>4, <1>6 DEF Spaced
  <2>2. pos[N + 1] = 0 - (HeaderSize + len) /\ Messages[m] = len
    BY <1>5, <1>6
  <2>3. \A a, b \in Nat : (0 - (a + b)) + a + b = 0
    OBVIOUS
  <2>4. (0 - (HeaderSize + len)) + HeaderSize + len = 0
    BY <1>2, <2>3
  <2> QED
    BY <2>1, <2>2, <2>4
<1>8. N + 1 <= Len(accepted)
  <2>1. CASE sending = "data"
    <3>1. Messages[nextMsg] > 0 /\ Messages[nextMsg] \in Nat
      BY <2>1, MessageSizes DEF MsgInv, MsgShape
    <3>2. pos[Len(Begun) + 1] = Len(wire) + Messages[nextMsg]
      BY <1>4, <2>1 DEF Spaced
    <3>3. pos[Len(Begun) + 1] # 0
      BY <1>2, <3>1, <3>2
    <3>4. N + 1 # Len(Begun)
      BY <1>7, <3>3
    <3> QED
      BY <1>2, <1>5, <2>1, <3>4
  <2>2. CASE sending # "data"
    BY <1>2, <1>5, <2>2
  <2> QED
    BY <2>1, <2>2
<1>9. Len(inbox') = N + 1 /\ inbox'[N + 1] = msg /\ \A k \in 1..N : inbox'[k] = inbox[k]
  <2>1. inbox \in Seq(Seq(Piece)) /\ msg \in Seq(Piece)
    BY DEF MsgInv, MsgShape
  <2> QED
    BY <1>1, <2>1, Longer
<1>10. LaidOut'
  <2>1. Spaced(pos)' /\ InPlace(pos)'
    BY <1>1, <1>3, <1>4 DEF Spaced, InPlace
  <2>2. Reading(pos)'
    BY <1>1, <1>7, <1>8, <1>9 DEF Reading
  <2> QED
    BY <1>3, <2>1, <2>2 DEF LaidOut, Laid, Places
<1>11. msg = Part(accepted[N + 1], "data", Messages[accepted[N + 1]])
  <2>1. m = accepted[N + 1] /\ m \in 1..Len(Messages)
    <3>1. N + 1 \in 1..Len(accepted)
      BY <1>2, <1>8
    <3> QED
      BY <1>2, <3>1, ElementOfSeq DEF MsgInv, MsgShape
  <2>2. msg \in [1..len -> Piece]
    BY <1>6, LenProperties DEF MsgInv, MsgShape
  <2>3. /\ Part(m, "data", len) \in [1..len -> Piece]
        /\ \A j \in 1..len : Part(m, "data", len)[j] = <<m, "data", j>>
    BY <1>2, <2>1, Parts
  <2>4. msg = Part(m, "data", len)
    <3> DEFINE one == Part(m, "data", len)
    <3>1. one \in [1..len -> Piece] /\ \A j \in 1..len : msg[j] = one[j]
      BY <1>5, <1>6, <2>3
    <3> HIDE DEF one
    <3>2. msg = [j \in 1..len |-> msg[j]] /\ one = [j \in 1..len |-> one[j]]
      BY <2>2, <3>1
    <3>3. [j \in 1..len |-> msg[j]] = [j \in 1..len |-> one[j]]
      BY <3>1
    <3> QED
      BY <3>2, <3>3 DEF one
  <2> HIDE DEF m
  <2> QED
    BY <1>5, <2>1, <2>4
<1>12. InStep'
  <2>1. ASSUME NEW k \in 1..(N + 1) PROVE inbox'[k] = Part(accepted[k], "data", Messages[accepted[k]])
    <3>1. CASE k \in 1..N
      BY <1>1, <1>9, <3>1 DEF MsgInv, InStep
    <3>2. CASE k \notin 1..N
      <4>1. k = N + 1
        BY <1>2, <3>2
      <4> QED
        BY <1>9, <1>11, <4>1
    <3> QED
      BY <3>1, <3>2
  <2> QED
    BY <1>1, <1>8, <1>9, <2>1 DEF InStep
<1> QED
  BY <1>10, <1>12

\* The invariant is inductive for the message sockets.
LEMMA MsgStep ==
  ASSUME MsgInv, [MsgNext]_msgvars
  PROVE  MsgInv'
<1>1. CASE MsgNext
  <2>1. MsgTypeOK' /\ MsgShape'
    BY <1>1, MsgShapeStep DEF MsgInv
  <2>2. ASSUME ~trouble' PROVE LaidOut' /\ InStep'
    <3>1. CASE WriteHeader \/ WriteData \/ ReadHeader \/ ReadData \/ RecvMsgReturns
      BY <2>2, <3>1, WriteHeaderStep, WriteDataStep, ReadHeaderStep, ReadDataStep, ReturnsStep
    <3>2. CASE SendMsg \/ Close
      <4>1. UNCHANGED <<accepted, wire, receiving, len, msg, inbox, trouble>>
        BY <3>2 DEF SendMsg, Close, receiver
      <4>2. UNCHANGED Begun /\ (sending # "data" /\ sending' # "data")
        BY <3>2, <4>1 DEF SendMsg, Close, Finish, Begun
      <4>3. ASSUME NEW pos, Laid(pos) PROVE Laid(pos)'
        BY <4>1, <4>2, <4>3 DEF Laid, Spaced, InPlace, Reading
      <4>4. LaidOut'
        BY <2>2, <4>1, <4>2, <4>3 DEF MsgInv, LaidOut
      <4> QED
        BY <4>1, <4>4 DEF MsgInv, InStep
    <3>3. CASE EndOfStream \/ ReadFails
      BY <2>2, <3>3 DEF EndOfStream, ReadFails
    <3> QED
      BY <1>1, <3>1, <3>2, <3>3 DEF MsgNext, Sends, Receives
  <2>3. CASE trouble'
    BY <2>1, <2>3 DEF MsgInv, LaidOut, InStep
  <2> QED
    BY <2>1, <2>2, <2>3 DEF MsgInv
<1>2. CASE UNCHANGED msgvars
  <2>1. UNCHANGED <<nextMsg, sending, accepted, wire, closed, receiving, len, msg, inbox, trouble>>
    BY <1>2 DEF msgvars
  <2>2. MsgTypeOK' /\ MsgShape' /\ InStep'
    BY <2>1 DEF MsgInv, MsgTypeOK, MsgShape, InStep
  <2>3. UNCHANGED Begun
    BY <2>1 DEF Begun
  <2>4. ASSUME NEW pos, Laid(pos) PROVE Laid(pos)'
    BY <2>1, <2>3, <2>4 DEF Laid, Spaced, InPlace, Reading
  <2>5. LaidOut'
    BY <2>1, <2>3, <2>4 DEF MsgInv, LaidOut
  <2> QED
    BY <2>2, <2>5 DEF MsgInv
<1> QED
  BY <1>1, <1>2

-----------------------------------------------------------------------------

\* The invariant is inductive.
LEMMA Invariance == Spec => []IInv
<1>1. Init => IInv
  BY WrapInitInv, MsgInitInv DEF Init, IInv
<1>2. IInv /\ [Next]_vars => IInv'
  <2> SUFFICES ASSUME IInv, [Next]_vars PROVE IInv'
    OBVIOUS
  <2>1. [WrapNext]_wrapvars /\ [MsgNext]_msgvars
    BY DEF Next, vars
  <2> QED
    BY <2>1, WrapStep, MsgStep DEF IInv
<1> QED
  BY <1>1, <1>2, PTL DEF Spec

\* For any streams, buffers and calls: read_buf neither loses nor repeats a byte,
\* whichever descriptors and functions the caller mixes.
THEOREM EachByteOnce == Spec => []Inv
<1>1. IInv => Inv
  BY DEF IInv, WrapInv, MsgInv, Inv
<1> QED
  BY <1>1, Invariance, PTL

\* For any streams, buffers and calls: a call that returns has the bytes it was asked
\* for, if the caller keeps to one function and to one descriptor at a time.
THEOREM CallsGetTheirBytes == Spec => []OwnBytes
<1>1. IInv => OwnBytes
  BY Returned DEF IInv
<1> QED
  BY <1>1, Invariance, PTL

\* For messages of any sizes and any cuts of the stream: what is received is what
\* was sent, whole and in order, until a call fails.
THEOREM MessagesInStep == Spec => []InStep
<1>1. IInv => InStep
  BY DEF IInv, MsgInv
<1> QED
  BY <1>1, Invariance, PTL
=============================================================================
