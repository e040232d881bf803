------------------------------- MODULE WrapIO -------------------------------
(***************************************************************************)
(* The byte-stream functions of wrap.c: Readn(), Writen(), and Readline()    *)
(* over my_read(), whose read_buf is one static buffer for all descriptors.  *)
(* The file exists three times with the same text: in                        *)
(* plan6-network/multi-io-servers, in simple-high-con-servers, and as         *)
(* wraps/net.hpp.                                                            *)
(*                                                                         *)
(* No program of the repository calls them, so the caller here makes any     *)
(* calls it likes, one at a time.  A byte is <<descriptor, position>>.  The   *)
(* kernel cuts the streams anywhere.  Read() and Write() repeat a call that   *)
(* a signal interrupts, so the EINTR branches of their callers are dead.     *)
(***************************************************************************)
EXTENDS Integers, Sequences, FiniteSets

CONSTANTS
  Fd,        \* descriptors of the caller
  Length,    \* descriptor -> bytes its peer sends before the end
  BufSize,   \* sizeof(read_buf)
  Sizes,     \* values of nbytes and maxlen to try
  MaxCalls,  \* calls of the caller: bounds the runs
  Callers,   \* the sets of functions a caller may use
  Newlines,  \* the sets of bytes that may be '\n'
  NoCall

Byte == UNION {{f} \X (1..Length[f]) : f \in Fd}

ASSUME WrapAssumption ==
  /\ Length \in [Fd -> Nat] /\ BufSize \in Nat \ {0} /\ Sizes \subseteq Nat \ {0}
  /\ MaxCalls \in Nat /\ Newlines \subseteq SUBSET Byte
  /\ Callers \subseteq SUBSET {"Readn", "Readline", "Writen"}

VARIABLES
  newline,   \* the bytes that are '\n'
  ends,      \* descriptor -> what read() returns after the last byte: 0 or -1
  functions, \* the functions the caller uses
  taken,     \* descriptor -> bytes read() has given
  ahead,     \* read_buf from read_ptr on
  call,      \* the last call: running, or with what it returned
  callsLeft,
  handed     \* history: byte -> how often it was stored in a caller's buffer

wrapvars == <<newline, ends, functions, taken, ahead, call, callsLeft, handed>>
fixed == <<newline, ends, functions>>

WrapInit ==
  /\ newline \in Newlines
  /\ ends \in [Fd -> {0, -1}]
  /\ functions \in Callers
  /\ taken = [f \in Fd |-> 0]
  /\ ahead = <<>>
  /\ call = NoCall
  /\ callsLeft = MaxCalls
  /\ handed = [b \in Byte |-> 0]

Running == call # NoCall /\ call.at = "run"
Runs(function) == Running /\ call.function = function
Got == Len(call.got)

\* The caller calls a function; pure: nothing of another descriptor is read ahead.
Start ==
  /\ ~Running /\ callsLeft > 0
  /\ \E g \in functions, f \in Fd, n \in Sizes :
       call' = [function |-> g, fd |-> f, size |-> n, got |-> <<>>, at |-> "run", ret |-> 0,
                pure |-> \A k \in 1..Len(ahead) : ahead[k][1] = f]
  /\ callsLeft' = callsLeft - 1
  /\ UNCHANGED <<fixed, taken, ahead, handed>>

Returns(n) == call' = [call EXCEPT !.at = "return", !.ret = n]

Left(f) == Length[f] - taken[f]
NextBytes(f, n) == [k \in 1..n |-> <<f, taken[f] + k>>]
Count(b, s) == Cardinality({k \in 1..Len(s) : s[k] = b})
Stored(bytes) == handed' = [b \in Byte |-> handed[b] + Count(b, bytes)]

\* Readn(): another read() for what is missing.
ReadMore ==
  /\ Runs("Readn") /\ Got < call.size
  /\ \E n \in 1..Left(call.fd) :
       /\ n <= call.size - Got
       /\ call' = [call EXCEPT !.got = @ \o NextBytes(call.fd, n)]
       /\ Stored(NextBytes(call.fd, n))
       /\ taken' = [taken EXCEPT ![call.fd] = @ + n]
  /\ UNCHANGED <<fixed, ahead, callsLeft>>

ReadnReturns ==
  /\ Runs("Readn")
  /\ \/ Got = call.size /\ Returns(call.size)
     \/ /\ Got < call.size /\ Left(call.fd) = 0
        /\ Returns(IF ends[call.fd] = 0 THEN Got ELSE -1)
  /\ UNCHANGED <<fixed, taken, ahead, callsLeft, handed>>

\* Readline(): the loop goes on with the n-th byte, n = Got + 1.
LineEndsMutant == Got + 1 > call.size
LineEnds == Got > 0 /\ call.got[Got] \in newline
Continues == Runs("Readline") /\ ~LineEnds /\ Got + 1 < call.size

\* my_read() fills the buffer only when it is empty.
EmptyMutant == Len(ahead) <= 1
Empty == ahead = <<>>

Fill ==
  /\ Continues /\ Empty
  /\ \E n \in 1..Left(call.fd) :
       /\ n <= BufSize
       /\ ahead' = NextBytes(call.fd, n)
       /\ taken' = [taken EXCEPT ![call.fd] = @ + n]
  /\ UNCHANGED <<fixed, call, callsLeft, handed>>

TakeByte ==
  /\ Continues /\ ~Empty
  /\ call' = [call EXCEPT !.got = Append(@, Head(ahead))]
  /\ Stored(<<Head(ahead)>>)
  /\ ahead' = Tail(ahead)
  /\ UNCHANGED <<fixed, taken, callsLeft>>

\* A newline or a full buffer end the loop at n; the end of the stream at n - 1.
ReadlineReturns ==
  /\ Runs("Readline")
  /\ \/ LineEnds /\ Returns(Got)
     \/ ~LineEnds /\ ~Continues /\ Returns(Got + 1)
     \/ /\ Continues /\ Empty /\ Left(call.fd) = 0
        /\ Returns(IF ends[call.fd] = 0 THEN Got ELSE -1)
  /\ UNCHANGED <<fixed, taken, ahead, callsLeft, handed>>

\* Writen(): the bytes of the caller's buffer by their positions.
WriteMore ==
  /\ Runs("Writen")
  /\ \E n \in 1..(call.size - Got) :
       call' = [call EXCEPT !.got = @ \o [k \in 1..n |-> <<call.fd, Got + k>>]]
  /\ UNCHANGED <<fixed, taken, ahead, callsLeft, handed>>

\* A descriptor that ends with an error may refuse a write at any time.
WritenReturns ==
  /\ Runs("Writen")
  /\ \/ Got = call.size /\ Returns(call.size)
     \/ Got < call.size /\ ends[call.fd] = -1 /\ Returns(-1)
  /\ UNCHANGED <<fixed, taken, ahead, callsLeft, handed>>

WrapNext ==
  \/ Start \/ ReadMore \/ ReadnReturns \/ Fill \/ TakeByte \/ ReadlineReturns
  \/ WriteMore \/ WritenReturns

WrapSpec == WrapInit /\ [][WrapNext]_wrapvars

-----------------------------------------------------------------------------
(* Properties                                                              *)

WrapTypeOK ==
  /\ newline \subseteq Byte /\ ends \in [Fd -> {0, -1}]
  /\ \A f \in Fd : taken[f] \in 0..Length[f]
  /\ ahead \in Seq(Byte) /\ Len(ahead) <= BufSize /\ handed \in [Byte -> Nat]
  /\ call # NoCall => call.fd \in Fd /\ call.size \in Sizes /\ Got <= call.size

\* Whatever the caller mixes, each byte that read() gave is in a caller's buffer or
\* in read_buf, once: reading ahead may give a byte to the wrong call, but neither
\* loses nor repeats one.
NothingLost ==
  \A b \in Byte : handed[b] + Count(b, ahead) = IF b[2] <= taken[b[1]] THEN 1 ELSE 0

\* A call that returned, and why it may say how many bytes it stored: a line, or all
\* that is left, or one byte less than it says when the line was longer.
Line ==
  /\ \A k \in 1..(Got - 1) : call.got[k] \notin newline
  /\ \/ LineEnds /\ call.ret = Got
     \/ Got = call.size - 1 /\ call.ret = call.size
     \/ Left(call.fd) = 0 /\ ahead = <<>> /\ call.ret = Got

Whole == call.ret = Got /\ (Got = call.size \/ Left(call.fd) = 0)

\* A caller that uses one of the functions, and reads another descriptor only when
\* nothing of the last one is read ahead, gets what it asks for: the next bytes of
\* the descriptor, none left out, as many as it wants or up to the end of a line,
\* however the kernel cuts the stream.
OwnBytes ==
  call # NoCall /\ call.at = "return" /\ call.ret # -1 /\ call.pure =>
    /\ call.function = "Readline" => Line
    /\ call.function = "Readn" => Whole
    /\ functions \in {{"Readn"}, {"Readline"}} =>
         \E first \in 0..Length[call.fd] :
           /\ \A k \in 1..Got : call.got[k] = <<call.fd, first + k>>
           /\ \A k \in 1..Length[call.fd] : handed[<<call.fd, k>>] = IF k <= first + Got THEN 1 ELSE 0
=============================================================================
