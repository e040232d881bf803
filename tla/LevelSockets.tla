---------------------------- MODULE LevelSockets ----------------------------
(***************************************************************************)
(* What the three level-triggered echo servers of                           *)
(* plan6-network/multi-io-servers share: the connections of a kernel with   *)
(* blocking sockets, the clients at their other ends, and the wrappers      *)
(* Accept, Read, Write and Close of wrap.c.                                 *)
(*                                                                         *)
(* Bytes are counted, not named.  A server is one thread; the only call in  *)
(* which it gives way in the middle of a handler is Write(), which blocks    *)
(* until the client has taken everything, so a Write under way is state.     *)
(***************************************************************************)
EXTENDS Integers, Sequences, FiniteSets, FiniteSetsExt

CONSTANTS
  Conn,      \* connections, each made once by some client: bounds the runs
  NFd,       \* descriptors left for clients (RLIMIT_NOFILE)
  BufSize,   \* sizeof(buf)
  Window,    \* bytes the kernel takes for a client that does not read
  MaxBytes,  \* connection -> bytes its client sends at most: bounds the runs
  None       \* no connection, no Write under way

ASSUME SizeAssumption ==
  /\ NFd \in Nat \ {0} /\ BufSize \in Nat \ {0} /\ Window \in Nat \ {0} /\ MaxBytes \in [Conn -> Nat]
ASSUME NoneAssumption == None \notin Conn /\ None \notin [fd : Nat, n : Nat, left : Nat]

LFD == 0                     \* the listening descriptor
Fd == 1..NFd                 \* descriptors of clients

VARIABLES
  sock,      \* open client fds: fd -> connection, or None
  backlog,   \* connections that wait for accept()
  peer,      \* connection -> state of the client's side, and of the pending error
  sent,      \* connection -> bytes the client has sent
  got,       \* connection -> bytes the server has read
  wire,      \* connection -> bytes written and not read by the client yet
  given,     \* connection -> bytes written in all
  op,        \* the Write() under way: descriptor, count, and what is left of it
  alive      \* "run"; "exit" after perr_exit(), "killed" by SIGPIPE, "wild"

clientvars == <<peer, sent, wire>>
netvars == <<clientvars, got, given>>
sockvars == <<sock, backlog, netvars, op, alive>>

NetInit ==
  /\ sock = [f \in Fd |-> None]
  /\ backlog = <<>>
  /\ peer = [c \in Conn |-> "idle"]
  /\ sent = [c \in Conn |-> 0] /\ got = [c \in Conn |-> 0]
  /\ wire = [c \in Conn |-> 0] /\ given = [c \in Conn |-> 0]
  /\ op = None
  /\ alive = "run"

Known(c) == \E f \in Fd : sock[f] = c
Waiting(c) == \E i \in 1..Len(backlog) : backlog[i] = c

\* Data, end of file or an error: Read() does not block.
Readable(c) == sent[c] > got[c] \/ peer[c] \in {"fin", "reset", "gone"}

\* Descriptors of the set that are readable now.
Ready(set) ==
  {f \in set : IF f = LFD THEN backlog # <<>> ELSE sock[f] # None /\ Readable(sock[f])}

-----------------------------------------------------------------------------
(* The clients                                                             *)

Connect(c) ==
  /\ peer[c] = "idle"
  /\ peer' = [peer EXCEPT ![c] = "open"]
  /\ backlog' = Append(backlog, c)
  /\ UNCHANGED <<sock, sent, got, wire, given, op, alive>>

Send(c) ==
  /\ peer[c] = "open" /\ (Known(c) \/ Waiting(c))
  /\ sent[c] < MaxBytes[c]
  /\ sent' = [sent EXCEPT ![c] = @ + 1]
  /\ UNCHANGED <<sock, backlog, peer, got, wire, given, op, alive>>

PeerRead(c) ==
  /\ peer[c] \in {"open", "fin"}
  /\ wire[c] > 0
  /\ wire' = [wire EXCEPT ![c] = @ - 1]
  /\ UNCHANGED <<sock, backlog, peer, sent, got, given, op, alive>>

PeerFin(c) ==
  /\ peer[c] = "open" /\ (Known(c) \/ Waiting(c))
  /\ peer' = [peer EXCEPT ![c] = "fin"]
  /\ UNCHANGED <<sock, backlog, sent, got, wire, given, op, alive>>

\* A reset leaves an error for the next call, unless the end of file was there
\* before; "gone" is a connection without an error left to report.
PeerAbort(c) ==
  /\ peer[c] \in {"open", "fin"} /\ (Known(c) \/ Waiting(c))
  /\ peer' = [peer EXCEPT ![c] = IF peer[c] = "open" THEN "reset" ELSE "gone"]
  /\ UNCHANGED <<sock, backlog, sent, got, wire, given, op, alive>>

Client(c) == Connect(c) \/ Send(c) \/ PeerRead(c) \/ PeerFin(c) \/ PeerAbort(c)

-----------------------------------------------------------------------------
(* The wrappers                                                            *)

\* What Read() returns: the data first, even after a reset, then the error.
ReadResult(c) ==
  IF sent[c] > got[c] THEN Min({sent[c] - got[c], BufSize})
  ELSE IF peer[c] = "reset" THEN -1 ELSE 0

\* Read() takes the bytes, or the error.
Taken(c) ==
  /\ got' = [got EXCEPT ![c] = IF ReadResult(c) > 0 THEN @ + ReadResult(c) ELSE @]
  /\ peer' = [peer EXCEPT ![c] = IF ReadResult(c) = -1 THEN "gone" ELSE @]

\* accept() gives the lowest descriptor; without one Accept() ends the process.
FreeFds == {f \in Fd : sock[f] = None}
NewFd == Min(FreeFds)

AcceptFails ==
  /\ FreeFds = {}
  /\ alive' = "exit"
  /\ UNCHANGED <<sock, backlog, netvars, op>>

\* The rest of a Write() under way, as much as there is room for; a reset ends it,
\* with SIGPIPE when there is nothing written and no other error to return.
WriteSome ==
  LET c == sock[op.fd]
      k == Min({op.left, Window - wire[c]})
  IN /\ peer[c] \notin {"reset", "gone"} /\ k > 0
     /\ wire' = [wire EXCEPT ![c] = @ + k]
     /\ given' = [given EXCEPT ![c] = @ + k]
     /\ op' = IF k = op.left THEN None ELSE [op EXCEPT !.left = @ - k]
     /\ UNCHANGED <<sock, backlog, peer, sent, got, alive>>

WriteFails ==
  LET c == sock[op.fd]
  IN /\ peer[c] \in {"reset", "gone"}
     /\ op' = None
     /\ \/ /\ op.left < op.n
           /\ UNCHANGED <<peer, alive>>
        \/ /\ op.left = op.n /\ peer[c] = "reset"
           /\ peer' = [peer EXCEPT ![c] = "gone"]
           /\ UNCHANGED alive
        \/ /\ op.left = op.n /\ peer[c] = "gone"
           /\ alive' = "killed"
           /\ UNCHANGED peer
     /\ UNCHANGED <<sock, backlog, sent, got, wire, given>>

Writing == op # None /\ (WriteSome \/ WriteFails)

NetTypeOK ==
  /\ sock \in [Fd -> Conn \cup {None}]
  /\ \A i \in 1..Len(backlog) : backlog[i] \in Conn
  /\ peer \in [Conn -> {"idle", "open", "fin", "reset", "gone"}]
  /\ sent \in [Conn -> Nat] /\ got \in [Conn -> Nat] /\ given \in [Conn -> Nat] /\ wire \in [Conn -> Nat]
  /\ \A c \in Conn : sent[c] <= MaxBytes[c] /\ got[c] <= sent[c] /\ wire[c] <= Window
  /\ op = None \/ (op.fd \in Fd /\ op.left \in 1..op.n)
  /\ alive \in {"run", "exit", "killed", "wild"}
=============================================================================
