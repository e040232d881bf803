---------------------------- MODULE SelectServer ----------------------------
(***************************************************************************)
(* The select() echo server of                                             *)
(* plan6-network/multi-io-servers/select-server.c: each round copies allset, *)
(* asks select() which of it is readable, accepts at most one client and    *)
(* then serves the readable descriptors in ascending order.                 *)
(***************************************************************************)
EXTENDS LevelSockets

VARIABLES
  allset,    \* descriptors the server watches
  rset,      \* descriptors select() returned and the round has still to handle
  nready,    \* the number select() returned
  maxfd      \* the largest descriptor there has been

selvars == <<allset, rset, nready, maxfd>>
vars == <<sockvars, selvars>>

Init ==
  /\ NetInit
  /\ allset = {LFD}
  /\ rset = {}
  /\ nready = 0
  /\ maxfd = LFD

ReturnedMutant == IF Ready(allset) = {} THEN {} ELSE allset
Returned == {f \in Ready(allset) : f <= maxfd}

\* A closed descriptor in the set makes select() fail, and perr_exit() follows.
Stale == \E f \in allset \ {LFD} : sock[f] = None

Select ==
  /\ rset = {}
  /\ Returned # {} \/ Stale
  /\ rset' = IF Stale THEN {} ELSE Returned
  /\ nready' = IF Stale THEN -1 ELSE Cardinality(Returned)
  /\ alive' = IF Stale THEN "exit" ELSE alive
  /\ UNCHANGED <<sock, backlog, netvars, op, allset, maxfd>>

\* maxfd after a new descriptor.
HighestMutant(f) == maxfd
Highest(f) == Max({f, maxfd})

\* A new client is watched from the next round on.
AcceptNew ==
  /\ LFD \in rset
  /\ \/ AcceptFails /\ UNCHANGED selvars
     \/ /\ FreeFds # {}
        /\ sock' = [sock EXCEPT ![NewFd] = Head(backlog)]
        /\ backlog' = Tail(backlog)
        /\ allset' = allset \cup {NewFd}
        /\ maxfd' = Highest(NewFd)
        /\ rset' = IF nready = 1 THEN {} ELSE rset \ {LFD}
        /\ UNCHANGED <<netvars, op, alive, nready>>

UnwatchedMutant(set, f) == set
Unwatched(set, f) == set \ {f}

\* Close() and FD_CLR().
Closes(f) ==
  /\ sock' = [sock EXCEPT ![f] = None]
  /\ allset' = Unwatched(allset, f)
  /\ UNCHANGED op

\* How many bytes Write() is told to write after a Read() of n.
ReplyMutant(n) == BufSize
Reply(n) == n

\* One descriptor of the round.  With n = -1 neither test nor loop does anything,
\* and Write() of -1 bytes fails with EINVAL.
Serve(f) ==
  LET n == ReadResult(sock[f])
  IN /\ sock[f] # None /\ Readable(sock[f])     \* else Read() fails or blocks
     /\ Taken(sock[f])
     /\ \/ n = 0 /\ Closes(f)
        \/ /\ n > 0
           /\ op' = [fd |-> f, n |-> Reply(n), left |-> Reply(n)]
           /\ UNCHANGED <<sock, allset>>
        \/ n = -1 /\ UNCHANGED <<sock, allset, op>>
     /\ UNCHANGED <<backlog, sent, wire, given, alive>>

ServeNext ==
  /\ rset # {} /\ LFD \notin rset
  /\ Serve(Min(rset))
  /\ rset' = rset \ {Min(rset)}
  /\ UNCHANGED <<nready, maxfd>>

Server ==
  /\ alive = "run"
  /\ \/ Writing /\ UNCHANGED selvars
     \/ op = None /\ (Select \/ AcceptNew \/ ServeNext)

Next == Server \/ \E c \in Conn : Client(c) /\ UNCHANGED selvars

Spec == Init /\ [][Next]_vars

\* main() loops for ever, and clients read the answers they are sent.
FairSpec ==
  Spec /\ WF_vars(Server) /\ \A c \in Conn : WF_vars(PeerRead(c) /\ UNCHANGED selvars)

-----------------------------------------------------------------------------
(* Properties                                                              *)

TypeOK ==
  /\ NetTypeOK
  /\ allset \subseteq Fd \cup {LFD} /\ LFD \in allset
  /\ rset \subseteq allset
  /\ nready \in -1..(NFd + 1)
  /\ maxfd \in Fd \cup {LFD}

\* The one thread never blocks on one client in Accept() or Read(): what select()
\* found readable is still so when its turn in the round comes, after an accept
\* that may reuse a descriptor, and after the clients before it.
NeverBlocks == alive = "run" => rset \subseteq Ready(rset)

\* What the server relies on at every call it makes: its own state is well-formed
\* and no call blocks on a stale event.
Inv == TypeOK /\ NeverBlocks

\* The process ends only because it has no descriptor left for a client, never
\* because select() met one that was closed.
ExitOnlyWhenFull == alive = "exit" => FreeFds = {}

\* Every byte read is on its way back, and no other: what Write() gave the kernel
\* and what it still has to give add up to what was read, over partial writes,
\* for each client whose connection is whole.
EchoExact ==
  \A f \in Fd :
    LET c == sock[f]
        left == IF op # None /\ op.fd = f THEN op.left ELSE 0
    IN c # None /\ peer[c] \in {"open", "fin"} => given[c] + left = got[c]

\* What a client does is handled in the end, however busy the others are: what it
\* sends is read, and when it closes its descriptor is closed.
Served ==
  \A c \in Conn :
    /\ (Known(c) /\ sent[c] > got[c]) ~> (sent[c] = got[c] \/ alive # "run" \/ ~Known(c))
    /\ (Known(c) /\ peer[c] \in {"fin", "reset", "gone"}) ~> (~Known(c) \/ alive # "run")
=============================================================================
