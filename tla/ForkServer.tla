----------------------------- MODULE ForkServer -----------------------------
(***************************************************************************)
(* The process-per-client echo server of                                   *)
(* plan6-network/simple-high-con-servers/mp-server.c.                       *)
(*                                                                         *)
(* The parent accepts, forks, and reaps its children in a handler of        *)
(* SIGCHLD that it installs after the first fork.  A signal that is ignored *)
(* or already pending leaves no trace, so how many children one run of the  *)
(* handler reaps, and when it is installed, decide whether zombies stay.    *)
(* The handler does not save errno, which Accept() looks at when a signal   *)
(* has interrupted accept(), so when signals come also decides whether the  *)
(* parent goes on.                                                          *)
(* A connection ends for the client when every process that holds it has    *)
(* closed it.                                                               *)
(***************************************************************************)
EXTENDS Integers, Sequences, FiniteSets

CONSTANTS
  Conn,      \* connections, each made once by some client: bounds the runs
  MaxProc,   \* child processes there may be, zombies among them (RLIMIT_NPROC)
  MaxSend,   \* connection -> messages its client sends at most: bounds the runs
  Window,    \* answers the kernel takes for a client that does not read
  None       \* no connection

ASSUME SizeAssumption == MaxProc \in Nat \ {0} /\ MaxSend \in [Conn -> Nat] /\ Window \in Nat \ {0}
ASSUME NoneAssumption == None \notin Conn

VARIABLES
  parent,    \* where the parent is in the loop, or "exit"
  cfd,       \* the connection it accepted last
  handler,   \* func_sigcld is installed
  pending,   \* SIGCHLD is pending
  reaping,   \* the handler runs
  errno,     \* of the parent
  child,     \* connection -> state of the child that serves it
  held,      \* connection -> processes that have it open
  backlog,   \* connections that wait for accept()
  peer,      \* connection -> state of the client's side
  sent, got, \* connection -> messages the client sent, the child read
  wire       \* connection -> answers the client has not read yet

parentvars == <<parent, cfd, handler, reaping, errno>>
clientvars == <<backlog, peer, sent>>
vars == <<parent, cfd, handler, pending, reaping, errno, child, held, backlog, peer, sent, got, wire>>

Init ==
  /\ parent = "accept" /\ cfd = None
  /\ handler = FALSE /\ pending = FALSE /\ reaping = FALSE /\ errno = "none"
  /\ child = [c \in Conn |-> "none"]
  /\ held = [c \in Conn |-> {}]
  /\ backlog = <<>>
  /\ peer = [c \in Conn |-> "idle"]
  /\ sent = [c \in Conn |-> 0] /\ got = [c \in Conn |-> 0] /\ wire = [c \in Conn |-> 0]

Zombies == {c \in Conn : child[c] = "zombie"}
Processes == {c \in Conn : child[c] \in {"read", "write", "zombie"}}

-----------------------------------------------------------------------------
(* The clients                                                             *)

Connect(c) ==
  /\ peer[c] = "idle"
  /\ peer' = [peer EXCEPT ![c] = "open"]
  /\ backlog' = Append(backlog, c)
  /\ UNCHANGED <<parentvars, pending, child, held, sent, got, wire>>

Send(c) ==
  /\ peer[c] = "open" /\ sent[c] < MaxSend[c]
  /\ sent' = [sent EXCEPT ![c] = @ + 1]
  /\ UNCHANGED <<parentvars, pending, child, held, backlog, peer, got, wire>>

PeerRead(c) ==
  /\ peer[c] \in {"open", "fin"} /\ wire[c] > 0
  /\ wire' = [wire EXCEPT ![c] = @ - 1]
  /\ UNCHANGED <<parentvars, pending, child, held, clientvars, got>>

\* The client closes, or resets; a reset leaves an error for one call ("reset")
\* unless the end of file was there before ("gone").
PeerLeaves(c) ==
  /\ \/ peer[c] = "open" /\ peer' = [peer EXCEPT ![c] = "fin"]
     \/ peer[c] = "open" /\ peer' = [peer EXCEPT ![c] = "reset"]
     \/ peer[c] = "fin" /\ peer' = [peer EXCEPT ![c] = "gone"]
  /\ UNCHANGED <<parentvars, pending, child, held, backlog, sent, got, wire>>

Client(c) == Connect(c) \/ Send(c) \/ PeerRead(c) \/ PeerLeaves(c)

-----------------------------------------------------------------------------
(* The parent                                                              *)

Accept ==
  /\ parent = "accept" /\ ~reaping
  /\ backlog # <<>>
  /\ cfd' = Head(backlog)
  /\ backlog' = Tail(backlog)
  /\ held' = [held EXCEPT ![Head(backlog)] = {"parent"}]
  /\ parent' = "fork"
  /\ UNCHANGED <<handler, pending, reaping, errno, child, peer, sent, got, wire>>

\* The child inherits the connection; without a process left the parent exits.
Fork ==
  /\ parent = "fork" /\ ~reaping
  /\ \/ /\ Cardinality(Processes) < MaxProc
        /\ child' = [child EXCEPT ![cfd] = "read"]
        /\ held' = [held EXCEPT ![cfd] = @ \cup {"child"}]
        /\ parent' = "sigaction"
     \/ /\ Cardinality(Processes) >= MaxProc
        /\ parent' = "exit"
        /\ held' = [held EXCEPT ![cfd] = @ \ {"parent"}]
        /\ UNCHANGED child
  /\ UNCHANGED <<cfd, handler, pending, reaping, errno, clientvars, got, wire>>

InstalledMutant == handler
Installed == TRUE

Sigaction ==
  /\ parent = "sigaction" /\ ~reaping
  /\ handler' = Installed
  /\ parent' = "close"
  /\ UNCHANGED <<cfd, pending, reaping, errno, child, held, clientvars, got, wire>>

\* Who holds a connection after the parent's Close(cfd).
ParentClosesMutant(c) == held[c]
ParentCloses(c) == held[c] \ {"parent"}

CloseCfd ==
  /\ parent = "close" /\ ~reaping
  /\ held' = [held EXCEPT ![cfd] = ParentCloses(cfd)]
  /\ parent' = "accept"
  /\ UNCHANGED <<cfd, handler, pending, reaping, errno, child, clientvars, got, wire>>

\* The handler is entered.  If the parent sleeps in accept(), with no connection
\* there, the call is given up, since sa_flags has no SA_RESTART.
SignalDelivered ==
  /\ parent # "exit" /\ handler /\ pending /\ ~reaping
  /\ pending' = FALSE
  /\ reaping' = TRUE
  /\ \/ UNCHANGED parent
     \/ parent = "accept" /\ backlog = <<>> /\ parent' = "interrupted"
  /\ UNCHANGED <<cfd, handler, errno, child, held, clientvars, got, wire>>

\* The call that was given up returns after the handler, with EINTR.
AcceptFails ==
  /\ parent = "interrupted" /\ ~reaping
  /\ errno' = "EINTR"
  /\ parent' = "test"
  /\ UNCHANGED <<cfd, handler, pending, reaping, child, held, clientvars, got, wire>>

\* Accept() looks at errno, which a handler that ran since then may have changed.
TriesAgainMutant == FALSE
TriesAgain == errno = "EINTR"

TestErrno ==
  /\ parent = "test" /\ ~reaping
  /\ \/ TriesAgain /\ parent' = "accept"
     \/ ~TriesAgain /\ parent' = "exit"
  /\ UNCHANGED <<cfd, handler, pending, reaping, errno, child, held, clientvars, got, wire>>

\* Whether the handler calls waitpid() again after it has reaped a child.
AgainMutant == FALSE
Again == TRUE

\* The last call of waitpid() fails with ECHILD if there is no child at all.  A signal
\* that came meanwhile starts the handler again before the parent goes on.
Reap ==
  /\ reaping
  /\ \/ \E c \in Zombies :
          /\ child' = [child EXCEPT ![c] = "reaped"]
          /\ reaping' = Again
          /\ UNCHANGED <<pending, errno>>
     \/ /\ Zombies = {}
        /\ errno' = IF Processes = {} THEN "ECHILD" ELSE errno
        /\ reaping' = pending
        /\ pending' = FALSE
        /\ UNCHANGED child
  /\ UNCHANGED <<parent, cfd, handler, held, clientvars, got, wire>>

Parent ==
  Accept \/ Fork \/ Sigaction \/ CloseCfd \/ SignalDelivered \/ AcceptFails \/ TestErrno \/ Reap

-----------------------------------------------------------------------------
(* A child                                                                 *)

\* SIGCHLD is remembered only if the parent does not ignore it; the exit of a
\* process closes what it holds.
ChildEnds(c) ==
  /\ child' = [child EXCEPT ![c] = "zombie"]
  /\ held' = [held EXCEPT ![c] = @ \ {"child"}]
  /\ pending' = (pending \/ (handler /\ parent # "exit"))

\* Whether Read() has something to return other than end of file or an error.
HasMessage(c) == sent[c] > got[c]

\* Read(): the messages first, then end of file, where the second Close(lfd) fails
\* and ends the child just as exit() would; an error falls through to Write().
ChildRead(c) ==
  /\ child[c] = "read"
  /\ \/ /\ HasMessage(c)
        /\ got' = [got EXCEPT ![c] = @ + 1]
        /\ child' = [child EXCEPT ![c] = "write"]
        /\ UNCHANGED <<peer, held, pending>>
     \/ /\ ~HasMessage(c) /\ peer[c] \in {"fin", "gone"}
        /\ ChildEnds(c)
        /\ UNCHANGED <<got, peer>>
     \/ /\ ~HasMessage(c) /\ peer[c] = "reset"
        /\ peer' = [peer EXCEPT ![c] = "gone"]
        /\ child' = [child EXCEPT ![c] = "write"]
        /\ UNCHANGED <<got, held, pending>>
  /\ UNCHANGED <<parentvars, backlog, sent, wire>>

\* Write() of MAXLINE bytes: the error of a reset is returned and ignored, and a
\* connection without one to return kills the child with SIGPIPE.
ChildWrite(c) ==
  /\ child[c] = "write"
  /\ \/ /\ peer[c] \in {"open", "fin"} /\ wire[c] < Window
        /\ wire' = [wire EXCEPT ![c] = @ + 1]
        /\ child' = [child EXCEPT ![c] = "read"]
        /\ UNCHANGED <<peer, held, pending>>
     \/ /\ peer[c] = "reset"
        /\ peer' = [peer EXCEPT ![c] = "gone"]
        /\ child' = [child EXCEPT ![c] = "read"]
        /\ UNCHANGED <<wire, held, pending>>
     \/ /\ peer[c] = "gone"
        /\ ChildEnds(c)
        /\ UNCHANGED <<peer, wire>>
  /\ UNCHANGED <<parentvars, backlog, sent, got>>

Child(c) == ChildRead(c) \/ ChildWrite(c)

Next == Parent \/ \E c \in Conn : Client(c) \/ Child(c)

Spec == Init /\ [][Next]_vars

\* Every process runs, and clients read the answers they are sent.
FairSpec ==
  Spec /\ WF_vars(Parent) /\ \A c \in Conn : WF_vars(Child(c)) /\ WF_vars(PeerRead(c))

-----------------------------------------------------------------------------
(* Properties                                                              *)

TypeOK ==
  /\ parent \in {"accept", "interrupted", "test", "fork", "sigaction", "close", "exit"}
  /\ cfd \in Conn \cup {None}
  /\ handler \in BOOLEAN /\ pending \in BOOLEAN /\ reaping \in BOOLEAN
  /\ errno \in {"none", "EINTR", "ECHILD"}
  /\ child \in [Conn -> {"none", "read", "write", "zombie", "reaped"}]
  /\ held \in [Conn -> SUBSET {"parent", "child"}]
  /\ \A i \in 1..Len(backlog) : backlog[i] \in Conn
  /\ peer \in [Conn -> {"idle", "open", "fin", "reset", "gone"}]
  /\ \A c \in Conn : sent[c] \in 0..MaxSend[c]
  /\ wire \in [Conn -> 0..Window]
  /\ \A c \in Conn : got[c] \in 0..sent[c]

\* Signals that were merged into one lose no child: while no signal is pending and
\* the handler is not running, at most one zombie is left, the first child if it
\* died before the parent had installed the handler.
AtMostOneLeft == parent # "exit" /\ ~pending /\ ~reaping => Cardinality(Zombies) <= 1

\* A connection is open in the child that serves it, and in the parent only from
\* accept() to its Close(): no process keeps a copy that would hide the end.
Holders ==
  \A c \in Conn :
    /\ "child" \in held[c] <=> child[c] \in {"read", "write"}
    /\ "parent" \in held[c] <=> c = cfd /\ parent \in {"fork", "sigaction", "close"}

\* The state is well-formed, and so is the family of the parent.
Inv == TypeOK /\ AtMostOneLeft /\ Holders

\* The parent gives up only when fork() fails at the limit, or when it has no child
\* left: a signal in the middle of accept() never ends it while a child lives or is
\* to be reaped.  (Without a child it can: if the last one is reaped after accept()
\* has returned EINTR and before Accept() looks at errno, ECHILD is found there.)
ExitOnlyFullOrAlone ==
  [][parent' = "exit" /\ parent # "exit" =>
       IF parent = "fork" THEN Cardinality(Processes) = MaxProc ELSE Processes = {}]_vars

\* A dead child whose signal was not ignored is reaped in the end, whichever signals
\* were merged with its own and whatever the parent was doing.
Reaped ==
  \A c \in Conn : (child[c] = "zombie" /\ pending) ~> (child[c] = "reaped" \/ parent = "exit")

\* A client that leaves has its connection closed by every process in the end: the
\* child ends, and the parent keeps no copy.
ConnectionEnds ==
  \A c \in Conn :
    (peer[c] \in {"fin", "reset", "gone"} /\ held[c] # {}) ~> held[c] = {}
=============================================================================
