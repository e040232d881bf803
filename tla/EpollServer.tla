---------------------------- MODULE EpollServer ----------------------------
(***************************************************************************)
(* The level-triggered epoll echo server of                                *)
(* plan6-network/multi-io-servers/epoll-server.c: the descriptors of a batch *)
(* of events are handled one after the other, new clients among them.       *)
(***************************************************************************)
EXTENDS LevelSockets

VARIABLES
  tree,      \* descriptors on the epoll tree, the listening one included
  batch      \* events of the last epoll_wait() that are still to be handled

epvars == <<tree, batch>>
epollvars == <<sockvars, epvars>>

EpInit ==
  /\ NetInit
  /\ tree = {LFD}
  /\ batch = {}

\* Level-triggered: whatever of the tree is readable now, handled or not before.
Found == Ready(tree)

EpollWait ==
  /\ batch = {}
  /\ Found # {}
  /\ batch' = Found
  /\ UNCHANGED <<sockvars, tree>>

\* The tree with a new client.
AddedMutant(f) == tree
Added(f) == tree \cup {f}

\* A new client may get an fd that an earlier event of the same batch has closed.
EpAccept ==
  /\ LFD \in batch
  /\ batch' = batch \ {LFD}
  /\ \/ AcceptFails /\ UNCHANGED tree
     \/ /\ FreeFds # {}
        /\ sock' = [sock EXCEPT ![NewFd] = Head(backlog)]
        /\ backlog' = Tail(backlog)
        /\ tree' = Added(NewFd)
        /\ UNCHANGED <<netvars, op, alive>>

\* EPOLL_CTL_DEL and then Close(); the other way round EPOLL_CTL_DEL fails, and
\* perr_exit() follows.
LeavesMutant(f) ==
  /\ sock' = [sock EXCEPT ![f] = None]
  /\ tree' = tree \ {f}
  /\ alive' = "exit"

Leaves(f) ==
  /\ tree' = tree \ {f}
  /\ sock' = [sock EXCEPT ![f] = None]
  /\ UNCHANGED alive

\* Whether a Read() that returned n is the last of its connection.
LastRead(n) == n <= 0

EpServe(f) ==
  LET n == ReadResult(sock[f])
  IN /\ f \in batch \ {LFD}
     /\ sock[f] # None /\ Readable(sock[f])     \* else Read() fails or blocks
     /\ Taken(sock[f])
     /\ batch' = batch \ {f}
     /\ \/ /\ LastRead(n)
           /\ Leaves(f)
           /\ UNCHANGED op
        \/ /\ ~LastRead(n)
           /\ op' = IF n > 0 THEN [fd |-> f, n |-> n, left |-> n] ELSE None
           /\ UNCHANGED <<sock, tree, alive>>
     /\ UNCHANGED <<backlog, sent, wire, given>>

EpServer ==
  /\ alive = "run"
  /\ \/ Writing /\ UNCHANGED epvars
     \/ op = None /\ (EpollWait \/ EpAccept \/ \E f \in batch \ {LFD} : EpServe(f))

EpNext == EpServer \/ \E c \in Conn : Client(c) /\ UNCHANGED epvars

EpSpec == EpInit /\ [][EpNext]_epollvars

\* main() loops for ever, and clients read the answers they are sent.
EpFairSpec ==
  EpSpec /\ WF_epollvars(EpServer) /\ \A c \in Conn : WF_epollvars(PeerRead(c) /\ UNCHANGED epvars)

-----------------------------------------------------------------------------
(* Properties                                                              *)

EpTypeOK ==
  /\ NetTypeOK
  /\ tree \subseteq Fd \cup {LFD} /\ LFD \in tree
  /\ batch \subseteq tree

\* The one thread never blocks in Accept() or Read(): an event of the batch is still
\* true when its turn comes, although descriptors are closed and given to new
\* clients between the two.
EpNeverBlocks == alive = "run" => batch \subseteq Ready(batch)

\* The process ends only because it has no descriptor left for a client, never
\* because the tree and the open descriptors disagree.
EpExitOnlyWhenFull == alive = "exit" => FreeFds = {}

\* What the server relies on at every call it makes: no call blocks on a stale event,
\* and none fails because the tree is stale.
EpInv == EpTypeOK /\ EpNeverBlocks /\ EpExitOnlyWhenFull

\* What a client does is handled in the end, however busy the others are: what it
\* sends is read, and when it closes its descriptor is closed.
EpServed ==
  \A c \in Conn :
    /\ (Known(c) /\ sent[c] > got[c]) ~> (sent[c] = got[c] \/ alive # "run" \/ ~Known(c))
    /\ (Known(c) /\ peer[c] \in {"fin", "reset", "gone"}) ~> (~Known(c) \/ alive # "run")
=============================================================================
