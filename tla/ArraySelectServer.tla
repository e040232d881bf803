------------------------- MODULE ArraySelectServer -------------------------
(***************************************************************************)
(* The select() echo server with its own array of descriptors, of           *)
(* plan6-network/multi-io-servers/array-select-server.c.  It differs from    *)
(* select-server.c in what a round visits: the slots of client[] up to maxi, *)
(* and, when select() returned one descriptor, no slot after the first one   *)
(* in use.  maxi is not initialised.                                        *)
(***************************************************************************)
EXTENDS SelectServer

CONSTANTS
  NSlot,     \* FD_SETSIZE: slots of client[]
  MaxiInit   \* what the stack may hold where maxi is

ASSUME SlotAssumption == NSlot \in Nat \ {0} /\ MaxiInit # {} /\ MaxiInit \subseteq Int

Slot == 0..(NSlot - 1)

VARIABLES
  client,    \* slot -> descriptor, or -1
  maxi,      \* the last slot a round visits
  i          \* the slot the round visits next; -1 before select() returns

arrayvars == <<selvars, client, maxi, i>>
allvars == <<sockvars, arrayvars>>

ArrayInit ==
  /\ Init
  /\ client = [s \in Slot |-> -1]
  /\ maxi \in MaxiInit
  /\ i = -1

ArraySelect ==
  /\ i = -1
  /\ Returned # {} \/ Stale
  /\ alive' = IF Stale THEN "exit" ELSE alive
  /\ rset' = Returned
  /\ nready' = Cardinality(Returned)
  /\ i' = 0
  /\ UNCHANGED <<sock, backlog, netvars, op, client, maxi, allset, maxfd>>

FreeSlots == {s \in Slot : client[s] < 0}

\* maxi after slot s was taken.
RaisedMutant(s) == maxi
Raised(s) == Max({s, maxi})

\* A new client takes the first free slot; the process ends when there is no slot
\* or no descriptor left.
ArrayAccept ==
  /\ i = 0 /\ LFD \in rset
  /\ \/ /\ FreeFds = {} \/ FreeSlots = {}
        /\ alive' = "exit"
        /\ UNCHANGED <<sock, backlog, netvars, op, arrayvars>>
     \/ /\ FreeFds # {} /\ FreeSlots # {}
        /\ sock' = [sock EXCEPT ![NewFd] = Head(backlog)]
        /\ backlog' = Tail(backlog)
        /\ client' = [client EXCEPT ![Min(FreeSlots)] = NewFd]
        /\ maxi' = Raised(Min(FreeSlots))
        /\ allset' = allset \cup {NewFd}
        /\ maxfd' = Highest(NewFd)
        /\ rset' = rset \ {LFD}
        /\ i' = IF nready = 1 THEN -1 ELSE 0
        /\ UNCHANGED <<netvars, op, alive, nready>>

\* Close(), FD_CLR() and the slot, which is free again.
FreedMutant(s) == client
Freed(s) == [client EXCEPT ![s] = -1]

\* Where the round goes on after a slot in use: nowhere when one descriptor was
\* ready, found here or not.
After(s) == IF nready = 1 THEN -1 ELSE s + 1

\* A slot in use whose descriptor is ready: as in select-server.c, except that a
\* closed connection does not end the round.
ArrayServe(s) ==
  LET f == client[s]
      n == ReadResult(sock[f])
  IN /\ f \in rset /\ sock[f] # None /\ Readable(sock[f])
     /\ Taken(sock[f])
     /\ \/ /\ n = 0
           /\ sock' = [sock EXCEPT ![f] = None]
           /\ allset' = allset \ {f}
           /\ client' = Freed(s)
           /\ i' = s + 1
           /\ UNCHANGED op
        \/ /\ n > 0
           /\ op' = [fd |-> f, n |-> n, left |-> n]
           /\ i' = After(s)
           /\ UNCHANGED <<sock, allset, client>>
        \/ /\ n = -1
           /\ i' = After(s)
           /\ UNCHANGED <<sock, allset, client, op>>
     /\ UNCHANGED <<backlog, sent, wire, given, alive>>

Skip(s) ==
  /\ client[s] \notin rset
  /\ i' = IF client[s] < 0 THEN s + 1 ELSE After(s)
  /\ UNCHANGED <<sockvars, client, allset>>

\* The slots one after the other; past the end of the array anything may be read.
Visit ==
  /\ i # -1 /\ LFD \notin rset
  /\ IF i > maxi
       THEN i' = -1 /\ UNCHANGED <<sockvars, client, allset>>
       ELSE IF i \in Slot
              THEN ArrayServe(i) \/ Skip(i)
              ELSE alive' = "wild" /\ UNCHANGED <<sock, backlog, netvars, op, client, allset, i>>
  /\ UNCHANGED <<maxi, rset, nready, maxfd>>

ArrayServer ==
  /\ alive = "run"
  /\ \/ Writing /\ UNCHANGED arrayvars
     \/ op = None /\ (ArraySelect \/ ArrayAccept \/ Visit)

ArrayNext == ArrayServer \/ \E c \in Conn : Client(c) /\ UNCHANGED arrayvars

ArraySpec == ArrayInit /\ [][ArrayNext]_allvars

\* main() loops for ever, and clients read the answers they are sent.
ArrayFairSpec ==
  ArraySpec /\ WF_allvars(ArrayServer) /\ \A c \in Conn : WF_allvars(PeerRead(c) /\ UNCHANGED arrayvars)

-----------------------------------------------------------------------------
(* Properties                                                              *)

ArrayTypeOK ==
  /\ NetTypeOK
  /\ client \in [Slot -> Fd \cup {-1}]
  /\ maxi \in Slot \cup MaxiInit
  /\ allset \subseteq Fd \cup {LFD} /\ LFD \in allset /\ maxfd \in Fd \cup {LFD}
  /\ rset \subseteq Fd \cup {LFD}
  /\ nready \in 0..(NFd + 1)
  /\ i \in -1..NSlot

\* The array, the set given to select() and the open descriptors are one and the
\* same set while the process runs, no descriptor has two slots, and every slot in
\* use is one that rounds visit.
ArrayAgrees ==
  alive = "run" =>
    LET used == {s \in Slot : client[s] >= 0}
    IN /\ {client[s] : s \in used} = allset \ {LFD}
       /\ allset \ {LFD} = {f \in Fd : sock[f] # None}
       /\ Cardinality(used) = Cardinality(allset) - 1
       /\ \A s \in used : s <= maxi

\* The round never meets a slot whose descriptor was ready and is not any more:
\* the one thread does not block in Read() on a client that has nothing to say.
ArrayNeverBlocks ==
  alive = "run" /\ i # -1 =>
    \A s \in Slot : s >= i /\ client[s] \in rset => client[s] \in Ready(allset)

\* What a round of the server relies on: its array and the kernel agree, and no call
\* blocks on a stale event.
ArrayInv == ArrayTypeOK /\ ArrayAgrees /\ ArrayNeverBlocks

\* array-select-server.c:95, when the round ends after the first slot in use: "the
\* active descriptor has been handled".  Were it so, what a client sends would be
\* read in the end.
ActiveHandled ==
  \A c \in Conn :
    (Known(c) /\ sent[c] > got[c]) ~> (sent[c] = got[c] \/ alive # "run" \/ ~Known(c))

\* What does hold of the rounds: the client in the first slot in use is never passed
\* over, whoever comes, goes or sends meanwhile.
First(c) ==
  \E s \in Slot :
    /\ client[s] >= 0 /\ sock[client[s]] = c
    /\ \A t \in Slot : t < s => client[t] < 0

FirstServed ==
  \A c \in Conn :
    (Known(c) /\ First(c) /\ sent[c] > got[c])
      ~> (sent[c] = got[c] \/ alive # "run" \/ ~Known(c) \/ ~First(c))
=============================================================================
