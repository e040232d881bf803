---------------------------- MODULE EpollReactor ----------------------------
(***************************************************************************)
(* The edge-triggered reactor of                                           *)
(* plan6-network/multi-io-servers/epoll-reactor-model.c.                    *)
(*                                                                         *)
(* One thread runs main(): epoll_wait() fills a batch of events, and each   *)
(* event calls the call_back of the slot of g_events it points to.  A       *)
(* handler runs to its end before the next one, so a handler is one step;   *)
(* clients and the kernel act between handlers, and between epoll_wait()    *)
(* and the handler of an event.  A connection alternates between recvdata,  *)
(* waiting for input, and senddata, waiting for room to write.              *)
(*                                                                         *)
(* The bytes a client sends are numbered, so that what is echoed tells      *)
(* which ones are lost; what the code does to a byte is Upper.              *)
(***************************************************************************)
EXTENDS Naturals, Sequences, FiniteSets, FiniteSetsExt

CONSTANTS
  Conn,      \* connections, each made once by some client: bounds the runs
  NSlot,     \* MAX_EVENTS: slots for clients
  BufSize,   \* sizeof(buf)
  Window,    \* bytes the kernel takes for a client that does not read
  MaxBytes,  \* connection -> bytes its client sends at most: bounds the runs
  None       \* no connection, not in the epoll tree

ASSUME SizeAssumption ==
  NSlot \in Nat \ {0} /\ BufSize \in Nat \ {0, 1} /\ Window \in Nat \ {0} /\ MaxBytes \in [Conn -> Nat]
ASSUME NoneAssumption == None \notin Conn /\ None \notin [slot : Nat, mask : {"in", "out"}]

Slot == 1..NSlot
Fd == 1..(NSlot + 1)         \* one more than slots: the client that is refused

VARIABLES
  g_events,  \* slot -> fd, call_back, events, status and buf up to buflen
  tree,      \* the epoll tree: fd -> slot and events registered, or None
  ready,     \* fds on the ready list of the edge-triggered epoll
  batch,     \* events returned by epoll_wait() and not handled yet
  sock,      \* open client fds: fd -> connection, or None
  backlog,   \* connections that wait for accept()
  peer,      \* connection -> state of the client's side
  sent,      \* connection -> number of bytes the client has sent
  got,       \* connection -> number of bytes the server has read
  wire,      \* connection -> bytes written and not read by the client yet
  echoed,    \* connection -> what was written to it, in order
  alive      \* the process runs (SIGPIPE is not ignored)

vars == <<g_events, tree, ready, batch, sock, backlog, peer, sent, got, wire, echoed, alive>>
netvars == <<peer, sent, got, wire, echoed>>
srvvars == <<g_events, tree, batch, sock, alive>>

Upper(b) == <<"upper", b>>

LISTENER == [slot |-> 0, ev |-> "in"]

Init ==
  /\ g_events = [i \in Slot |-> [fd |-> 0, call_back |-> "none", events |-> "none",
                                 status |-> 0, buf |-> <<>>]]
  /\ tree = [f \in Fd |-> None]
  /\ ready = {}
  /\ batch = {}
  /\ sock = [f \in Fd |-> None]
  /\ backlog = <<>>
  /\ peer = [c \in Conn |-> "idle"]
  /\ sent = [c \in Conn |-> 0]
  /\ got = [c \in Conn |-> 0]
  /\ wire = [c \in Conn |-> 0]
  /\ echoed = [c \in Conn |-> <<>>]
  /\ alive = TRUE

-----------------------------------------------------------------------------
(* What the kernel knows of a connection                                   *)

Broken(c) == peer[c] \in {"reset", "epipe"}
Readable(c) == sent[c] > got[c] \/ peer[c] = "fin" \/ Broken(c)
Writable(c) == wire[c] < Window \/ Broken(c)

\* The events of its mask that fd f has now.
Polled(f, mask) == IF mask = "in" THEN Readable(sock[f]) ELSE Writable(sock[f])

\* The edge: an event for connection c puts its fd on the ready list if the fd
\* is in the tree with that event.
Woken(c, masks) ==
  {f \in Fd : sock[f] = c /\ tree[f] # None /\ tree[f].mask \in masks}

-----------------------------------------------------------------------------
(* The clients                                                             *)

Known(c) == \E f \in Fd : sock[f] = c
Waiting(c) == \E i \in 1..Len(backlog) : backlog[i] = c

Connect(c) ==
  /\ peer[c] = "idle"
  /\ peer' = [peer EXCEPT ![c] = "open"]
  /\ backlog' = Append(backlog, c)
  /\ UNCHANGED <<srvvars, ready, sent, got, wire, echoed>>

Send(c) ==
  /\ peer[c] = "open" /\ (Known(c) \/ Waiting(c))
  /\ sent[c] < MaxBytes[c]
  /\ sent' = [sent EXCEPT ![c] = @ + 1]
  /\ ready' = ready \cup Woken(c, {"in"})
  /\ UNCHANGED <<srvvars, backlog, peer, got, wire, echoed>>

\* The client reads a byte, which makes room.
PeerRead(c) ==
  /\ peer[c] \in {"open", "fin"}
  /\ wire[c] > 0
  /\ wire' = [wire EXCEPT ![c] = @ - 1]
  /\ ready' = ready \cup Woken(c, {"out"})
  /\ UNCHANGED <<srvvars, backlog, peer, sent, got, echoed>>

\* The client closes its sending side.
PeerFin(c) ==
  /\ peer[c] = "open" /\ (Known(c) \/ Waiting(c))
  /\ peer' = [peer EXCEPT ![c] = "fin"]
  /\ ready' = ready \cup Woken(c, {"in"})
  /\ UNCHANGED <<srvvars, backlog, sent, got, wire, echoed>>

\* The client resets the connection.  A write then fails, with ECONNRESET if the
\* client had not closed before, with EPIPE and the signal if it had.
PeerAbort(c) ==
  /\ peer[c] \in {"open", "fin"} /\ (Known(c) \/ Waiting(c))
  /\ peer' = [peer EXCEPT ![c] = IF peer[c] = "open" THEN "reset" ELSE "epipe"]
  /\ ready' = ready \cup Woken(c, {"in", "out"})
  /\ UNCHANGED <<srvvars, backlog, sent, got, wire, echoed>>

-----------------------------------------------------------------------------
(* The server                                                              *)

\* epoll_wait() empties the ready list and returns the fds on it that still have
\* an event; the listening fd is level-triggered.
EpollWait ==
  /\ alive /\ batch = {}
  /\ ready # {} \/ backlog # <<>>
  /\ batch' = {[slot |-> tree[f].slot, ev |-> tree[f].mask] : f \in {g \in ready : Polled(g, tree[g].mask)}}
                \cup (IF backlog # <<>> THEN {LISTENER} ELSE {})
  /\ ready' = {}
  /\ UNCHANGED <<g_events, tree, sock, alive, backlog, netvars>>

\* Close(fd) takes the fd out of the tree as well; the slot keeps its status.
CloseMutant(f) ==
  /\ tree' = [tree EXCEPT ![f] = None]
  /\ ready' = ready \ {f}
  /\ UNCHANGED sock

Close(f) ==
  /\ sock' = [sock EXCEPT ![f] = None]
  /\ tree' = [tree EXCEPT ![f] = None]
  /\ ready' = ready \ {f}

\* set_event() and add_event() on a slot: EPOLL_CTL_ADD puts the fd on the ready
\* list at once if it already has the event.
RegisteredMutant(r, f, has) == r \ {f}
Registered(r, f, has) == IF has THEN r \cup {f} ELSE r \ {f}

Register(i, f, call_back, mask, buf, has) ==
  /\ g_events' = [g_events EXCEPT ![i] = [fd |-> f, call_back |-> call_back, events |-> mask,
                                          status |-> 1, buf |-> buf]]
  /\ tree' = [tree EXCEPT ![f] = [slot |-> i, mask |-> mask]]
  /\ ready' = Registered(ready, f, has)

\* A read that fills the buffer gives up its last byte for the terminating NUL.
BufLen(n) == IF n < BufSize THEN n ELSE BufSize - 1

\* The kernel hands out what arrived even after a reset; with nothing left Read()
\* returns 0 or -1, and both close the connection.
RecvData(i) ==
  LET f == g_events[i].fd
      c == sock[f]
      n == Min({sent[c] - got[c], BufSize})
  IN \/ /\ n = 0
        /\ Close(f)
        /\ UNCHANGED <<g_events, netvars>>
     \/ /\ n > 0
        /\ got' = [got EXCEPT ![c] = @ + n]
        /\ Register(i, f, "senddata", "out", [k \in 1..BufLen(n) |-> Upper(got[c] + k)], Writable(c))
        /\ UNCHANGED <<sock, peer, sent, wire, echoed>>

\* One Write() of the whole buffer; what the kernel does not take is dropped.
Written(buf, room) == SubSeq(buf, 1, Min({Len(buf), room}))

NextHandlerMutant == <<"senddata", "out">>
NextHandler == <<"recvdata", "in">>

SendData(i) ==
  LET f == g_events[i].fd
      c == sock[f]
      out == Written(g_events[i].buf, Window - wire[c])
  IN \/ /\ peer[c] = "epipe"
        /\ alive' = FALSE
        /\ UNCHANGED <<g_events, tree, sock, ready, netvars>>
     \/ /\ peer[c] # "epipe"
        /\ Broken(c) \/ out = <<>>    \* Write() returns -1
        /\ Close(f)
        /\ UNCHANGED <<g_events, alive, netvars>>
     \/ /\ ~Broken(c) /\ out # <<>>
        /\ wire' = [wire EXCEPT ![c] = @ + Len(out)]
        /\ echoed' = [echoed EXCEPT ![c] = @ \o out]
        /\ Register(i, f, NextHandler[1], NextHandler[2], g_events[i].buf, Readable(c))
        /\ UNCHANGED <<sock, alive, peer, sent, got>>

FreeSlots == {i \in Slot : g_events[i].status = 0}

\* accept() gives the lowest free fd; a client without a slot is closed at once.
AcceptConn ==
  LET c == Head(backlog)
      f == Min({g \in Fd : sock[g] = None})
  IN /\ backlog' = Tail(backlog)
     /\ \/ /\ FreeSlots = {}
           /\ UNCHANGED <<g_events, tree, ready, sock>>
        \/ /\ FreeSlots # {}
           /\ sock' = [sock EXCEPT ![f] = c]
           /\ Register(Min(FreeSlots), f, "recvdata", "in", <<>>, Readable(c))

\* One turn of the loop over the returned events: the event must match what the
\* slot waits for, and then the slot's call_back runs.
Dispatch(e) ==
  /\ alive /\ e \in batch
  /\ batch' = batch \ {e}
  /\ \/ /\ e = LISTENER
        /\ AcceptConn
        /\ UNCHANGED <<alive, netvars>>
     \/ /\ e # LISTENER
        /\ g_events[e.slot].events = e.ev
        /\ UNCHANGED backlog
        /\ \/ g_events[e.slot].call_back = "recvdata" /\ RecvData(e.slot) /\ UNCHANGED alive
           \/ g_events[e.slot].call_back = "senddata" /\ SendData(e.slot)

Server == EpollWait \/ \E e \in batch : Dispatch(e)

Client(c) == Connect(c) \/ Send(c) \/ PeerRead(c) \/ PeerFin(c) \/ PeerAbort(c)

Next == Server \/ \E c \in Conn : Client(c)

Spec == Init /\ [][Next]_vars

\* main() loops for ever, and clients read the answers they are sent.
FairSpec == Spec /\ WF_vars(Server) /\ \A c \in Conn : WF_vars(PeerRead(c))

-----------------------------------------------------------------------------
(* Properties                                                              *)

Byte == {"upper"} \X Nat
Event == [fd : Fd \cup {0}, call_back : {"none", "recvdata", "senddata"},
          events : {"none", "in", "out"}, status : {0, 1}, buf : Seq(Byte)]
Watch == [slot : Slot, mask : {"in", "out"}]

TypeOK ==
  /\ g_events \in [Slot -> Event]
  /\ \A i \in Slot : Len(g_events[i].buf) < BufSize
  /\ tree \in [Fd -> Watch \cup {None}]
  /\ ready \subseteq {f \in Fd : tree[f] # None}
  /\ batch \subseteq [slot : Slot, ev : {"in", "out"}] \cup {LISTENER}
  /\ sock \in [Fd -> Conn \cup {None}]
  /\ backlog \in Seq(Conn)
  /\ peer \in [Conn -> {"idle", "open", "fin", "reset", "epipe"}]
  /\ sent \in [Conn -> Nat] /\ got \in [Conn -> Nat] /\ wire \in [Conn -> 0..Window]
  /\ \A c \in Conn : sent[c] <= MaxBytes[c] /\ got[c] <= sent[c]
  /\ echoed \in [Conn -> Seq(Byte)]
  /\ alive \in BOOLEAN

\* The tree and the slots agree: a registered fd is open, points to a slot that
\* holds this very fd, and the slot's handler is the one for the registered
\* event.  (Otherwise an event of one client runs the handler of another.)
Wellpaired ==
  \A f \in Fd : tree[f] # None =>
    LET ev == g_events[tree[f].slot]
    IN /\ sock[f] # None
       /\ ev.fd = f /\ ev.status = 1 /\ ev.events = tree[f].mask
       /\ ev.call_back = IF tree[f].mask = "in" THEN "recvdata" ELSE "senddata"

\* No client is forgotten: an open fd is always in the tree, whichever way the
\* handlers left, and an event that is still to be handled belongs to one.
NoOrphan ==
  /\ \A f \in Fd : sock[f] # None => tree[f] # None
  /\ \A e \in batch \ {LISTENER} : \E f \in Fd : tree[f] = [slot |-> e.slot, mask |-> e.ev]

\* Slots, tree and open descriptors are consistent at every epoll_wait and between
\* the events of a batch.
Consistent == TypeOK /\ Wellpaired /\ NoOrphan

\* No edge is lost: a registered fd that has the event it waits for is on the
\* ready list or in the batch.  (Edge-triggered epoll reports a change once; the
\* handlers neither read nor write until EAGAIN, so everything depends on taking
\* the fd off the tree and putting it back.)
NoLostEdge ==
  \A f \in Fd : alive /\ tree[f] # None /\ Polled(f, tree[f].mask) =>
    f \in ready \/ [slot |-> tree[f].slot, ev |-> tree[f].mask] \in batch

\* What a client gets back are bytes it sent, each processed, in the order it sent
\* them and none twice, over all the buffers, short writes and re-arms.
EchoInOrder ==
  \A c \in Conn :
    /\ \A k \in 1..Len(echoed[c]) : \E b \in 1..got[c] : echoed[c][k] = Upper(b)
    /\ \A j, k \in 1..Len(echoed[c]) : j < k => echoed[c][j][2] < echoed[c][k][2]

\* A client that has sent less than a buffer and no more than the window takes loses
\* nothing: what was echoed and what is buffered for senddata is exactly what was
\* read, in whatever portions it was read.
Buffered(c) ==
  LET open == {f \in Fd : sock[f] = c /\ tree[f] # None /\ tree[f].mask = "out"}
  IN IF open = {} THEN <<>> ELSE g_events[tree[CHOOSE f \in open : TRUE].slot].buf

EchoComplete ==
  \A c \in Conn :
    Known(c) /\ sent[c] < BufSize /\ sent[c] <= Window =>
      echoed[c] \o Buffered(c) = [k \in 1..got[c] |-> Upper(k)]

\* What comes back is right, and all of it when it fits.
EchoFaithful == EchoInOrder /\ EchoComplete

\* Everything a client sends is read in the end, unless the server has closed
\* that connection or refused it, or was killed.
Handled ==
  \A c \in Conn :
    (sent[c] > got[c]) ~> (sent[c] = got[c] \/ ~alive \/ ~(Known(c) \/ Waiting(c)))
=============================================================================
