------------------------- MODULE EpollReactorProofs -------------------------
(***************************************************************************)
(* Proofs about EpollReactor, for any number of connections, slots and      *)
(* bytes and any buffer and window.  Three layers of invariant:             *)
(*                                                                         *)
(*   Consistent  slots, tree, batch and open descriptors fit together; it    *)
(*               is inductive as it stands                                  *)
(*   NoLostEdge  inductive relative to Consistent                           *)
(*   EchoInv     where in the stream of a connection the bytes are that a    *)
(*               slot buffers, and what is still exact about them            *)
(***************************************************************************)
EXTENDS EpollReactor, SequenceTheorems, FiniteSetTheorems, WellFoundedInduction, TLAPS

\* A set of descriptors or slots that is not empty has a lowest one.
LEMMA LowestIn ==
  ASSUME NEW S, S \subseteq Nat, S # {}
  PROVE  Min(S) \in S
<1>1. PICK m \in S : \A k \in S : <<k, m>> \notin OpToRel(<, Nat)
  BY WFMin, NatLessThanWellFounded, Zenon
<1>2. \A k \in S : ~(k < m)
  BY <1>1, Zenon DEF OpToRel
<1>3. \A k \in S : m <= k
  BY <1>2
<1> QED
  BY <1>3 DEF Min

\* The smaller of two numbers.
LEMMA MinOfTwo ==
  ASSUME NEW a \in Int, NEW b \in Int
  PROVE  Min({a, b}) \in Int /\ Min({a, b}) \in {a, b} /\ Min({a, b}) <= a /\ Min({a, b}) <= b
<1>1. \E x \in {a, b} : \A y \in {a, b} : x <= y
  OBVIOUS
<1>2. Min({a, b}) \in {a, b} /\ \A y \in {a, b} : Min({a, b}) <= y
  BY <1>1 DEF Min
<1> QED
  BY <1>2

\* A function on an interval from 1 is a sequence.
LEMMA FunctionIsSeq ==
  ASSUME NEW S, NEW n \in Nat, NEW s \in [1..n -> S]
  PROVE  s \in Seq(S) /\ Len(s) = n
  OBVIOUS

\* What one Write() takes: the front of the buffer, as much as there is room for.
LEMMA WrittenIs ==
  ASSUME NEW buf \in Seq(Byte), NEW room \in Nat
  PROVE  /\ Written(buf, room) \in Seq(Byte)
         /\ Len(Written(buf, room)) \in Nat
         /\ Len(Written(buf, room)) <= room /\ Len(Written(buf, room)) <= Len(buf)
         /\ Len(Written(buf, room)) \in {room, Len(buf)}
         /\ \A k \in 1..Len(Written(buf, room)) : Written(buf, room)[k] = buf[k]
<1> DEFINE n == Min({Len(buf), room})
<1>1. Len(buf) \in Nat
  BY LenProperties
<1>2. n \in Nat /\ n <= Len(buf) /\ n <= room /\ n \in {Len(buf), room}
  <2>1. Len(buf) \in Int /\ room \in Int
    BY <1>1
  <2>2. n \in {Len(buf), room} /\ n <= Len(buf) /\ n <= room
    BY <2>1, MinOfTwo
  <2> QED
    BY <1>1, <2>2
<1> HIDE DEF n
<1>3. \A k \in 1..n : buf[k] \in Byte
  BY <1>1, <1>2, ElementOfSeq
<1>4. /\ SubSeq(buf, 1, n) \in Seq(Byte)
      /\ Len(SubSeq(buf, 1, n)) = IF 1 <= n THEN n - 1 + 1 ELSE 0
      /\ \A k \in 1..(n - 1 + 1) : SubSeq(buf, 1, n)[k] = buf[1 + k - 1]
  BY <1>2, <1>3, SubSeqProperties
<1>5. Len(SubSeq(buf, 1, n)) = n /\ \A k \in 1..n : SubSeq(buf, 1, n)[k] = buf[k]
  BY <1>2, <1>4
<1>6. Written(buf, room) = SubSeq(buf, 1, n)
  BY DEF Written, n
<1> QED
  BY <1>2, <1>4, <1>5, <1>6

-----------------------------------------------------------------------------
(* Slots, tree, batch and descriptors                                      *)

\* The two halves of TypeOK: what the handlers of the server keep, and the sockets.
SrvTypes ==
  /\ g_events \in [Slot -> Event]
  /\ \A i \in Slot : Len(g_events[i].buf) < BufSize
  /\ tree \in [Fd -> Watch \cup {None}]
  /\ ready \subseteq {f \in Fd : tree[f] # None}
  /\ batch \subseteq [slot : Slot, ev : {"in", "out"}] \cup {LISTENER}
  /\ sock \in [Fd -> Conn \cup {None}]

NetTypes ==
  /\ backlog \in Seq(Conn)
  /\ peer \in [Conn -> {"idle", "open", "fin", "reset", "epipe"}]
  /\ sent \in [Conn -> Nat] /\ got \in [Conn -> Nat] /\ wire \in [Conn -> 0..Window]
  /\ \A c \in Conn : sent[c] <= MaxBytes[c] /\ got[c] <= sent[c]
  /\ echoed \in [Conn -> Seq(Byte)]
  /\ alive \in BOOLEAN

LEMMA Halves == TypeOK <=> SrvTypes /\ NetTypes
  BY DEF TypeOK, SrvTypes, NetTypes

LEMMA NoneIsNoWatch == None \notin Watch
  BY NoneAssumption, SizeAssumption DEF Watch, Slot

\* The event of a batch that is handled belongs to one registered descriptor, and its
\* slot to no other.
LEMMA EventOf ==
  ASSUME Consistent, NEW e \in batch, e # LISTENER
  PROVE  /\ e.slot \in Slot /\ g_events[e.slot].fd \in Fd
         /\ tree[g_events[e.slot].fd] = [slot |-> e.slot, mask |-> e.ev]
         /\ tree[g_events[e.slot].fd] # None
         /\ sock[g_events[e.slot].fd] \in Conn
         /\ g_events[e.slot].events = e.ev
         /\ g_events[e.slot].call_back = IF e.ev = "in" THEN "recvdata" ELSE "senddata"
         /\ \A f \in Fd : f # g_events[e.slot].fd /\ tree[f] # None => tree[f].slot # e.slot
         /\ \A d \in batch \ {e, LISTENER} : d.slot # e.slot
<1>1. e \in [slot : Slot, ev : {"in", "out"}]
  BY DEF Consistent, TypeOK
<1>2. PICK f \in Fd : tree[f] = [slot |-> e.slot, mask |-> e.ev]
  BY DEF Consistent, NoOrphan
<1>3. tree[f] # None /\ tree[f].slot = e.slot /\ tree[f].mask = e.ev
  BY <1>1, <1>2, NoneIsNoWatch DEF Watch
<1>4. g_events[e.slot].fd = f /\ sock[f] # None
  BY <1>3 DEF Consistent, Wellpaired
<1>5. \A g \in Fd : tree[g] # None => g_events[tree[g].slot].fd = g
  BY DEF Consistent, Wellpaired
<1>6. ASSUME NEW d \in batch \ {LISTENER}, d.slot = e.slot
      PROVE  d = e
  <2>1. d \in [slot : Slot, ev : {"in", "out"}]
    BY DEF Consistent, TypeOK
  <2>2. PICK g \in Fd : tree[g] = [slot |-> d.slot, mask |-> d.ev]
    BY DEF Consistent, NoOrphan
  <2>3. tree[g] # None /\ tree[g].slot = d.slot
    BY <2>1, <2>2, NoneIsNoWatch DEF Watch
  <2>4. g = f
    BY <1>4, <1>5, <1>6, <2>3
  <2> QED
    BY <1>1, <1>2, <1>6, <2>1, <2>2, <2>4
<1>7. sock[f] \in Conn
  BY <1>4 DEF Consistent, TypeOK
<1>8. /\ g_events[e.slot].events = e.ev
      /\ g_events[e.slot].call_back = IF e.ev = "in" THEN "recvdata" ELSE "senddata"
  BY <1>3 DEF Consistent, Wellpaired
<1> QED
  BY <1>1, <1>2, <1>3, <1>4, <1>5, <1>6, <1>7, <1>8

\* A handler that closes the connection.
LEMMA CloseKeeps ==
  ASSUME Consistent, NEW e \in batch, e # LISTENER, batch' = batch \ {e},
         Close(g_events[e.slot].fd), g_events' = g_events, NetTypes'
  PROVE  Consistent'
<1> DEFINE f == g_events[e.slot].fd
<1>1. /\ f \in Fd /\ tree[f].slot = e.slot /\ e.slot \in Slot
      /\ \A d \in batch' \ {LISTENER} : d.slot # e.slot
  <2>1. f \in Fd /\ e.slot \in Slot /\ tree[f] = [slot |-> e.slot, mask |-> e.ev]
    BY EventOf
  <2>2. \A d \in batch \ {e, LISTENER} : d.slot # e.slot
    BY EventOf
  <2> QED
    BY <2>1, <2>2
<1>2. sock' = [sock EXCEPT ![f] = None] /\ tree' = [tree EXCEPT ![f] = None] /\ ready' = ready \ {f}
  BY DEF Close
<1>3. SrvTypes
  BY DEF Consistent, TypeOK, SrvTypes
<1>4. SrvTypes'
  BY <1>1, <1>2, <1>3 DEF SrvTypes
<1>5. \A g \in Fd : tree'[g] # None => g # f /\ tree'[g] = tree[g] /\ sock'[g] = sock[g]
  BY <1>1, <1>2, <1>3 DEF SrvTypes
<1>6. Wellpaired'
  BY <1>5 DEF Consistent, Wellpaired
<1>7. NoOrphan'
  <2>1. \A g \in Fd : sock'[g] # None => tree'[g] # None
    BY <1>1, <1>2, <1>3 DEF SrvTypes, Consistent, NoOrphan
  <2>2. ASSUME NEW d \in batch' \ {LISTENER}
        PROVE  \E g \in Fd : tree'[g] = [slot |-> d.slot, mask |-> d.ev]
    <3>1. PICK g \in Fd : tree[g] = [slot |-> d.slot, mask |-> d.ev]
      BY DEF Consistent, NoOrphan
    <3>2. g # f
      BY <1>1, <3>1
    <3> QED
      BY <1>2, <1>3, <3>1, <3>2 DEF SrvTypes
  <2> QED
    BY <2>1, <2>2 DEF NoOrphan
<1> QED
  BY <1>4, <1>6, <1>7, Halves DEF Consistent, TypeOK, SrvTypes, NetTypes

\* set_event() and add_event() on a slot that no other descriptor of the tree and no
\* event of the batch points to.
LEMMA RegisterKeeps ==
  ASSUME Consistent, NEW i \in Slot, NEW f \in Fd, NEW mask \in {"in", "out"}, NEW buf \in Seq(Byte),
         NEW has, Len(buf) < BufSize,
         Register(i, f, IF mask = "in" THEN "recvdata" ELSE "senddata", mask, buf, has),
         sock' \in [Fd -> Conn \cup {None}], sock'[f] # None,
         \A g \in Fd : g # f => sock'[g] = sock[g],
         \A g \in Fd : g # f /\ tree[g] # None => tree[g].slot # i,
         batch' \subseteq batch, \A d \in batch' \ {LISTENER} : d.slot # i,
         tree[f] = None \/ tree[f].slot = i,
         NetTypes'
  PROVE  Consistent'
<1> DEFINE cb == IF mask = "in" THEN "recvdata" ELSE "senddata"
<1>1. /\ g_events' = [g_events EXCEPT ![i] = [fd |-> f, call_back |-> cb, events |-> mask,
                                              status |-> 1, buf |-> buf]]
      /\ tree' = [tree EXCEPT ![f] = [slot |-> i, mask |-> mask]]
      /\ ready' \subseteq ready \cup {f}
  BY DEF Register, Registered
<1>2. SrvTypes
  BY DEF Consistent, TypeOK, SrvTypes
<1>3. [slot |-> i, mask |-> mask] \in Watch /\ [slot |-> i, mask |-> mask] # None
  BY NoneIsNoWatch DEF Watch
<1>4. SrvTypes'
  <2>1. [fd |-> f, call_back |-> cb, events |-> mask, status |-> 1, buf |-> buf] \in Event
    BY DEF Event
  <2>2. g_events' \in [Slot -> Event] /\ \A j \in Slot : Len(g_events'[j].buf) < BufSize
    BY <1>1, <1>2, <2>1 DEF SrvTypes
  <2>3. tree' \in [Fd -> Watch \cup {None}] /\ ready' \subseteq {g \in Fd : tree'[g] # None}
    BY <1>1, <1>2, <1>3 DEF SrvTypes
  <2> QED
    BY <1>2, <2>2, <2>3 DEF SrvTypes
<1>5. /\ tree'[f] = [slot |-> i, mask |-> mask]
      /\ \A g \in Fd : g # f => tree'[g] = tree[g]
      /\ g_events'[i] = [fd |-> f, call_back |-> cb, events |-> mask, status |-> 1, buf |-> buf]
      /\ \A j \in Slot : j # i => g_events'[j] = g_events[j]
  BY <1>1, <1>2 DEF SrvTypes
<1>6. Wellpaired'
  <2>1. ASSUME NEW g \in Fd, tree'[g] # None, g # f
        PROVE  tree'[g] = tree[g] /\ sock'[g] = sock[g] /\ g_events'[tree[g].slot] = g_events[tree[g].slot]
    <3>1. tree[g] # None /\ tree[g] \in Watch
      BY <1>2, <1>5, <2>1 DEF SrvTypes
    <3>2. tree[g].slot \in Slot /\ tree[g].slot # i
      BY <2>1, <3>1 DEF Watch
    <3> QED
      BY <1>5, <2>1, <3>2
  <2> QED
    BY <1>5, <2>1 DEF Consistent, Wellpaired
<1>7. NoOrphan'
  <2>1. \A g \in Fd : sock'[g] # None => tree'[g] # None
    BY <1>3, <1>5 DEF Consistent, NoOrphan
  <2>2. ASSUME NEW d \in batch' \ {LISTENER}
        PROVE  \E g \in Fd : tree'[g] = [slot |-> d.slot, mask |-> d.ev]
    <3>1. PICK g \in Fd : tree[g] = [slot |-> d.slot, mask |-> d.ev]
      BY DEF Consistent, NoOrphan
    <3>2. d \in [slot : Slot, ev : {"in", "out"}] /\ d.slot # i
      BY <1>2 DEF SrvTypes
    <3>3. g # f
      BY <3>1, <3>2, NoneIsNoWatch DEF Watch
    <3> QED
      BY <1>5, <3>1, <3>3
  <2> QED
    BY <2>1, <2>2 DEF NoOrphan
<1> QED
  BY <1>4, <1>6, <1>7, Halves DEF Consistent, TypeOK, SrvTypes, NetTypes

\* recvdata() reads from the connection of its slot and answers with an event for the
\* same descriptor, or closes it.
LEMMA RecvKeeps ==
  ASSUME Consistent, NEW e \in batch, e # LISTENER, batch' = batch \ {e},
         g_events[e.slot].call_back = "recvdata", RecvData(e.slot), UNCHANGED <<alive, backlog>>
  PROVE  Consistent'
<1> DEFINE i == e.slot
           f == g_events[i].fd
           c == sock[f]
           n == Min({sent[c] - got[c], BufSize})
<1>1. i \in Slot /\ f \in Fd /\ c \in Conn /\ tree[f] = [slot |-> i, mask |-> e.ev]
  BY EventOf
<1>2. \A g \in Fd : g # f /\ tree[g] # None => tree[g].slot # i
  BY EventOf
<1>3. \A d \in batch \ {e, LISTENER} : d.slot # i
  BY EventOf
<1>4. SrvTypes /\ NetTypes
  BY Halves DEF Consistent
<1>5. sent[c] \in Nat /\ got[c] \in Nat /\ got[c] <= sent[c] /\ BufSize \in Nat \ {0, 1}
  BY <1>1, <1>4, SizeAssumption DEF NetTypes
<1>6. n \in Nat /\ n <= sent[c] - got[c] /\ n <= BufSize
  <2>1. sent[c] - got[c] \in Int /\ BufSize \in Int
    BY <1>5
  <2>2. n \in {sent[c] - got[c], BufSize} /\ n <= sent[c] - got[c] /\ n <= BufSize
    BY <2>1, MinOfTwo
  <2> QED
    BY <1>5, <2>2
<1>7. CASE n = 0
  <2>1. Close(f) /\ UNCHANGED <<g_events, netvars>>
    BY <1>7, SMTT(30) DEF RecvData
  <2>2. NetTypes'
    BY <1>4, <2>1 DEF NetTypes, netvars
  <2> QED
    BY <2>1, <2>2, CloseKeeps
<1>8. CASE n # 0
  <2> DEFINE buf == [k \in 1..BufLen(n) |-> Upper(got[c] + k)]
  <2>1. /\ got' = [got EXCEPT ![c] = @ + n]
        /\ Register(i, f, "senddata", "out", buf, Writable(c))
        /\ UNCHANGED <<sock, peer, sent, wire, echoed>>
    BY <1>6, <1>8 DEF RecvData
  <2>2. BufLen(n) \in Nat /\ BufLen(n) < BufSize
    BY <1>5, <1>6 DEF BufLen
  <2>3. buf \in Seq(Byte) /\ Len(buf) < BufSize
    <3>1. \A k \in 1..BufLen(n) : Upper(got[c] + k) \in Byte
      BY <1>5, <2>2 DEF Upper, Byte
    <3>2. buf \in [1..BufLen(n) -> Byte]
      BY <3>1
    <3> HIDE DEF buf
    <3>3. buf \in Seq(Byte) /\ Len(buf) = BufLen(n)
      BY <2>2, <3>2, FunctionIsSeq
    <3> QED
      BY <2>2, <3>3
  <2>4. NetTypes'
    <3>1. got[c] + n \in Nat /\ got[c] + n <= sent[c]
      BY <1>5, <1>6
    <3> HIDE DEF n, f
    <3>2. got' \in [Conn -> Nat] /\ \A d \in Conn : got'[d] <= sent[d]
      BY <1>1, <1>4, <2>1, <3>1 DEF NetTypes
    <3> QED
      BY <1>4, <2>1, <3>2 DEF NetTypes
  <2>5. sock' = sock /\ sock \in [Fd -> Conn \cup {None}] /\ sock[f] # None
    BY <1>1, <1>4, <2>1, NoneAssumption DEF SrvTypes
  <2>6. batch' \subseteq batch /\ (\A d \in batch' \ {LISTENER} : d.slot # i) /\ tree[f].slot = i
    BY <1>1, <1>3
  <2> HIDE DEF buf
  <2>7. Register(i, f, IF "out" = "in" THEN "recvdata" ELSE "senddata", "out", buf, Writable(c))
    BY <2>1
  <2> QED
    BY <1>1, <1>2, <2>3, <2>4, <2>5, <2>6, <2>7, RegisterKeeps
<1> QED
  BY <1>7, <1>8

\* senddata() writes what fits and answers with an event for the same descriptor, or
\* closes it, or the process is killed.
LEMMA SendKeeps ==
  ASSUME Consistent, NEW e \in batch, e # LISTENER, batch' = batch \ {e},
         SendData(e.slot), UNCHANGED backlog
  PROVE  Consistent'
<1> DEFINE i == e.slot
           f == g_events[i].fd
           c == sock[f]
           out == Written(g_events[i].buf, Window - wire[c])
<1>1. i \in Slot /\ f \in Fd /\ c \in Conn /\ tree[f] = [slot |-> i, mask |-> e.ev]
  BY EventOf
<1>2. \A g \in Fd : g # f /\ tree[g] # None => tree[g].slot # i
  BY EventOf
<1>3. \A d \in batch \ {e, LISTENER} : d.slot # i
  BY EventOf
<1>4. SrvTypes /\ NetTypes
  BY Halves DEF Consistent
<1>5. /\ g_events[i].buf \in Seq(Byte) /\ Len(g_events[i].buf) < BufSize
      /\ wire[c] \in 0..Window /\ Window \in Nat /\ echoed[c] \in Seq(Byte)
  BY <1>1, <1>4, SizeAssumption DEF SrvTypes, NetTypes, Event
<1>6. out \in Seq(Byte) /\ Len(out) \in Nat /\ Len(out) <= Window - wire[c]
  BY <1>5, WrittenIs
<1>7. CASE peer[c] = "epipe"
  <2>1. alive' = FALSE /\ UNCHANGED <<g_events, tree, sock, ready, netvars>>
    <3>1. ~(peer[c] # "epipe")
      BY <1>7
    <3> QED
      BY <3>1 DEF SendData, Broken
  <2>2. SrvTypes' /\ NetTypes'
    BY <1>4, <2>1 DEF SrvTypes, NetTypes, netvars
  <2> QED
    BY <2>1, <2>2, Halves DEF Consistent, Wellpaired, NoOrphan, TypeOK, SrvTypes, NetTypes
<1>8. CASE peer[c] # "epipe" /\ (Broken(c) \/ out = <<>>)
  <2>1. Close(f) /\ UNCHANGED <<g_events, alive, netvars>>
    BY <1>8 DEF SendData
  <2>2. NetTypes'
    BY <1>4, <2>1 DEF NetTypes, netvars
  <2> QED
    BY <2>1, <2>2, CloseKeeps
<1>9. CASE peer[c] # "epipe" /\ ~Broken(c) /\ out # <<>>
  <2>1. /\ wire' = [wire EXCEPT ![c] = @ + Len(out)]
        /\ echoed' = [echoed EXCEPT ![c] = @ \o out]
        /\ Register(i, f, "recvdata", "in", g_events[i].buf, Readable(c))
        /\ UNCHANGED <<sock, alive, peer, sent, got>>
    BY <1>9 DEF SendData, NextHandler
  <2>2. echoed[c] \o out \in Seq(Byte)
    BY <1>5, <1>6, ConcatProperties
  <2>3. wire[c] + Len(out) \in 0..Window
    BY <1>5, <1>6
  <2> HIDE DEF out
  <2>4. NetTypes'
    BY <1>1, <1>4, <2>1, <2>2, <2>3 DEF NetTypes
  <2>5. sock' = sock /\ sock \in [Fd -> Conn \cup {None}] /\ sock[f] # None
    BY <1>1, <1>4, <2>1, NoneAssumption DEF SrvTypes
  <2>6. batch' \subseteq batch /\ (\A d \in batch' \ {LISTENER} : d.slot # i) /\ tree[f].slot = i
    BY <1>1, <1>3
  <2>7. Register(i, f, IF "in" = "in" THEN "recvdata" ELSE "senddata", "in", g_events[i].buf, Readable(c))
    BY <2>1
  <2> QED
    BY <1>1, <1>2, <1>5, <2>4, <2>5, <2>6, <2>7, RegisterKeeps
<1> QED
  BY <1>7, <1>8, <1>9 DEF SendData

LEMMA SlotsAreFinite ==
  /\ IsFiniteSet(Slot) /\ Cardinality(Slot) = NSlot
  /\ IsFiniteSet(Fd) /\ Cardinality(Fd) = NSlot + 1
<1>1. NSlot \in Nat
  BY SizeAssumption
<1> QED
  BY <1>1, FS_Interval DEF Slot, Fd

\* There is a descriptor for a client whenever there is one for listening and one for
\* every slot: open descriptors have slots of their own.
LEMMA FdFree ==
  ASSUME Consistent
  PROVE  {g \in Fd : sock[g] = None} # {}
<1> SUFFICES ASSUME \A g \in Fd : sock[g] # None
             PROVE  FALSE
  OBVIOUS
<1> DEFINE at == [g \in Fd |-> tree[g].slot]
<1>1. \A g \in Fd : tree[g] # None /\ tree[g] \in Watch
  BY DEF Consistent, NoOrphan, TypeOK
<1>2. at \in [Fd -> Slot]
  BY <1>1 DEF Watch
<1>3. \A g \in Fd : g_events[at[g]].fd = g
  BY <1>1 DEF Consistent, Wellpaired
<1>4. Cardinality(Slot) < Cardinality(Fd)
  BY SlotsAreFinite, SizeAssumption
<1>5. \E g, h \in Fd : g # h /\ at[g] = at[h]
  <2> HIDE DEF at
  <2> QED
    BY <1>2, <1>4, SlotsAreFinite, FS_PigeonHole
<1> QED
  BY <1>3, <1>5

LEMMA AcceptKeeps ==
  ASSUME Consistent, LISTENER \in batch, batch' = batch \ {LISTENER}, backlog # <<>>,
         AcceptConn, UNCHANGED <<alive, netvars>>
  PROVE  Consistent'
<1> DEFINE c == Head(backlog)
           f == Min({g \in Fd : sock[g] = None})
           i == Min(FreeSlots)
<1>1. SrvTypes /\ NetTypes
  BY Halves DEF Consistent
<1>2. c \in Conn /\ Tail(backlog) \in Seq(Conn)
  BY <1>1, HeadTailProperties DEF NetTypes
<1>3. NetTypes'
  <2>1. backlog' = Tail(backlog)
    BY DEF AcceptConn
  <2> QED
    BY <1>1, <1>2, <2>1 DEF NetTypes, netvars
<1>4. CASE FreeSlots = {}
  <2>1. UNCHANGED <<g_events, tree, ready, sock>>
    BY <1>4 DEF AcceptConn
  <2>2. SrvTypes'
    BY <1>1, <2>1 DEF SrvTypes
  <2> QED
    BY <1>3, <2>1, <2>2, Halves, SMTT(30) DEF Consistent, Wellpaired, NoOrphan, TypeOK, SrvTypes, NetTypes
<1>5. CASE FreeSlots # {}
  <2>1. f \in Fd /\ sock[f] = None
    <3>1. {g \in Fd : sock[g] = None} \subseteq Nat
      BY DEF Fd
    <3> QED
      BY <3>1, FdFree, LowestIn
  <2>2. i \in Slot /\ g_events[i].status = 0
    <3>1. FreeSlots \subseteq Nat
      BY DEF FreeSlots, Slot
    <3>2. i \in FreeSlots
      BY <1>5, <3>1, LowestIn
    <3> QED
      BY <3>2 DEF FreeSlots
  <2>3. /\ sock' = [sock EXCEPT ![f] = c]
        /\ Register(i, f, "recvdata", "in", <<>>, Readable(c))
    BY <1>5 DEF AcceptConn
  <2> HIDE DEF f, i, c
  <2>4. tree[f] = None
    BY <2>1 DEF Consistent, Wellpaired
  <2>5. \A g \in Fd : tree[g] # None => tree[g].slot # i
    BY <2>2 DEF Consistent, Wellpaired
  <2>6. \A d \in batch' \ {LISTENER} : d.slot # i
    <3>1. ASSUME NEW d \in batch, d # LISTENER
          PROVE  d.slot # i
      <4>1. /\ g_events[d.slot].fd \in Fd /\ tree[g_events[d.slot].fd] # None
            /\ tree[g_events[d.slot].fd] = [slot |-> d.slot, mask |-> d.ev]
        BY <3>1, EventOf
      <4> QED
        BY <2>5, <4>1
    <3> QED
      BY <3>1
  <2>7. sock' \in [Fd -> Conn \cup {None}] /\ sock'[f] # None /\ \A g \in Fd : g # f => sock'[g] = sock[g]
    BY <1>1, <1>2, <2>1, <2>3, NoneAssumption DEF SrvTypes
  <2>8. <<>> \in Seq(Byte) /\ Len(<<>>) < BufSize
    BY SizeAssumption
  <2>9. Register(i, f, IF "in" = "in" THEN "recvdata" ELSE "senddata", "in", <<>>, Readable(c))
    BY <2>3
  <2> QED
    BY <1>3, <2>1, <2>2, <2>4, <2>5, <2>6, <2>7, <2>8, <2>9, RegisterKeeps, ZenonT(30)
<1> QED
  BY <1>4, <1>5

\* The event of the listening descriptor is true when its turn comes.
ListenerTrue == LISTENER \in batch => backlog # <<>>

LEMMA WaitKeeps ==
  ASSUME Consistent, EpollWait
  PROVE  Consistent' /\ ListenerTrue'
<1>1. SrvTypes /\ NetTypes
  BY Halves DEF Consistent
<1>2. /\ batch' = {[slot |-> tree[f].slot, ev |-> tree[f].mask] : f \in {g \in ready : Polled(g, tree[g].mask)}}
                    \cup (IF backlog # <<>> THEN {LISTENER} ELSE {})
      /\ ready' = {}
      /\ UNCHANGED <<g_events, tree, sock, alive, backlog, netvars>>
  BY DEF EpollWait
<1>3. ASSUME NEW f \in ready
      PROVE  /\ f \in Fd /\ tree[f] \in Watch
             /\ [slot |-> tree[f].slot, ev |-> tree[f].mask] \in [slot : Slot, ev : {"in", "out"}]
             /\ tree[f] = [slot |-> tree[f].slot, mask |-> tree[f].mask]
  BY <1>1 DEF SrvTypes, Watch
<1>4. SrvTypes'
  <2>1. batch' \subseteq [slot : Slot, ev : {"in", "out"}] \cup {LISTENER}
    BY <1>2, <1>3, ZenonT(30)
  <2> QED
    BY <1>1, <1>2, <2>1 DEF SrvTypes
<1>5. NetTypes'
  BY <1>1, <1>2 DEF NetTypes, netvars
<1>6. Wellpaired'
  BY <1>2 DEF Consistent, Wellpaired
<1>7. NoOrphan'
  <2>1. ASSUME NEW e \in batch' \ {LISTENER}
        PROVE  \E f \in Fd : tree'[f] = [slot |-> e.slot, mask |-> e.ev]
    <3>1. PICK f \in ready : e = [slot |-> tree[f].slot, ev |-> tree[f].mask]
      BY <1>2
    <3> QED
      BY <1>2, <1>3, <3>1
  <2> QED
    BY <1>2, <2>1 DEF Consistent, NoOrphan
<1>8. LISTENER \in batch' => backlog # <<>>
  <2>1. LISTENER \notin [slot : Slot, ev : {"in", "out"}]
    BY DEF LISTENER, Slot
  <2> QED
    BY <1>2, <1>3, <2>1
<1> QED
  BY <1>2, <1>4, <1>5, <1>6, <1>7, <1>8, Halves DEF Consistent, TypeOK, SrvTypes, NetTypes, ListenerTrue

LEMMA ClientKeeps ==
  ASSUME Consistent, ListenerTrue, NEW c \in Conn, Client(c)
  PROVE  Consistent' /\ ListenerTrue'
<1>1. SrvTypes /\ NetTypes
  BY Halves DEF Consistent
<1>2. UNCHANGED srvvars
  BY DEF Client, Connect, Send, PeerRead, PeerFin, PeerAbort
<1>3. ready' \subseteq ready \cup {f \in Fd : tree[f] # None}
  BY DEF Client, Connect, Send, PeerRead, PeerFin, PeerAbort, Woken
<1>4. SrvTypes'
  BY <1>1, <1>2, <1>3 DEF SrvTypes, srvvars
<1>5. MaxBytes[c] \in Nat /\ Window \in Nat
  BY SizeAssumption
<1>6. NetTypes' /\ (backlog # <<>> => backlog' # <<>>)
  <2>1. CASE Connect(c)
    <3>1. Append(backlog, c) \in Seq(Conn) /\ Append(backlog, c) # <<>>
      <4>1. backlog \in Seq(Conn) /\ Len(backlog) \in Nat
        BY <1>1 DEF NetTypes
      <4>2. Append(backlog, c) \in Seq(Conn) /\ Len(Append(backlog, c)) = Len(backlog) + 1
        BY <4>1
      <4> QED
        BY <4>1, <4>2, EmptySeq
    <3> QED
      BY <1>1, <2>1, <3>1 DEF NetTypes, Connect, srvvars
  <2>2. CASE Send(c)
    <3>1. sent' = [sent EXCEPT ![c] = @ + 1] /\ sent[c] < MaxBytes[c]
      BY <2>2 DEF Send
    <3>2. sent[c] + 1 \in Nat /\ sent[c] + 1 <= MaxBytes[c] /\ got[c] <= sent[c] + 1
      BY <1>1, <1>5, <3>1 DEF NetTypes
    <3>3. sent' \in [Conn -> Nat] /\ \A d \in Conn : sent'[d] <= MaxBytes[d] /\ got[d] <= sent'[d]
      BY <1>1, <3>1, <3>2 DEF NetTypes
    <3> QED
      BY <1>1, <2>2, <3>3 DEF NetTypes, Send, srvvars
  <2>3. CASE PeerRead(c)
    <3>1. wire' = [wire EXCEPT ![c] = @ - 1] /\ wire[c] > 0 /\ wire[c] \in 0..Window
      BY <1>1, <2>3 DEF PeerRead, NetTypes
    <3>2. wire[c] - 1 \in 0..Window
      BY <1>5, <3>1
    <3> QED
      BY <1>1, <2>3, <3>1, <3>2 DEF NetTypes, PeerRead, srvvars
  <2>4. CASE PeerFin(c)
    BY <1>1, <2>4 DEF NetTypes, PeerFin, srvvars
  <2>5. CASE PeerAbort(c)
    BY <1>1, <2>5 DEF NetTypes, PeerAbort, srvvars
  <2> QED
    BY <2>1, <2>2, <2>3, <2>4, <2>5 DEF Client
<1>7. Wellpaired' /\ NoOrphan'
  BY <1>2 DEF Consistent, Wellpaired, NoOrphan, srvvars
<1> QED
  BY <1>2, <1>4, <1>6, <1>7, Halves DEF Consistent, TypeOK, SrvTypes, NetTypes, ListenerTrue, srvvars

LEMMA DispatchKeeps ==
  ASSUME Consistent, ListenerTrue, NEW e \in batch, Dispatch(e)
  PROVE  Consistent' /\ ListenerTrue'
<1>1. batch' = batch \ {e}
  BY DEF Dispatch
<1>2. CASE e = LISTENER
  <2>1. AcceptConn /\ UNCHANGED <<alive, netvars>>
    BY <1>2 DEF Dispatch
  <2> QED
    BY <1>1, <1>2, <2>1, AcceptKeeps DEF ListenerTrue
<1>3. CASE e # LISTENER
  <2>1. UNCHANGED backlog
    BY <1>3 DEF Dispatch
  <2>2. \/ g_events[e.slot].call_back = "recvdata" /\ RecvData(e.slot) /\ UNCHANGED alive
        \/ g_events[e.slot].call_back = "senddata" /\ SendData(e.slot)
    BY <1>3 DEF Dispatch
  <2>3. Consistent'
    BY <1>1, <1>3, <2>1, <2>2, RecvKeeps, SendKeeps
  <2> QED
    BY <1>1, <2>1, <2>3 DEF ListenerTrue
<1> QED
  BY <1>2, <1>3

LEMMA StartsConsistent ==
  ASSUME Init
  PROVE  Consistent /\ ListenerTrue
<1>1. SrvTypes /\ NetTypes
  <2>1. BufSize \in Nat \ {0, 1} /\ Window \in Nat /\ MaxBytes \in [Conn -> Nat]
    BY SizeAssumption
  <2>2. [fd |-> 0, call_back |-> "none", events |-> "none", status |-> 0, buf |-> <<>>] \in Event
    BY DEF Event
  <2> QED
    BY <2>1, <2>2 DEF Init, SrvTypes, NetTypes
<1>2. Wellpaired /\ NoOrphan /\ ListenerTrue
  BY DEF Init, Wellpaired, NoOrphan, ListenerTrue
<1> QED
  BY <1>1, <1>2, Halves DEF Consistent

LEMMA StaysConsistent == Spec => [](Consistent /\ ListenerTrue)
<1>1. Consistent /\ ListenerTrue /\ [Next]_vars => (Consistent /\ ListenerTrue)'
  <2>1. Consistent /\ ListenerTrue /\ UNCHANGED vars => (Consistent /\ ListenerTrue)'
    BY DEF Consistent, ListenerTrue, TypeOK, Wellpaired, NoOrphan, vars
  <2>2. Consistent /\ ListenerTrue /\ Next => (Consistent /\ ListenerTrue)'
    BY WaitKeeps, ClientKeeps, DispatchKeeps DEF Next, Server
  <2> QED
    BY <2>1, <2>2
<1> QED
  BY <1>1, StartsConsistent, PTL DEF Spec

\* For any number of connections, slots and bytes: slots, tree, batch and open
\* descriptors fit together before every handler, so that no event of one client runs
\* a handler on another, no client is left without an event, and there is a descriptor
\* to accept with.
THEOREM Paired == Spec => []Consistent
  BY StaysConsistent, PTL

-----------------------------------------------------------------------------
(* No edge is lost                                                         *)

\* The descriptors a handler does not touch keep their edges: what a handler does to its
\* own connection makes no other readable or writable.
LEMMA OthersKeepEdges ==
  ASSUME Consistent, NoLostEdge, alive, NEW e \in batch, NEW h \in Fd, batch' = batch \ {e},
         \A g \in Fd : g # h =>
           /\ tree'[g] = tree[g] /\ sock'[g] = sock[g]
           /\ tree[g] # None => [slot |-> tree[g].slot, ev |-> tree[g].mask] # e,
         ready \subseteq ready' \cup {h},
         sent' = sent, peer' = peer, \A d \in Conn : got'[d] >= got[d] /\ wire'[d] >= wire[d],
         NetTypes',
         NEW f \in Fd, f # h, tree'[f] # None, Polled(f, tree[f].mask)'
  PROVE  f \in ready' \/ [slot |-> tree[f].slot, ev |-> tree[f].mask]' \in batch'
<1>1. NetTypes /\ tree[f] # None /\ tree'[f] = tree[f] /\ sock'[f] = sock[f]
  BY Halves DEF Consistent
<1>2. sock[f] \in Conn
  BY <1>1 DEF Consistent, Wellpaired, TypeOK
<1>3. Window \in Nat
  BY SizeAssumption
<1>4. /\ sent[sock[f]] \in Nat /\ got[sock[f]] \in Nat /\ wire[sock[f]] \in Nat
      /\ got'[sock[f]] \in Nat /\ wire'[sock[f]] \in Nat
      /\ got'[sock[f]] >= got[sock[f]] /\ wire'[sock[f]] >= wire[sock[f]]
  BY <1>1, <1>2, <1>3 DEF NetTypes
<1>5. Polled(f, tree[f].mask)
  <2>1. Readable(sock[f])' => Readable(sock[f])
    BY <1>1, <1>4 DEF Readable, Broken
  <2>2. Writable(sock[f])' => Writable(sock[f])
    BY <1>1, <1>3, <1>4 DEF Writable, Broken
  <2> QED
    BY <1>1, <2>1, <2>2 DEF Polled
<1>6. f \in ready \/ [slot |-> tree[f].slot, ev |-> tree[f].mask] \in batch
  BY <1>1, <1>5 DEF NoLostEdge
<1> QED
  BY <1>1, <1>6

\* A descriptor that is put back with an event it already has is on the ready list.
LEMMA HandlerKeepsEdges ==
  ASSUME Consistent, NoLostEdge, alive, Consistent', NEW e \in batch, e # LISTENER, batch' = batch \ {e},
         RecvData(e.slot) \/ SendData(e.slot), backlog' = backlog
  PROVE  NoLostEdge'
<1> DEFINE i == e.slot
           h == g_events[i].fd
           c == sock[h]
<1>1. i \in Slot /\ h \in Fd /\ c \in Conn /\ e.slot = i
  BY EventOf
<1>2. \A g \in Fd : g # h /\ tree[g] # None => tree[g].slot # i
  BY EventOf
<1>3. SrvTypes /\ NetTypes /\ SrvTypes' /\ NetTypes'
  BY Halves DEF Consistent, TypeOK, SrvTypes, NetTypes
<1>4. BufSize \in Nat /\ Window \in Nat
  BY SizeAssumption
<1>5. CASE ~alive'
  BY <1>5 DEF NoLostEdge
<1>6. CASE alive'
  <2>1. \/ /\ Close(h)
           /\ UNCHANGED <<g_events, netvars>>
        \/ /\ RecvData(i)
           /\ \E buf : Register(i, h, "senddata", "out", buf, Writable(c))
           /\ UNCHANGED <<sock, peer, sent, wire>>
           /\ got' = [got EXCEPT ![c] = @ + Min({sent[c] - got[c], BufSize})]
        \/ /\ SendData(i)
           /\ \E buf : Register(i, h, "recvdata", "in", buf, Readable(c))
           /\ UNCHANGED <<sock, peer, sent, got>>
           /\ wire' = [wire EXCEPT ![c] = @ + Len(Written(g_events[i].buf, Window - wire[c]))]
    <3>1. CASE RecvData(i)
      BY <3>1 DEF RecvData
    <3>2. CASE SendData(i)
      BY <1>6, <3>2 DEF SendData, NextHandler
    <3> QED
      BY <3>1, <3>2
  <2>2. /\ \A g \in Fd : g # h => tree'[g] = tree[g] /\ sock'[g] = sock[g]
        /\ ready \subseteq ready' \cup {h}
        /\ sent' = sent /\ peer' = peer
    BY <1>1, <1>3, <2>1 DEF Close, Register, Registered, SrvTypes, netvars
  <2>3. \A d \in Conn : got'[d] >= got[d] /\ wire'[d] >= wire[d]
    <3>1. \A d \in Conn : got[d] \in Nat /\ wire[d] \in Nat
      BY <1>3, <1>4 DEF NetTypes
    <3>2. sent[c] \in Nat /\ got[c] \in Nat /\ got[c] <= sent[c] /\ wire[c] \in 0..Window
      BY <1>1, <1>3 DEF NetTypes
    <3>3. Min({sent[c] - got[c], BufSize}) \in Nat
      <4>1. sent[c] - got[c] \in Nat /\ sent[c] - got[c] \in Int /\ BufSize \in Int
        BY <1>4, <3>2
      <4>2. Min({sent[c] - got[c], BufSize}) \in {sent[c] - got[c], BufSize}
        BY <4>1, MinOfTwo
      <4> QED
        BY <1>4, <4>1, <4>2
    <3>4. Len(Written(g_events[i].buf, Window - wire[c])) \in Nat
      <4>1. g_events[i].buf \in Seq(Byte) /\ Window - wire[c] \in Nat
        BY <1>1, <1>3, <1>4, <3>2 DEF SrvTypes, Event
      <4> QED
        BY <4>1, WrittenIs
    <3>5. CASE UNCHANGED netvars
      BY <3>1, <3>5 DEF netvars
    <3> DEFINE n == Min({sent[c] - got[c], BufSize})
               m == Len(Written(g_events[i].buf, Window - wire[c]))
    <3> HIDE DEF n, m, h
    <3>6. CASE wire' = wire /\ got' = [got EXCEPT ![c] = @ + n]
      BY <1>1, <1>3, <3>1, <3>3, <3>6, SMTT(30) DEF NetTypes, n
    <3>7. CASE got' = got /\ wire' = [wire EXCEPT ![c] = @ + m]
      BY <1>1, <1>3, <3>1, <3>4, <3>7, SMTT(30) DEF NetTypes, m
    <3> QED
      BY <2>1, <3>5, <3>6, <3>7 DEF n, m
  <2>4. \A g \in Fd : g # h /\ tree[g] # None => [slot |-> tree[g].slot, ev |-> tree[g].mask] # e
    BY <1>2
  <2>5. ASSUME NEW f \in Fd, tree'[f] # None, Polled(f, tree[f].mask)'
        PROVE  f \in ready' \/ [slot |-> tree[f].slot, ev |-> tree[f].mask]' \in batch'
    <3>1. CASE f # h
      <4>1. \A g \in Fd : g # h =>
              /\ tree'[g] = tree[g] /\ sock'[g] = sock[g]
              /\ tree[g] # None => [slot |-> tree[g].slot, ev |-> tree[g].mask] # e
        BY <2>2, <2>4
      <4> HIDE DEF h
      <4>2. h \in Fd
        BY <1>1
      <4> QED
        BY <1>3, <2>2, <2>3, <2>5, <3>1, <4>1, <4>2, OthersKeepEdges
    <3>2. CASE f = h
      <4>1. ~Close(h)
        BY <1>1, <1>3, <2>5, <3>2 DEF Close, SrvTypes
      <4>2. CASE /\ \E buf : Register(i, h, "senddata", "out", buf, Writable(c))
                 /\ UNCHANGED <<sock, peer, sent, wire>>
        <5>1. tree'[h].mask = "out"
          BY <1>1, <1>3, <4>2 DEF Register, SrvTypes
        <5>2. Writable(c)
          BY <2>5, <3>2, <4>2, <5>1 DEF Polled, Writable, Broken
        <5> QED
          BY <3>2, <4>2, <5>2 DEF Register, Registered
      <4>3. CASE /\ \E buf : Register(i, h, "recvdata", "in", buf, Readable(c))
                 /\ UNCHANGED <<sock, peer, sent, got>>
        <5>1. tree'[h].mask = "in"
          BY <1>1, <1>3, <4>3 DEF Register, SrvTypes
        <5>2. Readable(c)
          BY <2>5, <3>2, <4>3, <5>1 DEF Polled, Readable, Broken
        <5> QED
          BY <3>2, <4>3, <5>2 DEF Register, Registered
      <4> QED
        BY <2>1, <4>1, <4>2, <4>3
    <3> QED
      BY <3>1, <3>2
  <2> QED
    BY <2>5 DEF NoLostEdge
<1> QED
  BY <1>5, <1>6

\* A client is registered while it waits in vain, so its first bytes find it there.
LEMMA AcceptKeepsEdges ==
  ASSUME Consistent, NoLostEdge, Consistent', LISTENER \in batch, batch' = batch \ {LISTENER},
         AcceptConn, UNCHANGED <<alive, netvars>>
  PROVE  NoLostEdge'
<1> DEFINE c == Head(backlog)
           h == Min({g \in Fd : sock[g] = None})
           i == Min(FreeSlots)
<1>1. SrvTypes /\ SrvTypes'
  BY Halves DEF Consistent, TypeOK, SrvTypes, NetTypes
<1>2. CASE FreeSlots = {}
  <2>1. UNCHANGED <<g_events, tree, ready, sock, alive, netvars>>
    BY <1>2 DEF AcceptConn
  <2>2. \A f \in Fd : Polled(f, tree[f].mask)' = Polled(f, tree[f].mask)
    BY <2>1 DEF Polled, Readable, Writable, Broken, netvars
  <2>3. \A f \in Fd : tree[f] # None => [slot |-> tree[f].slot, ev |-> tree[f].mask] # LISTENER
    BY <1>1 DEF SrvTypes, Watch, LISTENER, Slot
  <2> QED
    BY <2>1, <2>2, <2>3 DEF NoLostEdge
<1>3. CASE FreeSlots # {}
  <2>1. /\ sock' = [sock EXCEPT ![h] = c]
        /\ Register(i, h, "recvdata", "in", <<>>, Readable(c))
        /\ UNCHANGED <<alive, netvars>>
    BY <1>3 DEF AcceptConn
  <2>2. h \in Fd
    <3>1. {g \in Fd : sock[g] = None} \subseteq Nat
      BY DEF Fd
    <3> QED
      BY <3>1, FdFree, LowestIn
  <2> HIDE DEF h, i, c
  <2>3. ASSUME NEW f \in Fd, alive', tree'[f] # None, Polled(f, tree[f].mask)'
        PROVE  f \in ready' \/ [slot |-> tree[f].slot, ev |-> tree[f].mask]' \in batch'
    <3>1. CASE f # h
      <4>1. tree'[f] = tree[f] /\ sock'[f] = sock[f] /\ ready \subseteq ready' \cup {h}
        BY <1>1, <2>1, <3>1 DEF Register, Registered, SrvTypes
      <4>2. Polled(f, tree[f].mask)
        BY <2>1, <2>3, <4>1 DEF Polled, Readable, Writable, Broken, netvars
      <4>3. f \in ready \/ [slot |-> tree[f].slot, ev |-> tree[f].mask] \in batch
        BY <2>1, <2>3, <4>1, <4>2 DEF NoLostEdge
      <4>4. [slot |-> tree[f].slot, ev |-> tree[f].mask] # LISTENER
        BY <1>1, <2>3, <4>1 DEF SrvTypes, Watch, LISTENER, Slot
      <4> QED
        BY <3>1, <4>1, <4>3, <4>4
    <3>2. CASE f = h
      <4>1. tree'[h].mask = "in" /\ sock'[h] = c
        BY <1>1, <2>1, <2>2 DEF Register, SrvTypes
      <4>2. Readable(c)
        BY <2>1, <2>3, <3>2, <4>1 DEF Polled, Readable, Broken, netvars
      <4> QED
        BY <2>1, <3>2, <4>2 DEF Register, Registered
    <3> QED
      BY <3>1, <3>2
  <2> QED
    BY <2>3 DEF NoLostEdge
<1> QED
  BY <1>2, <1>3

\* epoll_wait() moves an edge from the ready list to the batch.
LEMMA WaitKeepsEdges ==
  ASSUME NoLostEdge, EpollWait
  PROVE  NoLostEdge'
<1>1. /\ batch = {} /\ UNCHANGED <<tree, sock, alive, netvars>>
      /\ \A f \in ready : Polled(f, tree[f].mask) => [slot |-> tree[f].slot, ev |-> tree[f].mask] \in batch'
  BY DEF EpollWait
<1>2. \A f \in Fd : Polled(f, tree[f].mask)' = Polled(f, tree[f].mask)
  BY <1>1 DEF Polled, Readable, Writable, Broken, netvars
<1> QED
  BY <1>1, <1>2 DEF NoLostEdge

\* Whatever makes a connection readable or writable puts its descriptor on the list.
LEMMA ClientKeepsEdges ==
  ASSUME Consistent, NoLostEdge, NEW c \in Conn, Client(c)
  PROVE  NoLostEdge'
<1>1. SrvTypes /\ NetTypes
  BY Halves DEF Consistent
<1>2. UNCHANGED srvvars
  BY DEF Client, Connect, Send, PeerRead, PeerFin, PeerAbort
<1>3. ASSUME NEW f \in Fd, alive', tree'[f] # None, Polled(f, tree[f].mask)'
      PROVE  f \in ready' \/ [slot |-> tree[f].slot, ev |-> tree[f].mask]' \in batch'
  <2>1. /\ UNCHANGED <<alive, tree, sock, batch>> /\ tree[f] \in Watch /\ sock[f] \in Conn
    BY <1>1, <1>2, <1>3 DEF srvvars, SrvTypes, Consistent, Wellpaired
  <2>2. ready \subseteq ready'
    BY DEF Client, Connect, Send, PeerRead, PeerFin, PeerAbort
  <2>3. CASE Polled(f, tree[f].mask)
    BY <1>3, <2>1, <2>2, <2>3 DEF NoLostEdge
  <2>4. CASE sock[f] # c
    <3>1. LET d == sock[f]
          IN  sent'[d] = sent[d] /\ got'[d] = got[d] /\ wire'[d] = wire[d] /\ peer'[d] = peer[d]
      BY <1>1, <2>1, <2>4 DEF Client, Connect, Send, PeerRead, PeerFin, PeerAbort, NetTypes
    <3>2. Polled(f, tree[f].mask)
      BY <1>3, <2>1, <3>1 DEF Polled, Readable, Writable, Broken
    <3> QED
      BY <2>3, <3>2
  <2>5. CASE sock[f] = c /\ ~Polled(f, tree[f].mask)
    <3>1. tree[f].mask = "in" \/ tree[f].mask = "out"
      BY <2>1 DEF Watch
    <3>2. CASE Connect(c)
      <4>1. peer' = [peer EXCEPT ![c] = "open"] /\ UNCHANGED <<sent, got, wire>>
        BY <3>2 DEF Connect
      <4>2. Polled(f, tree[f].mask)
        BY <1>1, <1>3, <2>1, <2>5, <4>1 DEF Polled, Readable, Writable, Broken, NetTypes
      <4> QED
        BY <2>5, <4>2
    <3>3. CASE Send(c)
      <4>1. CASE tree[f].mask = "in"
        BY <1>3, <2>1, <2>5, <3>3, <4>1 DEF Send, Woken
      <4>2. CASE tree[f].mask = "out"
        BY <1>3, <2>1, <2>5, <3>3, <4>2 DEF Send, Polled, Writable, Broken
      <4> QED
        BY <3>1, <4>1, <4>2
    <3>4. CASE PeerRead(c)
      <4>1. CASE tree[f].mask = "out"
        BY <1>3, <2>1, <2>5, <3>4, <4>1 DEF PeerRead, Woken
      <4>2. CASE tree[f].mask = "in"
        BY <1>3, <2>1, <2>5, <3>4, <4>2 DEF PeerRead, Polled, Readable, Broken
      <4> QED
        BY <3>1, <4>1, <4>2
    <3>5. CASE PeerFin(c)
      <4>1. CASE tree[f].mask = "in"
        BY <1>3, <2>1, <2>5, <3>5, <4>1 DEF PeerFin, Woken
      <4>2. CASE tree[f].mask = "out"
        BY <1>1, <1>3, <2>1, <2>5, <3>5, <4>2 DEF PeerFin, Polled, Writable, Broken, NetTypes
      <4> QED
        BY <3>1, <4>1, <4>2
    <3>6. CASE PeerAbort(c)
      BY <1>3, <2>1, <2>5, <3>1, <3>6 DEF PeerAbort, Woken
    <3> QED
      BY <3>2, <3>3, <3>4, <3>5, <3>6 DEF Client
  <2> QED
    BY <2>3, <2>4, <2>5
<1> QED
  BY <1>3 DEF NoLostEdge

\* For any number of connections, slots and bytes, no edge is lost: a descriptor that has
\* the event it waits for is on the ready list or in the batch, whatever happens between
\* epoll_wait() and the handler and while the descriptor is taken out and put back.
THEOREM EdgesKept == Spec => []NoLostEdge
<1>1. Init => NoLostEdge
  BY DEF Init, NoLostEdge
<1>2. ASSUME Consistent, ListenerTrue, NoLostEdge, [Next]_vars, Consistent'
      PROVE  NoLostEdge'
  <2>1. CASE UNCHANGED vars
    BY <1>2, <2>1 DEF NoLostEdge, Polled, Readable, Writable, Broken, vars
  <2>2. CASE EpollWait
    BY <1>2, <2>2, WaitKeepsEdges
  <2>3. ASSUME NEW c \in Conn, Client(c)
        PROVE  NoLostEdge'
    BY <1>2, <2>3, ClientKeepsEdges
  <2>4. ASSUME NEW e \in batch, Dispatch(e)
        PROVE  NoLostEdge'
    <3>1. batch' = batch \ {e} /\ alive
      BY <2>4 DEF Dispatch
    <3>2. CASE e = LISTENER
      <4>1. AcceptConn /\ UNCHANGED <<alive, netvars>>
        BY <2>4, <3>2 DEF Dispatch
      <4> QED
        BY <1>2, <3>1, <3>2, <4>1, AcceptKeepsEdges
    <3>3. CASE e # LISTENER
      <4>1. backlog' = backlog /\ (RecvData(e.slot) \/ SendData(e.slot))
        BY <2>4, <3>3 DEF Dispatch
      <4> QED
        BY <1>2, <3>1, <3>3, <4>1, HandlerKeepsEdges
    <3> QED
      BY <3>2, <3>3
  <2> QED
    BY <1>2, <2>1, <2>2, <2>3, <2>4 DEF Next, Server
<1>3. Consistent /\ ListenerTrue /\ NoLostEdge /\ [Next]_vars /\ Consistent' => NoLostEdge'
  BY <1>2
<1> QED
  BY <1>1, <1>3, StaysConsistent, PTL DEF Spec

-----------------------------------------------------------------------------
(* The echo                                                                *)

Unused(c) == got[c] = 0 /\ wire[c] = 0 /\ echoed[c] = <<>>

\* A connection is in one place, and one that was not accepted is unused.
Placed ==
  /\ \A f, g \in Fd : sock[f] = sock[g] /\ sock[f] # None => f = g
  /\ \A a, b \in 1..Len(backlog) : backlog[a] = backlog[b] => a = b
  /\ \A f \in Fd, a \in 1..Len(backlog) : sock[f] # backlog[a]
  /\ \A f \in Fd : sock[f] # None => peer[sock[f]] # "idle"
  /\ \A a \in 1..Len(backlog) : peer[backlog[a]] # "idle" /\ Unused(backlog[a])
  /\ \A c \in Conn : peer[c] = "idle" => Unused(c)

\* What was written are bytes that were read, in order.
Stream(c) ==
  /\ wire[c] <= Len(echoed[c])
  /\ \A k \in 1..Len(echoed[c]) : echoed[c][k][2] \in 1..got[c]
  /\ \A j, k \in 1..Len(echoed[c]) : j < k => echoed[c][j][2] < echoed[c][k][2]

\* A client that neither a buffer nor the window has cut off yet.
Small(c) == sent[c] < BufSize /\ sent[c] <= Window

\* What a slot buffers are consecutive bytes behind everything that was written, and for
\* a small client all that was read and not written.
Behind(c, buf, base) ==
  /\ base + Len(buf) <= got[c]
  /\ \A k \in 1..Len(buf) : buf[k] = Upper(base + k)
  /\ \A k \in 1..Len(echoed[c]) : echoed[c][k][2] <= base
  /\ Small(c) => Len(echoed[c]) = base /\ base + Len(buf) = got[c]

Pending(f) ==
  tree[f] # None /\ tree[f].mask = "out" =>
    \E base \in Nat : Behind(sock[f], g_events[tree[f].slot].buf, base)

\* A small client has had its bytes one by one, and all of them when its slot waits for
\* more.
Exact(f) ==
  sock[f] # None /\ Small(sock[f]) =>
    /\ \A k \in 1..Len(echoed[sock[f]]) : echoed[sock[f]][k] = Upper(k)
    /\ tree[f].mask = "in" => Len(echoed[sock[f]]) = got[sock[f]]

EchoInv ==
  /\ Placed
  /\ \A c \in Conn : Stream(c)
  /\ \A f \in Fd : Pending(f) /\ Exact(f)

LEMMA EchoStarts == Init => EchoInv
<1> SUFFICES ASSUME Init
             PROVE  EchoInv
  OBVIOUS
<1>1. Placed /\ \A c \in Conn : Stream(c)
  BY DEF Init, Placed, Unused, Stream
<1>2. \A f \in Fd : sock[f] = None /\ tree[f] = None
  BY DEF Init
<1> QED
  BY <1>1, <1>2 DEF EchoInv, Pending, Exact

\* The clients.  A byte more may end that a client is small, and nothing else matters.
LEMMA ClientKeepsEcho ==
  ASSUME Consistent, EchoInv, NEW c \in Conn, Client(c)
  PROVE  EchoInv'
<1>1. NetTypes
  BY Halves DEF Consistent
<1>2. UNCHANGED srvvars /\ got' = got /\ echoed' = echoed
  BY DEF Client, Connect, Send, PeerRead, PeerFin, PeerAbort
<1>3. Placed'
  <2>1. CASE Connect(c)
    <3>1. backlog' = Append(backlog, c) /\ peer' = [peer EXCEPT ![c] = "open"] /\ peer[c] = "idle" /\ wire' = wire
      BY <2>1 DEF Connect
    <3>2. Len(backlog) \in Nat /\ Len(backlog') = Len(backlog) + 1 /\ backlog'[Len(backlog) + 1] = c
      BY <1>1, <3>1 DEF NetTypes
    <3>3. \A a \in 1..Len(backlog) : backlog'[a] = backlog[a] /\ backlog[a] \in Conn /\ backlog[a] # c
      BY <1>1, <3>1, SMTT(30) DEF NetTypes, EchoInv, Placed
    <3>4. \A a \in 1..Len(backlog') : a = Len(backlog) + 1 \/ a \in 1..Len(backlog)
      BY <3>2
    <3>5. \A f \in Fd : sock[f] # c
      <4>1. \A f \in Fd : sock[f] = c => sock[f] # None
        BY NoneAssumption
      <4> QED
        BY <3>1, <4>1 DEF EchoInv, Placed
    <3>6. \A f \in Fd : sock[f] # None => peer'[sock[f]] # "idle"
      BY <1>1, <3>1 DEF EchoInv, Placed, NetTypes, Consistent, TypeOK
    <3>7. \A d \in Conn : Unused(d)' = Unused(d)
      BY <1>2, <3>1 DEF Unused
    <3>8. ASSUME NEW a \in 1..Len(backlog')
          PROVE  peer'[backlog'[a]] # "idle" /\ Unused(backlog[a])'
      <4>1. CASE a = Len(backlog) + 1
        <5>1. backlog'[a] = c /\ peer'[c] = "open" /\ Unused(c)
          BY <1>1, <3>1, <3>2, <4>1 DEF NetTypes, EchoInv, Placed
        <5> QED
          BY <1>2, <3>1, <5>1 DEF Unused
      <4>2. CASE a \in 1..Len(backlog)
        <5>1. backlog'[a] = backlog[a] /\ peer'[backlog[a]] = peer[backlog[a]]
          BY <1>1, <3>1, <3>3, <4>2 DEF NetTypes
        <5>2. peer[backlog[a]] # "idle" /\ Unused(backlog[a])
          BY <4>2 DEF EchoInv, Placed
        <5> QED
          BY <1>2, <3>1, <5>1, <5>2 DEF Unused
      <4> QED
        BY <3>4, <4>1, <4>2
    <3>9. \A d \in Conn : peer'[d] = "idle" => Unused(d)'
      BY <1>1, <3>1, <3>7 DEF EchoInv, Placed, NetTypes
    <3>10. \A a, b \in 1..Len(backlog') : backlog'[a] = backlog'[b] => a = b
      BY <3>2, <3>3, <3>4 DEF EchoInv, Placed
    <3>11. \A f \in Fd, a \in 1..Len(backlog') : sock[f] # backlog'[a]
      BY <3>2, <3>3, <3>4, <3>5 DEF EchoInv, Placed
    <3> QED
      BY <1>2, <3>6, <3>8, <3>9, <3>10, <3>11 DEF EchoInv, Placed, srvvars
  <2>2. CASE ~Connect(c)
    <3>1. backlog' = backlog
      BY <2>2 DEF Client, Send, PeerRead, PeerFin, PeerAbort
    <3>2. \A d \in Conn : (peer[d] = "idle" => peer'[d] = "idle") /\ (peer'[d] = "idle" => peer[d] = "idle")
      BY <1>1, <2>2 DEF Client, Send, PeerRead, PeerFin, PeerAbort, NetTypes
    <3>3. \A d \in Conn : Unused(d) => Unused(d)'
      BY <1>1, <1>2, <2>2 DEF Client, Send, PeerRead, PeerFin, PeerAbort, NetTypes, Unused
    <3>4. \A f \in Fd : sock[f] # None => sock[f] \in Conn
      BY DEF Consistent, TypeOK
    <3>5. \A a \in 1..Len(backlog) : backlog[a] \in Conn
      BY <1>1 DEF NetTypes
    <3> QED
      BY <1>2, <3>1, <3>2, <3>3, <3>4, <3>5 DEF EchoInv, Placed, srvvars
  <2> QED
    BY <2>1, <2>2
<1>4. ASSUME NEW d \in Conn
      PROVE  Stream(d)'
  <2>1. wire'[d] <= wire[d] /\ wire'[d] \in Int /\ wire[d] \in Int /\ Len(echoed[d]) \in Nat
    <3>1. wire[d] \in 0..Window /\ Window \in Nat /\ Len(echoed[d]) \in Nat
      BY <1>1, SizeAssumption DEF NetTypes
    <3>2. wire' = wire \/ wire' = [wire EXCEPT ![c] = wire[c] - 1]
      BY DEF Client, Connect, Send, PeerRead, PeerFin, PeerAbort
    <3> QED
      BY <1>1, <3>1, <3>2, SMTT(30) DEF NetTypes
  <2>2. wire[d] <= Len(echoed[d])
    BY DEF EchoInv, Stream
  <2>3. wire'[d] <= Len(echoed[d])
    BY <2>1, <2>2
  <2> QED
    BY <1>2, <2>3 DEF EchoInv, Stream
<1>5. ASSUME NEW f \in Fd
      PROVE  Pending(f)' /\ Exact(f)'
  <2>1. \A d \in Conn : Small(d)' => Small(d)
    <3>1. \A d \in Conn : sent[d] \in Nat /\ (sent'[d] = sent[d] \/ sent'[d] = sent[d] + 1)
      BY <1>1 DEF Client, Connect, Send, PeerRead, PeerFin, PeerAbort, NetTypes
    <3> QED
      BY <3>1, SizeAssumption DEF Small
  <2>2. sock[f] # None => sock[f] \in Conn
    BY DEF Consistent, TypeOK
  <2>3. tree[f] # None => sock[f] # None
    BY DEF Consistent, Wellpaired
  <2>4. Pending(f)'
    BY <1>2, <2>1, <2>2, <2>3 DEF EchoInv, Pending, Behind, srvvars
  <2>5. Exact(f)'
    BY <1>2, <2>1, <2>2 DEF EchoInv, Exact, srvvars
  <2> QED
    BY <2>4, <2>5
<1> QED
  BY <1>3, <1>4, <1>5 DEF EchoInv

\* A connection that is closed takes nothing with it that is asked about later.
LEMMA CloseKeepsEcho ==
  ASSUME Consistent, EchoInv, NEW h \in Fd, Close(h), UNCHANGED <<g_events, backlog, netvars>>
  PROVE  EchoInv'
<1>1. SrvTypes
  BY Halves DEF Consistent
<1>2. \A f \in Fd : (sock'[f] = sock[f] /\ tree'[f] = tree[f]) \/ (sock'[f] = None /\ tree'[f] = None)
  BY <1>1 DEF Close, SrvTypes
<1>3. Placed'
  <2>1. \A f \in Fd : sock'[f] # None => sock'[f] = sock[f]
    BY <1>2
  <2>2. \A f \in Fd, a \in 1..Len(backlog) : backlog[a] # None
    <3>1. \A a \in 1..Len(backlog) : backlog[a] \in Conn
      BY DEF Consistent, TypeOK
    <3> QED
      BY <3>1, NoneAssumption
  <2> QED
    BY <2>1, <2>2 DEF EchoInv, Placed, Unused, netvars
<1>4. \A c \in Conn : Stream(c)'
  BY DEF EchoInv, Stream, netvars
<1>5. ASSUME NEW f \in Fd
      PROVE  Pending(f)' /\ Exact(f)'
  <2>1. CASE sock'[f] = sock[f] /\ tree'[f] = tree[f]
    <3>1. Pending(f)' = Pending(f)
      BY <2>1 DEF Pending, Behind, Small, netvars
    <3>2. Exact(f)' = Exact(f)
      BY <2>1 DEF Exact, Small, netvars
    <3> QED
      BY <3>1, <3>2 DEF EchoInv
  <2>2. CASE sock'[f] = None /\ tree'[f] = None
    BY <2>2 DEF Pending, Exact
  <2> QED
    BY <1>2, <2>1, <2>2
<1> QED
  BY <1>3, <1>4, <1>5 DEF EchoInv

\* A step of the handler of connection c on its descriptor h leaves the others alone.
LEMMA OthersKeepEcho ==
  ASSUME Consistent, EchoInv, NEW h \in Fd, NEW c \in Conn, sock[h] = c,
         UNCHANGED <<sock, sent, peer, backlog>>,
         \A d \in Conn : d # c => got'[d] = got[d] /\ wire'[d] = wire[d] /\ echoed'[d] = echoed[d],
         \A g \in Fd : g # h => tree'[g] = tree[g],
         \A g \in Fd : g # h /\ tree[g] # None => g_events'[tree[g].slot] = g_events[tree[g].slot],
         Stream(c)', Pending(h)' /\ Exact(h)'
  PROVE  EchoInv'
<1>1. c # None /\ peer[c] # "idle"
  BY NoneAssumption DEF EchoInv, Placed
<1>2. Placed'
  <2>1. \A a \in 1..Len(backlog) : backlog[a] \in Conn /\ backlog[a] # c
    <3>1. backlog \in Seq(Conn)
      BY DEF Consistent, TypeOK
    <3>2. \A a \in 1..Len(backlog) : sock[h] # backlog[a]
      BY DEF EchoInv, Placed
    <3> QED
      BY <3>1, <3>2
  <2>2. ASSUME NEW a \in 1..Len(backlog)
        PROVE  Unused(backlog[a])'
    BY <2>1 DEF EchoInv, Placed, Unused
  <2>3. ASSUME NEW d \in Conn, peer'[d] = "idle"
        PROVE  Unused(d)'
    <3>1. d # c /\ peer[d] = "idle"
      BY <1>1, <2>3
    <3> QED
      BY <3>1 DEF EchoInv, Placed, Unused
  <2> QED
    BY <2>2, <2>3 DEF EchoInv, Placed
<1>3. ASSUME NEW d \in Conn
      PROVE  Stream(d)'
  <2>1. d # c => Stream(d)'
    BY DEF EchoInv, Stream
  <2> QED
    BY <2>1
<1>4. ASSUME NEW f \in Fd
      PROVE  Pending(f)' /\ Exact(f)'
  <2>1. CASE f # h
    <3>1. sock[f] # None => sock[f] \in Conn /\ sock[f] # c
      BY <1>1, <2>1 DEF EchoInv, Placed, Consistent, TypeOK
    <3>2. tree[f] # None => sock[f] # None
      BY DEF Consistent, Wellpaired
    <3>3. Pending(f)'
      <4>1. SUFFICES ASSUME tree'[f] # None, tree'[f].mask = "out"
                     PROVE  \E base \in Nat : Behind(sock[f], g_events[tree[f].slot].buf, base)'
        BY DEF Pending
      <4>2. tree'[f] = tree[f] /\ g_events'[tree[f].slot] = g_events[tree[f].slot] /\ sock'[f] = sock[f]
        BY <2>1, <4>1
      <4>3. PICK base \in Nat : Behind(sock[f], g_events[tree[f].slot].buf, base)
        BY <4>1, <4>2 DEF EchoInv, Pending
      <4>4. Behind(sock[f], g_events[tree[f].slot].buf, base)'
        BY <3>1, <3>2, <4>1, <4>2, <4>3 DEF Behind, Small
      <4> QED
        BY <4>4
    <3>4. Exact(f)'
      BY <2>1, <3>1 DEF EchoInv, Exact, Small
    <3> QED
      BY <3>3, <3>4
  <2> QED
    BY <2>1
<1> QED
  BY <1>2, <1>3, <1>4 DEF EchoInv

\* What a slot and its descriptor are after set_event() and add_event().
LEMMA RegisterIs ==
  ASSUME Consistent, NEW i \in Slot, NEW h \in Fd, NEW mask \in {"in", "out"}, NEW call_back, NEW buf,
         NEW has, Register(i, h, call_back, mask, buf, has),
         \A g \in Fd : g # h /\ tree[g] # None => tree[g].slot # i
  PROVE  /\ tree'[h] = [slot |-> i, mask |-> mask] /\ tree'[h] # None /\ g_events'[i].buf = buf
         /\ \A g \in Fd : g # h => tree'[g] = tree[g]
         /\ \A g \in Fd : g # h /\ tree[g] # None => g_events'[tree[g].slot] = g_events[tree[g].slot]
<1>1. SrvTypes
  BY Halves DEF Consistent
<1>2. /\ g_events' = [g_events EXCEPT ![i] = [fd |-> h, call_back |-> call_back, events |-> mask,
                                              status |-> 1, buf |-> buf]]
      /\ tree' = [tree EXCEPT ![h] = [slot |-> i, mask |-> mask]]
  BY DEF Register
<1>3. [slot |-> i, mask |-> mask] # None
  BY NoneIsNoWatch DEF Watch
<1>4. ASSUME NEW g \in Fd, g # h, tree[g] # None
      PROVE  g_events'[tree[g].slot] = g_events[tree[g].slot]
  <2>1. tree[g].slot \in Slot /\ tree[g].slot # i
    BY <1>1, <1>4 DEF SrvTypes, Watch
  <2> QED
    BY <1>1, <1>2, <2>1 DEF SrvTypes
<1> QED
  BY <1>1, <1>2, <1>3, <1>4 DEF SrvTypes

\* recvdata() buffers the bytes that follow what was read before, all of them if they
\* leave room in the buffer.
LEMMA ReadKeepsEcho ==
  ASSUME Consistent, EchoInv, NEW i \in Slot, NEW h \in Fd, NEW c \in Conn, NEW n \in Nat,
         NEW base \in Nat, NEW buf \in Seq(Byte),
         sock[h] = c, tree[h] = [slot |-> i, mask |-> "in"],
         \A g \in Fd : g # h /\ tree[g] # None => tree[g].slot # i,
         base = got[c], n <= sent[c] - base, n <= BufSize,
         Len(buf) = BufLen(n), \A k \in 1..Len(buf) : buf[k] = Upper(base + k),
         got' = [got EXCEPT ![c] = @ + n],
         Register(i, h, "senddata", "out", buf, Writable(c)),
         UNCHANGED <<sock, peer, sent, wire, echoed, backlog>>
  PROVE  EchoInv'
<1>1. NetTypes
  BY Halves DEF Consistent
<1>2. /\ tree'[h] = [slot |-> i, mask |-> "out"] /\ g_events'[i].buf = buf
      /\ \A g \in Fd : g # h => tree'[g] = tree[g]
      /\ \A g \in Fd : g # h /\ tree[g] # None => g_events'[tree[g].slot] = g_events[tree[g].slot]
  BY RegisterIs
<1>3. sent[c] \in Nat /\ BufSize \in Nat \ {0, 1}
  BY <1>1, SizeAssumption DEF NetTypes
<1>4. Len(buf) \in Nat /\ Len(buf) <= n /\ (n < BufSize => Len(buf) = n)
  BY <1>3 DEF BufLen
<1>5. got'[c] = base + n /\ \A d \in Conn : d # c => got'[d] = got[d]
  BY <1>1 DEF NetTypes
<1>6. Stream(c) /\ Exact(h)
  BY DEF EchoInv
<1>7. Len(echoed[c]) \in Nat /\ \A k \in 1..Len(echoed[c]) : echoed[c][k][2] \in 1..base
  BY <1>1, <1>6 DEF NetTypes, Stream
<1>8. Stream(c)'
  <2>1. \A k \in 1..Len(echoed[c]) : echoed[c][k][2] \in 1..(base + n)
    BY <1>7
  <2> QED
    BY <1>5, <1>6, <2>1 DEF Stream
<1>9. c # None /\ tree[h].mask = "in"
  BY NoneAssumption
<1>10. Small(c) =>
         /\ n < BufSize /\ Len(echoed[c]) = base
         /\ \A k \in 1..Len(echoed[c]) : echoed[c][k] = Upper(k)
  BY <1>3, <1>6, <1>9 DEF Exact, Small
<1>11. Behind(c, buf, base)'
  <2>1. base + Len(buf) <= base + n
    BY <1>4
  <2>2. \A k \in 1..Len(echoed[c]) : echoed[c][k][2] <= base
    BY <1>7
  <2>3. Small(c)' => Len(echoed[c]) = base /\ base + Len(buf) = base + n
    BY <1>4, <1>10 DEF Small
  <2> QED
    BY <1>5, <2>1, <2>2, <2>3 DEF Behind
<1>12. Pending(h)'
  BY <1>2, <1>11 DEF Pending
<1>13. Exact(h)'
  BY <1>2, <1>10 DEF Exact, Small
<1> QED
  BY <1>2, <1>5, <1>8, <1>12, <1>13, OthersKeepEcho

LEMMA RecvKeepsEcho ==
  ASSUME Consistent, EchoInv, NEW e \in batch, e # LISTENER,
         g_events[e.slot].call_back = "recvdata", RecvData(e.slot), UNCHANGED backlog
  PROVE  EchoInv'
<1>1. PICK i \in Slot, h \in Fd, c \in Conn :
        /\ i = e.slot /\ h = g_events[i].fd /\ c = sock[h]
        /\ tree[h] = [slot |-> i, mask |-> "in"]
  <2>1. g_events[e.slot].call_back = IF e.ev = "in" THEN "recvdata" ELSE "senddata"
    BY EventOf
  <2>2. e.ev = "in"
    BY <2>1
  <2> QED
    BY <2>2, EventOf
<1>2. \A g \in Fd : g # h /\ tree[g] # None => tree[g].slot # i
  BY <1>1, EventOf
<1>3. NetTypes
  BY Halves DEF Consistent
<1>4. sent[c] \in Nat /\ got[c] \in Nat /\ got[c] <= sent[c] /\ BufSize \in Nat \ {0, 1}
  BY <1>3, SizeAssumption DEF NetTypes
<1>5. PICK n \in Nat : n = Min({sent[c] - got[c], BufSize}) /\ n <= sent[c] - got[c] /\ n <= BufSize
  <2>1. sent[c] - got[c] \in Int /\ BufSize \in Int
    BY <1>4
  <2>2. LET m == Min({sent[c] - got[c], BufSize})
        IN  m \in {sent[c] - got[c], BufSize} /\ m <= sent[c] - got[c] /\ m <= BufSize
    BY <2>1, MinOfTwo
  <2> QED
    BY <1>4, <2>2
<1>6. CASE n = 0
  <2>1. Min({sent[c] - got[c], BufSize}) = 0 /\ ~(0 > 0)
    BY <1>5, <1>6
  <2>2. Close(h) /\ UNCHANGED <<g_events, netvars>>
    BY <1>1, <2>1 DEF RecvData
  <2> QED
    BY <2>2, CloseKeepsEcho
<1>7. CASE n # 0
  <2>1. PICK base \in Nat : base = got[c]
    BY <1>4
  <2>2. PICK buf : buf = [k \in 1..BufLen(n) |-> Upper(base + k)]
    OBVIOUS
  <2>3. /\ got' = [got EXCEPT ![c] = @ + n]
        /\ Register(i, h, "senddata", "out", buf, Writable(c))
        /\ UNCHANGED <<sock, peer, sent, wire, echoed>>
    BY <1>1, <1>5, <1>7, <2>1, <2>2 DEF RecvData
  <2>4. BufLen(n) \in Nat
    BY <1>4 DEF BufLen
  <2>5. buf \in Seq(Byte) /\ Len(buf) = BufLen(n)
    <3>1. buf \in [1..BufLen(n) -> Byte]
      BY <2>2, <2>4 DEF Upper, Byte
    <3> QED
      BY <2>4, <3>1, FunctionIsSeq
  <2>6. \A k \in 1..Len(buf) : buf[k] = Upper(base + k)
    BY <2>2, <2>5
  <2>7. n <= sent[c] - base /\ n <= BufSize
    BY <1>5, <2>1
  <2>8. sock[h] = c /\ tree[h] = [slot |-> i, mask |-> "in"]
    BY <1>1
  <2>9. UNCHANGED <<sock, peer, sent, wire, echoed, backlog>>
    BY <2>3
  <2> QED
    BY <1>2, <2>1, <2>3, <2>5, <2>6, <2>7, <2>8, <2>9, ReadKeepsEcho, ZenonT(30)
<1> QED
  BY <1>6, <1>7

\* senddata() writes the front of what is buffered, all of it for a small client, since
\* the window then has room for everything that was read.
LEMMA WriteKeepsEcho ==
  ASSUME Consistent, EchoInv, NEW i \in Slot, NEW h \in Fd, NEW c \in Conn, NEW m \in Nat,
         NEW base \in Nat, NEW buf \in Seq(Byte), NEW out \in Seq(Byte), NEW old \in Seq(Byte),
         sock[h] = c, tree[h] = [slot |-> i, mask |-> "out"],
         \A g \in Fd : g # h /\ tree[g] # None => tree[g].slot # i,
         old = echoed[c], Behind(c, buf, base),
         m = Len(out), m <= Len(buf), m \in {Window - wire[c], Len(buf)},
         \A k \in 1..m : out[k] = buf[k],
         wire' = [wire EXCEPT ![c] = @ + m], echoed' = [echoed EXCEPT ![c] = old \o out],
         Register(i, h, "recvdata", "in", buf, Readable(c)),
         UNCHANGED <<sock, peer, sent, got, backlog>>
  PROVE  EchoInv'
<1>1. NetTypes
  BY Halves DEF Consistent
<1>2. /\ tree'[h] = [slot |-> i, mask |-> "in"] /\ tree'[h].mask = "in"
      /\ \A g \in Fd : g # h => tree'[g] = tree[g]
      /\ \A g \in Fd : g # h /\ tree[g] # None => g_events'[tree[g].slot] = g_events[tree[g].slot]
  BY RegisterIs
<1>3. PICK new \in Seq(Byte) :
        /\ new = old \o out /\ Len(new) = Len(old) + m
        /\ \A k \in 1..Len(new) : new[k] = IF k <= Len(old) THEN old[k] ELSE out[k - Len(old)]
  <2>1. PICK new : new = old \o out
    OBVIOUS
  <2>2. /\ new \in Seq(Byte) /\ Len(new) = Len(old) + Len(out)
        /\ \A k \in 1..(Len(old) + Len(out)) : new[k] = IF k <= Len(old) THEN old[k] ELSE out[k - Len(old)]
    BY <2>1, ConcatProperties
  <2> QED
    BY <2>1, <2>2, ZenonT(30)
<1>4. echoed'[c] = new /\ \A d \in Conn : d # c => echoed'[d] = echoed[d]
  BY <1>1, <1>3 DEF NetTypes
<1>5. wire'[c] = wire[c] + m /\ \A d \in Conn : d # c => wire'[d] = wire[d]
  BY <1>1 DEF NetTypes
<1>6. /\ Len(old) \in Nat /\ Len(new) \in Nat /\ Len(buf) \in Nat /\ Len(out) \in Nat
      /\ wire[c] \in Nat /\ got[c] \in Nat /\ sent[c] \in Nat /\ got[c] <= sent[c] /\ Window \in Nat
  BY <1>1, <1>3, SizeAssumption DEF NetTypes
<1>7. Stream(c) /\ Exact(h) /\ sock[h] # None
  BY NoneAssumption DEF EchoInv
<1>8. /\ base + Len(buf) <= got[c]
      /\ \A k \in 1..Len(buf) : buf[k] = Upper(base + k)
      /\ \A k \in 1..Len(old) : old[k][2] <= base
      /\ Small(c) => Len(old) = base /\ base + Len(buf) = got[c]
  BY DEF Behind
<1>9. ASSUME NEW k \in 1..Len(new), ~(k <= Len(old))
      PROVE  new[k] = Upper(base + (k - Len(old))) /\ new[k][2] = base + (k - Len(old)) /\ k - Len(old) \in 1..m
  <2>1. k - Len(old) \in 1..m /\ k - Len(old) \in 1..Len(buf)
    BY <1>3, <1>6, <1>9
  <2>2. new[k] = out[k - Len(old)]
    BY <1>3, <1>9
  <2>3. new[k] = Upper(base + (k - Len(old)))
    BY <1>8, <2>1, <2>2
  <2> QED
    BY <2>1, <2>3 DEF Upper
<1>10. ASSUME NEW k \in 1..Len(new), k <= Len(old)
       PROVE  new[k] = old[k] /\ k \in 1..Len(old) /\ new[k][2] \in 1..got[c] /\ new[k][2] <= base
  <2>1. new[k] = old[k] /\ k \in 1..Len(old)
    BY <1>3, <1>6, <1>10
  <2> QED
    BY <1>7, <1>8, <2>1 DEF Stream
<1>11. Stream(c)'
  <2>1. wire[c] + m <= Len(new)
    BY <1>3, <1>6, <1>7 DEF Stream
  <2>2. \A k \in 1..Len(new) : new[k][2] \in 1..got[c]
    <3>1. ASSUME NEW k \in 1..Len(new)
          PROVE  new[k][2] \in 1..got[c]
      <4>1. CASE k <= Len(old)
        BY <1>10, <4>1
      <4>2. CASE ~(k <= Len(old))
        <5>1. new[k][2] = base + (k - Len(old)) /\ k - Len(old) \in 1..m
          BY <1>9, <4>2
        <5>2. \A j \in 1..m : base + j \in 1..got[c]
          BY <1>6, <1>8
        <5> QED
          BY <5>1, <5>2
      <4> QED
        BY <4>1, <4>2
    <3> QED
      BY <3>1
  <2>3. ASSUME NEW j \in 1..Len(new), NEW k \in 1..Len(new), j < k
        PROVE  new[j][2] < new[k][2]
    <3>1. CASE k <= Len(old)
      <4>1. j <= Len(old)
        BY <1>6, <2>3, <3>1
      <4>2. new[j] = old[j] /\ new[k] = old[k] /\ j \in 1..Len(old) /\ k \in 1..Len(old)
        BY <1>10, <3>1, <4>1
      <4> QED
        BY <1>7, <2>3, <4>2 DEF Stream
    <3>2. CASE j <= Len(old) /\ ~(k <= Len(old))
      <4>1. new[j][2] \in 1..got[c] /\ new[j][2] <= base
        BY <1>10, <3>2
      <4>2. new[k][2] = base + (k - Len(old)) /\ k - Len(old) \in 1..m
        BY <1>9, <3>2
      <4>3. base < base + (k - Len(old)) /\ base + (k - Len(old)) \in Int
        <5>1. base \in Int /\ \A x \in 1..m : base < base + x /\ base + x \in Int
          OBVIOUS
        <5> QED
          BY <4>2, <5>1
      <4>4. \A x, y \in Int : x <= base /\ base < y => x < y
        OBVIOUS
      <4>5. new[j][2] \in Int
        BY <4>1
      <4> QED
        BY <4>1, <4>2, <4>3, <4>4, <4>5
    <3>3. CASE ~(j <= Len(old)) /\ ~(k <= Len(old))
      <4>1. new[j][2] = base + (j - Len(old)) /\ new[k][2] = base + (k - Len(old))
        BY <1>9, <3>3
      <4>2. j \in Int /\ k \in Int /\ Len(old) \in Int
        BY <1>6
      <4>3. base + (j - Len(old)) < base + (k - Len(old))
        <5>1. base \in Int /\ \A w, x, y, z \in Int : x < y => w + (x - z) < w + (y - z)
          OBVIOUS
        <5> QED
          BY <2>3, <4>2, <5>1
      <4> QED
        BY <4>1, <4>3
    <3>4. j <= Len(old) \/ ~(j <= Len(old))
      OBVIOUS
    <3> QED
      BY <3>1, <3>2, <3>3, <3>4
  <2> QED
    BY <1>4, <1>5, <2>1, <2>2, <2>3 DEF Stream
<1>12. Small(c) => m = Len(buf)
  BY <1>6, <1>7, <1>8 DEF Small, Stream
<1>13. ASSUME Small(c)
       PROVE  Len(new) = got[c] /\ \A k \in 1..Len(new) : new[k] = Upper(k)
  <2>1. Len(new) = got[c] /\ Len(old) = base
    BY <1>3, <1>6, <1>8, <1>12, <1>13
  <2>2. ASSUME NEW k \in 1..Len(new)
        PROVE  new[k] = Upper(k)
    <3>1. CASE k <= Len(old)
      BY <1>7, <1>10, <1>13, <3>1 DEF Exact
    <3>2. CASE ~(k <= Len(old))
      <4>1. base + (k - Len(old)) = k
        BY <1>6, <2>1
      <4> QED
        BY <1>9, <3>2, <4>1
    <3> QED
      BY <3>1, <3>2
  <2> QED
    BY <2>1, <2>2
<1>14. Exact(h)'
  <2>1. Small(c)' => Small(c)
    BY DEF Small
  <2> QED
    BY <1>4, <1>13, <2>1 DEF Exact
<1>15. Pending(h)'
  BY <1>2 DEF Pending
<1> QED
  BY <1>2, <1>4, <1>5, <1>11, <1>14, <1>15, OthersKeepEcho

\* What a step leaves as it is.
LEMMA EchoUntouched ==
  ASSUME EchoInv, UNCHANGED <<g_events, tree, sock, backlog, netvars>>
  PROVE  EchoInv'
<1>1. Placed'
  BY DEF EchoInv, Placed, Unused, netvars
<1>2. \A c \in Conn : Stream(c)'
  BY DEF EchoInv, Stream, netvars
<1>3. \A f \in Fd : Pending(f)' /\ Exact(f)'
  BY DEF EchoInv, Pending, Behind, Exact, Small, netvars
<1> QED
  BY <1>1, <1>2, <1>3 DEF EchoInv

LEMMA SendKeepsEcho ==
  ASSUME Consistent, EchoInv, NEW e \in batch, e # LISTENER,
         g_events[e.slot].call_back = "senddata", SendData(e.slot), UNCHANGED backlog
  PROVE  EchoInv'
<1>1. PICK i \in Slot, h \in Fd, c \in Conn :
        /\ i = e.slot /\ h = g_events[i].fd /\ c = sock[h]
        /\ tree[h] = [slot |-> i, mask |-> "out"] /\ tree[h] # None
  <2>1. g_events[e.slot].call_back = IF e.ev = "in" THEN "recvdata" ELSE "senddata"
    BY EventOf
  <2>2. e.ev = "out"
    <3>1. e \in [slot : Slot, ev : {"in", "out"}]
      BY DEF Consistent, TypeOK
    <3> QED
      BY <2>1, <3>1
  <2> QED
    BY <2>2, EventOf
<1>2. \A g \in Fd : g # h /\ tree[g] # None => tree[g].slot # i
  BY <1>1, EventOf
<1>3. SrvTypes /\ NetTypes
  BY Halves DEF Consistent
<1>4. PICK buf \in Seq(Byte) : buf = g_events[i].buf
  BY <1>3 DEF SrvTypes, Event
<1>5. PICK room \in Nat : room = Window - wire[c]
  <2>1. wire[c] \in 0..Window /\ Window \in Nat
    BY <1>3, SizeAssumption DEF NetTypes
  <2> QED
    BY <2>1
<1>6. PICK out : out = Written(buf, room)
  OBVIOUS
<1>7. PICK m \in Nat : out \in Seq(Byte) /\ m = Len(out) /\ m <= Len(buf) /\ m \in {room, Len(buf)}
                       /\ \A k \in 1..m : out[k] = buf[k]
  BY <1>6, WrittenIs
<1>8. \/ UNCHANGED <<g_events, tree, sock, netvars>>
      \/ Close(h) /\ UNCHANGED <<g_events, netvars>>
      \/ /\ wire' = [wire EXCEPT ![c] = @ + Len(out)]
         /\ echoed' = [echoed EXCEPT ![c] = @ \o out]
         /\ Register(i, h, "recvdata", "in", buf, Readable(c))
         /\ UNCHANGED <<sock, peer, sent, got>>
  BY <1>1, <1>4, <1>5, <1>6 DEF SendData, NextHandler
<1>9. CASE UNCHANGED <<g_events, tree, sock, netvars>>
  BY <1>9, EchoUntouched
<1>10. CASE Close(h) /\ UNCHANGED <<g_events, netvars>>
  BY <1>10, CloseKeepsEcho
<1>11. CASE /\ wire' = [wire EXCEPT ![c] = @ + Len(out)]
            /\ echoed' = [echoed EXCEPT ![c] = @ \o out]
            /\ Register(i, h, "recvdata", "in", buf, Readable(c))
            /\ UNCHANGED <<sock, peer, sent, got>>
  <2>1. PICK base \in Nat : Behind(c, buf, base)
    <3>1. Pending(h)
      BY DEF EchoInv
    <3> QED
      BY <1>1, <1>4, <3>1 DEF Pending
  <2>2. PICK old \in Seq(Byte) : old = echoed[c]
    BY <1>3 DEF NetTypes
  <2>3. sock[h] = c /\ tree[h] = [slot |-> i, mask |-> "out"]
    BY <1>1
  <2>4. out \in Seq(Byte) /\ m = Len(out) /\ m <= Len(buf) /\ m \in {Window - wire[c], Len(buf)}
    BY <1>5, <1>7
  <2>5. \A k \in 1..m : out[k] = buf[k]
    BY <1>7
  <2>6. wire' = [wire EXCEPT ![c] = @ + m] /\ echoed' = [echoed EXCEPT ![c] = old \o out]
    BY <1>7, <1>11, <2>2
  <2>7. Register(i, h, "recvdata", "in", buf, Readable(c)) /\ UNCHANGED <<sock, peer, sent, got, backlog>>
    BY <1>11
  <2> QED
    BY <1>2, <2>1, <2>2, <2>3, <2>4, <2>5, <2>6, <2>7, WriteKeepsEcho
<1> QED
  BY <1>8, <1>9, <1>10, <1>11

\* The client that is accepted was in the backlog only, and nothing was read of it or
\* written to it.
LEMMA AcceptKeepsEcho ==
  ASSUME Consistent, EchoInv, backlog # <<>>, AcceptConn, UNCHANGED netvars
  PROVE  EchoInv'
<1>1. SrvTypes /\ NetTypes
  BY Halves DEF Consistent
<1>2. PICK c \in Conn : c = Head(backlog) /\ c = backlog[1]
  BY <1>1, HeadTailProperties DEF NetTypes
<1>3. /\ Len(backlog) \in Nat /\ 1 \in 1..Len(backlog)
      /\ \A a \in 1..Len(backlog') : a + 1 \in 1..Len(backlog) /\ backlog'[a] = backlog[a + 1] /\ 1 # a + 1 /\ a \in Int
  <2>1. backlog \in Seq(Conn) /\ backlog' = Tail(backlog) /\ Len(backlog) \in Nat /\ Len(backlog) # 0
    BY <1>1, EmptySeq DEF NetTypes, AcceptConn
  <2>2. Len(backlog') = Len(backlog) - 1 /\ \A a \in 1..Len(backlog') : backlog'[a] = backlog[a + 1]
    BY <2>1, HeadTailProperties
  <2> QED
    BY <2>1, <2>2
<1>4. Unused(c) /\ peer[c] # "idle" /\ c # None /\ \A f \in Fd : sock[f] # c
  BY <1>2, <1>3, NoneAssumption DEF EchoInv, Placed
<1>5. /\ \A a, b \in 1..Len(backlog') : backlog'[a] = backlog'[b] => a = b
      /\ \A f \in Fd, a \in 1..Len(backlog') : sock[f] # backlog'[a]
      /\ \A a \in 1..Len(backlog') : backlog'[a] # c /\ peer[backlog'[a]] # "idle" /\ Unused(backlog'[a])
  <2>1. ASSUME NEW a \in 1..Len(backlog'), NEW b \in 1..Len(backlog'), backlog'[a] = backlog'[b]
        PROVE  a = b
    <3>1. backlog[a + 1] = backlog[b + 1] /\ a + 1 \in 1..Len(backlog) /\ b + 1 \in 1..Len(backlog)
      BY <1>3, <2>1
    <3>2. a + 1 = b + 1
      BY <3>1 DEF EchoInv, Placed
    <3> QED
      BY <1>3, <3>2
  <2>2. ASSUME NEW a \in 1..Len(backlog')
        PROVE  /\ backlog'[a] # c /\ peer[backlog'[a]] # "idle" /\ Unused(backlog'[a])
               /\ \A f \in Fd : sock[f] # backlog'[a]
    <3>1. backlog'[a] = backlog[a + 1] /\ a + 1 \in 1..Len(backlog) /\ 1 # a + 1
      BY <1>3, <2>2
    <3>2. backlog[a + 1] # backlog[1]
      BY <1>3, <3>1 DEF EchoInv, Placed
    <3>3. peer[backlog[a + 1]] # "idle" /\ Unused(backlog[a + 1]) /\ \A f \in Fd : sock[f] # backlog[a + 1]
      BY <3>1 DEF EchoInv, Placed
    <3> QED
      BY <1>2, <3>1, <3>2, <3>3
  <2> QED
    BY <2>1, <2>2
<1>6. \A d \in Conn : Stream(d)'
  BY DEF EchoInv, Stream, netvars
<1>7. CASE FreeSlots = {}
  <2>1. UNCHANGED <<g_events, tree, sock>>
    BY <1>7 DEF AcceptConn
  <2>2. Placed'
    BY <1>5, <2>1 DEF EchoInv, Placed, Unused, netvars
  <2>3. \A f \in Fd : Pending(f)' /\ Exact(f)'
    BY <2>1 DEF EchoInv, Pending, Behind, Exact, Small, netvars
  <2> QED
    BY <1>6, <2>2, <2>3 DEF EchoInv
<1>8. CASE FreeSlots # {}
  <2>1. PICK h \in Fd : h = Min({g \in Fd : sock[g] = None}) /\ sock[h] = None
    <3>1. {g \in Fd : sock[g] = None} \subseteq Nat
      BY DEF Fd
    <3> QED
      BY <3>1, FdFree, LowestIn
  <2>2. PICK i \in Slot : i = Min(FreeSlots) /\ g_events[i].status = 0
    <3>1. FreeSlots \subseteq Nat
      BY DEF FreeSlots, Slot
    <3> QED
      BY <1>8, <3>1, LowestIn DEF FreeSlots
  <2>3. sock' = [sock EXCEPT ![h] = c] /\ Register(i, h, "recvdata", "in", <<>>, Readable(c))
    BY <1>2, <1>8, <2>1, <2>2 DEF AcceptConn
  <2>4. \A g \in Fd : g # h /\ tree[g] # None => tree[g].slot # i
    BY <2>2 DEF Consistent, Wellpaired
  <2>5. /\ tree'[h] = [slot |-> i, mask |-> "in"] /\ tree'[h].mask = "in"
        /\ \A g \in Fd : g # h => tree'[g] = tree[g]
        /\ \A g \in Fd : g # h /\ tree[g] # None => g_events'[tree[g].slot] = g_events[tree[g].slot]
    <3>1. PICK has : has = Readable(c)
      OBVIOUS
    <3>2. Register(i, h, "recvdata", "in", <<>>, has) /\ "in" \in {"in", "out"}
      BY <2>3, <3>1
    <3>3. /\ tree'[h] = [slot |-> i, mask |-> "in"] /\ tree'[h] # None /\ g_events'[i].buf = <<>>
          /\ \A g \in Fd : g # h => tree'[g] = tree[g]
          /\ \A g \in Fd : g # h /\ tree[g] # None => g_events'[tree[g].slot] = g_events[tree[g].slot]
      BY <2>4, <3>2, RegisterIs, ZenonT(30)
    <3> QED
      BY <3>3
  <2>6. sock'[h] = c /\ \A g \in Fd : g # h => sock'[g] = sock[g]
    BY <1>1, <2>3 DEF SrvTypes
  <2>7. Placed'
    <3>1. \A f, g \in Fd : sock'[f] = sock'[g] /\ sock'[f] # None => f = g
      BY <1>4, <2>6 DEF EchoInv, Placed
    <3>2. \A f \in Fd, a \in 1..Len(backlog') : sock'[f] # backlog'[a]
      BY <1>5, <2>6
    <3>3. \A f \in Fd : sock'[f] # None => peer'[sock'[f]] # "idle"
      BY <1>4, <2>6 DEF EchoInv, Placed, netvars
    <3>4. \A a \in 1..Len(backlog') : peer'[backlog'[a]] # "idle" /\ Unused(backlog[a])'
      BY <1>5 DEF Unused, netvars
    <3>5. \A d \in Conn : peer'[d] = "idle" => Unused(d)'
      BY DEF EchoInv, Placed, Unused, netvars
    <3> QED
      BY <1>5, <3>1, <3>2, <3>3, <3>4, <3>5 DEF Placed
  <2>8. ASSUME NEW f \in Fd
        PROVE  Pending(f)' /\ Exact(f)'
    <3>1. CASE f = h
      <4>1. Pending(h)'
        BY <2>5 DEF Pending
      <4>2. Len(echoed[c]) = 0 /\ got[c] = 0
        BY <1>4 DEF Unused
      <4>3. Exact(h)'
        BY <2>6, <4>2 DEF Exact, netvars
      <4> QED
        BY <3>1, <4>1, <4>3
    <3>2. CASE f # h
      <4>1. tree'[f] = tree[f] /\ sock'[f] = sock[f]
            /\ (tree[f] # None => g_events'[tree[f].slot] = g_events[tree[f].slot])
        BY <2>5, <2>6, <3>2
      <4>2. Pending(f) /\ Exact(f)
        BY DEF EchoInv
      <4>3. Pending(f)'
        BY <4>1, <4>2 DEF Pending, Behind, Small, netvars
      <4>4. Exact(f)'
        BY <4>1, <4>2 DEF Exact, Small, netvars
      <4> QED
        BY <4>3, <4>4
    <3> QED
      BY <3>1, <3>2
  <2> QED
    BY <1>6, <2>7, <2>8 DEF EchoInv
<1> QED
  BY <1>7, <1>8

LEMMA DispatchKeepsEcho ==
  ASSUME Consistent, ListenerTrue, EchoInv, NEW e \in batch, Dispatch(e)
  PROVE  EchoInv'
<1>1. CASE e = LISTENER
  <2>1. AcceptConn /\ UNCHANGED netvars
    BY <1>1 DEF Dispatch
  <2>2. backlog # <<>>
    BY <1>1 DEF ListenerTrue
  <2> QED
    BY <2>1, <2>2, AcceptKeepsEcho
<1>2. CASE e # LISTENER
  <2>1. UNCHANGED backlog
    BY <1>2 DEF Dispatch
  <2>2. \/ g_events[e.slot].call_back = "recvdata" /\ RecvData(e.slot)
        \/ g_events[e.slot].call_back = "senddata" /\ SendData(e.slot)
    BY <1>2 DEF Dispatch
  <2> QED
    BY <1>2, <2>1, <2>2, RecvKeepsEcho, SendKeepsEcho
<1> QED
  BY <1>1, <1>2

LEMMA StaysEcho == Spec => []EchoInv
<1>1. Consistent /\ ListenerTrue /\ EchoInv /\ [Next]_vars => EchoInv'
  <2> SUFFICES ASSUME Consistent, ListenerTrue, EchoInv, [Next]_vars
               PROVE  EchoInv'
    OBVIOUS
  <2>1. CASE UNCHANGED vars
    <3>1. UNCHANGED <<g_events, tree, sock, backlog, netvars>>
      BY <2>1 DEF vars, netvars
    <3> QED
      BY <3>1, EchoUntouched
  <2>2. CASE EpollWait
    <3>1. UNCHANGED <<g_events, tree, sock, backlog, netvars>>
      BY <2>2 DEF EpollWait
    <3> QED
      BY <3>1, EchoUntouched
  <2>3. ASSUME NEW c \in Conn, Client(c)
        PROVE  EchoInv'
    BY <2>3, ClientKeepsEcho
  <2>4. ASSUME NEW e \in batch, Dispatch(e)
        PROVE  EchoInv'
    BY <2>4, DispatchKeepsEcho
  <2> QED
    BY <2>1, <2>2, <2>3, <2>4 DEF Next, Server
<1> QED
  BY <1>1, EchoStarts, StaysConsistent, PTL DEF Spec

\* A sequence of processed bytes is known by its length and its elements.
LEMMA SameBytes ==
  ASSUME NEW s \in Seq(Byte), NEW n \in Nat, Len(s) = n, \A k \in 1..n : s[k] = Upper(k)
  PROVE  s = [k \in 1..n |-> Upper(k)]
<1>1. [k \in 1..n |-> Upper(k)] \in [1..n -> Byte]
  BY DEF Upper, Byte
<1>2. PICK t : t = [k \in 1..n |-> Upper(k)]
  OBVIOUS
<1>3. t \in Seq(Byte) /\ Len(t) = n
  BY <1>1, <1>2, FunctionIsSeq
<1>4. \A k \in 1..n : s[k] = t[k]
  BY <1>2
<1>5. s = t
  BY <1>3, <1>4, SeqEqual
<1> QED
  BY <1>2, <1>5

LEMMA EchoIsFaithful ==
  ASSUME Consistent, EchoInv
  PROVE  EchoFaithful
<1>1. SrvTypes /\ NetTypes
  BY Halves DEF Consistent
<1>2. EchoInOrder
  <2>1. ASSUME NEW c \in Conn, NEW k \in 1..Len(echoed[c])
        PROVE  \E b \in 1..got[c] : echoed[c][k] = Upper(b)
    <3>1. echoed[c] \in Seq(Byte)
      BY <1>1 DEF NetTypes
    <3>2. echoed[c][k] \in Byte
      BY <3>1, ElementOfSeq
    <3>3. echoed[c][k][2] \in 1..got[c]
      BY DEF EchoInv, Stream
    <3>4. echoed[c][k] = Upper(echoed[c][k][2])
      BY <3>2 DEF Byte, Upper
    <3> QED
      BY <3>3, <3>4
  <2> QED
    BY <2>1 DEF EchoInOrder, EchoInv, Stream
<1>3. ASSUME NEW c \in Conn, Known(c), Small(c)
      PROVE  echoed[c] \o Buffered(c) = [k \in 1..got[c] |-> Upper(k)]
  <2>1. PICK f \in Fd : sock[f] = c /\ sock[f] # None
    BY <1>3, NoneAssumption DEF Known
  <2>2. \A g \in Fd : sock[g] = c => g = f
    BY <2>1 DEF EchoInv, Placed
  <2>3. tree[f] # None /\ tree[f] \in Watch
    BY <1>1, <2>1 DEF Consistent, NoOrphan, SrvTypes
  <2>4. PICK old \in Seq(Byte) : old = echoed[c]
    BY <1>1 DEF NetTypes
  <2>5. got[c] \in Nat /\ Len(old) \in Nat
    BY <1>1 DEF NetTypes
  <2>6. Exact(f) /\ Pending(f)
    BY DEF EchoInv
  <2>7. \A k \in 1..Len(old) : old[k] = Upper(k)
    BY <1>3, <2>1, <2>4, <2>6 DEF Exact
  <2>8. CASE tree[f].mask = "in"
    <3>1. Buffered(c) = <<>>
      BY <2>2, <2>8 DEF Buffered
    <3>2. old \o <<>> = old
      BY ConcatEmptySeq
    <3>3. Len(old) = got[c]
      BY <1>3, <2>1, <2>4, <2>6, <2>8 DEF Exact
    <3>4. old = [k \in 1..got[c] |-> Upper(k)]
      BY <2>5, <2>7, <3>3, SameBytes
    <3> QED
      BY <2>4, <3>1, <3>2, <3>4
  <2>9. CASE tree[f].mask = "out"
    <3>1. PICK buf \in Seq(Byte) : buf = g_events[tree[f].slot].buf
      BY <1>1, <2>3 DEF SrvTypes, Watch, Event
    <3>2. Buffered(c) = buf
      <4>1. {g \in Fd : sock[g] = c /\ tree[g] # None /\ tree[g].mask = "out"} = {f}
        BY <2>1, <2>2, <2>3, <2>9
      <4>2. (CHOOSE g \in {f} : TRUE) = f
        OBVIOUS
      <4> QED
        BY <3>1, <4>1, <4>2 DEF Buffered
    <3>3. PICK base \in Nat : Behind(c, buf, base)
      BY <2>1, <2>3, <2>6, <2>9, <3>1 DEF Pending
    <3>4. Len(old) = base /\ base + Len(buf) = got[c] /\ \A k \in 1..Len(buf) : buf[k] = Upper(base + k)
      BY <1>3, <2>4, <3>3 DEF Behind
    <3>5. PICK all : all = old \o buf
      OBVIOUS
    <3>6. /\ all \in Seq(Byte) /\ Len(all) = Len(old) + Len(buf)
          /\ \A k \in 1..(Len(old) + Len(buf)) : all[k] = IF k <= Len(old) THEN old[k] ELSE buf[k - Len(old)]
      BY <3>5, ConcatProperties
    <3>7. ASSUME NEW k \in 1..got[c]
          PROVE  all[k] = Upper(k)
      <4>1. Len(buf) \in Nat /\ k \in 1..(Len(old) + Len(buf))
        BY <2>5, <3>4
      <4>2. CASE k <= Len(old)
        <5>1. k \in 1..Len(old)
          BY <2>5, <4>2
        <5> QED
          BY <2>7, <3>6, <4>1, <4>2, <5>1
      <4>3. CASE ~(k <= Len(old))
        <5>1. k - Len(old) \in 1..Len(buf) /\ base + (k - Len(old)) = k
          BY <2>5, <3>4, <4>1, <4>3
        <5>2. buf[k - Len(old)] = Upper(base + (k - Len(old)))
          BY <3>4, <5>1
        <5> QED
          BY <3>6, <4>1, <4>3, <5>1, <5>2
      <4> QED
        BY <4>2, <4>3
    <3>8. all = [k \in 1..got[c] |-> Upper(k)]
      BY <2>5, <3>4, <3>6, <3>7, SameBytes
    <3> QED
      BY <2>4, <3>2, <3>5, <3>8
  <2> QED
    BY <2>3, <2>8, <2>9 DEF Watch
<1>4. EchoComplete
  BY <1>3 DEF EchoComplete, Small
<1> QED
  BY <1>2, <1>4 DEF EchoFaithful

\* For any number of connections, slots and bytes, any buffer and any window: what a
\* client gets back are bytes it sent, processed, in their order and none twice, through
\* every read, short write and re-arm, and a client that fits the buffer and the window
\* gets all of them.
THEOREM Echoes == Spec => []EchoFaithful
  BY StaysEcho, StaysConsistent, EchoIsFaithful, PTL
=============================================================================
