-------------------------- MODULE ForkServerProofs --------------------------
(***************************************************************************)
(* Proofs about ForkServer, for any number of connections, processes and      *)
(* messages.  Family says why signals that are merged lose no child: without  *)
(* the handler there is one child at most, and with it every death leaves a   *)
(* signal or a handler that has not ended.                                   *)
(***************************************************************************)
EXTENDS ForkServer, SequenceTheorems, FiniteSetTheorems, TLAPS

\* A connection is in one place: not made, waiting for accept(), or given to a child.
Placed ==
  /\ backlog \in Seq(Conn)
  /\ \A a, b \in 1..Len(backlog) : backlog[a] = backlog[b] => a = b
  /\ \A a \in 1..Len(backlog) : peer[backlog[a]] # "idle" /\ child[backlog[a]] = "none" /\ held[backlog[a]] = {}
  /\ \A c \in Conn : peer[c] = "idle" => child[c] = "none" /\ held[c] = {}
  /\ parent \in {"fork", "sigaction", "close"} => cfd \in Conn
  /\ parent = "fork" => child[cfd] = "none"

\* Until the handler is installed there is at most the first child; with it, a second
\* zombie comes with a signal, and the handler ends when there is none.
Family ==
  parent # "exit" =>
    /\ ~handler =>
         /\ ~pending /\ ~reaping /\ parent \notin {"close", "interrupted", "test"}
         /\ \A c, d \in Conn : child[c] # "none" /\ child[d] # "none" => c = d
         /\ parent \in {"accept", "fork"} => \A c \in Conn : child[c] = "none"
    /\ ~pending /\ ~reaping => \A c, d \in Zombies : c = d

\* fork() fails at the limit.
Limited == IsFiniteSet(Processes) /\ Cardinality(Processes) <= MaxProc

\* While Accept() looks at errno nothing is forked, so a handler that finds no child
\* left has found this for good.
Alone == parent = "test" /\ errno # "EINTR" => Processes = {}

IInv == TypeOK /\ Holders /\ Placed /\ Family /\ Limited /\ Alone

-----------------------------------------------------------------------------

\* The first element of a sequence and the others.
LEMMA HeadTail ==
  ASSUME NEW S, NEW q \in Seq(S), q # <<>>
  PROVE  /\ Head(q) = q[1] /\ Head(q) \in S /\ 1 \in 1..Len(q)
         /\ Tail(q) \in Seq(S)
         /\ \A a \in 1..Len(Tail(q)) : a + 1 \in 1..Len(q) /\ a + 1 # 1 /\ Tail(q)[a] = q[a + 1]
         /\ \A a, b \in 1..Len(Tail(q)) : a + 1 = b + 1 => a = b
<1>1. Len(q) \in Nat /\ Len(q) > 0
  BY EmptySeq
<1>2. Tail(q) \in Seq(S) /\ Len(Tail(q)) = Len(q) - 1 /\ \A a \in 1..(Len(q) - 1) : Tail(q)[a] = q[a + 1]
  BY HeadTailProperties
<1>3. Head(q) = q[1] /\ q[1] \in S
  BY <1>1, ElementOfSeq
<1> QED
  BY <1>1, <1>2, <1>3

\* A longer sequence.
LEMMA Longer ==
  ASSUME NEW S, NEW q \in Seq(S), NEW e \in S
  PROVE  /\ Append(q, e) \in Seq(S) /\ Append(q, e) # <<>>
         /\ \A a \in 1..Len(Append(q, e)) :
              \/ a \in 1..Len(q) /\ Append(q, e)[a] = q[a]
              \/ a = Len(q) + 1 /\ a \notin 1..Len(q) /\ Append(q, e)[a] = e
<1>1. Len(q) \in Nat
  OBVIOUS
<1>2. /\ Append(q, e) \in Seq(S) /\ Len(Append(q, e)) = Len(q) + 1 /\ Append(q, e) # <<>>
      /\ \A a \in 1..(Len(q) + 1) : Append(q, e)[a] = IF a <= Len(q) THEN q[a] ELSE e
  BY AppendProperties
<1> QED
  BY <1>1, <1>2

\* The server starts without a child and without a connection.
LEMMA InitInv == Init => IInv
<1> SUFFICES ASSUME Init PROVE IInv
  OBVIOUS
<1>1. TypeOK
  <2>1. MaxSend \in [Conn -> Nat] /\ Window \in Nat
    BY SizeAssumption
  <2>2. backlog = <<>> /\ Len(backlog) = 0
    BY DEF Init
  <2>3. wire \in [Conn -> 0..Window] /\ \A c \in Conn : sent[c] \in 0..MaxSend[c] /\ got[c] \in 0..sent[c]
    BY <2>1 DEF Init
  <2>4. \A i \in 1..Len(backlog) : backlog[i] \in Conn
    BY <2>2
  <2> QED
    BY <2>3, <2>4 DEF Init, TypeOK
<1>2. Holders
  BY DEF Init, Holders
<1>3. backlog \in Seq(Conn) /\ Len(backlog) = 0
  BY DEF Init
<1>4. Placed
  BY <1>3 DEF Init, Placed
<1>5. Family
  BY DEF Init, Family, Zombies
<1>6. Limited
  <2>1. Processes = {}
    BY DEF Init, Processes
  <2> QED
    BY <2>1, FS_EmptySet, SizeAssumption DEF Limited
<1> QED
  BY <1>1, <1>2, <1>4, <1>5, <1>6 DEF IInv, Init, Alone

\* Fewer processes stay within the limit.
LEMMA Fewer ==
  ASSUME Limited, Processes' \subseteq Processes
  PROVE  Limited'
<1>1. IsFiniteSet(Processes') /\ Cardinality(Processes') <= Cardinality(Processes)
  BY FS_Subset DEF Limited
<1>2. Cardinality(Processes') \in Nat /\ Cardinality(Processes) \in Nat
  BY <1>1, FS_CardinalityType DEF Limited
<1> QED
  BY <1>1, <1>2, SizeAssumption DEF Limited

\* Clients change neither the children nor who holds a connection.
LEMMA ClientStep ==
  ASSUME IInv, NEW c \in Conn, Client(c)
  PROVE  IInv'
<1>1. UNCHANGED <<parent, cfd, handler, reaping, errno, pending, child, held, got>>
  BY DEF Client, Connect, Send, PeerRead, PeerLeaves, parentvars
<1>2. Holders' /\ Family' /\ Limited' /\ Alone'
  BY <1>1 DEF IInv, Holders, Family, Limited, Alone, Zombies, Processes
<1>3. CASE Connect(c)
  <2>1. /\ peer[c] = "idle" /\ peer' = [peer EXCEPT ![c] = "open"]
        /\ backlog' = Append(backlog, c) /\ UNCHANGED <<sent, got, wire>>
    BY <1>3 DEF Connect
  <2>2. /\ backlog' \in Seq(Conn)
        /\ \A a \in 1..Len(backlog') : \/ a \in 1..Len(backlog) /\ backlog'[a] = backlog[a]
                                       \/ a = Len(backlog) + 1 /\ a \notin 1..Len(backlog) /\ backlog'[a] = c
    BY <2>1, Longer DEF IInv, Placed
  <2>3. TypeOK'
    BY <1>1, <2>1, <2>2 DEF IInv, TypeOK
  <2>4. \A d \in Conn : (d # c => peer'[d] = peer[d]) /\ peer'[c] = "open"
    BY <2>1 DEF IInv, TypeOK
  <2>5. \A a \in 1..Len(backlog) : backlog[a] \in Conn /\ backlog[a] # c
    BY <2>1 DEF IInv, TypeOK, Placed
  <2>6. child[c] = "none" /\ held[c] = {}
    BY <2>1 DEF IInv, Placed
  <2>7. \A a, b \in 1..Len(backlog') : backlog'[a] = backlog'[b] => a = b
    BY <2>2, <2>5 DEF IInv, Placed
  <2>8. \A a \in 1..Len(backlog') :
          peer'[backlog'[a]] # "idle" /\ child[backlog'[a]] = "none" /\ held[backlog'[a]] = {}
    <3> SUFFICES ASSUME NEW a \in 1..Len(backlog')
                 PROVE  peer'[backlog'[a]] # "idle" /\ child[backlog'[a]] = "none" /\ held[backlog'[a]] = {}
      OBVIOUS
    <3>1. CASE a \in 1..Len(backlog) /\ backlog'[a] = backlog[a]
      <4>1. backlog[a] \in Conn /\ backlog[a] # c
        BY <2>5, <3>1
      <4>2. peer[backlog[a]] # "idle" /\ child[backlog[a]] = "none" /\ held[backlog[a]] = {}
        BY <3>1 DEF IInv, Placed
      <4> QED
        BY <2>4, <3>1, <4>1, <4>2
    <3>2. CASE backlog'[a] = c
      BY <2>4, <2>6, <3>2
    <3> QED
      BY <2>2, <3>1, <3>2
  <2>9. Placed'
    BY <1>1, <2>2, <2>4, <2>7, <2>8 DEF IInv, Placed
  <2> QED
    BY <1>2, <2>3, <2>9 DEF IInv
<1>4. CASE ~Connect(c)
  <2>1. UNCHANGED backlog
    BY <1>4 DEF Client, Send, PeerRead, PeerLeaves, clientvars
  <2>2. \A d \in Conn : peer'[d] = "idle" <=> peer[d] = "idle"
    BY <1>4 DEF Client, Send, PeerRead, PeerLeaves, IInv, TypeOK, clientvars
  <2>3. TypeOK'
    <3>1. CASE Send(c)
      BY <1>1, <3>1, SizeAssumption DEF Send, IInv, TypeOK
    <3>2. CASE PeerRead(c)
      BY <1>1, <3>2, SizeAssumption DEF PeerRead, IInv, TypeOK, clientvars
    <3>3. CASE PeerLeaves(c)
      BY <1>1, <3>3 DEF PeerLeaves, IInv, TypeOK
    <3> QED
      BY <1>4, <3>1, <3>2, <3>3 DEF Client
  <2>4. Placed'
    BY <1>1, <2>1, <2>2 DEF IInv, Placed, TypeOK
  <2> QED
    BY <1>2, <2>3, <2>4 DEF IInv
<1> QED
  BY <1>3, <1>4

\* accept() takes a connection that no process has.
LEMMA AcceptStep ==
  ASSUME IInv, Accept
  PROVE  IInv'
<1> DEFINE c == Head(backlog)
<1>1. /\ parent = "accept" /\ ~reaping /\ backlog # <<>> /\ parent' = "fork"
      /\ cfd' = c /\ backlog' = Tail(backlog) /\ held' = [held EXCEPT ![c] = {"parent"}]
      /\ UNCHANGED <<handler, pending, reaping, errno, child, peer, sent, got, wire>>
  BY DEF Accept
<1>2. backlog \in Seq(Conn)
  BY DEF IInv, Placed
<1>3. /\ c = backlog[1] /\ c \in Conn /\ 1 \in 1..Len(backlog) /\ backlog' \in Seq(Conn)
      /\ \A a \in 1..Len(backlog') : a + 1 \in 1..Len(backlog) /\ a + 1 # 1 /\ backlog'[a] = backlog[a + 1]
      /\ \A a, b \in 1..Len(backlog') : a + 1 = b + 1 => a = b
  BY <1>1, <1>2, HeadTail
<1>4. peer[c] # "idle" /\ child[c] = "none" /\ held[c] = {}
  BY <1>3 DEF IInv, Placed
<1> HIDE DEF c
<1>5. /\ \A d \in Conn : d # c => held'[d] = held[d]
      /\ held'[c] = {"parent"} /\ held' \in [Conn -> SUBSET {"parent", "child"}]
  BY <1>1, <1>3 DEF IInv, TypeOK
<1>6. TypeOK'
  <2>1. \A a \in 1..Len(backlog') : backlog'[a] \in Conn
    BY <1>3 DEF IInv, TypeOK
  <2> QED
    BY <1>1, <1>3, <1>5, <2>1 DEF IInv, TypeOK
<1>7. Holders'
  BY <1>1, <1>4, <1>5 DEF IInv, Holders
<1>8. Placed'
  <2>1. ASSUME NEW a \in 1..Len(backlog') PROVE backlog'[a] # c /\ backlog'[a] \in Conn
    <3>1. a + 1 \in 1..Len(backlog) /\ a + 1 # 1 /\ backlog'[a] = backlog[a + 1]
      BY <1>3
    <3>2. backlog[a + 1] # backlog[1]
      BY <1>3, <3>1 DEF IInv, Placed
    <3> QED
      BY <1>3, <3>1, <3>2 DEF IInv, TypeOK
  <2>2. \A a, b \in 1..Len(backlog') : backlog'[a] = backlog'[b] => a = b
    BY <1>3 DEF IInv, Placed
  <2>3. ASSUME NEW a \in 1..Len(backlog')
        PROVE  peer[backlog'[a]] # "idle" /\ child[backlog'[a]] = "none" /\ held'[backlog'[a]] = {}
    <3>1. a + 1 \in 1..Len(backlog) /\ backlog'[a] = backlog[a + 1]
      BY <1>3
    <3>2. peer[backlog[a + 1]] # "idle" /\ child[backlog[a + 1]] = "none" /\ held[backlog[a + 1]] = {}
      BY <3>1 DEF IInv, Placed
    <3> QED
      BY <1>5, <2>1, <3>1, <3>2
  <2> QED
    BY <1>1, <1>3, <1>4, <1>5, <2>2, <2>3 DEF IInv, Placed
<1>9. Family' /\ Limited' /\ Alone'
  BY <1>1 DEF IInv, Family, Zombies, Limited, Alone, Processes
<1> QED
  BY <1>6, <1>7, <1>8, <1>9 DEF IInv

\* fork() makes one more process, and only below the limit.
LEMMA ForkStep ==
  ASSUME IInv, Fork
  PROVE  IInv'
<1>1. /\ parent = "fork" /\ ~reaping
      /\ UNCHANGED <<cfd, handler, pending, reaping, errno, backlog, peer, sent, got, wire>>
  BY DEF Fork, clientvars
<1>2. cfd \in Conn /\ child[cfd] = "none"
  BY <1>1 DEF IInv, Placed
<1>3. CASE parent' = "exit"
  <2>1. held' = [held EXCEPT ![cfd] = @ \ {"parent"}] /\ UNCHANGED child
    BY <1>3 DEF Fork
  <2>2. /\ \A d \in Conn : d # cfd => held'[d] = held[d]
        /\ held'[cfd] = held[cfd] \ {"parent"} /\ held' \in [Conn -> SUBSET {"parent", "child"}]
    BY <1>2, <2>1 DEF IInv, TypeOK
  <2>3. TypeOK'
    BY <1>1, <1>3, <2>1, <2>2 DEF IInv, TypeOK
  <2>4. Holders'
    BY <1>1, <1>2, <1>3, <2>1, <2>2 DEF IInv, Holders
  <2>5. Placed'
    BY <1>1, <1>3, <2>1, <2>2 DEF IInv, Placed, TypeOK
  <2> QED
    BY <1>3, <2>1, <2>3, <2>4, <2>5 DEF IInv, Family, Limited, Alone, Processes
<1>4. CASE parent' # "exit"
  <2>1. /\ Cardinality(Processes) < MaxProc /\ parent' = "sigaction"
        /\ child' = [child EXCEPT ![cfd] = "read"]
        /\ held' = [held EXCEPT ![cfd] = @ \cup {"child"}]
    BY <1>4 DEF Fork
  <2>2. /\ \A d \in Conn : d # cfd => held'[d] = held[d] /\ child'[d] = child[d]
        /\ held'[cfd] = held[cfd] \cup {"child"} /\ child'[cfd] = "read"
        /\ held' \in [Conn -> SUBSET {"parent", "child"}]
    BY <1>2, <2>1 DEF IInv, TypeOK
  <2>3. TypeOK'
    BY <1>1, <2>1, <2>2 DEF IInv, TypeOK
  <2>4. Holders'
    BY <1>1, <1>2, <2>1, <2>2 DEF IInv, Holders
  <2>5. Placed'
    <3>1. "parent" \in held[cfd]
      BY <1>1, <1>2 DEF IInv, Holders
    <3>2. \A a \in 1..Len(backlog) : backlog[a] # cfd /\ backlog[a] \in Conn
      BY <3>1 DEF IInv, Placed, TypeOK
    <3>3. peer[cfd] # "idle"
      BY <1>2, <3>1 DEF IInv, Placed
    <3> QED
      BY <1>1, <1>2, <2>1, <2>2, <3>2, <3>3 DEF IInv, Placed
  <2>6. Zombies' = Zombies
    BY <1>2, <2>2 DEF Zombies
  <2>7. Family'
    BY <1>1, <1>2, <2>1, <2>2, <2>6 DEF IInv, Family
  <2>8. Limited'
    <3>1. Processes' = Processes \cup {cfd} /\ cfd \notin Processes
      BY <1>2, <2>2 DEF Processes
    <3>2. IsFiniteSet(Processes') /\ Cardinality(Processes') = Cardinality(Processes) + 1
      BY <3>1, FS_AddElement DEF IInv, Limited
    <3>3. Cardinality(Processes) \in Nat
      BY FS_CardinalityType DEF IInv, Limited
    <3> QED
      BY <2>1, <3>2, <3>3, SizeAssumption DEF Limited
  <2> QED
    BY <2>1, <2>3, <2>4, <2>5, <2>7, <2>8 DEF IInv, Alone
<1> QED
  BY <1>3, <1>4

\* Installing the handler: what it has missed is the first child at most.
LEMMA SigactionStep ==
  ASSUME IInv, Sigaction
  PROVE  IInv'
<1>1. /\ parent = "sigaction" /\ ~reaping /\ handler' = TRUE /\ parent' = "close"
      /\ UNCHANGED <<cfd, pending, reaping, errno, child, held, backlog, peer, sent, got, wire>>
  BY DEF Sigaction, Installed, clientvars
<1>2. TypeOK' /\ Holders' /\ Placed' /\ Limited' /\ Alone'
  BY <1>1 DEF IInv, TypeOK, Holders, Placed, Limited, Alone, Processes
<1>3. Family'
  BY <1>1 DEF IInv, Family, Zombies
<1> QED
  BY <1>2, <1>3 DEF IInv

\* The parent has no connection any more.
LEMMA CloseStep ==
  ASSUME IInv, CloseCfd
  PROVE  IInv'
<1>1. /\ parent = "close" /\ ~reaping /\ parent' = "accept" /\ held' = [held EXCEPT ![cfd] = held[cfd] \ {"parent"}]
      /\ UNCHANGED <<cfd, handler, pending, reaping, errno, child, backlog, peer, sent, got, wire>>
  BY DEF CloseCfd, ParentCloses, clientvars
<1>2. cfd \in Conn
  BY <1>1 DEF IInv, Placed
<1>3. /\ \A d \in Conn : d # cfd => held'[d] = held[d]
      /\ held'[cfd] = held[cfd] \ {"parent"} /\ held' \in [Conn -> SUBSET {"parent", "child"}]
  BY <1>1, <1>2 DEF IInv, TypeOK
<1>4. TypeOK'
  BY <1>1, <1>3 DEF IInv, TypeOK
<1>5. Holders'
  BY <1>1, <1>2, <1>3 DEF IInv, Holders
<1>6. Placed'
  BY <1>1, <1>3 DEF IInv, Placed, TypeOK
<1>7. handler
  BY <1>1 DEF IInv, Family
<1>8. Family' /\ Limited' /\ Alone'
  BY <1>1, <1>7 DEF IInv, Family, Zombies, Limited, Alone, Processes
<1> QED
  BY <1>4, <1>5, <1>6, <1>8 DEF IInv

\* The handler starts with the signal, which may take the parent out of accept().
LEMMA SignalStep ==
  ASSUME IInv, SignalDelivered
  PROVE  IInv'
<1>1. /\ UNCHANGED <<cfd, handler, errno, child, held, backlog, peer, sent, got, wire>>
      /\ handler /\ pending' = FALSE /\ reaping' = TRUE
      /\ parent' = parent \/ (parent = "accept" /\ parent' = "interrupted")
  BY DEF SignalDelivered, clientvars
<1>2. TypeOK'
  BY <1>1 DEF IInv, TypeOK
<1>3. Holders' /\ Placed' /\ Family'
  BY <1>1 DEF IInv, Holders, Placed, Family
<1>4. Limited' /\ Alone'
  BY <1>1 DEF IInv, Limited, Alone, Processes
<1> QED
  BY <1>2, <1>3, <1>4 DEF IInv

\* Accept() tries again, or finds that the handler has left no child.
LEMMA RetryStep ==
  ASSUME IInv, AcceptFails \/ TestErrno
  PROVE  IInv'
<1>1. /\ UNCHANGED <<cfd, handler, pending, reaping, child, held, backlog, peer, sent, got, wire>>
      /\ \/ parent = "interrupted" /\ parent' = "test" /\ errno' = "EINTR"
         \/ parent = "test" /\ parent' \in {"accept", "exit"} /\ errno' = errno
  BY DEF AcceptFails, TestErrno, clientvars
<1>2. TypeOK'
  BY <1>1 DEF IInv, TypeOK
<1>3. Holders' /\ Placed'
  BY <1>1 DEF IInv, Holders, Placed
<1>4. Family'
  BY <1>1 DEF IInv, Family, Zombies
<1>5. Limited' /\ Alone'
  BY <1>1 DEF IInv, Limited, Alone, Processes
<1> QED
  BY <1>2, <1>3, <1>4, <1>5 DEF IInv

\* The handler reaps a child, or ends when no zombie is left; a signal that came
\* meanwhile starts it again.
LEMMA ReapStep ==
  ASSUME IInv, Reap
  PROVE  IInv'
<1>1. UNCHANGED <<parent, cfd, handler, held, backlog, peer, sent, got, wire>> /\ reaping
  BY DEF Reap, clientvars
<1>2. CASE Zombies = {}
  <2>1. /\ reaping' = pending /\ child' = child /\ pending' = FALSE
        /\ errno' = IF Processes = {} THEN "ECHILD" ELSE errno
    BY <1>2 DEF Reap
  <2>2. TypeOK'
    BY <1>1, <2>1 DEF IInv, TypeOK
  <2>3. Holders' /\ Placed'
    BY <1>1, <2>1 DEF IInv, Holders, Placed
  <2>4. Family'
    BY <1>1, <1>2, <2>1 DEF IInv, Family, Zombies
  <2>5. Limited' /\ Alone'
    BY <1>1, <2>1 DEF IInv, Limited, Alone, Processes
  <2> QED
    BY <2>2, <2>3, <2>4, <2>5 DEF IInv
<1>3. CASE Zombies # {}
  <2>1. PICK c \in Zombies : child' = [child EXCEPT ![c] = "reaped"]
    BY <1>3 DEF Reap
  <2>2. reaping' = TRUE /\ pending' = pending /\ errno' = errno
    BY <1>3 DEF Reap, Again
  <2>3. c \in Conn /\ child[c] = "zombie" /\ child'[c] = "reaped" /\ \A d \in Conn : d # c => child'[d] = child[d]
    BY <2>1 DEF Zombies, IInv, TypeOK
  <2>4. TypeOK' /\ Holders'
    BY <1>1, <2>1, <2>2, <2>3 DEF IInv, TypeOK, Holders
  <2>5. Placed'
    <3>1. \A a \in 1..Len(backlog) : backlog[a] # c /\ backlog[a] \in Conn
      BY <2>3 DEF IInv, Placed, TypeOK
    <3> QED
      BY <1>1, <2>3, <3>1 DEF IInv, Placed
  <2>6. Family'
    BY <1>1, <2>2, <2>3 DEF IInv, Family
  <2>7. Limited' /\ Alone'
    <3>1. Processes' \subseteq Processes
      BY <2>3 DEF Processes
    <3> QED
      BY <1>1, <2>2, <3>1, Fewer DEF IInv, Alone
  <2> QED
    BY <2>4, <2>5, <2>6, <2>7 DEF IInv
<1> QED
  BY <1>2, <1>3

\* What a child does to itself: it goes on or ends, and its end leaves a signal once
\* the handler is there.
LEMMA ChildStep ==
  ASSUME IInv, NEW c \in Conn, Child(c)
  PROVE  IInv'
<1>1. UNCHANGED <<parent, cfd, handler, reaping, errno, backlog, sent>> /\ child[c] \in {"read", "write"}
  BY DEF Child, ChildRead, ChildWrite, parentvars
<1>2. /\ \/ child' = [child EXCEPT ![c] = "read"] /\ UNCHANGED <<held, pending>>
         \/ child' = [child EXCEPT ![c] = "write"] /\ UNCHANGED <<held, pending>>
         \/ ChildEnds(c)
      /\ \/ peer' = peer
         \/ peer[c] = "reset" /\ peer' = [peer EXCEPT ![c] = "gone"]
  BY DEF Child, ChildRead, ChildWrite
<1>3. /\ \A d \in Conn : d # c => child'[d] = child[d] /\ held'[d] = held[d]
      /\ \/ child'[c] \in {"read", "write"} /\ held'[c] = held[c] /\ pending' = pending
         \/ /\ child'[c] = "zombie" /\ held'[c] = held[c] \ {"child"}
            /\ pending' = (pending \/ (handler /\ parent # "exit"))
      /\ child' \in [Conn -> {"none", "read", "write", "zombie", "reaped"}]
      /\ held' \in [Conn -> SUBSET {"parent", "child"}] /\ pending' \in BOOLEAN
  <2>1. CASE UNCHANGED <<held, pending>> /\ \E s \in {"read", "write"} : child' = [child EXCEPT ![c] = s]
    BY <2>1 DEF IInv, TypeOK
  <2>2. CASE ChildEnds(c)
    <3>1. /\ child' = [child EXCEPT ![c] = "zombie"] /\ held' = [held EXCEPT ![c] = held[c] \ {"child"}]
          /\ pending' = (pending \/ (handler /\ parent # "exit"))
      BY <2>2 DEF ChildEnds
    <3>2. pending' \in BOOLEAN
      BY <3>1
    <3>3. held[c] \ {"child"} \in SUBSET {"parent", "child"}
      BY DEF IInv, TypeOK
    <3> QED
      BY <3>1, <3>2, <3>3 DEF IInv, TypeOK
  <2> QED
    BY <1>2, <2>1, <2>2
<1>4. \A d \in Conn : (peer'[d] = "idle" <=> peer[d] = "idle") /\ peer' \in [Conn -> {"idle", "open", "fin", "reset", "gone"}]
  BY <1>2 DEF IInv, TypeOK
<1>5. wire' \in [Conn -> 0..Window] /\ \A d \in Conn : got'[d] \in 0..sent[d]
  <2>1. CASE UNCHANGED <<wire, got>>
    BY <2>1 DEF IInv, TypeOK
  <2>2. CASE wire[c] < Window /\ wire' = [wire EXCEPT ![c] = @ + 1] /\ UNCHANGED got
    BY <2>2, SizeAssumption DEF IInv, TypeOK
  <2>3. CASE sent[c] > got[c] /\ got' = [got EXCEPT ![c] = @ + 1] /\ UNCHANGED wire
    BY <2>3, SizeAssumption DEF IInv, TypeOK
  <2> QED
    BY <2>1, <2>2, <2>3 DEF Child, ChildRead, ChildWrite, HasMessage
<1>6. TypeOK'
  BY <1>1, <1>3, <1>4, <1>5 DEF IInv, TypeOK
<1>7. Holders'
  BY <1>1, <1>3 DEF IInv, Holders
<1>8. Placed'
  <2>1. \A a \in 1..Len(backlog) : backlog[a] # c /\ backlog[a] \in Conn
    BY <1>1 DEF IInv, Placed, TypeOK
  <2>2. peer[c] # "idle" /\ (parent = "fork" => cfd # c)
    BY <1>1 DEF IInv, Placed
  <2> QED
    BY <1>1, <1>3, <1>4, <2>1, <2>2 DEF IInv, Placed
<1>9. Family'
  <2>1. ASSUME parent # "exit", ~handler
        PROVE  /\ ~pending' /\ ~reaping /\ parent \notin {"close", "interrupted", "test"}
               /\ \A d, e \in Conn : child'[d] # "none" /\ child'[e] # "none" => d = e
               /\ parent \in {"accept", "fork"} => \A d \in Conn : child'[d] = "none"
    BY <1>1, <1>3, <2>1 DEF IInv, Family
  <2>2. ASSUME parent # "exit", ~pending', ~reaping PROVE \A d, e \in Zombies' : d = e
    <3>1. CASE handler
      <4>1. child'[c] \in {"read", "write"} /\ ~pending
        BY <1>3, <2>2, <3>1
      <4>2. Zombies' \subseteq Zombies
        BY <1>3, <4>1 DEF Zombies
      <4> QED
        BY <2>2, <4>1, <4>2 DEF IInv, Family
    <3>2. CASE ~handler
      BY <2>1, <2>2, <3>2 DEF Zombies
    <3> QED
      BY <3>1, <3>2
  <2> QED
    BY <1>1, <2>1, <2>2 DEF Family
<1>10. Limited' /\ Alone'
  <2>1. Processes' = Processes
    BY <1>1, <1>3 DEF Processes
  <2> QED
    BY <1>1, <2>1 DEF IInv, Limited, Alone
<1> QED
  BY <1>6, <1>7, <1>8, <1>9, <1>10 DEF IInv

\* The invariant is inductive.
LEMMA Invariance == Spec => []IInv
<1>1. IInv /\ [Next]_vars => IInv'
  <2> SUFFICES ASSUME IInv, [Next]_vars PROVE IInv'
    OBVIOUS
  <2>1. CASE Parent
    BY <2>1, AcceptStep, ForkStep, SigactionStep, CloseStep, SignalStep, RetryStep, ReapStep DEF Parent
  <2>2. CASE \E c \in Conn : Client(c) \/ Child(c)
    BY <2>2, ClientStep, ChildStep
  <2>3. CASE UNCHANGED vars
    BY <2>3 DEF vars, IInv, TypeOK, Holders, Placed, Family, Limited, Alone, Zombies, Processes
  <2> QED
    BY <2>1, <2>2, <2>3 DEF Next
<1> QED
  BY <1>1, InitInv, PTL DEF Spec

\* For any number of clients and processes: however signals are merged, at most the
\* first child is left a zombie when the parent has no signal to handle; and every
\* connection is held by its child and, until it is closed there, by the parent.
THEOREM Reaping == Spec => []Inv
<1>1. IInv => Inv
  <2> SUFFICES ASSUME IInv PROVE Inv
    OBVIOUS
  <2>1. ASSUME parent # "exit", ~pending, ~reaping PROVE Cardinality(Zombies) <= 1
    <3>1. \A c, d \in Zombies : c = d
      BY <2>1 DEF IInv, Family
    <3>2. CASE Zombies = {}
      BY <3>2, FS_EmptySet
    <3>3. CASE Zombies # {}
      <4>1. PICK c \in Zombies : Zombies = {c}
        BY <3>1, <3>3
      <4>2. Cardinality({c}) = 1
        BY FS_Singleton
      <4> QED
        BY <4>1, <4>2
    <3> QED
      BY <3>2, <3>3
  <2> QED
    BY <2>1 DEF IInv, Inv, AtMostOneLeft
<1> QED
  BY <1>1, Invariance, PTL

\* For any number of clients and processes: the parent ends only when it has as many
\* processes as it may have, or none at all; a signal during accept() does not end it
\* while it has a child.
THEOREM EndsFullOrAlone == Spec => ExitOnlyFullOrAlone
<1>1. IInv /\ [Next]_vars =>
        [parent' = "exit" /\ parent # "exit" =>
           IF parent = "fork" THEN Cardinality(Processes) = MaxProc ELSE Processes = {}]_vars
  <2> SUFFICES ASSUME IInv, Next, parent' = "exit", parent # "exit"
               PROVE  IF parent = "fork" THEN Cardinality(Processes) = MaxProc ELSE Processes = {}
    OBVIOUS
  <2>1. Fork \/ TestErrno
    BY DEF Next, Parent, Accept, Sigaction, CloseCfd, SignalDelivered, AcceptFails, Reap, Client, Connect, Send,
           PeerRead, PeerLeaves, Child, ChildRead, ChildWrite, parentvars
  <2>2. CASE Fork
    <3>1. parent = "fork" /\ Cardinality(Processes) >= MaxProc
      BY <2>2 DEF Fork
    <3>2. Cardinality(Processes) \in Nat /\ Cardinality(Processes) <= MaxProc /\ MaxProc \in Nat
      BY FS_CardinalityType, SizeAssumption DEF IInv, Limited
    <3> QED
      BY <3>1, <3>2
  <2>3. CASE TestErrno
    BY <2>3 DEF TestErrno, TriesAgain, IInv, Alone
  <2> QED
    BY <2>1, <2>2, <2>3
<1> QED
  BY <1>1, Invariance, PTL DEF Spec, ExitOnlyFullOrAlone
=============================================================================
