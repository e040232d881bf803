------------------------- MODULE LevelServersProofs -------------------------
(***************************************************************************)
(* Proofs about the three level-triggered servers, for any number of clients,  *)
(* descriptors, slots and bytes.                                             *)
(*                                                                         *)
(* First comes what the steps of LevelSockets keep, whatever server makes      *)
(* them: NetInv says of the sockets what the servers rely on, that a           *)
(* connection is behind one descriptor at most, and that one that waits for    *)
(* accept() has exchanged nothing.  Then each server has an inductive           *)
(* invariant of its own that contains NetInv: IInv, ArrayIInv and EpIInv.       *)
(***************************************************************************)
EXTENDS ArraySelectServer, EpollServer, SequenceTheorems, FiniteSetTheorems, WellFoundedInduction, TLAPS

Write == [fd : Fd, n : Nat, left : Nat]

Underway == op = None \/ (op \in Write /\ op.left \in 1..op.n /\ sock[op.fd] # None)

\* No connection is in two places.
Distinct ==
  /\ \A f, g \in Fd : sock[f] = sock[g] /\ sock[f] # None => f = g
  /\ \A a, b \in 1..Len(backlog) : backlog[a] = backlog[b] => a = b
  /\ \A f \in Fd, a \in 1..Len(backlog) : sock[f] # backlog[a]

\* Connections that were not made are nowhere, and those not accepted are unused.
Fresh ==
  /\ \A f \in Fd : sock[f] # None => peer[sock[f]] # "idle"
  /\ \A a \in 1..Len(backlog) :
       /\ backlog[a] \in Conn /\ peer[backlog[a]] # "idle"
       /\ got[backlog[a]] = 0 /\ given[backlog[a]] = 0
  /\ \A c \in Conn : peer[c] = "idle" => got[c] = 0 /\ given[c] = 0

NetInv == NetTypeOK /\ backlog \in Seq(Conn) /\ Underway /\ Distinct /\ Fresh

\* A set of descriptors that is not empty has a lowest one.
LEMMA LowestIn ==
  ASSUME NEW S, S \subseteq Nat, S # {}
  PROVE  Min(S) \in S /\ \A y \in S : Min(S) <= y
<1>1. PICK m \in S : \A k \in S : <<k, m>> \notin OpToRel(<, Nat)
  BY WFMin, NatLessThanWellFounded, Zenon
<1>2. \A k \in S : ~(k < m)
  BY <1>1, Zenon DEF OpToRel
<1>3. \A k \in S : m <= k
  BY <1>2
<1> QED
  BY <1>3 DEF Min

\* The smaller of two numbers.
LEMMA MinOfTwo ==
  ASSUME NEW a \in Int, NEW b \in Int
  PROVE  Min({a, b}) \in Int /\ Min({a, b}) \in {a, b} /\ Min({a, b}) <= a /\ Min({a, b}) <= b
<1>1. \E x \in {a, b} : \A y \in {a, b} : x <= y
  OBVIOUS
<1>2. Min({a, b}) \in {a, b} /\ \A y \in {a, b} : Min({a, b}) <= y
  BY <1>1 DEF Min
<1> QED
  BY <1>2

\* Read() returns what there is, up to a buffer, or an error that is there.
LEMMA ReadResultIs ==
  ASSUME NetTypeOK, NEW c \in Conn
  PROVE  /\ ReadResult(c) \in Int /\ ReadResult(c) >= -1
         /\ ReadResult(c) > 0 => got[c] + ReadResult(c) <= sent[c] /\ sent[c] > got[c]
         /\ ReadResult(c) = -1 => peer[c] = "reset"
<1>1. sent[c] \in Nat /\ got[c] \in Nat /\ BufSize \in Nat \ {0}
  BY SizeAssumption DEF NetTypeOK
<1>2. CASE sent[c] > got[c]
  <2>1. ReadResult(c) = Min({sent[c] - got[c], BufSize})
    BY <1>2 DEF ReadResult
  <2>2. /\ Min({sent[c] - got[c], BufSize}) \in Int /\ Min({sent[c] - got[c], BufSize}) <= sent[c] - got[c]
        /\ Min({sent[c] - got[c], BufSize}) \in {sent[c] - got[c], BufSize}
    <3>1. sent[c] - got[c] \in Int /\ BufSize \in Int
      BY <1>1
    <3> QED
      BY <3>1, MinOfTwo
  <2> QED
    BY <1>1, <1>2, <2>1, <2>2
<1>3. CASE ~(sent[c] > got[c])
  BY <1>3 DEF ReadResult
<1> QED
  BY <1>2, <1>3

\* A server starts without connections.
LEMMA NetStart ==
  ASSUME NetInit
  PROVE  NetInv
<1>1. \A c \in Conn : 0 <= MaxBytes[c] /\ 0 <= Window
  BY SizeAssumption
<1>2. backlog = <<>> /\ backlog \in Seq(Conn) /\ Len(backlog) = 0
  BY DEF NetInit
<1>3. /\ sock \in [Fd -> Conn \cup {None}] /\ peer \in [Conn -> {"idle", "open", "fin", "reset", "gone"}]
      /\ sent \in [Conn -> Nat] /\ got \in [Conn -> Nat] /\ given \in [Conn -> Nat] /\ wire \in [Conn -> Nat]
      /\ op = None /\ alive = "run"
  BY DEF NetInit
<1>4. /\ \A c \in Conn : sent[c] = 0 /\ got[c] = 0 /\ given[c] = 0 /\ wire[c] = 0
      /\ \A f \in Fd : sock[f] = None
  BY DEF NetInit
<1>5. NetTypeOK
  <2>1. \A c \in Conn : sent[c] <= MaxBytes[c] /\ got[c] <= sent[c] /\ wire[c] <= Window
    BY <1>1, <1>4
  <2>2. \A k \in 1..Len(backlog) : backlog[k] \in Conn
    BY <1>2
  <2> QED
    BY <1>3, <2>1, <2>2 DEF NetTypeOK
<1> QED
  BY <1>2, <1>3, <1>4, <1>5 DEF NetInv, Underway, Distinct, Fresh

\* What a client does disturbs no descriptor, makes nothing unreadable and brings no
\* connection back to life.
LEMMA ClientKeeps ==
  ASSUME NetInv, NEW c \in Conn, Client(c)
  PROVE  /\ NetInv'
         /\ UNCHANGED <<sock, op, alive, got, given>>
         /\ backlog # <<>> => backlog' # <<>>
         /\ \A d \in Conn : Readable(d) => Readable(d)'
         /\ \A d \in Conn : peer'[d] \in {"open", "fin"} => peer[d] \in {"open", "fin", "idle"}
<1>0. /\ sent \in [Conn -> Nat] /\ got \in [Conn -> Nat] /\ given \in [Conn -> Nat] /\ wire \in [Conn -> Nat]
      /\ \A d \in Conn : sent[d] <= MaxBytes[d] /\ got[d] <= sent[d] /\ wire[d] <= Window
      /\ \A d \in Conn : MaxBytes[d] \in Nat
      /\ peer \in [Conn -> {"idle", "open", "fin", "reset", "gone"}]
      /\ Window \in Nat /\ backlog \in Seq(Conn) /\ Len(backlog) \in Nat
      /\ sock \in [Fd -> Conn \cup {None}]
  BY SizeAssumption, LenProperties DEF NetInv, NetTypeOK
<1>z. Len(backlog) \in Nat /\ backlog \in Seq(Conn)
  BY <1>0
<1>1. CASE Connect(c)
  <2>1. peer[c] = "idle" /\ backlog' = Append(backlog, c) /\ UNCHANGED <<sock, sent, got, wire, given, op, alive>>
        /\ peer' = [peer EXCEPT ![c] = "open"]
    BY <1>1 DEF Connect
  <2>2. /\ backlog' \in Seq(Conn) /\ Len(backlog') = Len(backlog) + 1 /\ backlog'[Len(backlog) + 1] = c
        /\ \A a \in 1..Len(backlog) : backlog'[a] = backlog[a]
        /\ backlog' # <<>>
    <3>1. /\ Append(backlog, c) \in Seq(Conn) /\ Len(Append(backlog, c)) = Len(backlog) + 1
          /\ \A k \in 1..(Len(backlog) + 1) :
               Append(backlog, c)[k] = IF k <= Len(backlog) THEN backlog[k] ELSE c
          /\ Append(backlog, c) # <<>>
      BY <1>z, AppendProperties
    <3>2. \A a \in 1..Len(backlog) : a \in 1..(Len(backlog) + 1) /\ a <= Len(backlog)
      BY <1>0
    <3>3. Len(backlog) + 1 \in 1..(Len(backlog) + 1) /\ ~(Len(backlog) + 1 <= Len(backlog))
      BY <1>0
    <3> QED
      BY <2>1, <3>1, <3>2, <3>3
  <2>3. \A a \in 1..Len(backlog') : (a \in 1..Len(backlog) /\ backlog'[a] = backlog[a]) \/ (a = Len(backlog) + 1 /\ backlog'[a] = c)
    <3>1. ASSUME NEW a \in 1..(Len(backlog) + 1) PROVE a \in 1..Len(backlog) \/ a = Len(backlog) + 1
      BY <1>z
    <3> QED
      BY <2>2, <3>1
  <2>4. /\ \A a \in 1..Len(backlog) : backlog[a] # c
        /\ \A f \in Fd : sock[f] # c
        /\ got[c] = 0 /\ given[c] = 0
    BY <2>1, NoneAssumption DEF NetInv, Fresh
  <2>5. Distinct'
    <3>1. \A a, b \in 1..Len(backlog') : backlog'[a] = backlog'[b] => a = b
      BY <2>3, <2>4 DEF NetInv, Distinct
    <3>2. \A f \in Fd, a \in 1..Len(backlog') : sock[f] # backlog'[a]
      BY <2>3, <2>4 DEF NetInv, Distinct
    <3> QED
      BY <2>1, <3>1, <3>2 DEF NetInv, Distinct
  <2>a. \A d \in Conn : peer'[d] = IF d = c THEN "open" ELSE peer[d]
    BY <1>0, <2>1
  <2>6. Fresh'
    <3>1. ASSUME NEW a \in 1..Len(backlog')
          PROVE  /\ backlog'[a] \in Conn /\ peer'[backlog'[a]] # "idle"
                 /\ got[backlog'[a]] = 0 /\ given[backlog'[a]] = 0
      BY <2>a, <2>3, <2>4 DEF NetInv, Fresh
    <3>2. \A f \in Fd : sock[f] # None => peer'[sock[f]] # "idle"
      BY <1>0, <2>a DEF NetInv, Fresh
    <3>3. \A d \in Conn : peer'[d] = "idle" => got[d] = 0 /\ given[d] = 0
      BY <2>a DEF NetInv, Fresh
    <3> QED
      BY <2>1, <3>1, <3>2, <3>3 DEF Fresh
  <2>7. NetTypeOK'
    <3>1. \A a \in 1..Len(backlog') : backlog'[a] \in Conn
      BY <2>6 DEF Fresh
    <3>2. peer' \in [Conn -> {"idle", "open", "fin", "reset", "gone"}]
      BY <1>0, <2>1
    <3> QED
      BY <2>1, <3>1, <3>2 DEF NetInv, NetTypeOK
  <2>8. NetInv'
    BY <2>1, <2>2, <2>5, <2>6, <2>7 DEF NetInv, Underway
  <2> QED
    BY <1>0, <2>1, <2>a, <2>2, <2>8 DEF Readable
<1>2. CASE Send(c) \/ PeerRead(c) \/ PeerFin(c) \/ PeerAbort(c)
  <2>1. UNCHANGED <<sock, backlog, op, alive, got, given>>
    BY <1>2 DEF Send, PeerRead, PeerFin, PeerAbort
  <2>2. /\ peer' \in [Conn -> {"idle", "open", "fin", "reset", "gone"}]
        /\ \A d \in Conn :
             /\ peer'[d] = "idle" => peer[d] = "idle"
             /\ peer[d] \in {"fin", "reset", "gone"} => peer'[d] \in {"fin", "reset", "gone"}
             /\ peer'[d] \in {"open", "fin"} => peer[d] \in {"open", "fin"}
    BY <1>0, <1>2 DEF Send, PeerRead, PeerFin, PeerAbort
  <2>3. sent' \in [Conn -> Nat] /\ \A d \in Conn : sent'[d] >= sent[d] /\ sent'[d] <= MaxBytes[d]
    <3>1. CASE Send(c)
      BY <1>0, <3>1 DEF Send
    <3>2. CASE ~Send(c)
      BY <1>0, <1>2, <3>2 DEF PeerRead, PeerFin, PeerAbort
    <3> QED
      BY <3>1, <3>2
  <2>4. wire' \in [Conn -> Nat] /\ \A d \in Conn : wire'[d] <= Window
    <3>1. CASE PeerRead(c)
      BY <1>0, <3>1 DEF PeerRead
    <3>2. CASE ~PeerRead(c)
      BY <1>0, <1>2, <3>2 DEF Send, PeerFin, PeerAbort
    <3> QED
      BY <3>1, <3>2
  <2>5. NetTypeOK'
    <3>1. \A d \in Conn : got[d] <= sent'[d]
      BY <1>0, <2>3
    <3> QED
      BY <2>1, <2>2, <2>3, <2>4, <3>1 DEF NetInv, NetTypeOK
  <2>6. Fresh'
    <3>1. \A f \in Fd : sock[f] # None => sock[f] \in Conn
      BY <1>0
    <3> QED
      BY <2>1, <2>2, <3>1 DEF NetInv, Fresh
  <2>7. NetInv'
    BY <2>1, <2>5, <2>6 DEF NetInv, Underway, Distinct
  <2>8. \A d \in Conn : Readable(d) => Readable(d)'
    BY <1>0, <2>1, <2>2, <2>3 DEF Readable
  <2> QED
    BY <2>1, <2>2, <2>7, <2>8
<1> QED
  BY <1>1, <1>2 DEF Client

\* A Write() under way ends or goes on, and does not make the client's data or end of
\* file go away; what it wrote and what it has left stay what they were together.
LEMMA WriteKeeps ==
  ASSUME NetInv, Writing
  PROVE  /\ NetInv'
         /\ UNCHANGED <<sock, backlog, sent, got>>
         /\ alive' \in {alive, "killed"}
         /\ \A d \in Conn : Readable(d) => Readable(d)'
         /\ op.fd \in Fd /\ sock[op.fd] \in Conn /\ op.left \in Nat
         /\ op' = None \/ (op'.fd = op.fd /\ op'.left \in Nat)
         /\ \A d \in Conn : d # sock[op.fd] => given'[d] = given[d]
         /\ \A d \in Conn : peer'[d] \in {"open", "fin"} => peer'[d] = peer[d]
         /\ peer'[sock[op.fd]] \in {"open", "fin"} =>
              given'[sock[op.fd]] + (IF op' = None THEN 0 ELSE op'.left) = given[sock[op.fd]] + op.left
<1> DEFINE c == sock[op.fd]
           k == Min({op.left, Window - wire[c]})
<1>0. /\ sent \in [Conn -> Nat] /\ got \in [Conn -> Nat] /\ given \in [Conn -> Nat] /\ wire \in [Conn -> Nat]
      /\ \A d \in Conn : wire[d] <= Window
      /\ peer \in [Conn -> {"idle", "open", "fin", "reset", "gone"}]
      /\ Window \in Nat /\ sock \in [Fd -> Conn \cup {None}]
  BY SizeAssumption DEF NetInv, NetTypeOK
<1>1. op \in Write /\ op.fd \in Fd /\ c \in Conn /\ op.left \in Nat /\ op.n \in Nat /\ op.left <= op.n /\ op.left >= 1
  BY <1>0 DEF Writing, Write, NetInv, Underway
<1> HIDE DEF c
<1>2. k \in Int /\ k <= op.left /\ k <= Window - wire[c]
  <2>1. op.left \in Int /\ Window - wire[c] \in Int
    BY <1>0, <1>1
  <2> QED
    BY <2>1, MinOfTwo
<1> HIDE DEF k
<1>a. /\ \A a \in 1..Len(backlog) : backlog[a] # c
      /\ peer[c] # "idle"
  <2>1. op.fd \in Fd /\ sock[op.fd] # None
    BY <1>1, NoneAssumption DEF c
  <2> QED
    BY <2>1 DEF c, NetInv, Distinct, Fresh
<1>3. CASE WriteSome
  <2>1. /\ k > 0 /\ UNCHANGED <<sock, backlog, peer, sent, got, alive>>
        /\ wire' = [wire EXCEPT ![c] = @ + k] /\ given' = [given EXCEPT ![c] = @ + k]
        /\ op' = IF k = op.left THEN None ELSE [op EXCEPT !.left = @ - k]
    BY <1>3 DEF WriteSome, k, c
  <2>2. /\ wire[c] + k \in Nat /\ wire[c] + k <= Window /\ given[c] + k \in Nat /\ k \in Nat
    BY <1>0, <1>1, <1>2, <2>1
  <2>3. /\ wire' \in [Conn -> Nat] /\ given' \in [Conn -> Nat]
        /\ \A d \in Conn : d # c => wire'[d] = wire[d] /\ given'[d] = given[d]
        /\ wire'[c] = wire[c] + k /\ given'[c] = given[c] + k
    BY <1>0, <1>1, <2>1, <2>2
  <2>4. /\ op' = None \/ (op' \in Write /\ op'.left \in 1..op'.n /\ op'.fd = op.fd)
        /\ k + (IF op' = None THEN 0 ELSE op'.left) = op.left
    <3>1. CASE k = op.left
      BY <1>1, <2>1, <3>1
    <3>2. CASE k # op.left
      <4>1. op.left - k >= 1 /\ op.left - k <= op.n /\ op.left - k \in Nat /\ k + (op.left - k) = op.left
        BY <1>1, <1>2, <2>1, <2>2, <3>2
      <4>2. op' = [op EXCEPT !.left = op.left - k]
        BY <2>1, <3>2
      <4>3. op' \in Write /\ op'.left = op.left - k /\ op'.fd = op.fd /\ op'.n = op.n
        BY <1>1, <4>1, <4>2 DEF Write
      <4>4. op' # None
        <5>1. \A f \in Fd : f \in Nat
          BY SizeAssumption DEF Fd
        <5>2. op' \in [fd : Nat, n : Nat, left : Nat]
          BY <4>3, <5>1 DEF Write
        <5> QED
          BY <5>2, NoneAssumption
      <4> QED
        BY <1>1, <4>1, <4>3, <4>4
    <3> QED
      BY <3>1, <3>2
  <2>5. NetTypeOK'
    <3>1. \A d \in Conn : wire'[d] <= Window
      BY <1>0, <2>2, <2>3
    <3>2. op' = None \/ (op'.fd \in Fd /\ op'.left \in 1..op'.n)
      BY <1>1, <2>4
    <3> QED
      BY <2>1, <2>3, <3>1, <3>2 DEF NetInv, NetTypeOK
  <2>6. Fresh'
    <3>1. \A a \in 1..Len(backlog) : backlog[a] \in Conn /\ given'[backlog[a]] = 0
      BY <1>a, <2>3 DEF NetInv, Fresh
    <3>2. \A d \in Conn : peer[d] = "idle" => given'[d] = 0
      BY <1>a, <2>3 DEF NetInv, Fresh
    <3> QED
      BY <2>1, <3>1, <3>2 DEF NetInv, Fresh
  <2>7. NetInv'
    <3>1. Underway'
      BY <2>1, <2>4 DEF NetInv, Underway, Writing
    <3> QED
      BY <2>1, <2>5, <2>6, <3>1 DEF NetInv, Distinct
  <2>8. given'[c] + (IF op' = None THEN 0 ELSE op'.left) = given[c] + op.left
    <3> DEFINE rest == IF op' = None THEN 0 ELSE op'.left
    <3>1. rest \in Nat
      BY <2>4
    <3>2. k + rest = op.left
      BY <2>4
    <3> HIDE DEF rest
    <3>3. given'[c] + rest = given[c] + op.left
      BY <1>0, <1>1, <2>2, <2>3, <3>1, <3>2
    <3> QED
      BY <3>3 DEF rest
  <2> QED
    BY <1>1, <2>1, <2>3, <2>4, <2>7, <2>8 DEF Readable, c
<1>4. CASE WriteFails
  <2>1. /\ UNCHANGED <<sock, backlog, sent, got, wire, given>> /\ op' = None
        /\ alive' \in {alive, "killed"}
        /\ peer' = peer \/ peer' = [peer EXCEPT ![c] = "gone"]
        /\ peer[c] \in {"reset", "gone"}
    BY <1>4 DEF WriteFails, c
  <2>2. /\ peer' \in [Conn -> {"idle", "open", "fin", "reset", "gone"}]
        /\ \A d \in Conn : peer'[d] = peer[d] \/ (d = c /\ peer'[d] = "gone")
    BY <1>0, <1>1, <2>1
  <2>3. NetTypeOK'
    BY <2>1, <2>2 DEF NetInv, NetTypeOK
  <2>4. Fresh'
    <3>1. \A f \in Fd : sock[f] # None => sock[f] \in Conn
      BY <1>0
    <3> QED
      BY <2>1, <2>2, <3>1 DEF NetInv, Fresh
  <2>5. NetInv'
    BY <2>1, <2>3, <2>4 DEF NetInv, Underway, Distinct
  <2>6. peer'[c] \notin {"open", "fin"}
    BY <1>1, <2>1, <2>2
  <2> QED
    BY <1>1, <2>1, <2>2, <2>5, <2>6 DEF Readable, c
<1> QED
  BY <1>3, <1>4 DEF Writing

\* Accept() takes a descriptor that is free, for a connection nothing was read from.
LEMMA AcceptKeeps ==
  ASSUME NetInv, FreeFds # {}, backlog # <<>>, op = None,
         sock' = [sock EXCEPT ![NewFd] = Head(backlog)], backlog' = Tail(backlog),
         UNCHANGED <<netvars, op, alive>>
  PROVE  /\ NetInv'
         /\ NewFd \in Fd /\ sock[NewFd] = None /\ sock'[NewFd] # None
         /\ got[sock'[NewFd]] = 0 /\ given[sock'[NewFd]] = 0 /\ sock'[NewFd] \in Conn
         /\ \A f \in Fd : f # NewFd => sock'[f] = sock[f]
         /\ UNCHANGED <<peer, sent, got, given, wire>>
<1>0. sock \in [Fd -> Conn \cup {None}] /\ backlog \in Seq(Conn)
  BY DEF NetInv, NetTypeOK
<1>1. NewFd \in Fd /\ sock[NewFd] = None
  <2>1. FreeFds \subseteq Nat
    BY SizeAssumption DEF FreeFds, Fd
  <2>2. NewFd \in FreeFds
    BY <2>1, LowestIn DEF NewFd
  <2> QED
    BY <2>2 DEF FreeFds
<1> DEFINE b == backlog[1]
<1>2. /\ Head(backlog) = b /\ backlog' \in Seq(Conn) /\ 1 \in 1..Len(backlog) /\ Len(backlog') = Len(backlog) - 1
      /\ Len(backlog) \in Nat /\ \A a \in 1..Len(backlog') : backlog'[a] = backlog[a + 1]
  BY <1>0, HeadTailProperties, EmptySeq, LenProperties
<1>b. \A a \in 1..Len(backlog') : a + 1 \in 1..Len(backlog) /\ a + 1 # 1
  BY <1>2
<1>3. UNCHANGED <<peer, sent, got, given, wire>> /\ op' = None /\ alive' = alive
  BY DEF netvars, clientvars
<1>4. b \in Conn /\ b # None /\ got[b] = 0 /\ given[b] = 0 /\ peer[b] # "idle" /\ \A f \in Fd : sock[f] # b
  BY <1>2, NoneAssumption DEF NetInv, Fresh, Distinct
<1>9. \A a \in 1..Len(backlog') : backlog'[a] # b
  BY <1>2, <1>b DEF NetInv, Distinct
<1> HIDE DEF b
<1>5. sock' \in [Fd -> Conn \cup {None}] /\ sock'[NewFd] = b /\ \A f \in Fd : f # NewFd => sock'[f] = sock[f]
  BY <1>0, <1>1, <1>2, <1>4
<1>6. \A a \in 1..Len(backlog') :
        /\ backlog'[a] \in Conn /\ peer[backlog'[a]] # "idle"
        /\ got[backlog'[a]] = 0 /\ given[backlog'[a]] = 0
        /\ \A f \in Fd : sock[f] # backlog'[a]
  BY <1>2, <1>b DEF NetInv, Fresh, Distinct
<1>7. NetTypeOK'
  BY <1>3, <1>5, <1>6 DEF NetInv, NetTypeOK
<1>8. Distinct'
  <2>1. \A f, g \in Fd : sock'[f] = sock'[g] /\ sock'[f] # None => f = g
    BY <1>4, <1>5 DEF NetInv, Distinct
  <2>2. ASSUME NEW x \in 1..Len(backlog'), NEW y \in 1..Len(backlog'), backlog'[x] = backlog'[y]
        PROVE  x = y
    <3>1. backlog[x + 1] = backlog[y + 1] /\ x + 1 \in 1..Len(backlog) /\ y + 1 \in 1..Len(backlog)
      BY <1>2, <1>b, <2>2
    <3>2. x + 1 = y + 1
      BY <3>1 DEF NetInv, Distinct
    <3> QED
      BY <3>2
  <2>3. \A f \in Fd, a \in 1..Len(backlog') : sock'[f] # backlog'[a]
    BY <1>5, <1>6, <1>9
  <2> QED
    BY <2>1, <2>2, <2>3 DEF Distinct
<1>10. Fresh'
  <2>1. \A f \in Fd : sock'[f] # None => peer[sock'[f]] # "idle"
    BY <1>4, <1>5 DEF NetInv, Fresh
  <2> QED
    BY <1>3, <1>6, <2>1 DEF NetInv, Fresh
<1>11. NetInv'
  BY <1>2, <1>3, <1>7, <1>8, <1>10 DEF NetInv, Underway
<1> QED
  BY <1>1, <1>2, <1>3, <1>4, <1>5, <1>11

\* After Read() the descriptor stays, with or without a Write() of what was read, or
\* is closed; what the other connections can read stays readable.
LEMMA ReadKeeps ==
  ASSUME NetInv, op = None, NEW f \in Fd, sock[f] # None, Taken(sock[f]),
         UNCHANGED <<backlog, sent, wire, given>>,
         alive' \in {"run", "exit", "killed", "wild"},
         \/ sock' = sock /\ op' = None
         \/ sock' = [sock EXCEPT ![f] = None] /\ op' = None
         \/ /\ ReadResult(sock[f]) > 0 /\ sock' = sock
            /\ op' = [fd |-> f, n |-> ReadResult(sock[f]), left |-> ReadResult(sock[f])]
  PROVE  /\ NetInv' /\ sock[f] \in Conn
         /\ \A d \in Conn : d # sock[f] => (Readable(d) => Readable(d)') /\ peer'[d] = peer[d] /\ got'[d] = got[d]
         /\ got'[sock[f]] = IF ReadResult(sock[f]) > 0 THEN got[sock[f]] + ReadResult(sock[f]) ELSE got[sock[f]]
         /\ peer'[sock[f]] \in {"open", "fin"} => peer'[sock[f]] = peer[sock[f]]
         /\ ReadResult(sock[f]) \in Int /\ ReadResult(sock[f]) >= -1
<1> DEFINE c == sock[f]
           n == ReadResult(c)
<1>0. /\ sent \in [Conn -> Nat] /\ got \in [Conn -> Nat] /\ \A d \in Conn : got[d] <= sent[d]
      /\ peer \in [Conn -> {"idle", "open", "fin", "reset", "gone"}]
      /\ sock \in [Fd -> Conn \cup {None}]
  BY DEF NetInv, NetTypeOK
<1>1. c \in Conn
  BY <1>0
<1>2. n \in Int /\ n >= -1 /\ (n > 0 => got[c] + n <= sent[c]) /\ (n = -1 => peer[c] = "reset")
  BY <1>1, ReadResultIs DEF NetInv
<1>3. got' = [got EXCEPT ![c] = IF n > 0 THEN @ + n ELSE @] /\ peer' = [peer EXCEPT ![c] = IF n = -1 THEN "gone" ELSE @]
  BY DEF Taken
<1>6. op' = None \/ (op' \in Write /\ op'.fd = f /\ op'.left \in 1..op'.n /\ sock' = sock)
  BY <1>2 DEF Write
<1>7. sock' \in [Fd -> Conn \cup {None}] /\ \A g \in Fd : sock'[g] = sock[g] \/ sock'[g] = None
  BY <1>0
<1> HIDE DEF n, c
<1>4. /\ peer' \in [Conn -> {"idle", "open", "fin", "reset", "gone"}]
      /\ \A d \in Conn : d # c => peer'[d] = peer[d]
      /\ peer'[c] = IF n = -1 THEN "gone" ELSE peer[c]
  BY <1>0, <1>1, <1>3
<1>5. /\ got' \in [Conn -> Nat] /\ \A d \in Conn : d # c => got'[d] = got[d]
      /\ got'[c] = IF n > 0 THEN got[c] + n ELSE got[c]
      /\ \A d \in Conn : got'[d] <= sent[d]
  <2>1. got[c] \in Nat /\ (n > 0 => got[c] + n \in Nat)
    BY <1>0, <1>1, <1>2
  <2>2. /\ got' \in [Conn -> Nat] /\ \A d \in Conn : d # c => got'[d] = got[d]
        /\ got'[c] = IF n > 0 THEN got[c] + n ELSE got[c]
    BY <1>0, <1>1, <1>3, <2>1
  <2> QED
    BY <1>0, <1>2, <2>2
<1>8. NetTypeOK'
  <2>1. op' = None \/ (op'.fd \in Fd /\ op'.left \in 1..op'.n)
    BY <1>6
  <2> QED
    BY <1>4, <1>5, <1>7, <2>1 DEF NetInv, NetTypeOK
<1>9. \A a \in 1..Len(backlog) : backlog[a] \in Conn /\ backlog[a] # c /\ backlog[a] # None
  BY <1>1, NoneAssumption DEF NetInv, Fresh, Distinct, c
<1>10. Distinct'
  BY <1>7, <1>9 DEF NetInv, Distinct
<1>11. Fresh'
  <2>1. \A g \in Fd : sock'[g] # None => sock'[g] \in Conn /\ sock'[g] = sock[g]
    BY <1>7
  <2>2. peer[c] # "idle"
    BY DEF NetInv, Fresh, c
  <2>3. \A d \in Conn : peer'[d] = "idle" => d # c /\ peer[d] = "idle"
    BY <1>4, <2>2
  <2> QED
    <3>1. \A g \in Fd : sock'[g] # None => peer'[sock'[g]] # "idle"
      BY <2>1, <2>3 DEF NetInv, Fresh
    <3>2. \A a \in 1..Len(backlog) :
            /\ backlog[a] \in Conn /\ peer'[backlog[a]] # "idle"
            /\ got'[backlog[a]] = 0 /\ given[backlog[a]] = 0
      BY <1>4, <1>5, <1>9 DEF NetInv, Fresh
    <3>3. \A d \in Conn : peer'[d] = "idle" => got'[d] = 0 /\ given[d] = 0
      BY <1>5, <2>3 DEF NetInv, Fresh
    <3> QED
      BY <3>1, <3>2, <3>3 DEF Fresh
<1>12. Underway'
  BY <1>6 DEF Underway, Write, c
<1>13. NetInv'
  BY <1>8, <1>10, <1>11, <1>12 DEF NetInv
<1> QED
  BY <1>1, <1>2, <1>4, <1>5, <1>13 DEF Readable, n, c

-----------------------------------------------------------------------------
(* The select() server.  Every descriptor it watches is open. *)

Watched == \A f \in Fd : f \in allset => sock[f] # None

RoundOK ==
  /\ allset \subseteq Fd \cup {LFD} /\ LFD \in allset
  /\ rset \subseteq allset
  /\ nready \in -1..(NFd + 1)
  /\ maxfd \in Fd \cup {LFD}

IInv == NetInv /\ RoundOK /\ Watched /\ NeverBlocks /\ ExitOnlyWhenFull /\ EchoExact

\* Descriptors are numbers.
LEMMA FdIsNat == /\ \A f \in Fd : f \in Nat /\ f # LFD
                 /\ NFd \in Nat
  BY SizeAssumption DEF Fd, LFD

\* The larger of two numbers.
LEMMA MaxOfTwo ==
  ASSUME NEW a \in Int, NEW b \in Int
  PROVE  Max({a, b}) \in {a, b} /\ Max({a, b}) >= a /\ Max({a, b}) >= b
<1>1. \E x \in {a, b} : \A y \in {a, b} : x >= y
  OBVIOUS
<1>2. Max({a, b}) \in {a, b} /\ \A y \in {a, b} : Max({a, b}) >= y
  BY <1>1 DEF Max
<1> QED
  BY <1>2

\* The largest descriptor is one there has been.
LEMMA HighestIs ==
  ASSUME NEW f \in Fd, maxfd \in Fd \cup {LFD}
  PROVE  Highest(f) \in Fd \cup {LFD}
<1>1. f \in Int /\ maxfd \in Int
  BY FdIsNat DEF LFD
<1>2. Max({f, maxfd}) \in {f, maxfd}
  BY <1>1, MaxOfTwo
<1> QED
  BY <1>2 DEF Highest

\* select() returns at most one more descriptor than there are for clients.
LEMMA ReadyCount ==
  ASSUME NEW S, S \subseteq Fd \cup {LFD}
  PROVE  Cardinality(S) \in 0..(NFd + 1)
<1>1. S \subseteq 0..NFd /\ NFd \in Nat /\ 0 \in Int /\ NFd \in Int
  BY FdIsNat DEF Fd, LFD
<1>2. IsFiniteSet(0..NFd) /\ Cardinality(0..NFd) = NFd - 0 + 1
  BY <1>1, FS_Interval
<1>3. IsFiniteSet(S) /\ Cardinality(S) <= Cardinality(0..NFd) /\ Cardinality(S) \in Nat
  BY <1>1, <1>2, FS_Subset, FS_CardinalityType
<1> QED
  BY <1>1, <1>2, <1>3

\* The server starts watching the listening descriptor only.
LEMMA InitInv == Init => IInv
<1> SUFFICES ASSUME Init PROVE IInv
  OBVIOUS
<1>1. NetInv
  BY NetStart DEF Init
<1>2. \A f \in Fd : sock[f] = None
  BY DEF Init, NetInit
<1>3. allset = {LFD} /\ rset = {} /\ nready = 0 /\ maxfd = LFD /\ alive = "run"
  BY DEF Init, NetInit
<1>4. RoundOK /\ Watched
  BY <1>3, FdIsNat DEF RoundOK, Watched
<1>5. NeverBlocks /\ ExitOnlyWhenFull /\ EchoExact
  BY <1>2, <1>3 DEF NeverBlocks, ExitOnlyWhenFull, EchoExact
<1> QED
  BY <1>1, <1>4, <1>5 DEF IInv

\* What a descriptor owes its client.
Left(f) == IF op # None /\ op.fd = f THEN op.left ELSE 0

\* A client can make more readable, and never less.
LEMMA ClientStep ==
  ASSUME IInv, NEW c \in Conn, Client(c), UNCHANGED selvars
  PROVE  IInv'
<1>1. /\ NetInv' /\ UNCHANGED <<sock, op, alive, got, given>>
      /\ backlog # <<>> => backlog' # <<>>
      /\ \A d \in Conn : Readable(d) => Readable(d)'
      /\ \A d \in Conn : peer'[d] \in {"open", "fin"} => peer[d] \in {"open", "fin", "idle"}
  BY ClientKeeps DEF IInv
<1>2. \A f \in Fd : sock[f] # None => sock[f] \in Conn /\ peer[sock[f]] # "idle"
  BY DEF IInv, NetInv, NetTypeOK, Fresh
<1>3. UNCHANGED <<allset, rset, nready, maxfd>>
  BY DEF selvars
<1>4. NeverBlocks'
  <2>1. rset \subseteq Fd \cup {LFD}
    BY DEF IInv, RoundOK
  <2>2. alive = "run" => rset \subseteq Ready(rset)
    BY DEF IInv, NeverBlocks
  <2>3. ASSUME NEW f \in rset, f \in Ready(rset) PROVE f \in Ready(rset)'
    BY <1>1, <1>2, <1>3, <2>1, <2>3, FdIsNat DEF Ready
  <2> QED
    BY <1>1, <1>3, <2>2, <2>3 DEF NeverBlocks
<1>5. EchoExact'
  <2>1. ASSUME NEW f \in Fd, sock[f] # None, peer'[sock[f]] \in {"open", "fin"}
        PROVE  given[sock[f]] + Left(f) = got[sock[f]]
    BY <1>1, <1>2, <2>1 DEF IInv, EchoExact, Left
  <2> QED
    BY <1>1, <2>1 DEF EchoExact, Left
<1> QED
  BY <1>1, <1>3, <1>4, <1>5 DEF IInv, RoundOK, Watched, ExitOnlyWhenFull, FreeFds

\* A Write() under way leaves the sets of descriptors alone.
LEMMA WritingStep ==
  ASSUME IInv, Writing, alive = "run", UNCHANGED selvars
  PROVE  IInv'
<1>1. /\ NetInv' /\ UNCHANGED <<sock, backlog, sent, got>>
      /\ alive' \in {alive, "killed"}
      /\ \A d \in Conn : Readable(d) => Readable(d)'
      /\ op.fd \in Fd /\ sock[op.fd] \in Conn /\ op.left \in Nat
      /\ op' = None \/ (op'.fd = op.fd /\ op'.left \in Nat)
      /\ \A d \in Conn : d # sock[op.fd] => given'[d] = given[d]
      /\ \A d \in Conn : peer'[d] \in {"open", "fin"} => peer'[d] = peer[d]
      /\ peer'[sock[op.fd]] \in {"open", "fin"} =>
           given'[sock[op.fd]] + (IF op' = None THEN 0 ELSE op'.left) = given[sock[op.fd]] + op.left
  BY WriteKeeps DEF IInv
<1>2. \A f \in Fd : sock[f] # None => sock[f] \in Conn
  BY DEF IInv, NetInv, NetTypeOK
<1>3. UNCHANGED <<allset, rset, nready, maxfd>>
  BY DEF selvars
<1>4. NeverBlocks'
  <2>1. rset \subseteq Fd \cup {LFD}
    BY DEF IInv, RoundOK
  <2>2. ASSUME NEW f \in rset, f \in Ready(rset) PROVE f \in Ready(rset)'
    BY <1>1, <1>2, <1>3, <2>1, <2>2, FdIsNat DEF Ready
  <2> QED
    BY <1>3, <2>2 DEF NeverBlocks, IInv
<1>5. EchoExact'
  <2>1. ASSUME NEW f \in Fd, sock[f] # None, peer'[sock[f]] \in {"open", "fin"}
        PROVE  given'[sock[f]] + Left(f)' = got[sock[f]]
    <3>0. sock[f] \in Conn /\ peer[sock[f]] \in {"open", "fin"}
      BY <1>1, <1>2, <2>1
    <3>1. given[sock[f]] + Left(f) = got[sock[f]]
      BY <2>1, <3>0 DEF IInv, EchoExact, Left
    <3>2. CASE f = op.fd
      <4>1. Left(f) = op.left
        BY <3>2 DEF Left, Writing
      <4>2. Left(f)' = IF op' = None THEN 0 ELSE op'.left
        BY <1>1, <3>2 DEF Left
      <4> QED
        BY <1>1, <2>1, <3>1, <3>2, <4>1, <4>2
    <3>3. CASE f # op.fd
      <4>1. sock[f] # sock[op.fd]
        BY <1>1, <2>1, <3>3 DEF IInv, NetInv, Distinct
      <4>2. Left(f) = 0 /\ Left(f)' = 0
        BY <1>1, <3>3 DEF Left
      <4> QED
        BY <1>1, <3>0, <3>1, <4>1, <4>2
    <3> QED
      BY <3>2, <3>3
  <2> QED
    BY <1>1, <2>1 DEF EchoExact, Left
<1> QED
  BY <1>1, <1>3, <1>4, <1>5 DEF IInv, RoundOK, Watched, ExitOnlyWhenFull, FreeFds

\* select() meets no closed descriptor, and what it returns is readable.
LEMMA SelectStep ==
  ASSUME IInv, Select, alive = "run", op = None
  PROVE  IInv'
<1>1. UNCHANGED <<sock, backlog, peer, sent, wire, got, given, op, allset, maxfd>>
  BY DEF Select, netvars, clientvars
<1>2. ~Stale
  BY FdIsNat DEF Stale, IInv, Watched, RoundOK
<1>3. alive' = alive /\ rset' = Returned /\ nready' = Cardinality(Returned)
  BY <1>2 DEF Select
<1>4. Returned \subseteq allset /\ Returned \subseteq Fd \cup {LFD}
  BY DEF Returned, Ready, IInv, RoundOK
<1>5. nready' \in -1..(NFd + 1)
  BY <1>3, <1>4, ReadyCount, FdIsNat
<1>6. RoundOK'
  BY <1>1, <1>3, <1>4, <1>5 DEF IInv, RoundOK
<1>7. NeverBlocks'
  BY <1>1, <1>3 DEF NeverBlocks, Returned, Ready, Readable
<1>8. NetInv'
  BY <1>1, <1>3 DEF IInv, NetInv, NetTypeOK, Underway, Distinct, Fresh
<1> QED
  BY <1>1, <1>3, <1>6, <1>7, <1>8 DEF IInv, Watched, ExitOnlyWhenFull, FreeFds, EchoExact

\* The descriptor accept() returns was closed, so that no event of the round is its.
LEMMA AcceptStep ==
  ASSUME IInv, AcceptNew, alive = "run", op = None
  PROVE  IInv'
<1>1. CASE AcceptFails /\ UNCHANGED selvars
  <2>1. UNCHANGED <<sock, backlog, peer, sent, wire, got, given, op, allset, rset, nready, maxfd>>
        /\ alive' = "exit" /\ FreeFds = {}
    BY <1>1 DEF AcceptFails, netvars, clientvars, selvars
  <2>2. NetInv'
    BY <2>1 DEF IInv, NetInv, NetTypeOK, Underway, Distinct, Fresh
  <2> QED
    BY <2>1, <2>2 DEF IInv, RoundOK, Watched, NeverBlocks, ExitOnlyWhenFull, FreeFds, EchoExact
<1>2. CASE ~(AcceptFails /\ UNCHANGED selvars)
  <2>1. /\ FreeFds # {} /\ sock' = [sock EXCEPT ![NewFd] = Head(backlog)] /\ backlog' = Tail(backlog)
        /\ allset' = allset \cup {NewFd} /\ maxfd' = Highest(NewFd)
        /\ rset' = IF nready = 1 THEN {} ELSE rset \ {LFD}
        /\ UNCHANGED <<netvars, op, alive, nready>> /\ LFD \in rset
    BY <1>2 DEF AcceptNew
  <2>2. backlog # <<>> /\ rset \subseteq Ready(rset)
    BY <2>1 DEF IInv, NeverBlocks, Ready
  <2>3. /\ NetInv'
        /\ NewFd \in Fd /\ sock[NewFd] = None /\ sock'[NewFd] # None
        /\ got[sock'[NewFd]] = 0 /\ given[sock'[NewFd]] = 0 /\ sock'[NewFd] \in Conn
        /\ \A f \in Fd : f # NewFd => sock'[f] = sock[f]
        /\ UNCHANGED <<peer, sent, got, given, wire>>
    BY <2>1, <2>2, AcceptKeeps DEF IInv
  <2>4. maxfd' \in Fd \cup {LFD}
    BY <2>1, <2>3, HighestIs DEF IInv, RoundOK
  <2>5. RoundOK'
    BY <2>1, <2>3, <2>4 DEF IInv, RoundOK
  <2>6. Watched'
    BY <2>1, <2>3 DEF IInv, Watched
  <2>7. NeverBlocks'
    <3>1. ASSUME NEW f \in rset' PROVE f \in Ready(rset)'
      <4>1. f \in rset /\ f # LFD /\ f \in Fd
        BY <2>1, <3>1 DEF IInv, RoundOK
      <4>2. sock[f] # None /\ Readable(sock[f])
        BY <2>2, <4>1 DEF Ready
      <4>3. f # NewFd
        BY <2>3, <4>2
      <4> QED
        BY <2>3, <3>1, <4>1, <4>2, <4>3 DEF Ready, Readable
    <3> QED
      BY <3>1 DEF NeverBlocks
  <2>8. ExitOnlyWhenFull'
    BY <2>1 DEF ExitOnlyWhenFull
  <2>9. EchoExact'
    <3>1. ASSUME NEW f \in Fd, sock'[f] # None, peer[sock'[f]] \in {"open", "fin"}
          PROVE  given[sock'[f]] + 0 = got[sock'[f]]
      <4>1. CASE f = NewFd
        BY <2>3, <4>1
      <4>2. CASE f # NewFd
        BY <2>3, <3>1, <4>2 DEF IInv, EchoExact
      <4> QED
        BY <4>1, <4>2
    <3> QED
      BY <2>1, <2>3, <3>1 DEF EchoExact
  <2> QED
    BY <2>3, <2>5, <2>6, <2>7, <2>8, <2>9 DEF IInv
<1> QED
  BY <1>1, <1>2

\* What is read from one connection, and closing it, leaves the events of the others.
LEMMA ServeStep ==
  ASSUME IInv, ServeNext, alive = "run", op = None
  PROVE  IInv'
<1> DEFINE f == Min(rset)
           c == sock[f]
           n == ReadResult(c)
<1>1. /\ rset # {} /\ LFD \notin rset /\ Serve(f) /\ rset' = rset \ {f} /\ UNCHANGED <<nready, maxfd>>
      /\ rset \subseteq Ready(rset)
  BY DEF ServeNext, IInv, NeverBlocks
<1>2. f \in rset /\ f \in Fd /\ rset \subseteq Fd
  <2>1. rset \subseteq Fd /\ rset \subseteq Nat
    BY <1>1, FdIsNat DEF IInv, RoundOK
  <2> QED
    BY <1>1, <2>1, LowestIn
<1> HIDE DEF f
<1>3. /\ c # None /\ Taken(c) /\ UNCHANGED <<backlog, sent, wire, given, alive>>
      /\ \/ /\ n = 0 /\ sock' = [sock EXCEPT ![f] = None]
            /\ allset' = allset \ {f} /\ op' = op
         \/ n > 0 /\ op' = [fd |-> f, n |-> n, left |-> n] /\ UNCHANGED <<sock, allset>>
         \/ n = -1 /\ UNCHANGED <<sock, allset, op>>
  BY <1>1 DEF Serve, Closes, Reply, Unwatched
<1>4. alive' = "run"
  BY <1>3
<1>5. /\ NetInv' /\ c \in Conn
      /\ \A d \in Conn : d # c => (Readable(d) => Readable(d)') /\ peer'[d] = peer[d] /\ got'[d] = got[d]
      /\ got'[c] = IF n > 0 THEN got[c] + n ELSE got[c]
      /\ peer'[c] \in {"open", "fin"} => peer'[c] = peer[c]
      /\ n \in Int /\ n >= -1
  BY <1>2, <1>3, <1>4, ReadKeeps DEF IInv
<1> HIDE DEF n
<1>6. sock \in [Fd -> Conn \cup {None}] /\ given \in [Conn -> Nat] /\ got \in [Conn -> Nat]
  BY DEF IInv, NetInv, NetTypeOK
<1>7. \A g \in Fd : /\ g # f => sock'[g] = sock[g]
                    /\ g # f /\ sock[g] # None => sock[g] # c /\ sock[g] \in Conn
                    /\ sock'[g] = sock[g] \/ (sock'[g] = None /\ g = f /\ f \notin allset')
  BY <1>2, <1>3, <1>6 DEF IInv, NetInv, Distinct
<1>8. RoundOK'
  BY <1>1, <1>2, <1>3, FdIsNat DEF IInv, RoundOK
<1>9. Watched'
  <2>1. allset' \subseteq allset
    BY <1>3
  <2> QED
    BY <1>7, <2>1 DEF IInv, Watched
<1>10. NeverBlocks'
  <2>1. ASSUME NEW g \in rset' PROVE g \in Ready(rset)'
    <3>1. g \in rset /\ g # f /\ g \in Fd /\ g # LFD
      BY <1>1, <1>2, <2>1, FdIsNat
    <3>2. sock[g] # None /\ Readable(sock[g])
      BY <1>1, <3>1 DEF Ready
    <3>3. sock'[g] = sock[g] /\ Readable(sock[g])'
      BY <1>5, <1>7, <3>1, <3>2
    <3> QED
      BY <2>1, <3>1, <3>2, <3>3 DEF Ready, Readable
  <2> QED
    BY <2>1 DEF NeverBlocks
<1>11. ExitOnlyWhenFull'
  BY <1>4 DEF ExitOnlyWhenFull
<1>12. EchoExact'
  <2>1. ASSUME NEW g \in Fd, sock'[g] # None, peer'[sock'[g]] \in {"open", "fin"}
        PROVE  given[sock'[g]] + Left(g)' = got'[sock'[g]]
    <3>1. sock'[g] = sock[g] /\ sock[g] # None /\ sock[g] \in Conn
      BY <1>6, <1>7, <2>1
    <3>2. peer[sock[g]] \in {"open", "fin"}
      BY <1>5, <2>1, <3>1
    <3>3. given[sock[g]] + 0 = got[sock[g]]
      BY <3>1, <3>2 DEF IInv, EchoExact
    <3>4. CASE g # f
      <4>1. Left(g)' = 0
        BY <1>3, <3>4 DEF Left
      <4> QED
        BY <1>5, <1>7, <3>1, <3>3, <3>4, <4>1
    <3>5. CASE g = f
      <4>1. CASE n > 0
        <5>1. op' = [fd |-> f, n |-> n, left |-> n] /\ op'.fd = f /\ op'.left = n /\ op' # None
          <6>1. op' = [fd |-> f, n |-> n, left |-> n]
            BY <1>3, <1>5, <4>1
          <6>2. op' \in [fd : Nat, n : Nat, left : Nat]
            BY <1>2, <1>5, <4>1, <6>1, FdIsNat
          <6> QED
            BY <6>1, <6>2, NoneAssumption
        <5>2. Left(g)' = n
          BY <3>5, <5>1 DEF Left
        <5> QED
          BY <1>5, <1>6, <3>1, <3>3, <3>5, <4>1, <5>2
      <4>2. CASE ~(n > 0)
        <5>1. Left(g)' = 0
          BY <1>3, <4>2 DEF Left
        <5> QED
          BY <1>5, <3>1, <3>3, <3>5, <4>2, <5>1
      <4> QED
        BY <4>1, <4>2
    <3> QED
      BY <3>4, <3>5
  <2> QED
    BY <1>3, <2>1 DEF EchoExact, Left
<1> QED
  BY <1>5, <1>8, <1>9, <1>10, <1>11, <1>12 DEF IInv

\* The invariant is inductive.
LEMMA Invariance == Spec => []IInv
<1>1. IInv /\ [Next]_vars => IInv'
  <2> SUFFICES ASSUME IInv, [Next]_vars PROVE IInv'
    OBVIOUS
  <2>1. CASE Server
    BY <2>1, WritingStep, SelectStep, AcceptStep, ServeStep DEF Server
  <2>2. CASE \E c \in Conn : Client(c) /\ UNCHANGED selvars
    BY <2>2, ClientStep
  <2>3. CASE UNCHANGED vars
    <3>1. UNCHANGED <<sock, backlog, peer, sent, wire, got, given, op, alive, allset, rset, nready, maxfd>>
      BY <2>3 DEF vars, sockvars, netvars, clientvars, selvars
    <3> QED
      BY <3>1 DEF IInv, NetInv, NetTypeOK, Underway, Distinct, Fresh, RoundOK, Watched, NeverBlocks,
                  Ready, Readable, ExitOnlyWhenFull, FreeFds, EchoExact
  <2> QED
    BY <2>1, <2>2, <2>3 DEF Next
<1> QED
  BY <1>1, InitInv, PTL DEF Spec

\* For any number of clients and descriptors: no call of the server blocks on a stale
\* event, although accept() may have reused a descriptor earlier in the round.
THEOREM Responsive == Spec => []Inv
<1>1. IInv => Inv
  BY DEF IInv, NetInv, RoundOK, Inv, TypeOK
<1> QED
  BY <1>1, Invariance, PTL

\* select() never meets a closed descriptor: the process ends only when it is full.
THEOREM EndsWhenFull == Spec => []ExitOnlyWhenFull
<1>1. IInv => ExitOnlyWhenFull
  BY DEF IInv
<1> QED
  BY <1>1, Invariance, PTL

\* The echo is exact at every moment, for any buffer and window.
THEOREM Exact == Spec => []EchoExact
<1>1. IInv => EchoExact
  BY DEF IInv
<1> QED
  BY <1>1, Invariance, PTL

-----------------------------------------------------------------------------
(* The select() server with an array.  Agree says without counting what ArrayAgrees
   says; the initial maxi is any integer. *)

VisitOK ==
  /\ client \in [Slot -> Fd \cup {-1}]
  /\ maxi \in Slot \cup MaxiInit
  /\ allset \subseteq Fd \cup {LFD} /\ LFD \in allset /\ maxfd \in Fd \cup {LFD}
  /\ rset \subseteq Fd \cup {LFD}
  /\ nready \in 0..(NFd + 1)
  /\ i \in -1..NSlot

\* The slots in use are the descriptors watched, one each, and those are the open ones.
Agree ==
  /\ \A s \in Slot : client[s] \in Fd => client[s] \in allset /\ s <= maxi
  /\ \A f \in Fd : f \in allset => \E s \in Slot : client[s] = f
  /\ \A s, t \in Slot : client[s] = client[t] /\ client[s] \in Fd => s = t
  /\ \A f \in Fd : f \in allset => sock[f] # None
  /\ \A f \in Fd : sock[f] # None => f \in allset

\* Before the round has accepted, select() is all it knows.
Asked == i = 0 /\ LFD \in rset => rset \subseteq allset /\ backlog # <<>>

ArrayIInv == NetInv /\ VisitOK /\ (alive = "run" => Agree /\ Asked) /\ ArrayNeverBlocks

\* Descriptors and slots are numbers.
LEMMA Numbers ==
  /\ \A f \in Fd : f \in Nat /\ f # LFD /\ f # -1 /\ f >= 0 /\ ~(f < 0)
  /\ \A s \in Slot : s \in Nat /\ s >= 0 /\ s + 1 <= NSlot /\ s + 1 \in -1..NSlot /\ s # -1
  /\ NFd \in Nat /\ NSlot \in Nat /\ NSlot >= 1 /\ MaxiInit \subseteq Int
  /\ -1 \notin Fd /\ LFD \notin Fd
  BY SizeAssumption, SlotAssumption DEF Fd, LFD, Slot

\* Whatever maxi is, it is an integer.
LEMMA MaxiIsInt == \A m \in Slot \cup MaxiInit : m \in Int
<1>1. MaxiInit \subseteq Int
  BY SlotAssumption
<1>2. Slot \subseteq Int
  BY SlotAssumption DEF Slot
<1> QED
  BY <1>1, <1>2

\* The server starts watching the listening descriptor only.
LEMMA ArrayInitInv == ArrayInit => ArrayIInv
<1> SUFFICES ASSUME ArrayInit PROVE ArrayIInv
  OBVIOUS
<1>1. NetInv
  BY NetStart DEF ArrayInit, Init
<1>2. sock = [f \in Fd |-> None] /\ client = [s \in Slot |-> -1] /\ maxi \in MaxiInit
      /\ allset = {LFD} /\ rset = {} /\ nready = 0 /\ maxfd = LFD /\ i = -1
  BY DEF ArrayInit, Init, NetInit
<1>3. VisitOK
  BY <1>2, Numbers DEF VisitOK
<1>4. Agree
  BY <1>2, Numbers DEF Agree
<1>5. Asked /\ ArrayNeverBlocks
  BY <1>2 DEF Asked, ArrayNeverBlocks
<1> QED
  BY <1>1, <1>3, <1>4, <1>5 DEF ArrayIInv

\* What select() found stays so while the clients go on, and while a Write() does.
LEMMA ArrayEventsStay ==
  ASSUME ArrayIInv, UNCHANGED <<sock, client, maxi, allset, rset, nready, maxfd, i>>, backlog # <<>> => backlog' # <<>>,
         alive' = "run" => alive = "run",
         \A d \in Conn : Readable(d) => Readable(d)'
  PROVE  VisitOK' /\ (alive' = "run" => Agree' /\ Asked') /\ ArrayNeverBlocks'
<1>1. \A f \in Fd : sock[f] # None => sock[f] \in Conn
  BY DEF ArrayIInv, NetInv, NetTypeOK
<1>2. ASSUME NEW f \in Fd, f \in Ready(allset) PROVE f \in Ready(allset)'
  BY <1>1, <1>2, Numbers DEF Ready
<1>3. ASSUME alive' = "run", i # -1, NEW s \in Slot, s >= i, client[s] \in rset
      PROVE  client[s] \in Ready(allset)'
  <2>1. client[s] \in Ready(allset)
    BY <1>3 DEF ArrayIInv, ArrayNeverBlocks
  <2>2. client[s] \in Fd
    BY <1>3, Numbers DEF ArrayIInv, VisitOK, LFD
  <2> QED
    BY <1>2, <2>1, <2>2
<1>4. VisitOK'
  BY DEF ArrayIInv, VisitOK
<1>5. alive' = "run" => Agree' /\ Asked'
  BY DEF ArrayIInv, Agree, Asked
<1> QED
  BY <1>3, <1>4, <1>5 DEF ArrayNeverBlocks

\* A client can make more readable, and never less.
LEMMA ArrayClientStep ==
  ASSUME ArrayIInv, NEW c \in Conn, Client(c), UNCHANGED arrayvars
  PROVE  ArrayIInv'
<1>1. /\ NetInv' /\ UNCHANGED <<sock, alive>>
      /\ backlog # <<>> => backlog' # <<>>
      /\ \A d \in Conn : Readable(d) => Readable(d)'
  BY ClientKeeps DEF ArrayIInv
<1>2. UNCHANGED <<client, maxi, allset, rset, nready, maxfd, i>>
  BY DEF arrayvars, selvars
<1> QED
  BY <1>1, <1>2, ArrayEventsStay DEF ArrayIInv

\* A Write() under way leaves the sets of descriptors alone.
LEMMA ArrayWritingStep ==
  ASSUME ArrayIInv, Writing, alive = "run", UNCHANGED arrayvars
  PROVE  ArrayIInv'
<1>1. /\ NetInv' /\ UNCHANGED <<sock, backlog>> /\ alive' \in {alive, "killed"}
      /\ \A d \in Conn : Readable(d) => Readable(d)'
  BY WriteKeeps DEF ArrayIInv
<1>2. UNCHANGED <<client, maxi, allset, rset, nready, maxfd, i>>
  BY DEF arrayvars, selvars
<1> QED
  BY <1>1, <1>2, ArrayEventsStay DEF ArrayIInv

\* select() meets no closed descriptor, and what it returns is readable.
LEMMA ArraySelectStep ==
  ASSUME ArrayIInv, ArraySelect, alive = "run", op = None
  PROVE  ArrayIInv'
<1>0. VisitOK /\ Agree /\ NetInv
  BY DEF ArrayIInv
<1>1. UNCHANGED <<sock, backlog, peer, sent, wire, got, given, op, client, maxi, allset, maxfd>>
      /\ rset' = Returned /\ nready' = Cardinality(Returned) /\ i' = 0
  BY DEF ArraySelect, netvars, clientvars
<1>2. ~Stale
  BY <1>0, Numbers DEF Stale, Agree, VisitOK
<1>3. alive' = alive
  BY <1>2 DEF ArraySelect
<1>4. Returned \subseteq Ready(allset) /\ Returned \subseteq allset /\ Returned \subseteq Fd \cup {LFD}
  BY <1>0 DEF Returned, Ready, VisitOK
<1>5. NetInv'
  BY <1>0, <1>1, <1>3 DEF NetInv, NetTypeOK, Underway, Distinct, Fresh
<1>6. VisitOK'
  <2>1. nready' \in 0..(NFd + 1) /\ i' \in -1..NSlot
    BY <1>1, <1>4, ReadyCount, Numbers
  <2> QED
    BY <1>0, <1>1, <1>4, <2>1 DEF VisitOK
<1>7. Agree' /\ Asked'
  BY <1>0, <1>1, <1>4 DEF Agree, Asked, Ready
<1>8. ArrayNeverBlocks'
  BY <1>1, <1>4 DEF ArrayNeverBlocks, Ready, Readable
<1> QED
  BY <1>5, <1>6, <1>7, <1>8 DEF ArrayIInv

\* The descriptor accept() returns was closed, so that no event of the round is its.
LEMMA ArrayAcceptStep ==
  ASSUME ArrayIInv, ArrayAccept, alive = "run", op = None
  PROVE  ArrayIInv'
<1>0. VisitOK /\ Agree /\ NetInv /\ Asked /\ ArrayNeverBlocks /\ i = 0 /\ LFD \in rset
  BY DEF ArrayIInv, ArrayAccept
<1>1. CASE alive' = "exit" /\ UNCHANGED <<sock, backlog, netvars, op, arrayvars>>
  <2>1. UNCHANGED <<sock, backlog, peer, sent, wire, got, given, op, client, maxi, allset, rset, nready, maxfd, i>>
    BY <1>1 DEF netvars, clientvars, arrayvars, selvars
  <2>2. NetInv'
    BY <1>0, <1>1, <2>1 DEF NetInv, NetTypeOK, Underway, Distinct, Fresh
  <2> QED
    BY <1>0, <1>1, <2>1, <2>2 DEF ArrayIInv, VisitOK, ArrayNeverBlocks
<1>2. CASE ~(alive' = "exit" /\ UNCHANGED <<sock, backlog, netvars, op, arrayvars>>)
  <2> DEFINE s == Min(FreeSlots)
             f == NewFd
  <2>1. /\ FreeFds # {} /\ FreeSlots # {}
        /\ sock' = [sock EXCEPT ![f] = Head(backlog)] /\ backlog' = Tail(backlog)
        /\ client' = [client EXCEPT ![s] = f] /\ maxi' = Max({s, maxi})
        /\ allset' = allset \cup {f} /\ rset' = rset \ {LFD}
        /\ i' = IF nready = 1 THEN -1 ELSE 0
        /\ maxfd' = Highest(f)
        /\ UNCHANGED <<netvars, op, alive, nready>>
    BY <1>2 DEF ArrayAccept, Raised
  <2>2. s \in Slot /\ client[s] < 0
    <3>1. FreeSlots \subseteq Nat
      BY Numbers DEF FreeSlots
    <3>2. s \in FreeSlots
      BY <2>1, <3>1, LowestIn
    <3> QED
      BY <3>2 DEF FreeSlots
  <2>3. /\ NetInv' /\ f \in Fd /\ sock[f] = None /\ sock'[f] # None
        /\ \A g \in Fd : g # f => sock'[g] = sock[g]
        /\ UNCHANGED <<peer, sent, got>>
    BY <1>0, <2>1, AcceptKeeps DEF Asked
  <2> HIDE DEF s, f
  <2>4. maxi' \in Slot \cup MaxiInit /\ maxi' >= s /\ maxi' >= maxi /\ maxi \in Int /\ maxi' \in Int
    <3>1. s \in Int /\ maxi \in Int /\ maxi \in Slot \cup MaxiInit
      <4>1. maxi \in Slot \cup MaxiInit
        BY <1>0 DEF VisitOK
      <4>2. s \in Nat
        BY <2>2, Numbers
      <4>3. maxi \in Int
        BY <4>1, MaxiIsInt
      <4> QED
        BY <4>1, <4>2, <4>3
    <3>2. maxi' \in {s, maxi} /\ maxi' >= s /\ maxi' >= maxi
      BY <2>1, <3>1, MaxOfTwo
    <3> QED
      BY <2>2, <3>1, <3>2
  <2>5. client \in [Slot -> Fd \cup {-1}] /\ f \notin allset
        /\ client'[s] = f /\ \A t \in Slot : t # s => client'[t] = client[t]
    BY <1>0, <2>1, <2>2, <2>3 DEF VisitOK, Agree
  <2>6. VisitOK'
    <3>1. i' \in -1..NSlot
      BY <2>1, Numbers
    <3>2. client' \in [Slot -> Fd \cup {-1}]
      BY <2>1, <2>2, <2>3, <2>5
    <3>3. maxfd' \in Fd \cup {LFD}
      BY <1>0, <2>1, <2>3, HighestIs DEF VisitOK
    <3> QED
      BY <1>0, <2>1, <2>3, <2>4, <3>1, <3>2, <3>3 DEF VisitOK
  <2>7. Agree'
    <3>1. \A t \in Slot : client'[t] \in Fd => client'[t] \in allset' /\ t <= maxi'
      BY <1>0, <2>1, <2>2, <2>4, <2>5, Numbers DEF Agree
    <3>2. \A g \in Fd : g \in allset' => \E t \in Slot : client'[t] = g
      <4>1. ASSUME NEW g \in Fd, g \in allset, g # f PROVE \E t \in Slot : client'[t] = g
        <5>1. PICK t \in Slot : client[t] = g
          BY <1>0, <4>1 DEF Agree
        <5>2. t # s
          BY <2>2, <4>1, <5>1, Numbers
        <5> QED
          BY <2>5, <5>1, <5>2
      <4> QED
        BY <2>1, <2>2, <2>5, <4>1
    <3>3. \A t, u \in Slot : client'[t] = client'[u] /\ client'[t] \in Fd => t = u
      <4>1. \A t \in Slot : client[t] # f
        BY <1>0, <2>3, <2>5 DEF Agree
      <4> QED
        BY <1>0, <2>5, <4>1 DEF Agree
    <3>4. \A g \in Fd : /\ g \in allset' => sock'[g] # None
                        /\ sock'[g] # None => g \in allset'
      BY <1>0, <2>1, <2>3 DEF Agree
    <3> QED
      BY <3>1, <3>2, <3>3, <3>4 DEF Agree
  <2>8. ArrayNeverBlocks'
    <3>1. ASSUME i' # -1, NEW t \in Slot, t >= i', client'[t] \in rset'
          PROVE  client'[t] \in Ready(allset)'
      <4>1. f \notin rset
        BY <1>0, <2>5 DEF Asked
      <4>2. t # s /\ client'[t] = client[t] /\ client[t] \in rset /\ client[t] # LFD /\ t >= i
        BY <1>0, <2>1, <2>5, <3>1, <4>1, Numbers
      <4>3. client[t] \in Ready(allset)
        BY <1>0, <4>2 DEF ArrayNeverBlocks
      <4>4. client[t] \in Fd /\ client[t] # f
        BY <1>0, <2>5, <4>1, <4>2 DEF VisitOK
      <4> QED
        BY <2>1, <2>3, <4>2, <4>3, <4>4 DEF Ready, Readable
    <3> QED
      BY <3>1 DEF ArrayNeverBlocks
  <2>9. Asked'
    BY <2>1 DEF Asked
  <2> QED
    BY <2>3, <2>6, <2>7, <2>8, <2>9 DEF ArrayIInv
<1> QED
  BY <1>1, <1>2 DEF ArrayAccept

\* What is read from one connection, and closing it, leaves the events of the others.
LEMMA ArrayServeStep ==
  ASSUME ArrayIInv, i \in Slot, LFD \notin rset, ArrayServe(i), alive = "run", op = None, UNCHANGED <<maxi, rset, nready, maxfd>>
  PROVE  ArrayIInv'
<1> DEFINE f == client[i]
           c == sock[f]
           n == ReadResult(c)
<1>0. VisitOK /\ Agree /\ NetInv /\ ArrayNeverBlocks
  BY DEF ArrayIInv
<1>1. /\ f \in rset /\ c # None /\ Taken(c) /\ UNCHANGED <<backlog, sent, wire, given, alive>>
      /\ \/ /\ n = 0 /\ sock' = [sock EXCEPT ![f] = None]
            /\ allset' = allset \ {f} /\ client' = [client EXCEPT ![i] = -1]
            /\ i' = i + 1 /\ op' = op
         \/ n > 0 /\ op' = [fd |-> f, n |-> n, left |-> n] /\ i' = After(i) /\ UNCHANGED <<sock, allset, client>>
         \/ n = -1 /\ i' = After(i) /\ UNCHANGED <<sock, allset, client, op>>
  BY DEF ArrayServe, Freed
<1>2. f \in Fd /\ sock \in [Fd -> Conn \cup {None}] /\ client \in [Slot -> Fd \cup {-1}]
  BY <1>0, <1>1, Numbers DEF VisitOK, NetInv, NetTypeOK
<1>3. i' \in {i + 1, -1} /\ i' \in -1..NSlot /\ i \in Nat
  BY <1>1, Numbers DEF After
<1>4. alive' = "run"
  BY <1>1
<1>5. /\ NetInv' /\ c \in Conn
      /\ \A d \in Conn : d # c => (Readable(d) => Readable(d)')
  BY <1>0, <1>1, <1>2, <1>4, ReadKeeps
<1> HIDE DEF n, c, f
<1>6. /\ \A t \in Slot : t # i => client'[t] = client[t]
      /\ \A g \in Fd : g # f => sock'[g] = sock[g]
      /\ allset' \subseteq allset /\ \A g \in Fd : g # f /\ g \in allset => g \in allset'
      /\ LFD \in allset'
  BY <1>0, <1>1, <1>2, Numbers DEF VisitOK
<1>7. \/ client' = client /\ sock' = sock /\ allset' = allset
      \/ client'[i] = -1 /\ sock'[f] = None /\ f \notin allset'
  BY <1>1, <1>2
<1>8. VisitOK'
  <2>1. client' \in [Slot -> Fd \cup {-1}]
    BY <1>1, <1>2
  <2> QED
    BY <1>0, <1>3, <1>6, <2>1 DEF VisitOK
<1>9. Agree'
  <2>1. CASE client' = client /\ sock' = sock /\ allset' = allset
    BY <1>0, <2>1 DEF Agree
  <2>2. CASE client'[i] = -1 /\ sock'[f] = None /\ f \notin allset'
    <3>1. \A t \in Slot : t # i => client[t] # f
      BY <1>0, <1>2 DEF Agree, f
    <3>2. \A t \in Slot : client'[t] \in Fd => client'[t] \in allset' /\ t <= maxi
      BY <1>0, <1>6, <2>2, <3>1, Numbers DEF Agree
    <3>3. ASSUME NEW g \in Fd, g \in allset' PROVE \E t \in Slot : client'[t] = g
      <4>1. g # f /\ g \in allset
        BY <1>6, <2>2, <3>3
      <4>2. PICK t \in Slot : client[t] = g
        BY <1>0, <4>1 DEF Agree
      <4> QED
        BY <1>6, <4>1, <4>2 DEF f
    <3>4. \A t, u \in Slot : client'[t] = client'[u] /\ client'[t] \in Fd => t = u
      BY <1>0, <1>6, <2>2, Numbers DEF Agree
    <3>5. \A g \in Fd : /\ g \in allset' => sock'[g] # None
                        /\ sock'[g] # None => g \in allset'
      BY <1>0, <1>6, <2>2 DEF Agree
    <3> QED
      BY <3>2, <3>3, <3>4, <3>5 DEF Agree
  <2> QED
    BY <1>7, <2>1, <2>2
<1>10. ArrayNeverBlocks'
  <2>1. ASSUME i' # -1, NEW t \in Slot, t >= i', client'[t] \in rset
        PROVE  client'[t] \in Ready(allset)'
    <3>1. t # i /\ t >= i /\ t \in Nat /\ i # -1
      BY <1>3, <2>1, Numbers
    <3>2. client'[t] = client[t]
      BY <1>6, <3>1
    <3>3. client[t] \in Ready(allset) /\ client[t] \in Fd
      BY <1>0, <2>1, <3>1, <3>2, Numbers DEF ArrayNeverBlocks, VisitOK
    <3>4. sock[client[t]] # None /\ Readable(sock[client[t]]) /\ client[t] \in allset
      BY <3>3, Numbers DEF Ready
    <3>5. client[t] # f
      BY <1>0, <1>2, <3>1 DEF Agree, f
    <3>6. sock[client[t]] # c /\ sock[client[t]] \in Conn
      BY <1>0, <1>2, <3>3, <3>4, <3>5 DEF NetInv, Distinct, c
    <3>7. sock'[client[t]] = sock[client[t]] /\ Readable(sock[client[t]])' /\ client[t] \in allset'
      <4>1. sock'[client[t]] = sock[client[t]] /\ client[t] \in allset'
        BY <1>6, <3>3, <3>4, <3>5
      <4>2. Readable(sock[client[t]])'
        <5>1. \A d \in Conn : d # c => (Readable(d) => Readable(d)')
          BY <1>5
        <5>2. sock'[client[t]] # c /\ sock'[client[t]] \in Conn /\ Readable(sock'[client[t]])
          BY <3>4, <3>6, <4>1
        <5> QED
          BY <3>2, <5>1, <5>2 DEF Readable
      <4> QED
        BY <4>1, <4>2
    <3> QED
      BY <3>2, <3>3, <3>4, <3>7, Numbers DEF Ready, Readable
  <2> QED
    BY <2>1 DEF ArrayNeverBlocks
<1>11. Asked'
  BY DEF Asked
<1> QED
  BY <1>5, <1>8, <1>9, <1>10, <1>11 DEF ArrayIInv

\* The other steps of a round change the slot visited, or end the process.
LEMMA VisitStep ==
  ASSUME ArrayIInv, Visit, alive = "run", op = None
  PROVE  ArrayIInv'
<1>0. VisitOK /\ Agree /\ NetInv /\ ArrayNeverBlocks /\ i # -1 /\ LFD \notin rset /\ UNCHANGED <<maxi, rset, nready, maxfd>>
  BY DEF ArrayIInv, Visit
<1>1. CASE i \in Slot /\ ArrayServe(i)
  BY <1>0, <1>1, ArrayServeStep
<1>2. CASE ~(i \in Slot /\ ArrayServe(i))
  <2>1. UNCHANGED <<sock, backlog, netvars, op, client, allset>>
        /\ (alive' = alive \/ (alive' = "wild" /\ i' = i))
        /\ (i' = -1 \/ i' = i \/ (i \in Slot /\ i' = i + 1))
    BY <1>0, <1>2 DEF Visit, Skip, After, sockvars
  <2>2. UNCHANGED <<sock, backlog, peer, sent, wire, got, given, op, client, allset>>
    BY <2>1 DEF netvars, clientvars
  <2>3. alive' \in {"run", "exit", "killed", "wild"}
    BY <2>1
  <2>4. NetInv'
    BY <1>0, <2>2, <2>3 DEF NetInv, NetTypeOK, Underway, Distinct, Fresh
  <2>5. VisitOK'
    <3>1. i' \in -1..NSlot
      BY <1>0, <2>1, Numbers DEF VisitOK
    <3> QED
      BY <1>0, <2>2, <3>1 DEF VisitOK
  <2>6. ArrayNeverBlocks'
    <3>1. ASSUME i' # -1, NEW t \in Slot, t >= i', client[t] \in rset PROVE client[t] \in Ready(allset)
      <4>1. t >= i
        BY <1>0, <2>1, <3>1, Numbers DEF VisitOK
      <4> QED
        BY <1>0, <3>1, <4>1 DEF ArrayNeverBlocks
    <3> QED
      BY <1>0, <2>2, <3>1 DEF ArrayNeverBlocks, Ready, Readable
  <2> QED
    BY <1>0, <2>2, <2>4, <2>5, <2>6 DEF ArrayIInv, Agree, Asked
<1> QED
  BY <1>1, <1>2

\* One slot for each client: the counts agree because the slots do.
LEMMA Counts ==
  ASSUME VisitOK, Agree
  PROVE  LET used == {s \in Slot : client[s] >= 0}
         IN /\ {client[s] : s \in used} = allset \ {LFD}
            /\ allset \ {LFD} = {f \in Fd : sock[f] # None}
            /\ Cardinality(used) = Cardinality(allset) - 1
            /\ \A s \in used : s <= maxi
<1> DEFINE used == {s \in Slot : client[s] >= 0}
           fds == allset \ {LFD}
           slotOf == [s \in used |-> client[s]]
<1>1. \A s \in Slot : (client[s] >= 0 => client[s] \in Fd) /\ (client[s] \in Fd => client[s] >= 0)
  BY Numbers DEF VisitOK
<1>2. \A s \in used : client[s] \in fds /\ s <= maxi
  BY <1>1, Numbers DEF Agree
<1>3. \A f \in fds : f \in Fd /\ \E s \in used : client[s] = f
  BY <1>1, Numbers DEF Agree, VisitOK
<1>4. {client[s] : s \in used} = fds
  BY <1>2, <1>3
<1>5. fds = {f \in Fd : sock[f] # None}
  BY <1>3, Numbers DEF Agree
<1>6. slotOf \in Bijection(used, fds)
  <2>1. slotOf \in [used -> fds]
    BY <1>2
  <2>2. \A s, t \in used : slotOf[s] = slotOf[t] => s = t
    BY <1>1 DEF Agree
  <2>3. \A f \in fds : \E s \in used : slotOf[s] = f
    BY <1>3
  <2> QED
    BY <2>1, <2>2, <2>3 DEF Bijection, Injection, Surjection, IsInjective
<1>7. IsFiniteSet(used)
  <2>1. IsFiniteSet(0..(NSlot - 1))
    BY FS_Interval, Numbers
  <2> QED
    BY <2>1, FS_Subset DEF Slot
<1>8. ExistsBijection(used, fds)
  BY <1>6 DEF ExistsBijection
<1> HIDE DEF slotOf, used, fds
<1>9. IsFiniteSet(fds) /\ Cardinality(fds) = Cardinality(used)
  BY <1>7, <1>8, FS_Bijection
<1>10. allset = fds \cup {LFD} /\ LFD \notin fds
  BY DEF fds, VisitOK
<1>11. Cardinality(allset) = Cardinality(fds) + 1 /\ Cardinality(fds) \in Nat
  BY <1>9, <1>10, FS_AddElement, FS_CardinalityType
<1>12. Cardinality(used) = Cardinality(allset) - 1
  BY <1>9, <1>11
<1> QED
  BY <1>2, <1>4, <1>5, <1>12 DEF used, fds

\* For any number of clients, descriptors and slots, and whatever maxi holds at first:
\* while the process runs its array, its set and the open descriptors agree, and no
\* call of a round blocks.
THEOREM ArrayConsistent == ArraySpec => []ArrayInv
<1>1. ArrayIInv /\ [ArrayNext]_allvars => ArrayIInv'
  <2> SUFFICES ASSUME ArrayIInv, [ArrayNext]_allvars PROVE ArrayIInv'
    OBVIOUS
  <2>1. CASE ArrayServer
    BY <2>1, ArrayWritingStep, ArraySelectStep, ArrayAcceptStep, VisitStep DEF ArrayServer
  <2>2. CASE \E c \in Conn : Client(c) /\ UNCHANGED arrayvars
    BY <2>2, ArrayClientStep
  <2>3. CASE UNCHANGED allvars
    <3>1. UNCHANGED <<sock, backlog, peer, sent, wire, got, given, op, alive, client, maxi, allset, rset, nready, maxfd, i>>
      BY <2>3 DEF allvars, sockvars, netvars, clientvars, arrayvars, selvars
    <3> QED
      BY <3>1 DEF ArrayIInv, NetInv, NetTypeOK, Underway, Distinct, Fresh, VisitOK, Agree, Asked, ArrayNeverBlocks,
                  Ready, Readable
  <2> QED
    BY <2>1, <2>2, <2>3 DEF ArrayNext
<1>2. ArrayIInv => ArrayInv
  <2> SUFFICES ASSUME ArrayIInv PROVE ArrayInv
    OBVIOUS
  <2>1. ArrayTypeOK /\ ArrayNeverBlocks
    BY DEF ArrayIInv, NetInv, VisitOK, ArrayTypeOK
  <2>2. ArrayAgrees
    BY Counts DEF ArrayIInv, ArrayAgrees
  <2> QED
    BY <2>1, <2>2 DEF ArrayInv
<1> QED
  BY <1>1, <1>2, ArrayInitInv, PTL DEF ArraySpec

-----------------------------------------------------------------------------
(* The epoll server. *)

BatchOK ==
  /\ tree \subseteq Fd \cup {LFD} /\ LFD \in tree
  /\ batch \subseteq tree

EpIInv == NetInv /\ BatchOK /\ EpNeverBlocks /\ EpExitOnlyWhenFull

\* The server starts watching the listening descriptor only.
LEMMA EpInitInv == EpInit => EpIInv
<1> SUFFICES ASSUME EpInit PROVE EpIInv
  OBVIOUS
<1>1. NetInv
  BY NetStart DEF EpInit
<1>2. tree = {LFD} /\ batch = {} /\ alive = "run"
  BY DEF EpInit, NetInit
<1> QED
  BY <1>1, <1>2 DEF EpIInv, BatchOK, EpNeverBlocks, EpExitOnlyWhenFull

\* Events stay true while the clients go on, and while a Write() does.
LEMMA EpEventsStay ==
  ASSUME EpIInv, UNCHANGED <<sock, tree, batch>>, backlog # <<>> => backlog' # <<>>,
         \A d \in Conn : Readable(d) => Readable(d)'
  PROVE  batch \subseteq Ready(batch) => batch' \subseteq Ready(batch)'
<1>1. \A f \in Fd : sock[f] # None => sock[f] \in Conn
  BY DEF EpIInv, NetInv, NetTypeOK
<1>2. batch \subseteq Fd \cup {LFD}
  BY DEF EpIInv, BatchOK
<1>3. ASSUME NEW f \in batch, f \in Ready(batch) PROVE f \in Ready(batch)'
  BY <1>1, <1>2, <1>3, FdIsNat DEF Ready
<1> QED
  BY <1>3

\* A client can make more readable, and never less.
LEMMA EpClientStep ==
  ASSUME EpIInv, NEW c \in Conn, Client(c), UNCHANGED epvars
  PROVE  EpIInv'
<1>1. /\ NetInv' /\ UNCHANGED <<sock, alive>>
      /\ backlog # <<>> => backlog' # <<>>
      /\ \A d \in Conn : Readable(d) => Readable(d)'
  BY ClientKeeps DEF EpIInv
<1>2. UNCHANGED <<tree, batch>>
  BY DEF epvars
<1>3. EpNeverBlocks'
  BY <1>1, <1>2, EpEventsStay DEF EpIInv, EpNeverBlocks
<1> QED
  BY <1>1, <1>2, <1>3 DEF EpIInv, BatchOK, EpExitOnlyWhenFull, FreeFds

\* A Write() under way leaves the sets of descriptors alone.
LEMMA EpWritingStep ==
  ASSUME EpIInv, Writing, alive = "run", UNCHANGED epvars
  PROVE  EpIInv'
<1>1. /\ NetInv' /\ UNCHANGED <<sock, backlog>> /\ alive' \in {alive, "killed"}
      /\ \A d \in Conn : Readable(d) => Readable(d)'
  BY WriteKeeps DEF EpIInv
<1>2. UNCHANGED <<tree, batch>>
  BY DEF epvars
<1>3. EpNeverBlocks'
  BY <1>1, <1>2, EpEventsStay DEF EpIInv, EpNeverBlocks
<1> QED
  BY <1>1, <1>2, <1>3 DEF EpIInv, BatchOK, EpExitOnlyWhenFull

\* What epoll_wait() returns is readable.
LEMMA WaitStep ==
  ASSUME EpIInv, EpollWait
  PROVE  EpIInv'
<1>1. UNCHANGED <<sock, backlog, peer, sent, wire, got, given, op, alive, tree>>
      /\ batch' = Ready(tree)
  BY DEF EpollWait, Found, sockvars, netvars, clientvars
<1>2. NetInv'
  BY <1>1 DEF EpIInv, NetInv, NetTypeOK, Underway, Distinct, Fresh
<1>3. batch' \subseteq tree /\ batch' \subseteq Ready(batch)'
  BY <1>1 DEF Ready, Readable
<1> QED
  BY <1>1, <1>2, <1>3 DEF EpIInv, BatchOK, EpNeverBlocks, EpExitOnlyWhenFull, FreeFds

\* The descriptor accept() returns is that of no event of the batch.
LEMMA EpAcceptStep ==
  ASSUME EpIInv, EpAccept, alive = "run", op = None
  PROVE  EpIInv'
<1>0. LFD \in batch /\ batch' = batch \ {LFD} /\ batch \subseteq Ready(batch)
  BY DEF EpAccept, EpIInv, EpNeverBlocks
<1>1. CASE AcceptFails /\ UNCHANGED tree
  <2>1. UNCHANGED <<sock, backlog, peer, sent, wire, got, given, op, tree>>
        /\ alive' = "exit" /\ FreeFds = {}
    BY <1>1 DEF AcceptFails, netvars, clientvars
  <2>2. NetInv'
    BY <2>1 DEF EpIInv, NetInv, NetTypeOK, Underway, Distinct, Fresh
  <2> QED
    BY <1>0, <2>1, <2>2 DEF EpIInv, BatchOK, EpNeverBlocks, EpExitOnlyWhenFull, FreeFds
<1>2. CASE ~(AcceptFails /\ UNCHANGED tree)
  <2>1. /\ FreeFds # {} /\ sock' = [sock EXCEPT ![NewFd] = Head(backlog)] /\ backlog' = Tail(backlog)
        /\ tree' = tree \cup {NewFd} /\ UNCHANGED <<netvars, op, alive>>
    BY <1>2 DEF EpAccept, Added
  <2>2. backlog # <<>>
    BY <1>0 DEF Ready
  <2>3. /\ NetInv'
        /\ NewFd \in Fd /\ sock[NewFd] = None
        /\ \A f \in Fd : f # NewFd => sock'[f] = sock[f]
        /\ UNCHANGED <<peer, sent, got>>
    BY <2>1, <2>2, AcceptKeeps DEF EpIInv
  <2>4. BatchOK'
    BY <1>0, <2>1, <2>3 DEF EpIInv, BatchOK
  <2>5. ASSUME NEW f \in batch' PROVE f \in Ready(batch)'
    <3>1. f \in batch /\ f # LFD /\ f \in Fd
      BY <1>0, <2>5 DEF EpIInv, BatchOK
    <3>2. sock[f] # None /\ Readable(sock[f])
      BY <1>0, <3>1 DEF Ready
    <3> QED
      BY <2>3, <2>5, <3>1, <3>2 DEF Ready, Readable
  <2> QED
    BY <2>1, <2>3, <2>4, <2>5 DEF EpIInv, EpNeverBlocks, EpExitOnlyWhenFull
<1> QED
  BY <1>1, <1>2

\* What is read from one connection, and closing it, leaves the events of the others.
LEMMA EpServeStep ==
  ASSUME EpIInv, NEW f \in batch \ {LFD}, EpServe(f), alive = "run", op = None
  PROVE  EpIInv'
<1> DEFINE c == sock[f]
           n == ReadResult(c)
<1>1. f \in Fd /\ batch \subseteq Ready(batch)
  BY DEF EpIInv, BatchOK, EpNeverBlocks
<1>2. /\ c # None /\ Taken(c) /\ batch' = batch \ {f} /\ UNCHANGED <<backlog, sent, wire, given>>
      /\ \/ /\ n <= 0 /\ tree' = tree \ {f} /\ sock' = [sock EXCEPT ![f] = None]
            /\ alive' = alive /\ op' = op
         \/ /\ ~(n <= 0)
            /\ op' = IF n > 0 THEN [fd |-> f, n |-> n, left |-> n] ELSE None
            /\ UNCHANGED <<sock, tree, alive>>
  BY DEF EpServe, LastRead, Leaves
<1>3. n \in Int
  BY <1>1, <1>2, ReadResultIs DEF EpIInv, NetInv, NetTypeOK
<1>4. alive' = "run"
  BY <1>2
<1>5. \/ sock' = sock /\ op' = None
      \/ sock' = [sock EXCEPT ![f] = None] /\ op' = None
      \/ n > 0 /\ sock' = sock /\ op' = [fd |-> f, n |-> n, left |-> n]
  BY <1>2, <1>3
<1>6. /\ NetInv' /\ c \in Conn
      /\ \A d \in Conn : d # c => (Readable(d) => Readable(d)')
  BY <1>1, <1>2, <1>4, <1>5, ReadKeeps DEF EpIInv
<1>7. sock \in [Fd -> Conn \cup {None}]
  BY DEF EpIInv, NetInv, NetTypeOK
<1>8. BatchOK'
  BY <1>1, <1>2, FdIsNat DEF EpIInv, BatchOK
<1>9. ASSUME NEW g \in batch' PROVE g \in Ready(batch)'
  <2>1. g \in batch /\ g # f /\ (g = LFD \/ g \in Fd)
    BY <1>2, <1>9 DEF EpIInv, BatchOK
  <2>2. CASE g = LFD
    BY <1>1, <1>2, <1>9, <2>1, <2>2 DEF Ready
  <2>3. CASE g \in Fd
    <3>1. sock[g] # None /\ Readable(sock[g])
      BY <1>1, <2>1, <2>3, FdIsNat DEF Ready
    <3>2. sock[g] # c /\ sock[g] \in Conn /\ sock'[g] = sock[g]
      BY <1>1, <1>2, <1>7, <2>1, <2>3, <3>1 DEF EpIInv, NetInv, Distinct
    <3>3. Readable(sock[g])'
      BY <1>6, <3>1, <3>2
    <3> QED
      BY <1>9, <2>3, <3>1, <3>2, <3>3, FdIsNat DEF Ready, Readable
  <2> QED
    BY <2>1, <2>2, <2>3
<1> QED
  BY <1>4, <1>6, <1>8, <1>9 DEF EpIInv, EpNeverBlocks, EpExitOnlyWhenFull

\* For any number of clients and descriptors, and any order within a batch: no call
\* blocks on an event that is no longer true, and the process ends only when it has
\* no descriptor left, never because the tree has a closed one.
THEOREM EpResponsive == EpSpec => []EpInv
<1>1. EpIInv /\ [EpNext]_epollvars => EpIInv'
  <2> SUFFICES ASSUME EpIInv, [EpNext]_epollvars PROVE EpIInv'
    OBVIOUS
  <2>1. CASE EpServer
    BY <2>1, EpWritingStep, WaitStep, EpAcceptStep, EpServeStep DEF EpServer
  <2>2. CASE \E c \in Conn : Client(c) /\ UNCHANGED epvars
    BY <2>2, EpClientStep
  <2>3. CASE UNCHANGED epollvars
    <3>1. UNCHANGED <<sock, backlog, peer, sent, wire, got, given, op, alive, tree, batch>>
      BY <2>3 DEF epollvars, sockvars, netvars, clientvars, epvars
    <3> QED
      BY <3>1 DEF EpIInv, NetInv, NetTypeOK, Underway, Distinct, Fresh, BatchOK, EpNeverBlocks,
                  Ready, Readable, EpExitOnlyWhenFull, FreeFds
  <2> QED
    BY <2>1, <2>2, <2>3 DEF EpNext
<1>2. EpIInv => EpInv
  BY DEF EpIInv, NetInv, BatchOK, EpInv, EpTypeOK
<1> QED
  BY <1>1, <1>2, EpInitInv, PTL DEF EpSpec
=============================================================================
