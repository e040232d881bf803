------------------------------ MODULE LsProofs ------------------------------
(***************************************************************************)
(* Proofs about Ls, for any tree, command lines, attributes and capacity:    *)
(*                                                                         *)
(*   SortInv    the sort stays inside its array and loses nothing            *)
(*   ScanInv    what the scans of a partition have established               *)
(*   FrameInv   the frames, streams and arrays of the recursion              *)
(*   ListInv    what was printed, and what the frames have still to print     *)
(*                                                                         *)
(* The first two are about the steps of LsSort, whatever is sorted.  The last *)
(* relies on the tree being one: TreeAssumption.                            *)
(***************************************************************************)
EXTENDS Ls, SequenceTheorems, FiniteSetTheorems, TLAPS

-----------------------------------------------------------------------------
(* The tree                                                                *)

\* Below() contains its directory, goes down with the wanted subdirectories, and is
\* the least such set.
LEMMA BelowIsLeast ==
  ASSUME NEW opts, NEW d \in Directory
  PROVE  /\ Below(opts, d) \in SUBSET Directory /\ d \in Below(opts, d) /\ DownClosed(opts, Below(opts, d))
         /\ \A S \in SUBSET Directory : d \in S /\ DownClosed(opts, S) => Below(opts, d) \subseteq S
<1>1. ASSUME NEW e \in Below(opts, d), NEW k \in Subdirs(opts, e)
      PROVE  k \in Below(opts, d)
  <2>1. k \in Directory
    BY <1>1 DEF Subdirs
  <2>2. ASSUME NEW S \in SUBSET Directory, d \in S, DownClosed(opts, S)
        PROVE  k \in S
    <3>1. e \in S
      BY <1>1, <2>2 DEF Below
    <3> QED
      BY <1>1, <2>2, <3>1 DEF DownClosed
  <2> QED
    BY <2>1, <2>2 DEF Below
<1> QED
  BY <1>1 DEF Below, DownClosed

\* What is below a directory is itself and what is below its wanted subdirectories.
LEMMA BelowUnfolds ==
  ASSUME NEW opts, NEW d \in Directory, NEW e
  PROVE  e \in Below(opts, d) <=> e = d \/ \E k \in Subdirs(opts, d) : e \in Below(opts, k)
<1> DEFINE S == {d} \cup {x \in Directory : \E k \in Subdirs(opts, d) : x \in Below(opts, k)}
<1>1. \A k \in Subdirs(opts, d) : k \in Directory
  BY DEF Subdirs
<1>2. ASSUME NEW x \in S, NEW y \in Subdirs(opts, x) PROVE y \in S
  <2>0. y \in Directory
    BY <1>2 DEF Subdirs
  <2>1. CASE x = d
    <3>1. y \in Below(opts, y)
      BY <2>0, BelowIsLeast
    <3> QED
      BY <1>2, <2>0, <2>1, <3>1
  <2>2. CASE x # d
    <3>1. PICK k \in Subdirs(opts, d) : x \in Below(opts, k)
      BY <1>2, <2>2
    <3>2. y \in Below(opts, k)
      BY <1>1, <1>2, <3>1, BelowIsLeast DEF DownClosed
    <3> QED
      BY <2>0, <3>1, <3>2
  <2> QED
    BY <2>1, <2>2
<1>3. S \in SUBSET Directory /\ d \in S /\ DownClosed(opts, S)
  BY <1>2 DEF DownClosed
<1>4. Below(opts, d) \subseteq S
  BY <1>3, BelowIsLeast
<1>5. ASSUME NEW k \in Subdirs(opts, d) PROVE Below(opts, k) \subseteq Below(opts, d)
  <2>1. k \in Below(opts, d)
    BY BelowIsLeast DEF DownClosed
  <2> QED
    BY <1>1, <2>1, BelowIsLeast
<1> QED
  BY <1>4, <1>5, BelowIsLeast

\* Whatever is below a directory, and is not the directory, has its parent there.
LEMMA ParentBelow ==
  ASSUME NEW opts, NEW d \in Directory, NEW e \in Below(opts, d), e # d
  PROVE  \E p \in Below(opts, d) : e \in Subdirs(opts, p)
<1> DEFINE S == {d} \cup {x \in Below(opts, d) : \E p \in Below(opts, d) : x \in Subdirs(opts, p)}
<1>1. Below(opts, d) \in SUBSET Directory /\ d \in Below(opts, d) /\ DownClosed(opts, Below(opts, d))
  BY BelowIsLeast
<1>2. S \in SUBSET Directory /\ d \in S /\ DownClosed(opts, S)
  BY <1>1 DEF DownClosed
<1>3. Below(opts, d) \subseteq S
  BY <1>2, BelowIsLeast
<1> QED
  BY <1>3

\* No directory is below one of its own subdirectories.
LEMMA NoCycle ==
  ASSUME NEW opts, NEW d \in Directory, NEW k \in Subdirs(opts, d)
  PROVE  d \notin Below(opts, k)
<1> SUFFICES ASSUME d \in Below(opts, k) PROVE FALSE
  OBVIOUS
<1>0. k \in Directory /\ k \in KidsOf(d)
  BY DEF Subdirs
<1> DEFINE S == {x \in Below(opts, k) : d \in Below(opts, x)}
<1>1. S \in SUBSET Directory /\ k \in S /\ d \in S
  BY <1>0, BelowIsLeast
<1>2. PICK x \in S : \A p \in S : x \notin KidsOf(p)
  BY <1>1, TreeAssumption
<1>3. x # k
  BY <1>0, <1>1, <1>2
<1>4. PICK p \in Below(opts, k) : x \in Subdirs(opts, p)
  BY <1>0, <1>2, <1>3, ParentBelow
<1>5. p \in Directory /\ x \in KidsOf(p)
  BY <1>0, <1>4, BelowIsLeast DEF Subdirs
<1>6. d \in Below(opts, p)
  BY <1>2, <1>4, <1>5, BelowUnfolds
<1> QED
  BY <1>2, <1>4, <1>5, <1>6

\* Two subdirectories of one directory have nothing below them in common.
LEMMA Siblings ==
  ASSUME NEW opts, NEW d \in Directory, NEW j \in Subdirs(opts, d), NEW k \in Subdirs(opts, d),
         NEW e, e \in Below(opts, j), e \in Below(opts, k)
  PROVE  j = k
<1> SUFFICES ASSUME j # k PROVE FALSE
  OBVIOUS
<1>0. j \in Directory /\ j \in KidsOf(d) /\ k \in Directory /\ k \in KidsOf(d)
  BY DEF Subdirs
<1> DEFINE S == Below(opts, j) \cap Below(opts, k)
<1>1. S \in SUBSET Directory /\ S # {}
  BY <1>0, BelowIsLeast
<1>2. PICK x \in S : \A p \in S : x \notin KidsOf(p)
  BY <1>1, TreeAssumption
<1>3. ASSUME NEW a \in Subdirs(opts, d), NEW b \in Subdirs(opts, d), a # b, a \in Below(opts, b)
      PROVE  FALSE
  <2>1. a \in Directory /\ b \in Directory /\ a \in KidsOf(d)
    BY DEF Subdirs
  <2>2. PICK p \in Below(opts, b) : a \in Subdirs(opts, p)
    BY <1>3, <2>1, ParentBelow
  <2>3. p \in Directory /\ a \in KidsOf(p)
    BY <2>1, <2>2, BelowIsLeast DEF Subdirs
  <2>4. p = d
    BY <2>1, <2>3, TreeAssumption
  <2> QED
    BY <2>2, <2>4, NoCycle
<1>4. x # j /\ x # k
  BY <1>2, <1>3
<1>5. PICK p \in Below(opts, j) : x \in Subdirs(opts, p)
  BY <1>0, <1>2, <1>4, ParentBelow
<1>6. PICK q \in Below(opts, k) : x \in Subdirs(opts, q)
  BY <1>0, <1>2, <1>4, ParentBelow
<1>7. p \in Directory /\ q \in Directory /\ x \in KidsOf(p) /\ x \in KidsOf(q) /\ x \in Directory
  BY <1>0, <1>1, <1>2, <1>5, <1>6, BelowIsLeast DEF Subdirs
<1>8. p = q
  BY <1>7, TreeAssumption
<1> QED
  BY <1>2, <1>5, <1>6, <1>7, <1>8

\* What a directory that can be opened brings into the listing, with -R: itself, and
\* what one of its wanted subdirectories brings.
LEMMA ReachedUnfolds ==
  ASSUME NEW opts, NEW d \in Directory, NEW e \in Directory, d \notin Locked, "R" \in opts
  PROVE  /\ e \in Reached(opts, d) <=> e = d \/ \E k \in Subdirs(opts, d) : e \in Reached(opts, k)
         /\ \A k \in Subdirs(opts, d) : d \notin Reached(opts, k)
         /\ \A j, k \in Subdirs(opts, d) : e \in Reached(opts, j) /\ e \in Reached(opts, k) => j = k
<1>1. \A k : Reached(opts, k) = Below(opts, k) \ Locked
  BY DEF Reached
<1>2. e \in Below(opts, d) <=> e = d \/ \E k \in Subdirs(opts, d) : e \in Below(opts, k)
  BY BelowUnfolds
<1>3. \A k \in Subdirs(opts, d) : d \notin Below(opts, k)
  BY NoCycle
<1>4. \A j, k \in Subdirs(opts, d) : e \in Below(opts, j) /\ e \in Below(opts, k) => j = k
  BY Siblings
<1> QED
  BY <1>1, <1>2, <1>3, <1>4

\* A locked directory brings nothing, and without -R no directory brings another.
LEMMA ReachedAlone ==
  ASSUME NEW opts, NEW d \in Directory, NEW e
  PROVE  /\ d \in Locked => e \notin Reached(opts, d)
         /\ d \notin Locked /\ "R" \notin opts => (e \in Reached(opts, d) <=> e = d)
<1>1. ASSUME d \in Locked, e \in Below(opts, d), e \notin Locked PROVE FALSE
  <2>1. Subdirs(opts, d) = {}
    BY <1>1 DEF Subdirs
  <2>2. e = d \/ \E k \in Subdirs(opts, d) : e \in Below(opts, k)
    BY <1>1, BelowUnfolds
  <2>3. e = d
    BY <2>1, <2>2
  <2> QED
    BY <1>1, <2>3
<1> QED
  BY <1>1 DEF Reached

-----------------------------------------------------------------------------
(* Sequences and what they contain                                         *)

Distinct(s) == \A j, k \in 1..Len(s) : s[j] = s[k] => j = k
In(e, s) == \E k \in 1..Len(s) : s[k] = e

\* Objects of a sequence that bring d into the listing.
Count(opts, s, d) == Cardinality({k \in 1..Len(s) : Reaches(opts, s[k], d)})

\* A map of 1..n onto itself is one to one.
LEMMA OntoIsOneToOne ==
  ASSUME NEW n \in Nat, NEW f \in [1..n -> 1..n], \A e \in 1..n : \E k \in 1..n : f[k] = e
  PROVE  \A j, k \in 1..n : f[j] = f[k] => j = k
<1>1. IsFiniteSet(1..n)
  BY FS_Interval
<1>2. f \in Surjection(1..n, 1..n)
  BY DEF Surjection
<1>3. f \in Injection(1..n, 1..n)
  BY <1>1, <1>2, FS_SurjSameCardinalityImpliesInj
<1> QED
  BY <1>3 DEF Injection, IsInjective

\* Positions of a sequence are finitely many.
LEMMA SomeOf ==
  ASSUME NEW n \in Nat, NEW S \in SUBSET (1..n)
  PROVE  IsFiniteSet(S) /\ Cardinality(S) \in Nat
<1>1. IsFiniteSet(1..n)
  BY FS_Interval
<1>2. IsFiniteSet(S)
  BY <1>1, FS_Subset
<1> QED
  BY <1>2, FS_CardinalityType

LEMMA CountIsNat ==
  ASSUME NEW S, NEW s \in Seq(S), NEW opts, NEW d
  PROVE  Count(opts, s, d) \in Nat /\ (s = <<>> => Count(opts, s, d) = 0)
<1> DEFINE A == {k \in 1..Len(s) : Reaches(opts, s[k], d)}
<1>1. Len(s) \in Nat
  BY LenProperties
<1>2. A \in SUBSET (1..Len(s))
  OBVIOUS
<1>3. Cardinality(A) \in Nat
  BY <1>1, <1>2, SomeOf
<1>4. s = <<>> => A = {}
  OBVIOUS
<1> HIDE DEF A
<1>5. s = <<>> => Cardinality(A) = 0
  BY <1>4, FS_EmptySet
<1> QED
  BY <1>3, <1>5 DEF Count, A

\* Counting the first object apart.
LEMMA CountTail ==
  ASSUME NEW S, NEW s \in Seq(S), s # <<>>, NEW opts, NEW d
  PROVE  Count(opts, s, d) = Count(opts, Tail(s), d) + (IF Reaches(opts, Head(s), d) THEN 1 ELSE 0)
<1> DEFINE A == {k \in 1..Len(s) : Reaches(opts, s[k], d)}
           B == {k \in 1..Len(Tail(s)) : Reaches(opts, Tail(s)[k], d)}
           f == [k \in B |-> k + 1]
<1>1. Len(s) \in Nat /\ Len(s) >= 1 /\ Len(Tail(s)) = Len(s) - 1 /\ Head(s) = s[1]
      /\ \A k \in 1..Len(Tail(s)) : Tail(s)[k] = s[k + 1]
  BY LenProperties, EmptySeq, HeadTailProperties
<1>2. ASSUME NEW k \in B PROVE k + 1 \in A \ {1}
  <2>1. k \in 1..Len(Tail(s)) /\ Reaches(opts, Tail(s)[k], d)
    OBVIOUS
  <2>2. k + 1 \in 1..Len(s) /\ k + 1 # 1 /\ Tail(s)[k] = s[k + 1]
    BY <1>1, <2>1
  <2> QED
    BY <2>1, <2>2
<1>3. ASSUME NEW k \in A \ {1} PROVE \E m \in B : m + 1 = k
  <2>1. k \in 1..Len(s) /\ k # 1 /\ Reaches(opts, s[k], d)
    BY <1>3
  <2>2. k - 1 \in 1..Len(Tail(s)) /\ (k - 1) + 1 = k
    BY <1>1, <2>1
  <2>3. Tail(s)[k - 1] = s[(k - 1) + 1]
    BY <1>1, <2>2
  <2>4. k - 1 \in B
    BY <2>1, <2>2, <2>3
  <2> QED
    BY <2>2, <2>4
<1>4. A \in SUBSET (1..Len(s)) /\ B \in SUBSET (1..Len(s)) /\ B \subseteq Nat
  BY <1>1
<1>5. 1 \in A <=> Reaches(opts, Head(s), d)
  BY <1>1
<1> HIDE DEF A, B
<1>6. f \in Bijection(B, A \ {1})
  <2>1. f \in [B -> A \ {1}]
    BY <1>2
  <2>2. \A k \in A \ {1} : \E m \in B : f[m] = k
    BY <1>3
  <2>3. \A j, k \in B : f[j] = f[k] => j = k
    BY <1>4
  <2> QED
    BY <2>1, <2>2, <2>3 DEF Bijection, Injection, Surjection, IsInjective
<1>7. IsFiniteSet(A) /\ IsFiniteSet(B) /\ Cardinality(A) \in Nat /\ Cardinality(B) \in Nat
  BY <1>1, <1>4, SomeOf
<1>8. Cardinality(A \ {1}) = Cardinality(B)
  BY <1>6, <1>7, FS_Bijection DEF ExistsBijection
<1>9. Cardinality(A \ {1}) = IF 1 \in A THEN Cardinality(A) - 1 ELSE Cardinality(A)
  BY <1>7, FS_RemoveElement
<1>10. Count(opts, s, d) = Cardinality(A) /\ Count(opts, Tail(s), d) = Cardinality(B)
  BY DEF Count, A, B
<1> QED
  BY <1>5, <1>7, <1>8, <1>9, <1>10

\* t has the elements of s in another order.
Reorders(t, s) ==
  /\ Len(t) = Len(s)
  /\ \E p \in [1..Len(s) -> 1..Len(s)] :
       /\ \A e \in 1..Len(s) : \E k \in 1..Len(s) : p[k] = e
       /\ \A k \in 1..Len(s) : t[k] = s[p[k]]

\* Counting does not depend on the order.
LEMMA CountPermuted ==
  ASSUME NEW s, NEW t, Len(s) \in Nat, Reorders(t, s), NEW opts, NEW d
  PROVE  Count(opts, t, d) = Count(opts, s, d)
<1> DEFINE n == Len(s)
<1>a. Len(t) = n
  BY DEF Reorders
<1>b. PICK f \in [1..n -> 1..n] :
        /\ \A e \in 1..n : \E k \in 1..n : f[k] = e
        /\ \A k \in 1..n : t[k] = s[f[k]]
  BY DEF Reorders
<1> DEFINE A == {k \in 1..Len(s) : Reaches(opts, s[k], d)}
           B == {k \in 1..Len(t) : Reaches(opts, t[k], d)}
           g == [k \in B |-> f[k]]
<1>2. \A j, k \in 1..n : f[j] = f[k] => j = k
  BY <1>b, OntoIsOneToOne
<1>3. \A k \in B : k \in 1..n /\ f[k] \in A
  BY <1>a, <1>b
<1>4. \A e \in A : \E k \in B : f[k] = e
  <2> SUFFICES ASSUME NEW e \in A PROVE \E k \in B : f[k] = e
    OBVIOUS
  <2>1. e \in 1..n /\ Reaches(opts, s[e], d)
    OBVIOUS
  <2>2. PICK k \in 1..n : f[k] = e
    BY <1>b, <2>1
  <2>3. k \in B
    BY <1>a, <1>b, <2>1, <2>2
  <2> QED
    BY <2>2, <2>3
<1>5. B \in SUBSET (1..n)
  BY <1>a
<1> HIDE DEF A, B
<1>6. g \in Bijection(B, A)
  BY <1>2, <1>3, <1>4 DEF Bijection, Injection, Surjection, IsInjective
<1>7. IsFiniteSet(B)
  BY <1>5, SomeOf
<1>8. Cardinality(A) = Cardinality(B)
  BY <1>6, <1>7, FS_Bijection DEF ExistsBijection
<1> QED
  BY <1>8 DEF Count, A, B

\* A sequence without repetition is as long as the set of its elements is large.
LEMMA DistinctCounts ==
  ASSUME NEW S, NEW s \in Seq(S), Distinct(s)
  PROVE  Cardinality({s[k] : k \in 1..Len(s)}) = Len(s)
<1> DEFINE T == {s[k] : k \in 1..Len(s)}
<1>1. Len(s) \in Nat /\ s \in [1..Len(s) -> S]
  BY LenProperties
<1>2. s \in Bijection(1..Len(s), T)
  <2>1. s \in [1..Len(s) -> T]
    BY <1>1
  <2> QED
    BY <1>1, <2>1 DEF Distinct, Bijection, Injection, Surjection, IsInjective
<1> QED
  BY <1>1, <1>2, FS_CountingElements DEF ExistsBijection

-----------------------------------------------------------------------------
(* The sort                                                                *)

\* The comparison is an integer, and an entry equals itself.
LEMMA CompareInt ==
  ASSUME NEW in, IsListing(in), NEW a \in 1..Len(in.stat), NEW b \in 1..Len(in.stat)
  PROVE  Compare(in, a, b) \in Int /\ Compare(in, a, a) = 0
<1>1. in.stat[a] \in Attributes /\ in.stat[b] \in Attributes
  BY ElementOfSeq DEF IsListing
<1>2. in.stat[a].name \in Nat /\ in.stat[b].name \in Nat
  BY <1>1 DEF Attributes
<1>3. Forward(in, a, b) \in Int /\ Forward(in, a, a) = 0
  BY <1>2 DEF Forward, Newest, Largest, SizesDiffer
<1>4. 0 - Forward(in, a, b) \in Int /\ 0 - Forward(in, a, a) = 0
  BY <1>3
<1> QED
  BY <1>3, <1>4 DEF Compare

\* Any call of quickSort() on a well-formed listing starts inside the array.
LEMMA StartEstablishes ==
  ASSUME NEW in, IsListing(in), StartSort(in)
  PROVE  SortInv'
<1>1. Len(in.stat) \in Nat /\ Len(in.stat) = N'
  BY LenProperties DEF IsListing, StartSort, N
<1>2. array' = [k \in 1..N' |-> k]
  BY <1>1 DEF StartSort, Identity
<1>3. <<1, N'>> \in Span' /\ calls' = <<<<1, N'>>>> /\ Len(calls') = 1
  BY <1>1 DEF StartSort, Span
<1>4. SortTypeOK'
  BY <1>1, <1>2, <1>3 DEF StartSort, SortTypeOK
<1>5. Permutation' /\ InRange'
  BY <1>2 DEF StartSort, Permutation, InRange
<1>6. Disjoint'
  BY <1>3 DEF StartSort, Disjoint
<1> QED
  BY <1>4, <1>5, <1>6 DEF SortInv

\* Exchanging two entries of the array keeps it a permutation.
LEMMA SwapPermutes ==
  ASSUME SortTypeOK, Permutation, NEW a \in 1..N, NEW b \in 1..N
  PROVE  /\ Swapped(a, b) \in [1..N -> 1..N]
         /\ \A e \in 1..N : \E k \in 1..N : Swapped(a, b)[k] = e
<1> DEFINE g == Swapped(a, b)
<1>1. g \in [1..N -> 1..N] /\ g[b] = array[a] /\ g[a] = array[b]
  BY DEF Swapped, SortTypeOK
<1>2. ASSUME NEW e \in 1..N PROVE \E k \in 1..N : g[k] = e
  <2>1. PICK k \in 1..N : array[k] = e
    BY DEF Permutation
  <2>2. k \notin {a, b} => g[k] = e
    BY <2>1 DEF Swapped, SortTypeOK
  <2> QED
    BY <1>1, <2>1, <2>2
<1> QED
  BY <1>1, <1>2

\* Every step of the sort keeps the array a permutation, the scans inside the range,
\* and the ranges still to be sorted apart.
LEMMA SortStep ==
  ASSUME SortInv, [SortNext]_sortvars
  PROVE  SortInv'
<1> USE DEF SortInv, SortTypeOK, N, range
<1>0. N \in Nat
  BY LenProperties DEF IsListing
<1>1. CASE Call
  <2>1. /\ calls # <<>> /\ calls' = Tail(calls) /\ calls[1] \in Span /\ calls[1] = Head(calls)
        /\ Len(calls') = Len(calls) - 1 /\ calls' \in Seq(Span)
        /\ \A a \in 1..Len(calls') : calls'[a] = calls[a + 1] /\ a + 1 \in 1..Len(calls)
    BY <1>1, HeadTailProperties, ElementOfSeq DEF Call
  <2>2. l' = calls[1][1] /\ r' = calls[1][2] /\ UNCHANGED <<input, array>> /\ l' \in 1..(N + 1) /\ r' \in 0..N
    BY <1>1, <2>1 DEF Call, Span
  <2>3. SortTypeOK'
    BY <1>0, <1>1, <2>1, <2>2 DEF Call, Span
  <2>4. Permutation' /\ InRange'
    BY <1>0, <1>1, <2>1, <2>2 DEF Call, Permutation, InRange
  <2>5. ASSUME NEW a \in 1..Len(calls'), NEW b \in 1..Len(calls'), a < b
        PROVE  Apart(calls'[a], calls'[b])
    BY <2>1, <2>5 DEF Disjoint
  <2>6. ASSUME NEW a \in 1..Len(calls')
        PROVE  Apart(<<l', r'>>, calls'[a])
    <3>1. Apart(calls[1], calls[a + 1])
      BY <2>1 DEF Disjoint
    <3> QED
      BY <2>1, <2>2, <3>1 DEF Apart
  <2> QED
    BY <2>3, <2>4, <2>5, <2>6 DEF Disjoint
<1>2. CASE ScanLeft \/ ScanRight
  <2>1. /\ UNCHANGED <<input, array, calls, l, r>> /\ pc # "call"
        /\ 1 <= l /\ l <= begin' /\ begin' <= end' /\ end' <= r /\ r <= N
        /\ pc' \in {"left", "right", "swap"} /\ begin' \in Int /\ end' \in Int
    BY <1>0, <1>2 DEF ScanLeft, ScanRight, GoesLeft, GoesRight, InRange
  <2>2. SortTypeOK'
    BY <1>0, <2>1 DEF Span
  <2> QED
    BY <2>1, <2>2 DEF Permutation, InRange, Disjoint
<1>3. CASE Swap
  <2>1. UNCHANGED <<input, calls, l, r, begin, end>> /\ pc = "swap" /\ pc' \in {"left", "pivot"}
    BY <1>3 DEF Swap
  <2>2. begin \in 1..N /\ end \in 1..N
    BY <1>0, <2>1 DEF InRange
  <2>a. /\ Swapped(begin, end) \in [1..N -> 1..N]
        /\ \A e \in 1..N : \E k \in 1..N : Swapped(begin, end)[k] = e
    <3> HIDE DEF SortTypeOK, N
    <3> QED
      BY <2>2, SwapPermutes
  <2>3. array' = array \/ array' = Swapped(begin, end)
    BY <1>3 DEF Swap
  <2>4. array' \in [1..N -> 1..N] /\ Permutation'
    <3>1. array' \in [1..N -> 1..N] /\ \A e \in 1..N : \E k \in 1..N : array'[k] = e
      BY <2>a, <2>3 DEF Permutation
    <3>2. N' = N
      BY <2>1
    <3> QED
      BY <3>1, <3>2 DEF Permutation
  <2>5. InRange' /\ Disjoint'
    BY <2>1 DEF InRange, Disjoint
  <2> QED
    BY <2>1, <2>4, <2>5 DEF Span
<1>4. CASE Pivot
  <2>1. UNCHANGED <<input, l, r, begin, end>> /\ pc = "pivot" /\ pc' = "call"
    BY <1>4 DEF Pivot
  <2>2. begin \in 1..N /\ end \in 1..N /\ l \in 1..N /\ r \in 1..N /\ l <= begin /\ begin <= end /\ end <= r
    BY <1>0, <2>1 DEF InRange
  <2>a. /\ Swapped(begin, l) \in [1..N -> 1..N]
        /\ \A e \in 1..N : \E k \in 1..N : Swapped(begin, l)[k] = e
    <3> HIDE DEF SortTypeOK, N
    <3> QED
      BY <2>2, SwapPermutes
  <2>3. array' = array \/ array' = Swapped(begin, l)
    BY <1>4 DEF Pivot
  <2>4. array' \in [1..N -> 1..N] /\ Permutation'
    <3>1. array' \in [1..N -> 1..N] /\ \A e \in 1..N : \E k \in 1..N : array'[k] = e
      BY <2>a, <2>3 DEF Permutation
    <3>2. N' = N
      BY <2>1
    <3> QED
      BY <3>1, <3>2 DEF Permutation
  <2> DEFINE two == <<<<l, begin - 1>>, <<end + 1, r>>>>
  <2>5. <<l, begin - 1>> \in Span /\ <<end + 1, r>> \in Span
    BY <1>0, <2>2 DEF Span
  <2>6. two \in Seq(Span) /\ Len(two) = 2 /\ two[1] = <<l, begin - 1>> /\ two[2] = <<end + 1, r>>
    BY <2>5
  <2>7. calls' = two \o calls
    BY <1>4 DEF Pivot, RightPart
  <2> HIDE DEF two
  <2>8. /\ calls' \in Seq(Span) /\ Len(calls') = 2 + Len(calls)
        /\ \A a \in 1..Len(calls') : calls'[a] = IF a <= 2 THEN two[a] ELSE calls[a - 2]
    <3>1. Len(two \o calls) = Len(two) + Len(calls) /\ two \o calls \in Seq(Span)
      BY <2>6, ConcatProperties
    <3>2. Len(calls) \in Nat
      BY LenProperties
    <3>3. \A a \in 1..(Len(two) + Len(calls)) :
            (two \o calls)[a] = IF a <= Len(two) THEN two[a] ELSE calls[a - Len(two)]
      BY <2>6, ConcatProperties
    <3> QED
      BY <2>6, <2>7, <3>1, <3>2, <3>3
  <2>9. ASSUME NEW a \in 1..Len(calls'), NEW b \in 1..Len(calls'), a < b
        PROVE  Apart(calls'[a], calls'[b])
    <3>0. Len(calls) \in Nat
      BY LenProperties
    <3>1. CASE b <= 2
      <4>1. a = 1 /\ b = 2
        BY <2>9, <3>1
      <4> QED
        BY <1>0, <2>2, <2>6, <2>8, <4>1 DEF Apart
    <3>2. CASE a <= 2 /\ b > 2
      <4>1. b - 2 \in 1..Len(calls) /\ calls'[b] = calls[b - 2] /\ calls'[a] = two[a] /\ (a = 1 \/ a = 2)
        <5>1. b - 2 \in 1..Len(calls) /\ (a = 1 \/ a = 2)
          BY <2>8, <3>0, <3>2
        <5>2. ~(b <= 2) /\ a <= 2
          BY <2>8, <3>0, <3>2
        <5> QED
          BY <2>8, <5>1, <5>2
      <4>2. calls[b - 2] \in Span
        BY <4>1, ElementOfSeq
      <4>3. calls[b - 2][1] \in Int /\ calls[b - 2][2] \in Int
        BY <1>0, <4>2, SMTT(30) DEF Span
      <4>4. Apart(<<l, r>>, calls[b - 2])
        BY <2>1, <4>1 DEF Disjoint
      <4> QED
        <5>1. r < calls[b - 2][1] \/ calls[b - 2][1] > calls[b - 2][2]
          BY <1>0, <2>2, <4>3, <4>4 DEF Apart
        <5>2. Apart(<<l, begin - 1>>, calls[b - 2]) /\ Apart(<<end + 1, r>>, calls[b - 2])
          BY <1>0, <2>2, <4>3, <5>1 DEF Apart
        <5> QED
          BY <2>6, <4>1, <5>2
    <3>3. CASE a > 2
      <4>1. Len(calls') = Len(calls) + 2
        BY <2>8
      <4>2. a - 2 \in 1..Len(calls) /\ b - 2 \in 1..Len(calls) /\ a - 2 < b - 2 /\ ~(a <= 2) /\ ~(b <= 2)
        BY <2>9, <3>0, <3>3, <4>1
      <4>3. calls'[a] = calls[a - 2] /\ calls'[b] = calls[b - 2]
        BY <2>8, <4>2
      <4> QED
        BY <4>2, <4>3 DEF Disjoint
    <3> QED
      BY <3>1, <3>2, <3>3
  <2>10. InRange' /\ Disjoint'
    BY <2>1, <2>9 DEF InRange, Disjoint
  <2> QED
    BY <2>1, <2>4, <2>8, <2>10 DEF Span
<1>5. CASE UNCHANGED sortvars
  BY <1>5 DEF sortvars, Permutation, InRange, Disjoint, Span
<1> QED
  BY <1>1, <1>2, <1>3, <1>4, <1>5 DEF SortNext

\* What the scans have found: nothing greater than the pivot before begin, nothing
\* smaller behind end, and at a swap one of each.
ScanInv ==
  pc # "call" =>
    /\ \A k \in l..(begin - 1) : fileCmp(array[k], key) <= 0
    /\ \A k \in (end + 1)..r : fileCmp(array[k], key) >= 0
    /\ pc \in {"right", "swap"} => begin = end \/ (l < begin /\ fileCmp(array[begin], key) > 0)
    /\ pc = "swap" => begin = end \/ fileCmp(array[end], key) < 0
    /\ pc = "pivot" => begin = end

\* A sort that starts has scanned nothing, and each step of it keeps what was found.
LEMMA ScanStart == \A in : StartSort(in) => ScanInv'
  BY DEF StartSort, ScanInv

LEMMA ScanStep ==
  ASSUME SortInv, ScanInv, [SortNext]_sortvars
  PROVE  ScanInv'
<1>0. N \in Nat /\ array \in [1..N -> 1..N] /\ IsListing(input)
  BY LenProperties DEF SortInv, SortTypeOK, IsListing, N
<1>1. \A a, b \in 1..N : fileCmp(a, b) \in Int /\ fileCmp(a, a) = 0
  BY <1>0, CompareInt DEF fileCmp, N
<1>2. pc # "call" => /\ l \in 1..N /\ r \in 1..N /\ begin \in 1..N /\ end \in 1..N
                     /\ l <= begin /\ begin <= end /\ end <= r
  BY <1>0 DEF SortInv, SortTypeOK, InRange
<1>a. pc # "call" => /\ fileCmp(array[begin], key) \in Int /\ fileCmp(array[end], key) \in Int
                     /\ fileCmp(array[l], key) = 0
  <2> SUFFICES ASSUME pc # "call"
               PROVE  /\ fileCmp(array[begin], array[l]) \in Int /\ fileCmp(array[end], array[l]) \in Int
                      /\ fileCmp(array[l], array[l]) = 0
    BY DEF key
  <2>1. array[begin] \in 1..N /\ array[end] \in 1..N /\ array[l] \in 1..N
    BY <1>0, <1>2
  <2> QED
    BY <1>1, <2>1
<1>3. CASE Call
  <2>1. CASE pc' = "call"
    BY <2>1 DEF ScanInv
  <2>2. CASE pc' # "call"
    <3>1. pc' = "left" /\ begin' = l' /\ end' = r' /\ l' \in Int /\ r' \in Int
          /\ begin' \in Int /\ end' \in Int
      <4>1. Head(calls) \in Span
        BY <1>3, HeadTailProperties DEF Call, SortInv, SortTypeOK
      <4> QED
        BY <1>0, <1>3, <2>2, <4>1 DEF Call, Span
    <3> QED
      <4>1. \A m \in Int : \A k \in m..(m - 1) : FALSE
        OBVIOUS
      <4>2. \A m \in Int : \A k \in (m + 1)..m : FALSE
        OBVIOUS
      <4> QED
        BY <3>1, <4>1, <4>2 DEF ScanInv
  <2> QED
    BY <2>1, <2>2
<1>4. CASE ScanLeft
  <2>1. pc = "left" /\ UNCHANGED <<input, array, l, r, end>>
    BY <1>4 DEF ScanLeft, range
  <2>2. CASE GoesLeft
    <3>1. begin' = begin + 1 /\ pc' = "left" /\ fileCmp(array[begin], key) <= 0
      BY <1>4, <2>2 DEF ScanLeft, GoesLeft
    <3> QED
      BY <1>2, <2>1, <3>1 DEF ScanInv, key, fileCmp
  <2>3. CASE ~GoesLeft
    <3>1. begin' = begin /\ pc' = "right"
      BY <1>4, <2>3 DEF ScanLeft
    <3>2. begin = end \/ fileCmp(array[begin], key) > 0
      BY <1>a, <1>2, <2>1, <2>3 DEF GoesLeft
    <3>3. begin = l => fileCmp(array[begin], key) = 0
      BY <1>a, <2>1
    <3> QED
      BY <1>0, <1>1, <1>2, <2>1, <3>1, <3>2, <3>3 DEF ScanInv, key, fileCmp
  <2> QED
    BY <2>2, <2>3
<1>5. CASE ScanRight
  <2>1. pc = "right" /\ UNCHANGED <<input, array, l, r, begin>>
    BY <1>5 DEF ScanRight, range
  <2>2. CASE GoesRight
    <3>1. end' = end - 1 /\ pc' = "right" /\ fileCmp(array[end], key) >= 0
      BY <1>5, <2>2 DEF ScanRight, GoesRight
    <3> QED
      <4>1. begin < end
        BY <2>2 DEF GoesRight
      <4> QED
        BY <1>2, <2>1, <3>1, <4>1 DEF ScanInv, key, fileCmp
  <2>3. CASE ~GoesRight
    <3>1. end' = end /\ pc' = "swap"
      BY <1>5, <2>3 DEF ScanRight
    <3>2. begin = end \/ fileCmp(array[end], key) < 0
      BY <1>a, <1>2, <2>1, <2>3 DEF GoesRight
    <3> QED
      BY <1>2, <2>1, <3>1, <3>2 DEF ScanInv, key, fileCmp
  <2> QED
    BY <2>2, <2>3
<1>6. CASE Swap
  <2>1. pc = "swap" /\ UNCHANGED <<input, l, r, begin, end>>
    BY <1>6 DEF Swap, range
  <2>2. CASE begin < end
    <3>1. pc' = "left" /\ array' = Swapped(begin, end)
      BY <1>6, <2>2 DEF Swap
    <3>2. array'[l] = array[l] /\ \A k \in 1..N : k # begin /\ k # end => array'[k] = array[k]
      <4>1. l < begin
        BY <1>2, <2>1, <2>2 DEF ScanInv
      <4>2. l \in 1..N /\ l # begin /\ l # end
        BY <1>2, <2>1, <2>2, <4>1
      <4>3. \A k \in 1..N : k # begin /\ k # end => array'[k] = array[k]
        BY <1>0, <3>1 DEF Swapped
      <4> QED
        BY <4>2, <4>3
    <3>3. key' = key
      BY <2>1, <3>2 DEF key
    <3>a. l \in 1..N /\ r \in 1..N /\ begin \in 1..N /\ end \in 1..N /\ l <= begin /\ end <= r /\ N \in Nat
      BY <1>0, <1>2, <2>1
    <3>4. \A k \in l..(begin - 1) : k \in 1..N /\ k # begin /\ k # end
      BY <2>2, <3>a
    <3>5. \A k \in (end + 1)..r : k \in 1..N /\ k # begin /\ k # end
      BY <2>2, <3>a
    <3>6. \A k \in l..(begin - 1) : fileCmp(array[k], key) <= 0
      BY <2>1 DEF ScanInv
    <3>7. \A k \in (end + 1)..r : fileCmp(array[k], key) >= 0
      BY <2>1 DEF ScanInv
    <3>8. \A k \in l..(begin - 1) : Compare(input, array'[k], key) <= 0
      BY <3>2, <3>4, <3>6 DEF fileCmp
    <3>9. \A k \in (end + 1)..r : Compare(input, array'[k], key) >= 0
      BY <3>2, <3>5, <3>7 DEF fileCmp
    <3> QED
      BY <2>1, <3>1, <3>3, <3>8, <3>9 DEF ScanInv, fileCmp
  <2>3. CASE ~(begin < end)
    <3>1. pc' = "pivot" /\ array' = array /\ begin = end
      BY <1>2, <1>6, <2>1, <2>3 DEF Swap
    <3> QED
      BY <2>1, <3>1 DEF ScanInv, key, fileCmp
  <2> QED
    BY <2>2, <2>3
<1>7. CASE Pivot
  BY <1>7 DEF Pivot, ScanInv
<1>8. CASE UNCHANGED sortvars
  BY <1>8 DEF sortvars, ScanInv, key, fileCmp
<1> QED
  BY <1>3, <1>4, <1>5, <1>6, <1>7, <1>8 DEF SortNext

\* What the scans found when they met is the partition.
LEMMA ScanPartitions == ScanInv => Partitioned
  BY DEF ScanInv, Partitioned

-----------------------------------------------------------------------------
(* The listings the sort is called with                                    *)

\* The arguments, or the current directory, are files.
LEMMA PendingSeq ==
  ASSUME WalkTypeOK
  PROVE  Pending \in Seq(File) /\ Pending \in Seq(Entry)
<1>1. Cwd \in File
  BY TreeAssumption DEF File
<1>2. <<Cwd>> \in Seq(File)
  BY <1>1
<1>3. Pending \in Seq(File)
  BY <1>2 DEF Pending, WalkTypeOK
<1>4. \A k \in 1..Len(Pending) : Pending[k] \in Entry
  BY <1>3, ElementOfSeq DEF Entry
<1>5. Len(Pending) \in Nat /\ Pending = [k \in 1..Len(Pending) |-> Pending[k]]
  BY <1>3, LenProperties
<1> QED
  BY <1>3, <1>4, <1>5

\* Every entry of a directory, and every argument, has what lstat() says of some
\* file, so that quickSort() is always given a well-formed listing.
LEMMA ListingIsListing ==
  ASSUME WalkTypeOK, NEW d \in Directory \cup {Main}, NEW es \in Seq(Entry),
         d = Main => es \in Seq(File)
  PROVE  IsListing(ListingOf(d, es)) /\ Len(ListingOf(d, es).stat) = Len(es)
<1>0. Len(es) \in Nat
  BY LenProperties
<1>1. ASSUME NEW k \in 1..Len(es) PROVE Inode(d, es[k]) \in File /\ Name[es[k]] \in Nat
  <2>1. es[k] \in Entry
    BY ElementOfSeq
  <2>2. Name[es[k]] \in Nat
    BY <2>1, AttributeAssumption
  <2>3. CASE d = Main
    <3>1. es[k] \in File
      BY <2>3, ElementOfSeq
    <3> QED
      BY <2>2, <3>1, TreeAssumption DEF Inode
  <2>4. CASE d \in Directory
    <3>1. Parent(d) \in Directory
      BY <2>4 DEF Parent
    <3> QED
      BY <2>1, <2>2, <2>4, <3>1 DEF Inode, Entry, File
  <2> QED
    BY <2>3, <2>4
<1>2. \A f \in File : stat[f] \in [mtime : Nat, size : Nat]
  BY AttributeAssumption DEF WalkTypeOK
<1>3. Pending \in Seq(File)
  BY PendingSeq
<1>4. ASSUME NEW k \in 1..Len(es) PROVE PendingSize(k) \in Nat
  <2>1. CASE k <= Len(Pending)
    <3>0. Len(Pending) \in Nat
      BY <1>3, LenProperties
    <3>1. k \in 1..Len(Pending)
      BY <1>0, <2>1, <3>0
    <3>2. Pending[k] \in File
      BY <1>3, <3>1, ElementOfSeq
    <3> QED
      BY <1>2, <2>1, <3>2 DEF PendingSize
  <2>2. CASE ~(k <= Len(Pending))
    BY <2>2 DEF PendingSize
  <2> QED
    BY <2>1, <2>2
<1> DEFINE attr(k) == LET s == stat[Inode(d, es[k])]
                      IN [mtime |-> s.mtime, size |-> s.size, name |-> Name[es[k]]]
           L == ListingOf(d, es)
<1>5. ASSUME NEW k \in 1..Len(es) PROVE attr(k) \in Attributes
  <2>1. stat[Inode(d, es[k])] \in [mtime : Nat, size : Nat]
    BY <1>1, <1>2
  <2> QED
    BY <1>1, <2>1 DEF Attributes
<1>6. L.stat = [k \in 1..Len(es) |-> attr(k)] /\ L.pendingSize = [k \in 1..Len(es) |-> PendingSize(k)]
      /\ L.option = options \cap {"t", "s", "r"}
  BY DEF ListingOf
<1> HIDE DEF attr, L
<1>7. L.stat \in Seq(Attributes) /\ Len(L.stat) = Len(es)
  BY <1>0, <1>5, <1>6
<1> QED
  BY <1>4, <1>6, <1>7 DEF IsListing, L

-----------------------------------------------------------------------------
(* The frames                                                              *)

\* main() is at the bottom, everything above it is a call of printIdxObj(), and all
\* frames but the running one wait for a call.
Stacked(s) ==
  \A k \in 1..Len(s) : (s[k].of = Main <=> k = Len(s)) /\ (k > 1 => s[k].at = "calls")

\* What the running frame is, at each place; while it has the entries sorted the
\* array has one index for each.
TopInv ==
  stack # <<>> =>
    /\ Top.at \in {"open", "read"} => Top.of # Main
    /\ Top.at = "args" => Top.of = Main
    /\ Top.at = "sorted" => N = Len(Top.entries)

FrameInv == WalkTypeOK /\ Stacked(stack) /\ TopInv /\ BoundedResources

\* Arithmetic on the length of the stack.
LEMMA TwoOrMore == \A n \in Nat : n # 1 /\ n >= 1 => n >= 2
  OBVIOUS

LEMMA OneLess == \A n \in Nat : 2 = n + 1 <=> 1 = n
  OBVIOUS

\* The running frame is main() only when it is alone.
LEMMA BottomIsMain ==
  ASSUME WalkTypeOK, Stacked(stack), stack # <<>>
  PROVE  Top.of = Main <=> 1 = Len(stack)
<1>1. 1 \in 1..Len(stack)
  BY EmptySeq, LenProperties DEF WalkTypeOK
<1>2. stack[1].of = Main <=> 1 = Len(stack)
  BY <1>1 DEF Stacked
<1> QED
  BY <1>2 DEF Top

\* The running frame goes on.
LEMMA GoesOn ==
  ASSUME WalkTypeOK, Stacked(stack), stack # <<>>, NEW f \in FrameType, f.of = Top.of
  PROVE  /\ Goes(f) \in Seq(FrameType) /\ Len(Goes(f)) = Len(stack) /\ Goes(f)[1] = f
         /\ Goes(f) # <<>> /\ Stacked(Goes(f))
         /\ \A k \in 2..Len(stack) : Goes(f)[k] = stack[k]
<1>1. stack \in Seq(FrameType) /\ Len(stack) \in Nat /\ Len(stack) >= 1
  BY EmptySeq, LenProperties DEF WalkTypeOK
<1>2. Pop \in Seq(FrameType) /\ Len(Pop) = Len(stack) - 1
      /\ \A k \in 1..Len(Pop) : Pop[k] = stack[k + 1]
  BY <1>1, HeadTailProperties DEF Pop
<1>3. <<f>> \in Seq(FrameType) /\ Len(<<f>>) = 1 /\ <<f>>[1] = f
  OBVIOUS
<1>4. /\ Goes(f) \in Seq(FrameType) /\ Len(Goes(f)) = Len(stack)
      /\ \A k \in 1..Len(stack) : Goes(f)[k] = IF k <= 1 THEN f ELSE Pop[k - 1]
  BY <1>1, <1>2, <1>3, ConcatProperties DEF Goes
<1>5. Goes(f)[1] = f /\ \A k \in 1..Len(stack) : k > 1 => Goes(f)[k] = stack[k]
  BY <1>1, <1>2, <1>4
<1>6. Goes(f) # <<>>
  BY <1>1, <1>4
<1>7. f.of = Main <=> 1 = Len(stack)
  BY BottomIsMain
<1> QED
  BY <1>1, <1>4, <1>5, <1>6, <1>7 DEF Stacked

\* The running call returns to its caller.
LEMMA Returns ==
  ASSUME WalkTypeOK, Stacked(stack), stack # <<>>
  PROVE  /\ Pop \in Seq(FrameType) /\ Len(Pop) = Len(stack) - 1 /\ Stacked(Pop)
         /\ Pop = <<>> <=> Top.of = Main
         /\ Pop # <<>> => Pop[1].at = "calls" /\ Len(stack) >= 2
         /\ \A k \in 1..Len(Pop) : Pop[k] = stack[k + 1]
<1>1. stack \in Seq(FrameType) /\ Len(stack) \in Nat /\ Len(stack) >= 1
  BY EmptySeq, LenProperties DEF WalkTypeOK
<1>2. Pop \in Seq(FrameType) /\ Len(Pop) = Len(stack) - 1
      /\ \A k \in 1..Len(Pop) : Pop[k] = stack[k + 1]
  BY <1>1, HeadTailProperties DEF Pop
<1>3. \A k \in 1..Len(Pop) : k + 1 \in 1..Len(stack) /\ k + 1 > 1
  BY <1>1, <1>2
<1>4. Pop = <<>> <=> Len(Pop) = 0
  BY <1>2, EmptySeq
<1>5. Top.of = Main <=> 1 = Len(stack)
  BY <1>1, BottomIsMain
<1>6. Pop # <<>> => 1 \in 1..Len(Pop) /\ Len(stack) >= 2
  BY <1>1, <1>2, <1>4
<1>7. ASSUME NEW k \in 1..Len(Pop)
      PROVE  (Pop[k].of = Main <=> k = Len(Pop)) /\ Pop[k].at = "calls"
  <2>1. Pop[k] = stack[k + 1] /\ k + 1 \in 1..Len(stack) /\ k + 1 > 1
    BY <1>2, <1>3
  <2>2. (stack[k + 1].of = Main <=> k + 1 = Len(stack)) /\ stack[k + 1].at = "calls"
    BY <2>1 DEF Stacked
  <2> QED
    BY <1>1, <1>2, <2>1, <2>2
<1> QED
  BY <1>1, <1>2, <1>4, <1>5, <1>6, <1>7 DEF Stacked

\* The running frame, as rest, calls printIdxObj() for a directory.
Pushed(d, rest) == <<Frame(d), rest>> \o Pop

LEMMA Pushes ==
  ASSUME WalkTypeOK, Stacked(stack), stack # <<>>, Top.at = "calls",
         NEW d \in Directory, NEW rest \in FrameType, rest.of = Top.of, rest.at = "calls"
  PROVE  LET s == Pushed(d, rest) IN
         /\ s \in Seq(FrameType) /\ Len(s) = Len(stack) + 1 /\ s[1] = Frame(d) /\ s # <<>>
         /\ Stacked(s) /\ s[2] = rest /\ \A k \in 3..Len(s) : s[k] = stack[k - 1]
<1> DEFINE s == Pushed(d, rest)
<1>1. stack \in Seq(FrameType) /\ Len(stack) \in Nat /\ Len(stack) >= 1
  BY EmptySeq, LenProperties DEF WalkTypeOK
<1>2. Pop \in Seq(FrameType) /\ Len(Pop) = Len(stack) - 1
      /\ \A k \in 1..Len(Pop) : Pop[k] = stack[k + 1]
  BY <1>1, HeadTailProperties DEF Pop
<1>3. Frame(d) \in FrameType /\ Frame(d).of = d /\ d # Main
  <2>1. <<>> \in Seq(Entry) /\ Capacity \in Nat /\ Main \notin Directory
    BY TreeAssumption, AttributeAssumption
  <2> QED
    BY <2>1 DEF Frame, FrameType
<1> DEFINE two == <<Frame(d), rest>>
<1>4. two \in Seq(FrameType) /\ Len(two) = 2 /\ two[1] = Frame(d) /\ two[2] = rest
  BY <1>3
<1> HIDE DEF two
<1>5. s = two \o Pop
  BY DEF two, Pushed
<1> HIDE DEF s
<1>6. /\ s \in Seq(FrameType) /\ Len(s) = Len(stack) + 1
      /\ \A k \in 1..Len(s) : s[k] = IF k <= 2 THEN two[k] ELSE Pop[k - 2]
  <2>1. /\ s \in Seq(FrameType) /\ Len(s) = Len(two) + Len(Pop)
        /\ \A k \in 1..(Len(two) + Len(Pop)) : s[k] = IF k <= Len(two) THEN two[k] ELSE Pop[k - Len(two)]
    BY <1>2, <1>4, <1>5, ConcatProperties
  <2>2. Len(two) + Len(Pop) = Len(stack) + 1
    BY <1>1, <1>2, <1>4
  <2> QED
    BY <1>4, <2>1, <2>2
<1>7. s[1] = Frame(d) /\ s[2] = rest /\ \A k \in 1..Len(s) : k > 2 => s[k] = stack[k - 1]
  <2>1. 1 \in 1..Len(s) /\ 2 \in 1..Len(s)
    BY <1>1, <1>6
  <2>2. s[1] = Frame(d) /\ s[2] = rest
    BY <1>4, <1>6, <2>1
  <2>3. ASSUME NEW k \in 1..Len(s), k > 2 PROVE s[k] = stack[k - 1]
    <3>1. k - 2 \in 1..Len(Pop) /\ (k - 2) + 1 = k - 1 /\ ~(k <= 2)
      BY <1>1, <1>2, <1>6, <2>3
    <3>2. s[k] = Pop[k - 2]
      BY <1>6, <3>1
    <3> QED
      BY <1>2, <3>1, <3>2
  <2> QED
    BY <2>2, <2>3
<1>8. rest.of = Main <=> 1 = Len(stack)
  BY BottomIsMain
<1>9. ASSUME NEW k \in 1..Len(s)
      PROVE  (s[k].of = Main <=> k = Len(s)) /\ (k > 1 => s[k].at = "calls")
  <2>1. CASE k = 1
    BY <1>1, <1>3, <1>6, <1>7, <2>1
  <2>2. CASE k = 2
    <3>1. s[k] = rest
      BY <1>7, <2>2
    <3>2. 2 = Len(s) <=> 1 = Len(stack)
      BY <1>1, <1>6, OneLess
    <3> QED
      BY <1>8, <2>2, <3>1, <3>2
  <2>3. CASE k > 2
    <3>0. k - 1 \in 1..Len(stack) /\ k - 1 > 1
      BY <1>1, <1>6, <2>3
    <3>1. s[k] = stack[k - 1] /\ k - 1 \in 1..Len(stack) /\ k - 1 > 1
      BY <1>7, <2>3, <3>0
    <3> QED
      BY <1>1, <1>6, <3>1 DEF Stacked
  <2> QED
    BY <2>1, <2>2, <2>3
<1> QED
  BY <1>1, <1>6, <1>7, <1>9 DEF Stacked, s

\* Order names entries of the running frame.
LEMMA OrderIsSeq ==
  ASSUME SortInv, WalkTypeOK, stack # <<>>, N = Len(Top.entries)
  PROVE  Order \in Seq(Entry)
<1>1. stack[1] \in FrameType
  BY EmptySeq, ElementOfSeq, LenProperties DEF WalkTypeOK
<1>2. Top.entries \in Seq(Entry)
  BY <1>1 DEF FrameType, Top
<1>3. array \in [1..N -> 1..N] /\ N \in Nat
  BY <1>2, LenProperties DEF SortInv, SortTypeOK
<1>4. ASSUME NEW k \in 1..N PROVE Top.entries[array[k]] \in Entry
  <2>1. array[k] \in 1..Len(Top.entries)
    BY <1>3
  <2> QED
    BY <1>2, <2>1, ElementOfSeq
<1> QED
  BY <1>3, <1>4 DEF Order

\* Every step keeps the frames in order, and accounts for what it opens and allocates.
LEMMA WalkStep ==
  ASSUME FrameInv, SortInv, [Next]_vars
  PROVE  FrameInv'
<1> USE DEF FrameInv
<1>0. stack \in Seq(FrameType) /\ (stack # <<>> => Len(stack) \in Nat /\ Len(stack) >= 1)
  BY EmptySeq, LenProperties DEF WalkTypeOK
<1>a. stack # <<>> =>
        /\ Top \in FrameType /\ Top.of \in Directory \cup {Main} /\ Top.capacity \in Nat
        /\ Top.entries \in Seq(Entry) /\ Top.todo \in Seq(Entry)
  <2> SUFFICES ASSUME stack # <<>>
               PROVE  /\ Top \in FrameType /\ Top.of \in Directory \cup {Main} /\ Top.capacity \in Nat
                      /\ Top.entries \in Seq(Entry) /\ Top.todo \in Seq(Entry)
    OBVIOUS
  <2>1. stack[1] \in FrameType
    BY <1>0, ElementOfSeq
  <2> QED
    BY <2>1 DEF Top, FrameType
<1>b. stack # <<>> => (Top.of = Main <=> 1 = Len(stack))
  BY BottomIsMain
<1>c. ASSUME NEW f \in FrameType, stack # <<>>, f.of = Top.of, stack' = Goes(f)
      PROVE  /\ stack' \in Seq(FrameType) /\ Len(stack') = Len(stack) /\ Top' = f
             /\ stack' # <<>> /\ Stacked(stack)'
  BY <1>c, GoesOn DEF Top, Stacked
<1>d. ASSUME stack # <<>>, stack' = Pop
      PROVE  /\ stack' \in Seq(FrameType) /\ Len(stack') = Len(stack) - 1 /\ Stacked(stack)'
             /\ stack' = <<>> <=> Top.of = Main
             /\ stack' # <<>> => Top'.at = "calls" /\ Len(stack) >= 2
             /\ TopInv'
  <2>1. /\ stack' \in Seq(FrameType) /\ Len(stack') = Len(stack) - 1 /\ Stacked(stack)'
        /\ stack' = <<>> <=> Top.of = Main
        /\ stack' # <<>> => Top'.at = "calls" /\ Len(stack) >= 2
    BY <1>d, Returns DEF Top, Stacked
  <2> QED
    BY <2>1 DEF TopInv
<1>1. CASE AnalyseArg
  <2>1. stack' = stack /\ UNCHANGED <<input, stat, opened, allocated, lost, failed, crashed>> /\ argv # <<>>
    BY <1>1 DEF AnalyseArg, sortvars, memory
  <2>2. Head(argv) \in [letters : SUBSET Letter, name : File \cup {Missing}]
        /\ argv' \in Seq([letters : SUBSET Letter, name : File \cup {Missing}])
    BY <1>1, <2>1, HeadTailProperties DEF AnalyseArg, WalkTypeOK
  <2>3. options' \subseteq Letter /\ unavaCount' \in Nat
    BY <1>1, <2>2 DEF AnalyseArg, WalkTypeOK
  <2>4. pendingObject' \in Seq(File)
    <3>1. Head(argv).name # Missing => Head(argv).name \in File
      BY <2>2
    <3>2. CASE pendingObject' = pendingObject
      BY <3>2 DEF WalkTypeOK
    <3>3. CASE pendingObject' # pendingObject
      <4>1. Head(argv).name # Missing /\ pendingObject' = Append(pendingObject, Head(argv).name)
        BY <1>1, <3>3 DEF AnalyseArg
      <4> QED
        BY <3>1, <4>1, AppendProperties DEF WalkTypeOK
    <3> QED
      BY <3>2, <3>3
  <2>5. WalkTypeOK'
    BY <2>1, <2>2, <2>3, <2>4 DEF WalkTypeOK
  <2> QED
    BY <2>1, <2>5 DEF Stacked, TopInv, Top, N, BoundedResources, Depth
<1>2. CASE SortArgs
  <2>1. stack # <<>> /\ Top.at = "args" /\ Top.of = Main
        /\ UNCHANGED <<argv, options, unavaCount, stat, opened, allocated, lost, failed, crashed>>
    BY <1>2 DEF SortArgs, At, TopInv, memory
  <2> DEFINE f == [Top EXCEPT !.at = "sorted", !.entries = Pending]
  <2>2. Pending \in Seq(File) /\ Pending \in Seq(Entry)
    BY PendingSeq
  <2>3. f \in FrameType /\ f.of = Top.of /\ f.at = "sorted" /\ f.entries = Pending /\ stack' = Goes(f)
    BY <1>2, <1>a, <2>1, <2>2 DEF SortArgs, FrameType
  <2> HIDE DEF f
  <2>4. /\ stack' \in Seq(FrameType) /\ Len(stack') = Len(stack) /\ Top' = f
        /\ stack' # <<>> /\ Stacked(stack)'
    BY <1>c, <2>1, <2>3
  <2>5. input' = ListingOf(Main, Pending) /\ pendingObject' = Pending
    BY <1>2 DEF SortArgs, StartSort
  <2>6. N' = Len(Pending)
    BY <2>2, <2>5, ListingIsListing DEF N
  <2>7. TopInv'
    BY <2>1, <2>3, <2>4, <2>6 DEF TopInv
  <2>8. WalkTypeOK'
    BY <2>1, <2>2, <2>4, <2>5 DEF WalkTypeOK
  <2>9. BoundedResources'
    BY <2>1, <2>3, <2>4 DEF BoundedResources, Depth
  <2> QED
    BY <2>4, <2>7, <2>8, <2>9
<1>3. CASE PendObjects
  <2>1. stack # <<>> /\ Top.at = "sorted" /\ Top.of = Main
        /\ UNCHANGED <<input, argv, options, pendingObject, unavaCount, stat, opened, allocated, lost, failed, crashed>>
    BY <1>3 DEF PendObjects, At, tables, memory, sortvars
  <2> DEFINE f == [Top EXCEPT !.at = "calls", !.todo = Order]
  <2>2. Order \in Seq(Entry)
    BY <2>1, OrderIsSeq DEF TopInv
  <2>3. f \in FrameType /\ f.of = Top.of /\ f.at = "calls" /\ stack' = Goes(f)
    BY <1>3, <1>a, <2>1, <2>2 DEF PendObjects, FrameType
  <2> HIDE DEF f
  <2>4. /\ stack' \in Seq(FrameType) /\ Len(stack') = Len(stack) /\ Top' = f
        /\ stack' # <<>> /\ Stacked(stack)'
    BY <1>c, <2>1, <2>3
  <2>5. TopInv'
    BY <2>3, <2>4 DEF TopInv
  <2>6. WalkTypeOK'
    BY <2>1, <2>4 DEF WalkTypeOK
  <2>7. BoundedResources'
    BY <2>1, <2>3, <2>4 DEF BoundedResources, Depth
  <2> QED
    BY <2>4, <2>5, <2>6, <2>7
<1>4. CASE Calls
  <2>1. stack # <<>> /\ Top.at = "calls" /\ Top.todo # <<>>
        /\ UNCHANGED <<input, argv, options, pendingObject, unavaCount, stat, opened, allocated, lost, failed, crashed>>
    BY <1>4 DEF Calls, At, tables, memory, sortvars
  <2> DEFINE f == [Top EXCEPT !.todo = Tail(@)]
             e == Head(Top.todo)
  <2>2. Tail(Top.todo) \in Seq(Entry)
    BY <1>a, <2>1, HeadTailProperties
  <2>3. f \in FrameType /\ f.of = Top.of /\ f.at = "calls"
    BY <1>a, <2>1, <2>2 DEF FrameType
  <2>4. stack' = IF e \in Directory THEN <<Frame(e), f>> \o Pop ELSE Goes(f)
    BY <1>4 DEF Calls
  <2> HIDE DEF f, e
  <2>5. CASE e \in Directory
    <3>1. /\ stack' \in Seq(FrameType) /\ Len(stack') = Len(stack) + 1 /\ Top' = Frame(e)
          /\ stack' # <<>> /\ Stacked(stack)'
      <4>1. stack' = Pushed(e, f)
        BY <2>4, <2>5 DEF Pushed
      <4>2. /\ stack' \in Seq(FrameType) /\ Len(stack') = Len(stack) + 1 /\ stack'[1] = Frame(e)
            /\ stack' # <<>> /\ Stacked(stack')
        BY <2>1, <2>3, <2>5, <4>1, Pushes
      <4> QED
        BY <4>2 DEF Top, Stacked
    <3>2. Top'.at = "open" /\ Top'.of # Main
      BY <2>5, <3>1, TreeAssumption DEF Frame
    <3>3. TopInv' /\ WalkTypeOK'
      BY <2>1, <3>1, <3>2 DEF TopInv, WalkTypeOK
    <3>4. BoundedResources'
      BY <1>0, <2>1, <3>1, <3>2 DEF BoundedResources, Depth
    <3> QED
      BY <3>1, <3>3, <3>4
  <2>6. CASE e \notin Directory
    <3>1. /\ stack' \in Seq(FrameType) /\ Len(stack') = Len(stack) /\ Top' = f
          /\ stack' # <<>> /\ Stacked(stack)'
      BY <1>c, <2>1, <2>3, <2>4, <2>6
    <3>3. TopInv' /\ WalkTypeOK'
      BY <2>1, <2>3, <3>1 DEF TopInv, WalkTypeOK
    <3>4. BoundedResources'
      BY <2>1, <2>3, <3>1 DEF BoundedResources, Depth
    <3> QED
      BY <3>1, <3>3, <3>4
  <2> QED
    BY <2>5, <2>6
<1>5. CASE OpenDir
  <2>a. stack # <<>> /\ Top.at = "open" /\ Top.of # Main
    BY <1>5 DEF OpenDir, At, TopInv
  <2>b. Len(stack) >= 2
    <3>1. 1 # Len(stack) /\ Len(stack) \in Nat /\ Len(stack) >= 1
      BY <1>0, <1>b, <2>a
    <3> QED
      BY <3>1, TwoOrMore
  <2>1. stack # <<>> /\ Top.at = "open" /\ Top.of # Main /\ Top.of \in Directory /\ Len(stack) >= 2
        /\ UNCHANGED <<input, argv, options, pendingObject, unavaCount, stat, lost, crashed>>
    BY <1>5, <1>a, <2>a, <2>b DEF OpenDir, tables, memory, sortvars
  <2>2. opened = 0 /\ allocated = 3 * (Len(stack) - 2) + lost
    BY <2>1 DEF BoundedResources, Depth
  <2>3. CASE stack' = Pop
    <3>1. opened' = opened /\ allocated' = allocated /\ failed' \in BOOLEAN
      <4>1. Len(Pop) = Len(stack) - 1
        BY <1>0, HeadTailProperties, <2>1 DEF Pop
      <4>2. ASSUME NEW f \in FrameType, f.of = Top.of PROVE Goes(f) # Pop
        BY <1>0, <2>1, <4>1, <4>2, GoesOn
      <4>3. [Top EXCEPT !.at = "read", !.todo = Kids[Top.of]] \in FrameType
        BY <1>a, <2>1, TreeAssumption DEF FrameType
      <4>4. stack' # Goes([Top EXCEPT !.at = "read", !.todo = Kids[Top.of]])
        BY <1>a, <2>1, <2>3, <4>2, <4>3 DEF FrameType
      <4> QED
        BY <1>5, <4>4 DEF OpenDir, memory, WalkTypeOK
    <3>2. /\ stack' \in Seq(FrameType) /\ Len(stack') = Len(stack) - 1 /\ Stacked(stack)'
          /\ stack' # <<>> /\ Top'.at = "calls" /\ TopInv'
      BY <1>d, <2>1, <2>3
    <3>3. WalkTypeOK'
      BY <2>1, <3>1, <3>2 DEF WalkTypeOK
    <3>4. BoundedResources'
      BY <1>0, <2>1, <2>2, <3>1, <3>2 DEF BoundedResources, Depth
    <3> QED
      BY <3>2, <3>3, <3>4
  <2>4. CASE stack' # Pop
    <3> DEFINE f == [Top EXCEPT !.at = "read", !.todo = Kids[Top.of]]
    <3>1. stack' = Goes(f) /\ opened' = opened + 1 /\ allocated' = allocated + 3 /\ failed' = failed
      BY <1>5, <2>4 DEF OpenDir
    <3>2. f \in FrameType /\ f.of = Top.of /\ f.at = "read"
      BY <1>a, <2>1, TreeAssumption DEF FrameType
    <3> HIDE DEF f
    <3>3. /\ stack' \in Seq(FrameType) /\ Len(stack') = Len(stack) /\ Top' = f
          /\ stack' # <<>> /\ Stacked(stack)'
      BY <1>c, <2>1, <3>1, <3>2
    <3>4. TopInv'
      BY <2>1, <3>2, <3>3 DEF TopInv
    <3>5. WalkTypeOK'
      BY <2>1, <3>1, <3>3 DEF WalkTypeOK
    <3>6. BoundedResources'
      BY <1>0, <2>1, <2>2, <3>1, <3>2, <3>3 DEF BoundedResources, Depth, WalkTypeOK
    <3> QED
      BY <3>3, <3>4, <3>5, <3>6
  <2> QED
    BY <2>3, <2>4
<1>6. CASE Skip \/ ReadEntry
  <2>1. stack # <<>> /\ Top.at = "read" /\ Top.of # Main /\ Top.todo # <<>>
        /\ UNCHANGED <<input, argv, options, pendingObject, unavaCount, stat, opened, allocated, lost, failed, crashed>>
    BY <1>6 DEF Skip, ReadEntry, NextVisible, At, tables, memory, sortvars, TopInv
  <2>2. Tail(Top.todo) \in Seq(Entry) /\ Head(Top.todo) \in Entry
    BY <1>a, <2>1, HeadTailProperties
  <2>3. PICK f \in FrameType : f.of = Top.of /\ f.at = "read" /\ stack' = Goes(f)
    <3>1. CASE Skip
      <4>1. [Top EXCEPT !.todo = Tail(@)] \in FrameType
        BY <1>a, <2>1, <2>2 DEF FrameType
      <4> QED
        BY <1>a, <2>1, <3>1, <4>1 DEF Skip, FrameType
    <3>2. CASE ReadEntry
      <4> DEFINE more == Append(Top.entries, Head(Top.todo))
                 room == IF Full THEN 2 * Top.capacity ELSE Top.capacity
                 g == [Top EXCEPT !.todo = Tail(@), !.entries = more, !.capacity = room]
      <4>1. more \in Seq(Entry) /\ room \in Nat
        BY <1>a, <2>1, <2>2, AppendProperties
      <4>2. stack' = Goes(g)
        BY <3>2 DEF ReadEntry
      <4> HIDE DEF more, room
      <4>3. g \in FrameType /\ g.of = Top.of /\ g.at = "read"
        BY <1>a, <2>1, <2>2, <4>1 DEF FrameType
      <4> QED
        BY <4>2, <4>3
    <3> QED
      BY <1>6, <3>1, <3>2
  <2>4. /\ stack' \in Seq(FrameType) /\ Len(stack') = Len(stack) /\ Top' = f
        /\ stack' # <<>> /\ Stacked(stack)'
    BY <1>c, <2>1, <2>3
  <2>5. TopInv' /\ WalkTypeOK'
    BY <2>1, <2>3, <2>4 DEF TopInv, WalkTypeOK
  <2>6. BoundedResources'
    BY <2>1, <2>3, <2>4 DEF BoundedResources, Depth
  <2> QED
    BY <2>4, <2>5, <2>6
<1>7. CASE ReallocFails
  <2>a. stack # <<>> /\ Top.at = "read" /\ Top.of # Main
    BY <1>7 DEF ReallocFails, NextVisible, At, TopInv
  <2>b. Len(stack) >= 2
    <3>1. 1 # Len(stack) /\ Len(stack) \in Nat /\ Len(stack) >= 1
      BY <1>0, <1>b, <2>a
    <3> QED
      BY <3>1, TwoOrMore
  <2>1. stack # <<>> /\ Top.at = "read" /\ Top.of # Main /\ Len(stack) >= 2 /\ stack' = Pop
        /\ UNCHANGED <<input, argv, options, pendingObject, unavaCount, stat, crashed>> /\ failed' = TRUE
    BY <1>7, <2>a, <2>b DEF ReallocFails, tables, sortvars
  <2>2. opened = 1 /\ allocated = 3 * (Len(stack) - 1) + lost /\ lost \in Nat
    BY <2>1 DEF BoundedResources, Depth, WalkTypeOK
  <2>3. PICK k \in 1..3 : lost' = lost + k /\ allocated' = allocated - (3 - k)
    BY <1>7 DEF ReallocFails
  <2>4. opened' = 0
    BY <1>7, <2>2 DEF ReallocFails, Closed
  <2>5. /\ stack' \in Seq(FrameType) /\ Len(stack') = Len(stack) - 1 /\ Stacked(stack)'
        /\ stack' # <<>> /\ Top'.at = "calls" /\ TopInv'
    BY <1>d, <2>1
  <2>6. lost' \in Nat /\ allocated' \in Nat /\ allocated' = 3 * (Len(stack) - 2) + lost'
    BY <1>0, <2>1, <2>2, <2>3
  <2>7. WalkTypeOK'
    BY <2>1, <2>4, <2>5, <2>6 DEF WalkTypeOK
  <2>8. BoundedResources'
    BY <1>0, <2>1, <2>4, <2>5, <2>6 DEF BoundedResources, Depth
  <2> QED
    BY <2>5, <2>7, <2>8
<1>8. CASE SortEntries
  <2>1. stack # <<>> /\ Top.at = "read" /\ Top.of # Main /\ Top.of \in Directory
        /\ UNCHANGED <<argv, options, pendingObject, unavaCount, stat, opened, allocated, lost, failed, crashed>>
    BY <1>8, <1>a DEF SortEntries, At, tables, memory, TopInv
  <2> DEFINE f == [Top EXCEPT !.at = "sorted"]
  <2>3. f \in FrameType /\ f.of = Top.of /\ f.at = "sorted" /\ f.entries = Top.entries /\ stack' = Goes(f)
    BY <1>8, <1>a, <2>1 DEF SortEntries, FrameType
  <2> HIDE DEF f
  <2>4. /\ stack' \in Seq(FrameType) /\ Len(stack') = Len(stack) /\ Top' = f
        /\ stack' # <<>> /\ Stacked(stack)'
    BY <1>c, <2>1, <2>3
  <2>5. N' = Len(Top.entries)
    <3>1. Top.of # Main /\ Top.of \in Directory \cup {Main} /\ Top.entries \in Seq(Entry)
      BY <1>a, <2>1
    <3>2. Len(ListingOf(Top.of, Top.entries).stat) = Len(Top.entries)
      BY <3>1, ListingIsListing
    <3> QED
      BY <1>8, <3>2 DEF SortEntries, StartSort, N
  <2>6. TopInv' /\ WalkTypeOK'
    BY <2>1, <2>3, <2>4, <2>5 DEF TopInv, WalkTypeOK
  <2>7. BoundedResources'
    BY <2>1, <2>3, <2>4 DEF BoundedResources, Depth
  <2> QED
    BY <2>4, <2>6, <2>7
<1>9. CASE PrintListing
  <2>1. stack # <<>> /\ Top.at = "sorted" /\ Top.of # Main /\ N = Len(Top.entries)
        /\ UNCHANGED <<input, argv, options, pendingObject, unavaCount, stat, allocated, lost, failed>>
    BY <1>9 DEF PrintListing, At, tables, sortvars, TopInv
  <2>2. CASE NameMissing
    <3>1. UNCHANGED <<stack, opened>> /\ crashed' = TRUE
      BY <1>9, <2>2 DEF PrintListing
    <3> QED
      BY <2>1, <3>1 DEF WalkTypeOK, Stacked, TopInv, Top, N, BoundedResources, Depth
  <2>3. CASE ~NameMissing
    <3> DEFINE next == IF "R" \in options THEN Order ELSE <<>>
               f == [Top EXCEPT !.at = "calls", !.todo = next]
    <3>1. next \in Seq(Entry)
      BY <2>1, OrderIsSeq
    <3>2. stack' = Goes(f) /\ crashed' = crashed /\ opened' = opened - 1
      BY <1>9, <2>3 DEF PrintListing, Closed
    <3> HIDE DEF next
    <3>3. f \in FrameType /\ f.of = Top.of /\ f.at = "calls"
      BY <1>a, <2>1, <3>1 DEF FrameType
    <3> HIDE DEF f
    <3>4. /\ stack' \in Seq(FrameType) /\ Len(stack') = Len(stack) /\ Top' = f
          /\ stack' # <<>> /\ Stacked(stack)'
      BY <1>c, <2>1, <3>2, <3>3
    <3>5. opened' = 0
      BY <2>1, <3>2 DEF BoundedResources
    <3>6. TopInv' /\ WalkTypeOK'
      BY <2>1, <3>2, <3>3, <3>4, <3>5 DEF TopInv, WalkTypeOK
    <3>7. BoundedResources'
      BY <2>1, <3>3, <3>4, <3>5 DEF BoundedResources, Depth
    <3> QED
      BY <3>4, <3>6, <3>7
  <2> QED
    BY <2>2, <2>3
<1>10. CASE Return
  <2>1. stack # <<>> /\ Top.at = "calls" /\ stack' = Pop
        /\ UNCHANGED <<input, argv, options, pendingObject, unavaCount, stat, opened, lost, failed, crashed>>
        /\ allocated' = IF Top.of = Main THEN allocated ELSE allocated - 3
    BY <1>10 DEF Return, At, tables, sortvars
  <2>2. opened = 0 /\ allocated = 3 * (Len(stack) - 1) + lost /\ lost \in Nat
    BY <2>1 DEF BoundedResources, Depth, WalkTypeOK
  <2>3. /\ stack' \in Seq(FrameType) /\ Len(stack') = Len(stack) - 1 /\ Stacked(stack)'
        /\ stack' = <<>> <=> Top.of = Main
        /\ stack' # <<>> => Top'.at = "calls" /\ Len(stack) >= 2
        /\ TopInv'
    BY <1>d, <2>1
  <2>4. allocated' = (IF stack' = <<>> THEN 0 ELSE 3 * (Len(stack) - 2)) + lost /\ allocated' \in Nat
    BY <1>0, <1>b, <2>1, <2>2, <2>3
  <2>5. WalkTypeOK'
    BY <2>1, <2>3, <2>4 DEF WalkTypeOK
  <2>6. BoundedResources'
    BY <1>0, <2>1, <2>2, <2>3, <2>4 DEF BoundedResources, Depth
  <2> QED
    BY <2>3, <2>5, <2>6
<1>11. CASE (SortNext /\ UNCHANGED walkvars) \/ UNCHANGED vars
  <2>1. UNCHANGED walkvars /\ UNCHANGED input
    BY <1>11 DEF SortNext, Call, ScanLeft, ScanRight, Swap, Pivot, range, vars, sortvars, walkvars
  <2> QED
    BY <2>1 DEF walkvars, tables, memory, WalkTypeOK, Stacked, TopInv, Top, N, BoundedResources, Depth
<1> QED
  BY <1>1, <1>2, <1>3, <1>4, <1>5, <1>6, <1>7, <1>8, <1>9, <1>10, <1>11 DEF Next, Walk

-----------------------------------------------------------------------------
(* What the frames still have to bring into the listing                    *)

\* A call that has not printed its directory is to bring what that reaches, one that
\* has printed it what the objects reach that it still has to call.
Has(opts, f, d) ==
  IF f.at = "calls" THEN \E k \in 1..Len(f.todo) : Reaches(opts, f.todo[k], d)
  ELSE Reaches(opts, f.of, d)

\* No directory is reached from two of the objects.
Single(opts, f) ==
  f.at = "calls" =>
    \A d \in Directory : \A j, k \in 1..Len(f.todo) :
      Reaches(opts, f.todo[j], d) /\ Reaches(opts, f.todo[k], d) => j = k

\* Above main() no directory is to be brought twice.
Once(opts, s) ==
  /\ \A k \in 1..(Len(s) - 1) : Single(opts, s[k])
  /\ \A d \in Directory : \A j, k \in 1..(Len(s) - 1) : Has(opts, s[j], d) /\ Has(opts, s[k], d) => j = k

Owed(opts, s, d) == \E k \in 1..(Len(s) - 1) : Has(opts, s[k], d)

\* The arguments that main() has still to call.
Rest(s) == IF s = <<>> THEN <<>> ELSE s[Len(s)].todo

\* The running frame changes and is to bring no more than before.
LEMMA TopChanges ==
  ASSUME NEW opts, NEW s \in Seq(FrameType), NEW t \in Seq(FrameType), NEW f,
         Len(s) >= 2, Len(t) = Len(s), t[1] = f, \A k \in 2..Len(s) : t[k] = s[k],
         Once(opts, s), Single(opts, f), \A d \in Directory : Has(opts, f, d) => Has(opts, s[1], d)
  PROVE  /\ Once(opts, t) /\ Rest(t) = Rest(s)
         /\ \A d \in Directory :
              /\ (Has(opts, f, d) <=> Has(opts, s[1], d)) => (Owed(opts, t, d) <=> Owed(opts, s, d))
              /\ Has(opts, s[1], d) /\ ~Has(opts, f, d) => Owed(opts, s, d) /\ ~Owed(opts, t, d)
<1>1. Len(s) \in Nat /\ s # <<>> /\ t # <<>>
  BY EmptySeq, LenProperties
<1>2. \A k \in 1..(Len(s) - 1) : k = 1 \/ k \in 2..Len(s)
  BY <1>1
<1>3. 1 \in 1..(Len(s) - 1) /\ Len(s) \in 2..Len(s)
  BY <1>1
<1>4. \A d \in Directory : \A k \in 1..(Len(s) - 1) : Has(opts, t[k], d) => Has(opts, s[k], d)
  BY <1>2
<1>5. Once(opts, t)
  BY <1>2, <1>4 DEF Once
<1>6. Rest(t) = Rest(s)
  BY <1>1, <1>3 DEF Rest
<1>7. ASSUME NEW d \in Directory, Has(opts, f, d) <=> Has(opts, s[1], d)
      PROVE  Owed(opts, t, d) <=> Owed(opts, s, d)
  <2>1. \A k \in 1..(Len(s) - 1) : Has(opts, t[k], d) <=> Has(opts, s[k], d)
    BY <1>2, <1>7
  <2> QED
    BY <2>1 DEF Owed
<1>8. ASSUME NEW d \in Directory, Has(opts, s[1], d), ~Has(opts, f, d)
      PROVE  Owed(opts, s, d) /\ ~Owed(opts, t, d)
  <2>1. \A k \in 1..(Len(s) - 1) : k # 1 => ~Has(opts, s[k], d)
    BY <1>3, <1>8 DEF Once
  <2>2. \A k \in 1..(Len(s) - 1) : ~Has(opts, t[k], d)
    BY <1>4, <1>8, <2>1
  <2> QED
    BY <1>3, <1>8, <2>2 DEF Owed
<1> QED
  BY <1>5, <1>6, <1>7, <1>8

\* The running call returns.
LEMMA TopReturns ==
  ASSUME NEW opts, NEW s \in Seq(FrameType), NEW t \in Seq(FrameType),
         Len(s) >= 2, Len(t) = Len(s) - 1, \A k \in 1..Len(t) : t[k] = s[k + 1], Once(opts, s)
  PROVE  /\ Once(opts, t) /\ Rest(t) = Rest(s)
         /\ \A d \in Directory : ~Has(opts, s[1], d) => (Owed(opts, t, d) <=> Owed(opts, s, d))
<1>1. Len(s) \in Nat /\ s # <<>> /\ t # <<>>
  BY EmptySeq, LenProperties
<1>2. \A k \in 1..(Len(t) - 1) : k + 1 \in 1..(Len(s) - 1) /\ t[k] = s[k + 1] /\ k \in Int
  BY <1>1
<1>3. Once(opts, t)
  <2>1. \A k \in 1..(Len(t) - 1) : Single(opts, t[k])
    BY <1>2 DEF Once
  <2>2. ASSUME NEW d \in Directory, NEW j \in 1..(Len(t) - 1), NEW k \in 1..(Len(t) - 1),
               Has(opts, t[j], d), Has(opts, t[k], d)
        PROVE  j = k
    <3>1. j + 1 = k + 1
      BY <1>2, <2>2 DEF Once
    <3> QED
      BY <1>2, <3>1
  <2> QED
    BY <2>1, <2>2 DEF Once
<1>4. Rest(t) = Rest(s)
  <2>1. Len(t) \in 1..Len(t) /\ Len(t) + 1 = Len(s)
    BY <1>1
  <2>2. t[Len(t)] = s[Len(t) + 1]
    BY <2>1
  <2> QED
    BY <1>1, <2>1, <2>2 DEF Rest
<1>5. ASSUME NEW d \in Directory, ~Has(opts, s[1], d)
      PROVE  Owed(opts, t, d) <=> Owed(opts, s, d)
  <2>1. ASSUME NEW k \in 1..(Len(s) - 1), Has(opts, s[k], d)
        PROVE  \E j \in 1..(Len(t) - 1) : Has(opts, t[j], d)
    <3>1. k # 1
      BY <1>5, <2>1
    <3>2. k - 1 \in 1..(Len(t) - 1) /\ k - 1 \in 1..Len(t) /\ (k - 1) + 1 = k
      BY <1>1, <3>1
    <3>3. t[k - 1] = s[(k - 1) + 1]
      BY <3>2
    <3> QED
      BY <2>1, <3>2, <3>3
  <2>2. Owed(opts, t, d) => Owed(opts, s, d)
    BY <1>2 DEF Owed
  <2> QED
    BY <2>1, <2>2 DEF Owed
<1> QED
  BY <1>3, <1>4, <1>5

\* The running frame f becomes rest and calls; g and rest share what f had to bring.
LEMMA TopCalls ==
  ASSUME NEW opts, NEW s \in Seq(FrameType), NEW t \in Seq(FrameType), NEW g, NEW rest,
         Len(s) >= 1, Len(t) = Len(s) + 1, t[1] = g, t[2] = rest, \A k \in 3..Len(t) : t[k] = s[k - 1],
         Once(opts, s), Single(opts, g),
         Len(s) >= 2 =>
           /\ Single(opts, rest)
           /\ \A d \in Directory : /\ Has(opts, s[1], d) <=> Has(opts, g, d) \/ Has(opts, rest, d)
                                   /\ ~(Has(opts, g, d) /\ Has(opts, rest, d))
  PROVE  /\ Once(opts, t)
         /\ Len(s) >= 2 => /\ Rest(t) = Rest(s)
                           /\ \A d \in Directory : Owed(opts, t, d) <=> Owed(opts, s, d)
         /\ Len(s) = 1 => /\ Rest(t) = rest.todo
                          /\ \A d \in Directory : ~Owed(opts, s, d) /\ (Owed(opts, t, d) <=> Has(opts, g, d))
<1>1. Len(s) \in Nat /\ s # <<>> /\ t # <<>> /\ Len(t) - 1 = Len(s)
  BY EmptySeq, LenProperties
<1>2. CASE Len(s) = 1
  <2>1. \A k \in 1..(Len(t) - 1) : k = 1
    BY <1>1, <1>2
  <2>2. 1 \in 1..(Len(t) - 1) /\ Len(t) = 2 /\ ~(Len(s) >= 2)
    BY <1>1, <1>2
  <2>3. ~\E k \in 1..(Len(s) - 1) : TRUE
    BY <1>2
  <2>4. Once(opts, t)
    BY <2>1 DEF Once
  <2>5. Rest(t) = rest.todo
    BY <1>1, <2>2 DEF Rest
  <2>6. \A d \in Directory : ~Owed(opts, s, d) /\ (Owed(opts, t, d) <=> Has(opts, g, d))
    BY <2>1, <2>2, <2>3 DEF Owed
  <2> QED
    BY <2>2, <2>4, <2>5, <2>6
<1>3. CASE Len(s) >= 2
  <2>1. ASSUME NEW k \in 1..(Len(t) - 1)
        PROVE  k = 1 \/ k = 2 \/ (k \in 3..Len(t) /\ k - 1 \in 2..(Len(s) - 1) /\ k - 1 \in 1..(Len(s) - 1))
    BY <1>1
  <2>2. 1 \in 1..(Len(s) - 1) /\ 1 \in 1..(Len(t) - 1) /\ 2 \in 1..(Len(t) - 1)
    BY <1>1, <1>3
  <2>3. ASSUME NEW k \in 1..(Len(t) - 1) PROVE Single(opts, t[k])
    BY <1>3, <2>1 DEF Once
  \* The place in s that stands for a place in t.
  <2> DEFINE old(k) == IF k <= 2 THEN 1 ELSE k - 1
  <2>4. ASSUME NEW k \in 1..(Len(t) - 1), NEW d \in Directory, Has(opts, t[k], d)
        PROVE  old(k) \in 1..(Len(s) - 1) /\ Has(opts, s[old(k)], d)
    <3>1. CASE k = 1 \/ k = 2
      BY <1>3, <2>2, <2>4, <3>1
    <3>2. CASE k # 1 /\ k # 2
      BY <2>1, <2>4, <3>2
    <3> QED
      BY <3>1, <3>2
  <2>5. ASSUME NEW d \in Directory, NEW j \in 1..(Len(t) - 1), NEW k \in 1..(Len(t) - 1),
               Has(opts, t[j], d), Has(opts, t[k], d)
        PROVE  j = k
    <3>1. old(j) = old(k)
      BY <2>4, <2>5 DEF Once
    <3>2. ~(Has(opts, t[1], d) /\ Has(opts, t[2], d))
      BY <1>3
    <3>3. j \in Int /\ k \in Int /\ j >= 1 /\ k >= 1
      OBVIOUS
    <3>4. CASE j <= 2 /\ k <= 2
      BY <2>5, <3>2, <3>3, <3>4
    <3>5. CASE j > 2 \/ k > 2
      BY <3>1, <3>3, <3>5
    <3> QED
      BY <3>3, <3>4, <3>5
  <2>6. Once(opts, t)
    BY <2>3, <2>5 DEF Once
  <2>7. Rest(t) = Rest(s)
    <3>1. Len(t) \in 3..Len(t) /\ Len(t) - 1 = Len(s)
      BY <1>1, <1>3
    <3>2. t[Len(t)] = s[Len(t) - 1]
      BY <3>1
    <3> QED
      BY <1>1, <3>1, <3>2 DEF Rest
  <2>8. ASSUME NEW d \in Directory PROVE Owed(opts, t, d) <=> Owed(opts, s, d)
    <3>1. Owed(opts, t, d) => Owed(opts, s, d)
      BY <2>4 DEF Owed
    <3>2. ASSUME NEW k \in 1..(Len(s) - 1), Has(opts, s[k], d) PROVE Owed(opts, t, d)
      <4>1. CASE k = 1
        <5>1. Has(opts, t[1], d) \/ Has(opts, t[2], d)
          BY <1>3, <3>2, <4>1
        <5> QED
          BY <2>2, <5>1 DEF Owed
      <4>2. CASE k # 1
        <5>1. k + 1 \in 3..Len(t) /\ k + 1 \in 1..(Len(t) - 1) /\ (k + 1) - 1 = k
          BY <1>1, <4>2
        <5>2. t[k + 1] = s[(k + 1) - 1]
          BY <5>1
        <5> QED
          BY <3>2, <5>1, <5>2 DEF Owed
      <4> QED
        BY <4>1, <4>2
    <3> QED
      BY <3>1, <3>2 DEF Owed
  <2> QED
    BY <1>3, <2>6, <2>7, <2>8
<1> QED
  BY <1>1, <1>2, <1>3

\* The first object of a frame apart from the others.
LEMMA FirstApart ==
  ASSUME NEW opts, NEW f \in FrameType, NEW g, f.at = "calls", g.at = "calls",
         f.todo # <<>>, g.todo = Tail(f.todo)
  PROVE  /\ \A d \in Directory : Has(opts, f, d) <=> Reaches(opts, Head(f.todo), d) \/ Has(opts, g, d)
         /\ Single(opts, f) =>
              /\ Single(opts, g)
              /\ \A d \in Directory : ~(Reaches(opts, Head(f.todo), d) /\ Has(opts, g, d))
<1>1. f.todo \in Seq(Entry)
  BY DEF FrameType
<1>2. Len(f.todo) \in Nat /\ Len(f.todo) >= 1 /\ Len(g.todo) = Len(f.todo) - 1 /\ Head(f.todo) = f.todo[1]
      /\ \A k \in 1..Len(g.todo) : g.todo[k] = f.todo[k + 1]
  BY <1>1, LenProperties, EmptySeq, HeadTailProperties
<1>3. \A k \in 1..Len(g.todo) : k + 1 \in 1..Len(f.todo) /\ k + 1 # 1 /\ k \in Int
  BY <1>2
<1>4. 1 \in 1..Len(f.todo)
  BY <1>2
<1>5. ASSUME NEW k \in 1..Len(f.todo), k # 1
      PROVE  \E j \in 1..Len(g.todo) : g.todo[j] = f.todo[k]
  <2>1. k - 1 \in 1..Len(g.todo) /\ (k - 1) + 1 = k
    BY <1>2, <1>5
  <2>2. g.todo[k - 1] = f.todo[(k - 1) + 1]
    BY <1>2, <2>1
  <2> QED
    BY <2>1, <2>2
<1>6. ASSUME NEW d \in Directory
      PROVE  Has(opts, f, d) <=> Reaches(opts, Head(f.todo), d) \/ Has(opts, g, d)
  <2>1. Has(opts, f, d) => Reaches(opts, Head(f.todo), d) \/ Has(opts, g, d)
    BY <1>2, <1>5 DEF Has
  <2>2. Reaches(opts, Head(f.todo), d) => Has(opts, f, d)
    BY <1>2, <1>4 DEF Has
  <2>3. Has(opts, g, d) => Has(opts, f, d)
    BY <1>2, <1>3 DEF Has
  <2> QED
    BY <2>1, <2>2, <2>3
<1>7. ASSUME Single(opts, f) PROVE Single(opts, g)
  <2>1. ASSUME NEW d \in Directory, NEW j \in 1..Len(g.todo), NEW k \in 1..Len(g.todo),
               Reaches(opts, g.todo[j], d), Reaches(opts, g.todo[k], d)
        PROVE  j = k
    <3>1. j + 1 = k + 1
      BY <1>2, <1>3, <1>7, <2>1 DEF Single
    <3> QED
      BY <1>3, <3>1
  <2> QED
    BY <2>1 DEF Single
<1>8. ASSUME Single(opts, f), NEW d \in Directory, Reaches(opts, Head(f.todo), d), Has(opts, g, d) PROVE FALSE
  <2>1. PICK k \in 1..Len(g.todo) : Reaches(opts, g.todo[k], d)
    BY <1>8 DEF Has
  <2>2. Reaches(opts, f.todo[k + 1], d) /\ Reaches(opts, f.todo[1], d)
    BY <1>2, <1>8, <2>1
  <2> QED
    BY <1>3, <1>4, <1>8, <2>2 DEF Single
<1> QED
  BY <1>6, <1>7, <1>8

-----------------------------------------------------------------------------
(* What a call reads and prints                                            *)

\* While a directory is read, what is wanted of it is found or still to be read, and
\* nothing twice.
Gathers(opts, f) ==
  /\ f.of \notin Locked
  /\ Distinct(f.entries) /\ Distinct(f.todo)
  /\ \A e \in Entry :
       /\ In(e, f.entries) \/ (In(e, f.todo) /\ Wanted(opts, e)) <=> e \in KidsOf(f.of) /\ Wanted(opts, e)
       /\ ~(In(e, f.entries) /\ In(e, f.todo))

LEMMA InTail ==
  ASSUME NEW S, NEW s \in Seq(S), s # <<>>
  PROVE  /\ Head(s) \in S /\ Tail(s) \in Seq(S)
         /\ \A e : In(e, s) <=> e = Head(s) \/ In(e, Tail(s))
         /\ Distinct(s) => Distinct(Tail(s)) /\ ~In(Head(s), Tail(s))
<1>1. Len(s) \in Nat /\ Len(s) >= 1 /\ Len(Tail(s)) = Len(s) - 1 /\ Head(s) = s[1]
      /\ \A k \in 1..Len(Tail(s)) : Tail(s)[k] = s[k + 1]
  BY LenProperties, EmptySeq, HeadTailProperties
<1>2. \A k \in 1..Len(Tail(s)) : k + 1 \in 1..Len(s) /\ k + 1 # 1 /\ k \in Int
  BY <1>1
<1>3. 1 \in 1..Len(s) /\ Head(s) \in S /\ Tail(s) \in Seq(S)
  BY <1>1, HeadTailProperties
<1>4. ASSUME NEW k \in 1..Len(s), k # 1
      PROVE  \E j \in 1..Len(Tail(s)) : Tail(s)[j] = s[k]
  <2>1. k - 1 \in 1..Len(Tail(s)) /\ (k - 1) + 1 = k
    BY <1>1, <1>4
  <2>2. Tail(s)[k - 1] = s[(k - 1) + 1]
    BY <1>1, <2>1
  <2> QED
    BY <2>1, <2>2
<1>5. ASSUME NEW e PROVE In(e, s) <=> e = Head(s) \/ In(e, Tail(s))
  <2>1. In(e, s) => e = Head(s) \/ In(e, Tail(s))
    BY <1>1, <1>4 DEF In
  <2>2. e = Head(s) => In(e, s)
    BY <1>1, <1>3 DEF In
  <2>3. In(e, Tail(s)) => In(e, s)
    BY <1>1, <1>2 DEF In
  <2> QED
    BY <2>1, <2>2, <2>3
<1>6. ASSUME Distinct(s) PROVE Distinct(Tail(s))
  <2>1. ASSUME NEW j \in 1..Len(Tail(s)), NEW k \in 1..Len(Tail(s)), Tail(s)[j] = Tail(s)[k]
        PROVE  j = k
    <3>1. j + 1 = k + 1
      BY <1>1, <1>2, <1>6, <2>1 DEF Distinct
    <3> QED
      BY <1>2, <3>1
  <2> QED
    BY <2>1 DEF Distinct
<1>7. ASSUME Distinct(s), In(Head(s), Tail(s)) PROVE FALSE
  <2>1. PICK k \in 1..Len(Tail(s)) : Tail(s)[k] = Head(s)
    BY <1>7 DEF In
  <2>2. s[k + 1] = s[1]
    BY <1>1, <2>1
  <2> QED
    BY <1>2, <1>3, <1>7, <2>2 DEF Distinct
<1> QED
  BY <1>3, <1>5, <1>6, <1>7

LEMMA InAppend ==
  ASSUME NEW S, NEW s \in Seq(S), NEW x \in S
  PROVE  /\ \A e : In(e, Append(s, x)) <=> In(e, s) \/ e = x
         /\ Distinct(s) /\ ~In(x, s) => Distinct(Append(s, x))
<1> DEFINE t == Append(s, x)
<1>1. Len(s) \in Nat /\ Len(t) = Len(s) + 1 /\ t[Len(s) + 1] = x /\ \A k \in 1..Len(s) : t[k] = s[k]
  BY LenProperties, AppendProperties
<1> HIDE DEF t
<1>2. \A k \in 1..Len(t) : k \in 1..Len(s) \/ k = Len(s) + 1
  BY <1>1
<1>3. \A k \in 1..Len(s) : k \in 1..Len(t)
  BY <1>1
<1>4. Len(s) + 1 \in 1..Len(t)
  BY <1>1
<1>5. ASSUME NEW e PROVE In(e, t) <=> In(e, s) \/ e = x
  BY <1>1, <1>2, <1>3, <1>4 DEF In
<1>6. Distinct(s) /\ ~In(x, s) => Distinct(t)
  BY <1>1, <1>2 DEF Distinct, In
<1> QED
  BY <1>5, <1>6 DEF t

\* readdir() gives a hidden entry that is passed over, or one that is kept.
LEMMA ReadGathers ==
  ASSUME NEW opts, NEW f \in FrameType, NEW g, f.todo # <<>>, Gathers(opts, f), g.of = f.of,
         g.todo = Tail(f.todo),
         g.entries = IF Wanted(opts, Head(f.todo)) THEN Append(f.entries, Head(f.todo)) ELSE f.entries
  PROVE  Gathers(opts, g)
<1> DEFINE x == Head(f.todo)
<1>1. f.todo \in Seq(Entry) /\ f.entries \in Seq(Entry)
  BY DEF FrameType
<1>2. /\ x \in Entry /\ \A e : In(e, f.todo) <=> e = x \/ In(e, g.todo)
      /\ Distinct(g.todo) /\ ~In(x, g.todo)
  BY <1>1, InTail DEF Gathers
<1>3. ~In(x, f.entries)
  BY <1>2 DEF Gathers
<1> HIDE DEF x
<1>4. CASE Wanted(opts, x)
  <2>1. g.entries = Append(f.entries, x)
    BY <1>4 DEF x
  <2>2. Distinct(g.entries) /\ \A e : In(e, g.entries) <=> In(e, f.entries) \/ e = x
    <3>1. Distinct(f.entries)
      BY DEF Gathers
    <3> QED
      <4>1. /\ Distinct(Append(f.entries, x))
            /\ \A e : In(e, Append(f.entries, x)) <=> In(e, f.entries) \/ e = x
        BY <1>1, <1>2, <1>3, <3>1, InAppend
      <4> QED
        BY <2>1, <4>1
  <2> QED
    BY <1>2, <1>4, <2>2 DEF Gathers
<1>5. CASE ~Wanted(opts, x)
  <2>1. g.entries = f.entries
    BY <1>5 DEF x
  <2> QED
    BY <1>2, <1>5, <2>1 DEF Gathers
<1> QED
  BY <1>4, <1>5

LEMMA OpenGathers ==
  ASSUME NEW opts, NEW f, f.of \in Directory \ Locked, f.entries = <<>>, f.todo = Kids[f.of]
  PROVE  Gathers(opts, f)
<1>1. Distinct(f.todo)
  BY TreeAssumption DEF Distinct
<1>2. \A e : In(e, f.todo) <=> e \in KidsOf(f.of)
  BY DEF In, KidsOf
<1>3. Distinct(f.entries) /\ \A e : ~In(e, f.entries)
  BY DEF Distinct, In
<1> QED
  BY <1>1, <1>2, <1>3 DEF Gathers

\* Another order repeats nothing either.
LEMMA DistinctReordered ==
  ASSUME NEW es, Distinct(es), NEW p, NEW n, n = Len(es), \A j, k \in 1..n : p[j] = p[k] => j = k,
         NEW t, Len(t) = n, \A k \in 1..n : t[k] = es[p[k]] /\ p[k] \in 1..n
  PROVE  Distinct(t)
<1>1. ASSUME NEW j \in 1..n, NEW k \in 1..n, t[j] = t[k] PROVE j = k
  <2>1. PICK a \in 1..n : a = p[j]
    OBVIOUS
  <2>2. PICK b \in 1..n : b = p[k]
    OBVIOUS
  <2>3. es[a] = es[b]
    BY <1>1, <2>1, <2>2
  <2>4. a = b
    BY <2>3 DEF Distinct
  <2> QED
    BY <2>1, <2>2, <2>4
<1> QED
  BY <1>1 DEF Distinct

\* t has every wanted entry of d once, and nothing else.
Whole(opts, d, t) == Distinct(t) /\ \A e : In(e, t) <=> e \in KidsOf(d) /\ Wanted(opts, e)

\* In whatever order the indices end, each wanted entry is shown once.
LEMMA OrderShows ==
  ASSUME NEW opts, NEW d \in Directory, NEW es \in Seq(Entry), Distinct(es),
         \A e \in Entry : In(e, es) <=> e \in KidsOf(d) /\ Wanted(opts, e),
         NEW t \in Seq(Entry), Reorders(t, es)
  PROVE  Shows(opts, d, t) /\ Whole(opts, d, t)
<1> DEFINE visible == {e \in KidsOf(d) : Wanted(opts, e)}
           n == Len(es)
<1>0. n \in Nat /\ Len(t) = n
  BY LenProperties DEF Reorders
<1>a. PICK p \in [1..n -> 1..n] :
        /\ \A e \in 1..n : \E k \in 1..n : p[k] = e
        /\ \A k \in 1..n : t[k] = es[p[k]]
  BY DEF Reorders
<1>1. KidsOf(d) \subseteq Entry
  <2>1. Kids[d] \in Seq(Entry)
    BY TreeAssumption
  <2> QED
    BY <2>1, ElementOfSeq DEF KidsOf
<1>2. Len(t) = n /\ \A k \in 1..n : t[k] = es[p[k]] /\ p[k] \in 1..n
  BY <1>0, <1>a
<1>3. \A e : In(e, t) <=> In(e, es)
  <2>1. ASSUME NEW e, In(e, es) PROVE In(e, t)
    <3>1. PICK j \in 1..n : es[j] = e
      BY <2>1 DEF In
    <3>2. PICK k \in 1..n : p[k] = j
      BY <1>a, <3>1
    <3> QED
      BY <1>2, <3>1, <3>2 DEF In
  <2>2. ASSUME NEW e, In(e, t) PROVE In(e, es)
    BY <1>2, <2>2 DEF In
  <2> QED
    BY <2>1, <2>2
<1>4. \A e : In(e, es) => e \in Entry
  BY ElementOfSeq DEF In
<1>5. \A e : In(e, t) <=> e \in KidsOf(d) /\ Wanted(opts, e)
  BY <1>1, <1>3, <1>4
<1>6. \A j, k \in 1..n : p[j] = p[k] => j = k
  BY <1>0, <1>a, OntoIsOneToOne
<1>7. Distinct(t)
  <2>1. Len(t) = n /\ \A k \in 1..n : t[k] = es[p[k]] /\ p[k] \in 1..n
    BY <1>2
  <2> QED
    <3>1. Distinct(es) /\ n = Len(es)
      OBVIOUS
    <3>2. ASSUME NEW u, Len(u) = n, \A k \in 1..n : u[k] = es[p[k]] /\ p[k] \in 1..n
          PROVE  Distinct(u)
      BY <1>6, <3>1, <3>2, DistinctReordered
    <3> QED
      BY <2>1, <3>2
<1>8. {t[k] : k \in 1..Len(t)} = visible
  <2>1. \A e : e \in {t[k] : k \in 1..Len(t)} <=> In(e, t)
    BY DEF In
  <2> QED
    BY <1>5, <2>1
<1>9. Cardinality(visible) = Len(t)
  <2> HIDE DEF visible
  <2>1. Cardinality({t[k] : k \in 1..Len(t)}) = Len(t)
    BY <1>7, DistinctCounts, Zenon
  <2> QED
    BY <1>8, <2>1
<1> QED
  BY <1>5, <1>7, <1>8, <1>9 DEF Shows, Whole

\* A call that prints its directory keeps to itself what lies below.
LEMMA PrintBrings ==
  ASSUME NEW opts, NEW d \in Directory, d \notin Locked, NEW t, Whole(opts, d, t),
         NEW f, f.at = "calls", f.todo = IF "R" \in opts THEN t ELSE <<>>,
         NEW g, g.at # "calls", g.of = d
  PROVE  /\ Single(opts, f) /\ Has(opts, g, d) /\ ~Has(opts, f, d)
         /\ \A x \in Directory : x # d => (Has(opts, f, x) <=> Has(opts, g, x))
<1>1. \A x \in Directory : Has(opts, g, x) <=> x \in Reached(opts, d)
  BY DEF Has, Reaches
<1>2. CASE "R" \notin opts
  <2>1. \A x : ~Has(opts, f, x)
    BY <1>2 DEF Has
  <2>2. Single(opts, f)
    BY <1>2 DEF Single
  <2>3. \A x : x \in Reached(opts, d) <=> x = d
    BY <1>2, ReachedAlone
  <2> QED
    BY <1>1, <2>1, <2>2, <2>3
<1>3. CASE "R" \in opts
  <2>1. \A k \in 1..Len(t) : In(t[k], t)
    BY DEF In
  <2>2. \A e \in Directory : In(e, t) <=> e \in Subdirs(opts, d)
    BY DEF Subdirs, Whole
  <2>3. ASSUME NEW x \in Directory
        PROVE  Has(opts, f, x) <=> \E e \in Subdirs(opts, d) : x \in Reached(opts, e)
    <3>1. Has(opts, f, x) <=> \E k \in 1..Len(t) : Reaches(opts, t[k], x)
      BY <1>3 DEF Has
    <3>2. ASSUME NEW k \in 1..Len(t), Reaches(opts, t[k], x)
          PROVE  \E e \in Subdirs(opts, d) : x \in Reached(opts, e)
      BY <2>1, <2>2, <3>2 DEF Reaches
    <3>3. ASSUME NEW e \in Subdirs(opts, d), x \in Reached(opts, e)
          PROVE  \E k \in 1..Len(t) : Reaches(opts, t[k], x)
      <4>1. e \in Directory
        BY DEF Subdirs
      <4>2. PICK k \in 1..Len(t) : t[k] = e
        BY <2>2, <4>1 DEF In
      <4> QED
        BY <3>3, <4>1, <4>2 DEF Reaches
    <3> QED
      BY <3>1, <3>2, <3>3
  <2>4. ASSUME NEW x \in Directory, NEW j \in 1..Len(t), NEW k \in 1..Len(t),
               Reaches(opts, t[j], x), Reaches(opts, t[k], x)
        PROVE  j = k
    <3>1. t[j] \in Subdirs(opts, d) /\ t[k] \in Subdirs(opts, d) /\ x \in Reached(opts, t[j]) /\ x \in Reached(opts, t[k])
      BY <2>1, <2>2, <2>4 DEF Reaches
    <3>2. t[j] = t[k]
      BY <1>3, <3>1, ReachedUnfolds
    <3> QED
      BY <3>2 DEF Distinct, Whole
  <2>5. Single(opts, f)
    BY <1>3, <2>4 DEF Single
  <2>6. ASSUME NEW x \in Directory
        PROVE  x \in Reached(opts, d) <=> x = d \/ \E e \in Subdirs(opts, d) : x \in Reached(opts, e)
    BY <1>3, ReachedUnfolds
  <2>7. ~Has(opts, f, d)
    BY <1>3, <2>3, ReachedUnfolds
  <2> QED
    BY <1>1, <2>3, <2>5, <2>6, <2>7
<1> QED
  BY <1>2, <1>3

-----------------------------------------------------------------------------
(* The account of what is listed                                           *)

Printed(ls, d) == Cardinality({k \in 1..Len(ls) : ls[k].of = d})

Shown == [of : Directory, entries : Seq(Entry)]

LEMMA PrintedIsNat ==
  ASSUME NEW S, NEW ls \in Seq(S), NEW d
  PROVE  Printed(ls, d) \in Nat /\ (ls = <<>> => Printed(ls, d) = 0)
<1> DEFINE A == {k \in 1..Len(ls) : ls[k].of = d}
<1>1. Len(ls) \in Nat /\ A \in SUBSET (1..Len(ls))
  BY LenProperties
<1>2. ls = <<>> => A = {}
  OBVIOUS
<1> HIDE DEF A
<1>3. Cardinality(A) \in Nat /\ (ls = <<>> => Cardinality(A) = 0)
  BY <1>1, <1>2, SomeOf, FS_EmptySet
<1> QED
  BY <1>3 DEF Printed, A

LEMMA PrintedAppend ==
  ASSUME NEW S, NEW ls \in Seq(S), NEW x \in S, NEW d
  PROVE  Printed(Append(ls, x), d) = Printed(ls, d) + (IF x.of = d THEN 1 ELSE 0)
<1> DEFINE A == {k \in 1..Len(ls) : ls[k].of = d}
           t == Append(ls, x)
           B == {k \in 1..Len(t) : t[k].of = d}
           n == Len(ls) + 1
<1>1. Len(ls) \in Nat /\ Len(t) = n /\ t[n] = x /\ \A k \in 1..Len(ls) : t[k] = ls[k]
  BY LenProperties, AppendProperties
<1> HIDE DEF t
<1>2. A \in SUBSET (1..Len(ls)) /\ n \notin A
  BY <1>1
<1>3. B = IF x.of = d THEN A \cup {n} ELSE A
  <2>1. \A k : k \in 1..Len(t) <=> k \in 1..Len(ls) \/ k = n
    BY <1>1
  <2>2. \A k \in 1..Len(ls) : k # n
    BY <1>1
  <2> QED
    BY <1>1, <2>1, <2>2
<1> HIDE DEF A, B
<1>4. IsFiniteSet(A) /\ Cardinality(A) \in Nat
  BY <1>1, <1>2, SomeOf
<1>5. Cardinality(A \cup {n}) = Cardinality(A) + 1
  BY <1>2, <1>4, FS_AddElement
<1>6. Cardinality(B) = Cardinality(A) + (IF x.of = d THEN 1 ELSE 0)
  BY <1>3, <1>4, <1>5
<1>7. Printed(ls, d) = Cardinality(A) /\ Printed(t, d) = Cardinality(B)
  BY DEF Printed, A, B
<1> QED
  BY <1>6, <1>7 DEF t

-----------------------------------------------------------------------------
(* The listing                                                             *)

\* Before main() calls printIdxObj() nothing is listed.
Early == stack # <<>> /\ Top.at \in {"args", "sorted"} /\ Top.of = Main

Gathered ==
  stack # <<>> /\ Top.of # Main =>
    /\ Top.at = "open" => Top.entries = <<>>
    /\ Top.at \in {"read", "sorted"} => Gathers(options, Top)
    /\ Top.at = "sorted" => Top.todo = <<>>

\* What was printed of a directory, what a frame owes of it and what the arguments
\* not called yet will bring make up what the arguments are to bring.
Balance(opts, ls, s, p) ==
  \A d \in Directory :
    Printed(ls, d) + (IF Owed(opts, s, d) THEN 1 ELSE 0) + Count(opts, Rest(s), d) = Count(opts, p, d)

Account ==
  IF Early THEN listed = <<>> /\ (Top.at = "sorted" => Top.entries = pendingObject)
  ELSE ~failed => Balance(options, listed, stack, pendingObject)

ListInv == listed \in Seq(Shown) /\ ShownWhole /\ Once(options, stack) /\ Gathered /\ Account

\* Balance looks at nothing but what is printed, owed and still to be called.
LEMMA BalanceKept ==
  ASSUME NEW opts, NEW ls, NEW s, NEW t, NEW p, Balance(opts, ls, s, p), Rest(t) = Rest(s),
         \A d \in Directory : Owed(opts, t, d) <=> Owed(opts, s, d)
  PROVE  Balance(opts, ls, t, p)
BY DEF Balance

\* A running frame above main() is a directory's.
LEMMA RunningFrame ==
  ASSUME FrameInv, stack # <<>>
  PROVE  /\ stack \in Seq(FrameType) /\ Len(stack) \in Nat /\ Len(stack) >= 1 /\ Top = stack[1]
         /\ Top \in FrameType /\ Top.entries \in Seq(Entry) /\ Top.todo \in Seq(Entry)
         /\ Top.of # Main => Len(stack) >= 2 /\ Top.of \in Directory
         /\ Top.of = Main => Len(stack) = 1
<1>1. stack \in Seq(FrameType) /\ Len(stack) \in Nat /\ Len(stack) >= 1
  BY EmptySeq, LenProperties DEF FrameInv, WalkTypeOK
<1>2. stack[1] \in FrameType
  BY <1>1, ElementOfSeq
<1>3. Top = stack[1] /\ Top.entries \in Seq(Entry) /\ Top.todo \in Seq(Entry) /\ Top.of \in Directory \cup {Main}
  BY <1>2 DEF Top, FrameType
<1>4. Top.of = Main <=> 1 = Len(stack)
  BY BottomIsMain DEF FrameInv
<1>5. Top.of # Main => Len(stack) >= 2
  BY <1>1, <1>4, TwoOrMore
<1> QED
  BY <1>1, <1>2, <1>3, <1>4, <1>5

\* A call goes on reading, or sorts what it has read.
LEMMA Stays ==
  ASSUME FrameInv, ListInv, stack # <<>>, Top.of # Main, Top.at # "calls",
         NEW f \in FrameType, f.of = Top.of, f.at \in {"read", "sorted"}, stack' = Goes(f),
         Gathers(options, f), f.at = "sorted" => f.todo = <<>>,
         UNCHANGED <<options, pendingObject, listed, failed>>
  PROVE  ListInv'
<1>1. stack \in Seq(FrameType) /\ Len(stack) >= 2 /\ Top = stack[1] /\ Len(stack) \in Nat
  BY RunningFrame
<1>2. /\ stack' \in Seq(FrameType) /\ Len(stack') = Len(stack) /\ stack'[1] = f /\ stack' # <<>>
      /\ \A k \in 2..Len(stack) : stack'[k] = stack[k]
  BY GoesOn DEF FrameInv
<1>3. Single(options, f) /\ \A d \in Directory : Has(options, f, d) <=> Has(options, Top, d)
  BY DEF Single, Has
<1>4. Once(options, stack)
  BY DEF ListInv
<1>5. /\ Once(options, stack') /\ Rest(stack') = Rest(stack)
      /\ \A d \in Directory : Owed(options, stack', d) <=> Owed(options, stack, d)
  BY <1>1, <1>2, <1>3, <1>4, TopChanges
<1>6. Top' = f /\ ~Early /\ ~Early'
  BY <1>2 DEF Top, Early
<1>7. ~failed => Balance(options, listed, stack, pendingObject)
  BY <1>6 DEF ListInv, Account
<1>8. ~failed => Balance(options, listed, stack', pendingObject)
  BY <1>5, <1>7, BalanceKept
<1>9. Account'
  BY <1>6, <1>8 DEF Account
<1>10. Gathered'
  BY <1>6 DEF Gathered
<1>11. ShownWhole'
  BY DEF ListInv, ShownWhole
<1> QED
  BY <1>5, <1>9, <1>10, <1>11 DEF ListInv

\* A call that has nothing to bring returns, or one that had not enough memory.
LEMMA Leaves ==
  ASSUME FrameInv, ListInv, stack # <<>>, Top.of # Main, stack' = Pop,
         UNCHANGED <<options, pendingObject, listed>>,
         failed' \/ (failed' = failed /\ \A d \in Directory : ~Has(options, Top, d))
  PROVE  ListInv'
<1>1. stack \in Seq(FrameType) /\ Len(stack) >= 2 /\ Top = stack[1] /\ Len(stack) \in Nat
  BY RunningFrame
<1>2. /\ stack' \in Seq(FrameType) /\ Len(stack') = Len(stack) - 1 /\ stack' # <<>> /\ stack'[1].at = "calls"
      /\ \A k \in 1..Len(stack') : stack'[k] = stack[k + 1]
  BY Returns DEF FrameInv
<1>3. Once(options, stack)
  BY DEF ListInv
<1>4. /\ Once(options, stack') /\ Rest(stack') = Rest(stack)
      /\ \A d \in Directory : ~Has(options, Top, d) => (Owed(options, stack', d) <=> Owed(options, stack, d))
  BY <1>1, <1>2, <1>3, TopReturns
<1>5. Top'.at = "calls" /\ ~Early /\ ~Early'
  BY <1>2 DEF Top, Early
<1>6. ~failed => Balance(options, listed, stack, pendingObject)
  BY <1>5 DEF ListInv, Account
<1>7. ASSUME ~failed' PROVE Balance(options, listed, stack', pendingObject)
  <2>1. \A d \in Directory : Owed(options, stack', d) <=> Owed(options, stack, d)
    BY <1>4, <1>7
  <2>2. Balance(options, listed, stack, pendingObject)
    BY <1>6, <1>7
  <2> QED
    BY <1>4, <2>1, <2>2, BalanceKept
<1>8. Account'
  BY <1>5, <1>7 DEF Account
<1>9. Gathered'
  BY <1>5 DEF Gathered
<1>10. ShownWhole'
  BY DEF ListInv, ShownWhole
<1> QED
  BY <1>4, <1>8, <1>9, <1>10 DEF ListInv

\* A frame calls printIdxObj() for its first object, which takes over what it brings.
LEMMA CallsStep ==
  ASSUME FrameInv, ListInv, Calls
  PROVE  ListInv'
<1> DEFINE rest == [Top EXCEPT !.todo = Tail(@)]
           e == Head(Top.todo)
<1>1. /\ stack # <<>> /\ Top.at = "calls" /\ Top.todo # <<>>
      /\ UNCHANGED <<options, pendingObject, listed, failed>>
      /\ stack' = IF e \in Directory THEN Pushed(e, rest) ELSE Goes(rest)
  BY DEF Calls, At, tables, memory, Pushed
<1>2. /\ stack \in Seq(FrameType) /\ Len(stack) \in Nat /\ Len(stack) >= 1 /\ Top = stack[1]
      /\ Top \in FrameType /\ Top.todo \in Seq(Entry)
      /\ Top.of # Main => Len(stack) >= 2
      /\ Top.of = Main => Len(stack) = 1
  BY <1>1, RunningFrame
<1>3. rest \in FrameType /\ rest.of = Top.of /\ rest.at = "calls" /\ rest.todo = Tail(Top.todo)
  <2>1. Tail(Top.todo) \in Seq(Entry)
    BY <1>1, <1>2, HeadTailProperties
  <2> QED
    BY <1>1, <1>2, <2>1 DEF FrameType
<1> HIDE DEF rest, e
<1>4. /\ \A d \in Directory : Has(options, Top, d) <=> Reaches(options, e, d) \/ Has(options, rest, d)
      /\ Single(options, Top) =>
           /\ Single(options, rest)
           /\ \A d \in Directory : ~(Reaches(options, e, d) /\ Has(options, rest, d))
  BY <1>1, <1>2, <1>3, FirstApart DEF e
<1>5. Once(options, stack)
  BY DEF ListInv
<1>6. Len(stack) >= 2 => Single(options, Top)
  <2>1. Len(stack) >= 2 => 1 \in 1..(Len(stack) - 1)
    BY <1>2
  <2> QED
    BY <1>2, <1>5, <2>1 DEF Once
<1>7. Rest(stack) = stack[Len(stack)].todo
  BY <1>1 DEF Rest
<1>8. \A d \in Directory :
        Count(options, Top.todo, d) = Count(options, rest.todo, d) + (IF Reaches(options, e, d) THEN 1 ELSE 0)
  BY <1>1, <1>2, <1>3, CountTail DEF e
<1>9. ~failed => Balance(options, listed, stack, pendingObject)
  BY <1>1 DEF ListInv, Account, Early
<1>a. ShownWhole'
  BY <1>1 DEF ListInv, ShownWhole
<1>10. CASE e \in Directory
  <2>1. /\ stack' \in Seq(FrameType) /\ Len(stack') = Len(stack) + 1 /\ stack'[1] = Frame(e)
        /\ stack' # <<>> /\ stack'[2] = rest /\ \A k \in 3..Len(stack') : stack'[k] = stack[k - 1]
    BY <1>1, <1>3, <1>10, Pushes DEF FrameInv
  <2>2. Frame(e).at = "open" /\ Frame(e).entries = <<>> /\ Frame(e).of = e
    BY DEF Frame
  <2>3. Single(options, Frame(e)) /\ \A d \in Directory : Has(options, Frame(e), d) <=> Reaches(options, e, d)
    BY <2>2 DEF Single, Has
  <2>4. /\ Once(options, stack')
        /\ Len(stack) >= 2 => /\ Rest(stack') = Rest(stack)
                              /\ \A d \in Directory : Owed(options, stack', d) <=> Owed(options, stack, d)
        /\ Len(stack) = 1 =>
             /\ Rest(stack') = rest.todo
             /\ \A d \in Directory : ~Owed(options, stack, d) /\ (Owed(options, stack', d) <=> Has(options, Frame(e), d))
    <3> HIDE DEF FrameInv, ListInv
    <3> QED
      BY <1>2, <1>4, <1>5, <1>6, <2>1, <2>3, TopCalls
  <2>5. ASSUME ~failed PROVE Balance(options, listed, stack', pendingObject)
    <3>1. CASE Len(stack) = 1
      <4>1. Rest(stack) = Top.todo
        BY <1>2, <1>7, <3>1
      <4>2. ASSUME NEW d \in Directory
            PROVE  Printed(listed, d) + (IF Owed(options, stack', d) THEN 1 ELSE 0) + Count(options, Rest(stack'), d)
                     = Count(options, pendingObject, d)
        <5>1. Printed(listed, d) + (IF Owed(options, stack, d) THEN 1 ELSE 0) + Count(options, Rest(stack), d)
                = Count(options, pendingObject, d)
          BY <1>9, <2>5 DEF Balance
        <5>2. ~Owed(options, stack, d) /\ (Owed(options, stack', d) <=> Reaches(options, e, d)) /\ Rest(stack') = rest.todo
          BY <2>3, <2>4, <3>1
        <5>3. Printed(listed, d) \in Nat /\ Count(options, rest.todo, d) \in Nat
          <6>1. rest.todo \in Seq(Entry)
            BY <1>3 DEF FrameType
          <6>2. listed \in Seq(Shown)
            BY DEF ListInv
          <6> QED
            BY <6>1, <6>2, PrintedIsNat, CountIsNat
        <5>4. Count(options, Top.todo, d) = Count(options, rest.todo, d) + (IF Reaches(options, e, d) THEN 1 ELSE 0)
          BY <1>8
        <5> QED
          BY <4>1, <5>1, <5>2, <5>3, <5>4
      <4> QED
        BY <4>2 DEF Balance
    <3>2. CASE Len(stack) >= 2
      BY <1>9, <2>4, <2>5, <3>2, BalanceKept
    <3>3. Len(stack) = 1 \/ Len(stack) >= 2
      BY <1>2
    <3> QED
      BY <3>1, <3>2, <3>3
  <2>6. Top' = Frame(e)
    BY <2>1 DEF Top
  <2>7. Account'
    BY <1>1, <2>2, <2>5, <2>6 DEF Account, Early
  <2>8. Gathered'
    BY <2>2, <2>6 DEF Gathered
  <2> QED
    BY <1>1, <1>a, <2>4, <2>7, <2>8 DEF ListInv
<1>11. CASE e \notin Directory
  <2>1. /\ stack' \in Seq(FrameType) /\ Len(stack') = Len(stack) /\ stack'[1] = rest /\ stack' # <<>>
        /\ \A k \in 2..Len(stack) : stack'[k] = stack[k]
    BY <1>1, <1>3, <1>11, GoesOn DEF FrameInv
  <2>2. \A d \in Directory : ~Reaches(options, e, d)
    BY <1>11 DEF Reaches
  <2>3. \A d \in Directory : Has(options, rest, d) <=> Has(options, Top, d)
    BY <1>4, <2>2
  <2>4. Top' = rest
    BY <2>1 DEF Top
  <2>5. Once(options, stack') /\ (~failed => Balance(options, listed, stack', pendingObject))
    <3>1. CASE Len(stack) = 1
      <4>1. Rest(stack) = Top.todo /\ Rest(stack') = rest.todo
        BY <1>2, <1>7, <2>1, <3>1 DEF Rest
      <4>2. \A d \in Directory : Count(options, Top.todo, d) = Count(options, rest.todo, d)
        <5> SUFFICES ASSUME NEW d \in Directory PROVE Count(options, Top.todo, d) = Count(options, rest.todo, d)
          OBVIOUS
        <5>1. Count(options, rest.todo, d) \in Nat
          BY <1>3, CountIsNat DEF FrameType
        <5> QED
          BY <1>8, <2>2, <5>1
      <4>3. (~\E k \in 1..(Len(stack) - 1) : TRUE) /\ ~\E k \in 1..(Len(stack') - 1) : TRUE
        BY <2>1, <3>1
      <4>4. Once(options, stack') /\ \A d \in Directory : ~Owed(options, stack, d) /\ ~Owed(options, stack', d)
        BY <4>3 DEF Once, Owed
      <4> QED
        BY <1>9, <4>1, <4>2, <4>4 DEF Balance
    <3>2. CASE Len(stack) >= 2
      <4>1. /\ Once(options, stack') /\ Rest(stack') = Rest(stack)
            /\ \A d \in Directory : Owed(options, stack', d) <=> Owed(options, stack, d)
        BY <1>2, <1>4, <1>5, <1>6, <2>1, <2>3, <3>2, TopChanges
      <4> QED
        BY <1>9, <4>1, BalanceKept
    <3>3. Len(stack) = 1 \/ Len(stack) >= 2
      BY <1>2
    <3> QED
      BY <3>1, <3>2, <3>3
  <2>7. Account'
    BY <1>1, <1>3, <2>4, <2>5 DEF Account, Early
  <2>8. Gathered'
    BY <1>3, <2>4 DEF Gathered
  <2> QED
    BY <1>1, <1>a, <2>5, <2>7, <2>8 DEF ListInv
<1> QED
  BY <1>10, <1>11

\* The sorted indices give the entries in another order.
LEMMA OrderReorders ==
  ASSUME SortInv, NEW S, Top.entries \in Seq(S), N = Len(Top.entries)
  PROVE  Reorders(Order, Top.entries)
<1> DEFINE es == Top.entries
           n == Len(es)
<1>1. n \in Nat /\ array \in [1..n -> 1..n] /\ \A x \in 1..n : \E k \in 1..n : array[k] = x
  BY LenProperties DEF SortInv, SortTypeOK, Permutation
<1>2. Order = [k \in 1..n |-> es[array[k]]]
  BY DEF Order
<1> HIDE DEF es
<1>3. Len(Order) = n /\ \A k \in 1..n : Order[k] = es[array[k]]
  BY <1>1, <1>2
<1> QED
  BY <1>1, <1>3 DEF Reorders, es

\* main() has called nothing while it has the arguments and their order.
LEMMA EarlyStep ==
  ASSUME FrameInv, SortInv, ListInv, AnalyseArg \/ SortArgs \/ PendObjects
  PROVE  ListInv'
<1>1. stack # <<>> /\ Top.at \in {"args", "sorted"} /\ Top.of = Main /\ (PendObjects => Top.at = "sorted")
  BY DEF AnalyseArg, SortArgs, PendObjects, At, FrameInv, TopInv
<1>2. Early /\ listed = <<>> /\ (Top.at = "sorted" => Top.entries = pendingObject)
  BY <1>1 DEF ListInv, Account, Early
<1>3. listed' = <<>> /\ listed = <<>>
  BY <1>2 DEF AnalyseArg, SortArgs, PendObjects
<1>4. ShownWhole' /\ listed' \in Seq(Shown)
  BY <1>3 DEF ShownWhole, ListInv
<1>5. /\ stack \in Seq(FrameType) /\ Len(stack) = 1 /\ Top = stack[1]
      /\ Top \in FrameType /\ Top.entries \in Seq(Entry)
  BY <1>1, RunningFrame
<1>6. ASSUME Len(stack') = 1, stack' # <<>>, stack'[1].of = Main, NEW opts
      PROVE  Once(opts, stack') /\ Gathered' /\ \A d : ~Owed(opts, stack', d)
  <2>1. ~\E k \in 1..(Len(stack') - 1) : TRUE
    BY <1>6
  <2>2. Gathered'
    BY <1>6 DEF Gathered, Top
  <2>3. Once(opts, stack') /\ \A d : ~Owed(opts, stack', d)
    BY <2>1 DEF Once, Owed
  <2> QED
    BY <2>2, <2>3
<1>7. CASE AnalyseArg
  <2>1. stack' = stack /\ Top.at = "args"
    BY <1>7 DEF AnalyseArg, At
  <2>2. Once(options', stack') /\ Gathered'
    BY <1>1, <1>5, <1>6, <2>1
  <2>3. Account'
    BY <1>1, <1>3, <2>1 DEF Account, Early, Top
  <2> QED
    BY <1>4, <2>2, <2>3 DEF ListInv
<1>8. CASE SortArgs
  <2> DEFINE f == [Top EXCEPT !.at = "sorted", !.entries = Pending]
  <2>1. stack' = Goes(f) /\ pendingObject' = Pending /\ Pending \in Seq(Entry)
    BY <1>8, PendingSeq DEF SortArgs, FrameInv
  <2>2. f \in FrameType /\ f.of = Top.of /\ f.at = "sorted" /\ f.entries = Pending
    BY <1>5, <2>1 DEF FrameType
  <2> HIDE DEF f
  <2>3. Len(stack') = 1 /\ stack' # <<>> /\ stack'[1] = f
    BY <1>1, <1>5, <2>1, <2>2, GoesOn DEF FrameInv
  <2>4. Once(options', stack') /\ Gathered'
    BY <1>1, <1>6, <2>2, <2>3
  <2>5. Account'
    BY <1>1, <1>3, <2>1, <2>2, <2>3 DEF Account, Early, Top
  <2> QED
    BY <1>4, <2>4, <2>5 DEF ListInv
<1>9. CASE PendObjects
  <2> DEFINE f == [Top EXCEPT !.at = "calls", !.todo = Order]
  <2>1. /\ stack' = Goes(f) /\ UNCHANGED <<pendingObject, options, failed>>
        /\ Top.at = "sorted" /\ N = Len(Top.entries) /\ Top.entries = pendingObject
    BY <1>1, <1>2, <1>9 DEF PendObjects, tables, memory, FrameInv, TopInv
  <2>2. Order \in Seq(Entry)
    BY <1>1, <2>1, OrderIsSeq DEF FrameInv
  <2>3. f \in FrameType /\ f.of = Top.of /\ f.at = "calls" /\ f.todo = Order
    BY <1>5, <2>2 DEF FrameType
  <2> HIDE DEF f
  <2>4. Len(stack') = 1 /\ stack' # <<>> /\ stack'[1] = f
    BY <1>1, <1>5, <2>1, <2>3, GoesOn DEF FrameInv
  <2>5. Once(options', stack') /\ Gathered' /\ \A d : ~Owed(options', stack', d)
    BY <1>1, <1>6, <2>3, <2>4
  <2>6. Rest(stack') = Order
    BY <2>3, <2>4 DEF Rest
  <2>7. ASSUME NEW d PROVE Count(options, Order, d) = Count(options, pendingObject, d)
    <3>1. Reorders(Order, pendingObject)
      BY <1>5, <2>1, OrderReorders
    <3>2. Len(pendingObject) \in Nat
      BY <1>5, <2>1, LenProperties
    <3> QED
      BY <3>1, <3>2, CountPermuted
  <2>8. \A d : Printed(listed', d) = 0 /\ Count(options, pendingObject, d) \in Nat
    <3>1. pendingObject \in Seq(Entry)
      BY <1>5, <2>1
    <3>2. listed' \in Seq(Shown)
      BY <1>4
    <3> QED
      BY <1>3, <3>1, <3>2, PrintedIsNat, CountIsNat
  <2>9. Balance(options', listed', stack', pendingObject')
    BY <2>1, <2>5, <2>6, <2>7, <2>8 DEF Balance
  <2>10. Account'
    BY <2>3, <2>4, <2>9 DEF Account, Early, Top
  <2> QED
    BY <1>4, <2>5, <2>10 DEF ListInv
<1> QED
  BY <1>7, <1>8, <1>9

\* A call opens its directory, reads it, and sorts it.
LEMMA ReadStep ==
  ASSUME FrameInv, ListInv, OpenDir \/ Skip \/ ReadEntry \/ ReallocFails \/ SortEntries
  PROVE  ListInv'
<1>1. /\ stack # <<>> /\ Top.at \in {"open", "read"} /\ Top.of # Main
      /\ UNCHANGED <<options, pendingObject, listed>>
  BY DEF OpenDir, Skip, ReadEntry, ReallocFails, SortEntries, NextVisible, At, tables, FrameInv, TopInv
<1>2. /\ Top \in FrameType /\ Top.of \in Directory /\ Top.todo \in Seq(Entry) /\ Top.entries \in Seq(Entry)
      /\ Top.capacity \in Nat
  <2>1. Top \in FrameType /\ Top.of \in Directory /\ Top.todo \in Seq(Entry) /\ Top.entries \in Seq(Entry)
    BY <1>1, RunningFrame
  <2> QED
    BY <2>1 DEF FrameType
<1>3. /\ Top.at = "open" => Top.entries = <<>>
      /\ Top.at = "read" => Gathers(options, Top)
  BY <1>1 DEF ListInv, Gathered
<1>4. CASE OpenDir /\ Top.of \in Locked
  <2>1. stack' = Pop /\ failed' = failed
    BY <1>4 DEF OpenDir, memory
  <2>2. \A d \in Directory : ~Has(options, Top, d)
    BY <1>1, <1>2, <1>4, ReachedAlone DEF Has, Reaches
  <2> QED
    BY <1>1, <2>1, <2>2, Leaves
<1>5. CASE stack' = Pop /\ failed'
  BY <1>1, <1>5, Leaves
<1>6. CASE /\ OpenDir /\ Top.of \notin Locked /\ failed' = failed
           /\ stack' = Goes([Top EXCEPT !.at = "read", !.todo = Kids[Top.of]])
  <2> DEFINE f == [Top EXCEPT !.at = "read", !.todo = Kids[Top.of]]
  <2>1. stack' = Goes(f) /\ failed' = failed /\ Top.at = "open"
    BY <1>6 DEF OpenDir, At
  <2>2. f \in FrameType /\ f.of = Top.of /\ f.at = "read" /\ f.todo = Kids[Top.of] /\ f.entries = <<>>
    BY <1>1, <1>2, <1>3, <2>1, TreeAssumption DEF FrameType
  <2> HIDE DEF f
  <2>3. Gathers(options, f)
    BY <1>2, <1>6, <2>2, OpenGathers
  <2> QED
    BY <1>1, <2>1, <2>2, <2>3, Stays
<1>7. CASE Skip \/ ReadEntry
  <2> DEFINE x == Head(Top.todo)
             more == IF Wanted(options, x) THEN Append(Top.entries, x) ELSE Top.entries
             room == IF Wanted(options, x) /\ Full THEN 2 * Top.capacity ELSE Top.capacity
             f == [Top EXCEPT !.todo = Tail(@), !.entries = more, !.capacity = room]
  <2>1. Top.at = "read" /\ Top.todo # <<>> /\ UNCHANGED <<options, pendingObject, listed, failed>>
    BY <1>1, <1>7 DEF Skip, ReadEntry, NextVisible, At, memory
  <2>2. Tail(Top.todo) \in Seq(Entry) /\ x \in Entry
    BY <1>2, <2>1, HeadTailProperties
  <2>3. more \in Seq(Entry) /\ room \in Nat
    BY <1>2, <2>2, AppendProperties
  <2>4. Visible(x) <=> Wanted(options, x)
    BY DEF Visible, Wanted
  <2>5. stack' = Goes(f)
    <3>1. CASE Wanted(options, x)
      <4>1. stack' = Goes([Top EXCEPT !.todo = Tail(@), !.entries = Append(@, x),
                                      !.capacity = IF Full THEN 2 * @ ELSE @])
        BY <1>7, <2>4, <3>1 DEF Skip, ReadEntry
      <4> QED
        BY <1>2, <3>1, <4>1 DEF FrameType
    <3>2. CASE ~Wanted(options, x)
      <4>1. stack' = Goes([Top EXCEPT !.todo = Tail(@)])
        BY <1>7, <2>4, <3>2 DEF Skip, ReadEntry, NextVisible
      <4>2. [Top EXCEPT !.todo = Tail(@)] = f
        BY <1>2, <3>2 DEF FrameType
      <4> QED
        BY <4>1, <4>2
    <3> QED
      BY <3>1, <3>2
  <2> HIDE DEF more, room
  <2>6. /\ f \in FrameType /\ f.of = Top.of /\ f.at = "read"
        /\ f.todo = Tail(Top.todo) /\ f.entries = more
    BY <1>1, <1>2, <2>1, <2>2, <2>3 DEF FrameType
  <2> HIDE DEF f
  <2>7. Gathers(options, f)
    BY <1>2, <1>3, <2>1, <2>6, ReadGathers DEF more
  <2> QED
    BY <1>1, <2>1, <2>5, <2>6, <2>7, Stays
<1>8. CASE SortEntries
  <2> DEFINE f == [Top EXCEPT !.at = "sorted"]
  <2>1. stack' = Goes(f) /\ failed' = failed /\ Top.at = "read" /\ Top.todo = <<>>
    BY <1>8 DEF SortEntries, At, memory
  <2>2. f \in FrameType /\ f.of = Top.of /\ f.at = "sorted" /\ f.todo = Top.todo /\ f.entries = Top.entries
    BY <1>2 DEF FrameType
  <2> HIDE DEF f
  <2>3. Gathers(options, f)
    BY <1>3, <2>1, <2>2 DEF Gathers
  <2> QED
    BY <1>1, <2>1, <2>2, <2>3, Stays
<1> QED
  BY <1>4, <1>5, <1>6, <1>7, <1>8 DEF OpenDir, ReallocFails

\* What a call prints, what it keeps and what it hands on is what it owed.
LEMMA PrintStep ==
  ASSUME FrameInv, SortInv, ListInv, PrintListing
  PROVE  ListInv'
<1>1. /\ stack # <<>> /\ Top.at = "sorted" /\ Top.of # Main /\ N = Len(Top.entries)
      /\ UNCHANGED <<options, pendingObject, failed>>
  BY DEF PrintListing, At, tables, FrameInv, TopInv
<1>2. /\ stack \in Seq(FrameType) /\ Len(stack) \in Nat /\ Len(stack) >= 2 /\ Top = stack[1]
      /\ Top \in FrameType /\ Top.of \in Directory /\ Top.entries \in Seq(Entry) /\ Top.todo \in Seq(Entry)
  BY <1>1, RunningFrame
<1>3. CASE NameMissing
  <2>1. UNCHANGED <<stack, listed>>
    BY <1>3 DEF PrintListing
  <2> QED
    BY <1>1, <2>1 DEF ListInv, ShownWhole, Gathered, Account, Early, Top
<1>4. CASE ~NameMissing
  <2> DEFINE shown == [of |-> Top.of, entries |-> Order]
             next == IF "R" \in options THEN Order ELSE <<>>
             f == [Top EXCEPT !.at = "calls", !.todo = next]
  <2>1. listed' = Append(listed, shown) /\ stack' = Goes(f)
    BY <1>4 DEF PrintListing
  <2>2. Order \in Seq(Entry) /\ next \in Seq(Entry)
    BY <1>1, OrderIsSeq DEF FrameInv
  <2>3. shown \in Shown /\ shown.of = Top.of /\ shown.entries = Order
    BY <1>2, <2>2 DEF Shown
  <2> HIDE DEF next, shown
  <2>4. f \in FrameType /\ f.of = Top.of /\ f.at = "calls" /\ f.todo = next
    BY <1>2, <2>2 DEF FrameType
  <2> HIDE DEF f
  <2>5. Gathers(options, Top) /\ Top.todo = <<>>
    BY <1>1 DEF ListInv, Gathered
  <2>6. /\ Top.of \notin Locked /\ Distinct(Top.entries)
        /\ \A e \in Entry : In(e, Top.entries) <=> e \in KidsOf(Top.of) /\ Wanted(options, e)
    <3>1. \A e : ~In(e, Top.todo)
      BY <2>5 DEF In
    <3> QED
      BY <2>5, <3>1 DEF Gathers
  <2>7. Reorders(Order, Top.entries)
    BY <1>1, <1>2, OrderReorders
  <2>8. Shows(options, Top.of, Order) /\ Whole(options, Top.of, Order)
    BY <1>2, <2>2, <2>6, <2>7, OrderShows
  <2>9. /\ Single(options, f) /\ Has(options, Top, Top.of) /\ ~Has(options, f, Top.of)
        /\ \A d \in Directory : d # Top.of => (Has(options, f, d) <=> Has(options, Top, d))
    <3>1. f.at = "calls" /\ f.todo = (IF "R" \in options THEN Order ELSE <<>>) /\ Top.at # "calls"
      BY <1>1, <2>4 DEF next
    <3> QED
      BY <1>2, <2>6, <2>8, <3>1, PrintBrings
  <2>10. /\ stack' \in Seq(FrameType) /\ Len(stack') = Len(stack) /\ stack'[1] = f /\ stack' # <<>>
         /\ \A k \in 2..Len(stack) : stack'[k] = stack[k]
    BY <1>1, <2>1, <2>4, GoesOn DEF FrameInv
  <2>11. Once(options, stack) /\ listed \in Seq(Shown) /\ ShownWhole
    BY DEF ListInv
  <2>12. \A d \in Directory : Has(options, f, d) => Has(options, Top, d)
    BY <2>9
  <2>13. /\ Once(options, stack') /\ Rest(stack') = Rest(stack)
         /\ \A d \in Directory :
              /\ (Has(options, f, d) <=> Has(options, Top, d)) => (Owed(options, stack', d) <=> Owed(options, stack, d))
              /\ Has(options, Top, d) /\ ~Has(options, f, d) => Owed(options, stack, d) /\ ~Owed(options, stack', d)
    BY <1>2, <2>9, <2>10, <2>11, <2>12, TopChanges
  <2>14. \A d \in Directory :
           Printed(listed', d) = Printed(listed, d) + (IF d = Top.of THEN 1 ELSE 0) /\ Printed(listed, d) \in Nat
    BY <2>1, <2>3, <2>11, PrintedIsNat, PrintedAppend
  <2>15. \A d \in Directory : IF d = Top.of THEN Owed(options, stack, d) /\ ~Owed(options, stack', d)
                                            ELSE Owed(options, stack', d) <=> Owed(options, stack, d)
    BY <1>2, <2>9, <2>13
  <2>16. Top' = f /\ ~Early /\ ~Early'
    BY <1>1, <2>4, <2>10 DEF Top, Early
  <2>17. ASSUME ~failed PROVE Balance(options, listed', stack', pendingObject)
    <3>1. Balance(options, listed, stack, pendingObject)
      BY <2>16, <2>17 DEF ListInv, Account
    <3>2. ASSUME NEW d \in Directory
          PROVE  Printed(listed', d) + (IF Owed(options, stack', d) THEN 1 ELSE 0)
                   = Printed(listed, d) + (IF Owed(options, stack, d) THEN 1 ELSE 0)
      BY <2>14, <2>15
    <3> QED
      BY <2>13, <3>1, <3>2 DEF Balance
  <2>18. Account' /\ Gathered'
    BY <1>1, <2>4, <2>16, <2>17 DEF Account, Gathered
  <2>19. ShownWhole' /\ listed' \in Seq(Shown)
    <3>1. /\ listed' \in Seq(Shown) /\ Len(listed') = Len(listed) + 1 /\ listed'[Len(listed) + 1] = shown
          /\ \A k \in 1..Len(listed) : listed'[k] = listed[k]
      BY <2>1, <2>3, <2>11, AppendProperties
    <3>2. \A k \in 1..Len(listed') : k \in 1..Len(listed) \/ k = Len(listed) + 1
      <4>1. Len(listed) \in Nat
        BY <2>11, LenProperties
      <4> QED
        BY <3>1, <4>1
    <3> QED
      BY <1>1, <2>3, <2>8, <2>11, <3>1, <3>2 DEF ShownWhole
  <2> QED
    BY <1>1, <2>13, <2>18, <2>19 DEF ListInv
<1> QED
  BY <1>3, <1>4

\* A call returns when it has handed on all it kept, and main() when nothing is left.
LEMMA ReturnStep ==
  ASSUME FrameInv, ListInv, Return
  PROVE  ListInv'
<1>1. /\ stack # <<>> /\ Top.at = "calls" /\ Top.todo = <<>> /\ stack' = Pop
      /\ UNCHANGED <<options, pendingObject, listed, failed>>
  BY DEF Return, At, tables
<1>2. CASE Top.of # Main
  <2>1. \A d \in Directory : ~Has(options, Top, d)
    BY <1>1 DEF Has
  <2> QED
    BY <1>1, <1>2, <2>1, Leaves
<1>3. CASE Top.of = Main
  <2>1. stack' = <<>> /\ Len(stack) = 1 /\ Top = stack[1]
    BY <1>1, <1>3, Returns, RunningFrame DEF FrameInv
  <2>2. Rest(stack) = <<>> /\ Rest(stack') = <<>>
    BY <1>1, <2>1 DEF Rest
  <2>3. (~\E k \in 1..(Len(stack) - 1) : TRUE) /\ ~\E k \in 1..(Len(stack') - 1) : TRUE
    BY <2>1
  <2>4. \A d \in Directory : ~Owed(options, stack, d) /\ ~Owed(options, stack', d)
    BY <2>3 DEF Owed
  <2>5. Once(options, stack')
    BY <2>3 DEF Once
  <2>6. ~failed => Balance(options, listed, stack, pendingObject)
    BY <1>1 DEF ListInv, Account, Early
  <2>7. ~failed => Balance(options, listed, stack', pendingObject)
    BY <2>2, <2>4, <2>6, BalanceKept
  <2>8. Account' /\ Gathered' /\ ShownWhole'
    BY <1>1, <2>1, <2>7 DEF Account, Early, Gathered, ListInv, ShownWhole
  <2> QED
    BY <1>1, <2>5, <2>8 DEF ListInv
<1> QED
  BY <1>2, <1>3

\* Every step keeps the account.
LEMMA ListStep ==
  ASSUME FrameInv, SortInv, ListInv, [Next]_vars
  PROVE  ListInv'
<1>1. CASE (SortNext /\ UNCHANGED walkvars) \/ UNCHANGED vars
  <2>1. UNCHANGED <<options, pendingObject, stack, listed, failed>>
    BY <1>1 DEF vars, walkvars, tables, memory
  <2> QED
    BY <2>1 DEF ListInv, ShownWhole, Gathered, Account, Early, Top
<1> QED
  BY <1>1, EarlyStep, CallsStep, ReadStep, PrintStep, ReturnStep DEF Next, Walk

LEMMA ListStart == Init => ListInv
<1> SUFFICES ASSUME Init PROVE ListInv
  OBVIOUS
<1>1. Len(stack) = 1 /\ stack # <<>> /\ Top.at = "args" /\ Top.of = Main /\ listed = <<>>
  BY DEF Init, Top, Frame
<1>2. \A k \in 1..(Len(stack) - 1) : FALSE
  BY <1>1
<1> QED
  BY <1>1, <1>2 DEF ListInv, ShownWhole, Once, Gathered, Account, Early

\* At the end nothing is owed any more.
LEMMA AccountSettles == ListInv => ListsAll
<1> SUFFICES ASSUME ListInv, Done, ~failed, ~crashed PROVE ReachedOnce
  BY DEF ListInv, ListsAll
<1>1. stack = <<>> /\ Balance(options, listed, stack, pendingObject) /\ listed \in Seq(Shown)
  BY DEF Done, ListInv, Account, Early
<1>2. ASSUME NEW d \in Directory PROVE Printed(listed, d) = Count(options, pendingObject, d)
  <2>1. ~Owed(options, stack, d)
    BY <1>1 DEF Owed
  <2>2. Count(options, Rest(stack), d) = 0
    <3>1. Rest(stack) = <<>> /\ <<>> \in Seq(Entry)
      BY <1>1 DEF Rest
    <3> QED
      BY <3>1, CountIsNat
  <2>3. Printed(listed, d) \in Nat
    BY <1>1, PrintedIsNat
  <2> QED
    BY <1>1, <2>1, <2>2, <2>3 DEF Balance
<1> QED
  BY <1>2 DEF ReachedOnce, Printed, Count

-----------------------------------------------------------------------------
(* The theorems                                                            *)

\* main() starts alone, and with nothing to sort.
LEMMA FrameInit == Init => FrameInv
<1> SUFFICES ASSUME Init PROVE FrameInv
  OBVIOUS
<1> DEFINE f == [Frame(Main) EXCEPT !.at = "args"]
<1>1. <<>> \in Seq(Entry) /\ Capacity \in Nat
  BY AttributeAssumption
<1>2. f \in FrameType /\ f.of = Main /\ f.at = "args"
  BY <1>1 DEF Frame, FrameType
<1>3. stack = <<f>>
  BY DEF Init
<1> HIDE DEF f
<1>4. stack \in Seq(FrameType) /\ Len(stack) = 1 /\ stack[1] = f /\ stack # <<>>
  BY <1>2, <1>3
<1>5. argv \in Seq([letters : SUBSET Letter, name : File \cup {Missing}])
  BY CommandLineAssumption DEF Init
<1>6. WalkTypeOK
  <2>1. <<>> \in Seq(File) /\ {} \subseteq Letter /\ 0 \in Nat
    OBVIOUS
  <2>2. options \subseteq Letter /\ pendingObject \in Seq(File) /\ unavaCount \in Nat
    BY <2>1 DEF Init
  <2>3. stat \in Stats /\ opened \in Nat /\ allocated \in Nat /\ lost \in Nat
        /\ failed \in BOOLEAN /\ crashed \in BOOLEAN
    BY DEF Init
  <2> QED
    BY <1>4, <1>5, <2>2, <2>3 DEF WalkTypeOK
<1> QED
  BY <1>2, <1>4, <1>6 DEF Init, FrameInv, Stacked, TopInv, Top, BoundedResources, Depth

LEMMA SortStart == Init => SortInv /\ ScanInv
<1> SUFFICES ASSUME Init PROVE SortInv /\ ScanInv
  OBVIOUS
<1>1. input = [stat |-> <<>>, pendingSize |-> <<>>, option |-> {}] /\ array = <<>> /\ calls = <<>>
      /\ l = 1 /\ r = 0 /\ begin = 1 /\ end = 0 /\ pc = "call"
  BY DEF Init, NoFiles
<1>2. input.stat = <<>> /\ input.pendingSize = <<>> /\ input.option = {} /\ N = 0
  BY <1>1 DEF N
<1>3. <<>> \in [1..0 -> Nat] /\ <<>> \in [1..0 -> 1..0] /\ <<>> \in Seq(Attributes) /\ <<>> \in Seq(Span)
  OBVIOUS
<1>4. IsListing(input)
  BY <1>2, <1>3 DEF IsListing
<1>5. SortTypeOK
  BY <1>1, <1>2, <1>3, <1>4 DEF SortTypeOK
<1> QED
  BY <1>1, <1>2, <1>5 DEF SortInv, Permutation, InRange, Disjoint, ScanInv

\* A step of the program starts a sort of a well-formed listing, or is a step of the
\* sort, or leaves the sort alone.
LEMMA SortIsCalled ==
  ASSUME FrameInv, [Next]_vars
  PROVE  (\E in : IsListing(in) /\ StartSort(in)) \/ [SortNext]_sortvars
<1>1. CASE SortArgs
  <2>1. Pending \in Seq(File) /\ Pending \in Seq(Entry)
    BY PendingSeq DEF FrameInv
  <2>2. IsListing(ListingOf(Main, Pending))
    BY <2>1, ListingIsListing DEF FrameInv
  <2> QED
    BY <1>1, <2>2 DEF SortArgs
<1>2. CASE SortEntries
  <2>1. stack # <<>> /\ Top.of # Main
    BY <1>2 DEF SortEntries, At, FrameInv, TopInv
  <2>2. stack[1] \in FrameType
    BY <2>1, EmptySeq, LenProperties, ElementOfSeq DEF FrameInv, WalkTypeOK
  <2>3. Top.of \in Directory \cup {Main} /\ Top.entries \in Seq(Entry)
    BY <2>2 DEF Top, FrameType
  <2>4. IsListing(ListingOf(Top.of, Top.entries))
    BY <2>1, <2>3, ListingIsListing DEF FrameInv
  <2> QED
    BY <1>2, <2>4 DEF SortEntries
<1>3. CASE AnalyseArg \/ PendObjects \/ Calls \/ OpenDir \/ Skip
  BY <1>3 DEF AnalyseArg, PendObjects, Calls, OpenDir, Skip
<1>4. CASE ReadEntry \/ ReallocFails \/ PrintListing \/ Return
  BY <1>4 DEF ReadEntry, ReallocFails, PrintListing, Return
<1>5. CASE SortNext \/ UNCHANGED vars
  BY <1>5 DEF vars
<1> QED
  BY <1>1, <1>2, <1>3, <1>4, <1>5 DEF Next, Walk

IInv == FrameInv /\ SortInv /\ ScanInv /\ ListInv

\* The four parts together are inductive.
LEMMA Invariance == Spec => []IInv
<1>1. Init => IInv
  BY FrameInit, SortStart, ListStart DEF IInv
<1>2. IInv /\ [Next]_vars => IInv'
  <2> SUFFICES ASSUME IInv, [Next]_vars PROVE IInv'
    OBVIOUS
  <2>1. FrameInv /\ SortInv /\ ScanInv /\ ListInv
    BY DEF IInv
  <2>2. FrameInv' /\ ListInv'
    BY <2>1, WalkStep, ListStep
  <2>3. CASE \E in : IsListing(in) /\ StartSort(in)
    BY <2>2, <2>3, StartEstablishes, ScanStart DEF IInv
  <2>4. CASE [SortNext]_sortvars
    BY <2>1, <2>2, <2>4, SortStep, ScanStep DEF IInv
  <2> QED
    BY <2>1, <2>3, <2>4, SortIsCalled
<1> QED
  BY <1>1, <1>2, PTL DEF Spec

\* For every tree, every command line and every set of times and sizes: quickSort()
\* stays inside the arrays it is given and loses no entry, although the comparison
\* need not be an order; and at any depth of the recursion one directory stream at
\* most is open, and exactly the arrays of the calls on the stack are allocated,
\* besides what a failed realloc() has lost.
THEOREM Accounted == Spec => []Inv
<1>1. IInv => Inv
  BY DEF IInv, FrameInv, Inv
<1> QED
  BY <1>1, Invariance, PTL

\* Whenever a partition ends, nothing before begin compares greater than the pivot
\* and nothing behind end less.
THEOREM Partitions == Spec => []Partitioned
<1>1. IInv => Partitioned
  BY ScanPartitions DEF IInv
<1> QED
  BY <1>1, Invariance, PTL

\* Whenever the program comes to an end, every directory has been printed exactly once
\* for each argument that reaches it, by -R and without -a past the hidden ones, unless
\* memory ran out; and whatever was printed of a directory, at any time, is every
\* visible entry of it once, in whatever order the comparison has left them.
THEOREM ListsEverything == Spec => []ListsAll
<1>1. IInv => ListsAll
  BY AccountSettles DEF IInv
<1> QED
  BY <1>1, Invariance, PTL
=============================================================================
