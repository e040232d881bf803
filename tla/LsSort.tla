------------------------------- MODULE LsSort -------------------------------
(***************************************************************************)
(* How plan3-ls/main.c orders what it lists: quickSort() over an array of   *)
(* indices, comparing with fileCmp().  Positions count from 1 here.          *)
(*                                                                         *)
(* quickSort() is run here as a machine with an explicit stack of ranges:   *)
(* one step moves one of its two scans, swaps, or finishes a partition.     *)
(* The list is the arguments of the program or the contents of a directory; *)
(* fileCmp() looks at the sizes of the former in both cases.               *)
(***************************************************************************)
EXTENDS Integers, Sequences

CONSTANT Listing   \* what may be sorted: see ListingAssumption

\* A listing gives each entry its st_mtime, st_size and name (a rank: strcmp()
\* compares names), the order options given, and the st_size that the array
\* pendingObjectStat holds at the entry's index.
Attributes == [mtime : Nat, size : Nat, name : Nat]

IsListing(in) ==
  /\ in.stat \in Seq(Attributes)
  /\ in.pendingSize \in [1..Len(in.stat) -> Nat]
  /\ in.option \subseteq {"t", "s", "r"}

ASSUME ListingAssumption == \A in \in Listing : IsListing(in)

VARIABLES
  input,       \* the listing sorted
  array,       \* position -> entry
  calls,       \* calls of quickSort still to be made, the next one first
  l, r,        \* arguments of the running call
  begin, end,
  pc

sortvars == <<input, array, calls, l, r, begin, end, pc>>
range == <<input, calls, l, r>>

N == Len(input.stat)

-----------------------------------------------------------------------------
(* fileCmp(): negative, zero or positive, for entries a and b of listing in *)

Newest(in, a, b) == IF in.stat[a].mtime > in.stat[b].mtime THEN -1 ELSE 1
Largest(in, a, b) == IF in.stat[a].size > in.stat[b].size THEN -1 ELSE 1

\* Whether the sizes are different at all is asked of pendingObjectStat.
SizesDiffer(in, a, b) == in.pendingSize[a] # in.pendingSize[b]

Forward(in, a, b) ==
  IF "t" \in in.option /\ in.stat[a].mtime # in.stat[b].mtime THEN Newest(in, a, b)
  ELSE IF "s" \in in.option /\ SizesDiffer(in, a, b) THEN Largest(in, a, b)
  ELSE in.stat[a].name - in.stat[b].name

Compare(in, a, b) == IF "r" \in in.option THEN 0 - Forward(in, a, b) ELSE Forward(in, a, b)
fileCmp(a, b) == Compare(input, a, b)

-----------------------------------------------------------------------------
(* quickSort()                                                             *)

\* The call of main() or printIdxObj(): the indices in order, and the whole range.
Identity(n) == [k \in 1..n |-> k]

StartSort(in) ==
  /\ input' = in
  /\ array' = Identity(Len(in.stat))
  /\ calls' = <<<<1, Len(in.stat)>>>>
  /\ l' = 1 /\ r' = 0 /\ begin' = 1 /\ end' = 0
  /\ pc' = "call"

SortInit ==
  /\ input \in Listing
  /\ array = Identity(N)
  /\ calls = <<<<1, N>>>>
  /\ l = 1 /\ r = 0 /\ begin = 1 /\ end = 0
  /\ pc = "call"

\* if (l >= r) return;
Call ==
  /\ pc = "call" /\ calls # <<>>
  /\ calls' = Tail(calls)
  /\ l' = Head(calls)[1] /\ r' = Head(calls)[2]
  /\ begin' = l' /\ end' = r'
  /\ pc' = IF l' >= r' THEN "call" ELSE "left"
  /\ UNCHANGED <<input, array>>

key == array[l]

\* while (begin < end && a[begin] <= a[key]) ++begin;
GoesLeftMutant == begin < end /\ fileCmp(array[begin], key) >= 0
GoesLeft == begin < end /\ fileCmp(array[begin], key) <= 0

ScanLeft ==
  /\ pc = "left"
  /\ IF GoesLeft THEN begin' = begin + 1 /\ UNCHANGED pc
                 ELSE pc' = "right" /\ UNCHANGED begin
  /\ UNCHANGED <<array, range, end>>

\* while (begin < end && a[end] >= a[key]) --end;
GoesRightMutant == fileCmp(array[end], key) >= 0
GoesRight == begin < end /\ fileCmp(array[end], key) >= 0

ScanRight ==
  /\ pc = "right"
  /\ IF GoesRight THEN end' = end - 1 /\ UNCHANGED pc
                  ELSE pc' = "swap" /\ UNCHANGED end
  /\ UNCHANGED <<array, range, begin>>

Swapped(a, b) == [array EXCEPT ![a] = array[b], ![b] = array[a]]

Swap ==
  /\ pc = "swap"
  /\ IF begin < end THEN array' = Swapped(begin, end) /\ pc' = "left"
                    ELSE pc' = "pivot" /\ UNCHANGED array
  /\ UNCHANGED <<range, begin, end>>

\* The pivot changes places with a[begin] only if that is smaller; both parts
\* beside begin are sorted next, and begin itself is left out of them.
RightPartWholeMutant == <<l, r>>
RightPart == <<end + 1, r>>

Pivot ==
  /\ pc = "pivot"
  /\ array' = IF fileCmp(array[begin], key) < 0 THEN Swapped(begin, l) ELSE array
  /\ calls' = <<<<l, begin - 1>>, RightPart>> \o calls
  /\ pc' = "call"
  /\ UNCHANGED <<input, l, r, begin, end>>

SortDone == pc = "call" /\ calls = <<>>

SortNext == Call \/ ScanLeft \/ ScanRight \/ Swap \/ Pivot

SortSpec == SortInit /\ [][SortNext]_sortvars

-----------------------------------------------------------------------------
(* Properties                                                              *)

Span == (1..(N + 1)) \X (0..N)

SortTypeOK ==
  /\ IsListing(input)
  /\ array \in [1..N -> 1..N]
  /\ calls \in Seq(Span)
  /\ l \in 1..(N + 1) /\ r \in 0..N /\ begin \in 1..(N + 1) /\ end \in 0..N
  /\ pc \in {"call", "left", "right", "swap", "pivot"}

\* Whatever the comparison says, no entry is lost or listed twice.
Permutation == \A e \in 1..N : \E k \in 1..N : array[k] = e

\* The scans stay inside the range of the call and never cross, so that no
\* element outside the array is read.
InRange == pc # "call" => 1 <= l /\ l <= begin /\ begin <= end /\ end <= r /\ r <= N

\* No range is sorted twice: the calls to come are disjoint, and apart from the
\* range being sorted.
Apart(x, y) == x[2] < y[1] \/ x[1] > x[2] \/ y[1] > y[2]

Disjoint ==
  /\ \A a, b \in 1..Len(calls) : a < b => Apart(calls[a], calls[b])
  /\ pc # "call" => \A a \in 1..Len(calls) : Apart(<<l, r>>, calls[a])

\* The machine stays where the array and the recursion of the code allow it to be,
\* even when the comparison is not a consistent order.
SortInv == SortTypeOK /\ Permutation /\ InRange /\ Disjoint

\* A partition leaves nothing greater than the pivot before begin and nothing
\* smaller behind end.  (This is what the recursion relies on; it does not say on
\* which side of begin the pivot belongs.)
Partitioned ==
  pc = "pivot" =>
    /\ \A k \in l..(begin - 1) : fileCmp(array[k], key) <= 0
    /\ \A k \in (end + 1)..r : fileCmp(array[k], key) >= 0

\* main.c:20, "-t sort by time, the newest first": when the sort by time is done, no
\* entry comes before a newer one.  Entries of the same time may come in any order.
NewestFirst ==
  SortDone /\ input.option = {"t"} =>
    \A j, k \in 1..N : j < k => input.stat[array[j]].mtime >= input.stat[array[k]].mtime
=============================================================================
