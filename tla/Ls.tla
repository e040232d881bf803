--------------------------------- MODULE Ls ---------------------------------
(***************************************************************************)
(* plan3-ls/main.c as a whole: analyseArgs() turns the arguments into options *)
(* and pending objects, main() sorts the objects, and printIdxObj() lists    *)
(* each, reading a directory, sorting it (LsSort), printing it and calling    *)
(* itself for the subdirectories under -R.                                  *)
(*                                                                         *)
(* The directory tree does not change.  Any malloc() or realloc() may fail:  *)
(* the three arrays of a call take 256 MB and more.  A frame is main(), or   *)
(* one call of printIdxObj() on a directory.                                *)
(***************************************************************************)
EXTENDS LsSort, FiniteSets

CONSTANTS
  Kids,        \* directory -> its entries in the order of readdir(), with Dot and DotDot
  Plain,       \* entries that are no directories
  Locked,      \* directories that opendir() refuses
  Hidden,      \* entries whose name starts with "."
  Unowned,     \* entries whose owner or group has no name
  Missing,     \* an argument that does not exist
  Cwd,         \* the current directory
  Dot, DotDot, \* the names "." and ".."
  Name,        \* entry -> its rank among the names
  Stats,       \* the st_mtime and st_size the files may have
  CommandLine, \* the command lines to try: an argument has option letters, or a name
  Capacity,    \* PRI_PEND_NUM: entries the arrays of a call first have room for
  Main         \* the frame of main()

Directory == DOMAIN Kids
File == Directory \cup Plain
Entry == File \cup {Dot, DotDot}
Letter == {"a", "R", "t", "s", "r", "l", "i"}
KidsOf(d) == {Kids[d][k] : k \in 1..Len(Kids[d])}

\* A file system is a tree: no name twice in a directory, one parent, no cycle.
ASSUME TreeAssumption ==
  /\ \A d \in Directory : Kids[d] \in Seq(Entry)
  /\ \A d \in Directory : \A j, k \in 1..Len(Kids[d]) : Kids[d][j] = Kids[d][k] => j = k
  /\ \A d, p, q \in Directory : d \in KidsOf(p) /\ d \in KidsOf(q) => p = q
  /\ \A S \in SUBSET Directory : S # {} => \E d \in S : \A p \in S : d \notin KidsOf(p)
  /\ Cwd \in Directory /\ Missing \notin File /\ Main \notin Directory
  /\ Dot \notin File /\ DotDot \notin File
ASSUME AttributeAssumption ==
  /\ Name \in [Entry -> Nat]
  /\ Stats \subseteq [File -> [mtime : Nat, size : Nat]]
  /\ Capacity \in Nat \ {0}
ASSUME CommandLineAssumption ==
  CommandLine \subseteq Seq([letters : SUBSET Letter, name : File \cup {Missing}])

VARIABLES
  argv,            \* arguments not looked at yet
  options,         \* displayContent, displayOrder and displayFormat, as letters
  pendingObject,   \* existing arguments
  unavaCount,
  stat,            \* what lstat() says of each file
  stack,           \* frames, the running one first
  listed,          \* history: what was printed of each directory, in order
  opened,          \* directory streams open
  allocated,       \* arrays allocated
  lost,            \* arrays whose address a failed realloc() has overwritten
  failed,          \* history: a malloc() or realloc() has failed
  crashed          \* SIGSEGV

tables == <<argv, options, pendingObject, unavaCount, stat>>
memory == <<opened, allocated, lost, failed>>
walkvars == <<tables, memory, stack, listed, crashed>>
vars == <<sortvars, walkvars>>

Frame(d) == [of |-> d, at |-> "open", entries |-> <<>>, todo |-> <<>>, capacity |-> Capacity]
Top == stack[1]
Pop == Tail(stack)
At(place) == stack # <<>> /\ Top.at = place /\ SortDone /\ ~crashed
Goes(frame) == <<frame>> \o Pop

NoFiles == [stat |-> <<>>, pendingSize |-> <<>>, option |-> {}]

Init ==
  /\ argv \in CommandLine /\ stat \in Stats
  /\ options = {} /\ pendingObject = <<>> /\ unavaCount = 0
  /\ stack = <<[Frame(Main) EXCEPT !.at = "args"]>>
  /\ listed = <<>>
  /\ opened = 0 /\ allocated = 0 /\ lost = 0 /\ failed = FALSE /\ crashed = FALSE
  /\ input = NoFiles /\ array = <<>> /\ calls = <<>>
  /\ l = 1 /\ r = 0 /\ begin = 1 /\ end = 0 /\ pc = "call"

-----------------------------------------------------------------------------
(* analyseArgs() and the sort in main()                                    *)

IsOption(a) == a.letters # {}

AnalyseArg ==
  /\ At("args") /\ argv # <<>>
  /\ argv' = Tail(argv)
  /\ LET a == Head(argv) IN
       \/ /\ IsOption(a)
          /\ options' = options \cup a.letters
          /\ UNCHANGED <<pendingObject, unavaCount>>
       \/ /\ ~IsOption(a) /\ a.name # Missing
          /\ pendingObject' = Append(pendingObject, a.name)
          /\ UNCHANGED <<options, unavaCount>>
       \/ /\ ~IsOption(a) /\ a.name = Missing
          /\ unavaCount' = unavaCount + 1
          /\ UNCHANGED <<options, pendingObject>>
  /\ UNCHANGED <<sortvars, stat, stack, memory, listed, crashed>>

\* Without any argument the current directory is listed.
Pending == IF pendingObject = <<>> /\ unavaCount = 0 THEN <<Cwd>> ELSE pendingObject

\* "." and ".." are files too.
Parent(d) == IF \E p \in Directory : d \in KidsOf(p)
             THEN CHOOSE p \in Directory : d \in KidsOf(p) ELSE d
Inode(d, e) == IF e = Dot THEN d ELSE IF e = DotDot THEN Parent(d) ELSE e

\* pendingObjectStat holds the arguments and, behind them, zeros.
PendingSize(k) == IF k <= Len(Pending) THEN stat[Pending[k]].size ELSE 0

\* The arrays given to quickSort() for the entries of d, or the arguments.
ListingOf(d, entries) ==
  [stat |-> [k \in 1..Len(entries) |->
               LET s == stat[Inode(d, entries[k])]
               IN [mtime |-> s.mtime, size |-> s.size, name |-> Name[entries[k]]]],
   pendingSize |-> [k \in 1..Len(entries) |-> PendingSize(k)],
   option |-> options \cap {"t", "s", "r"}]

SortArgs ==
  /\ At("args") /\ argv = <<>>
  /\ pendingObject' = Pending
  /\ StartSort(ListingOf(Main, Pending))
  /\ stack' = Goes([Top EXCEPT !.at = "sorted", !.entries = Pending])
  /\ UNCHANGED <<argv, options, unavaCount, stat, memory, listed, crashed>>

\* The entries of the running frame in the order of the sorted indices.
Order == [k \in 1..N |-> Top.entries[array[k]]]

PendObjects ==
  /\ At("sorted") /\ Top.of = Main
  /\ stack' = Goes([Top EXCEPT !.at = "calls", !.todo = Order])
  /\ UNCHANGED <<sortvars, tables, memory, listed, crashed>>

-----------------------------------------------------------------------------
(* printIdxObj()                                                           *)

\* Called for each argument, and under -R for each subdirectory, but neither for "."
\* nor for "..".  What is no directory is passed over, or printed when main() asks.
Calls ==
  /\ At("calls") /\ Top.todo # <<>>
  /\ LET rest == [Top EXCEPT !.todo = Tail(@)]
         e == Head(Top.todo)
     IN stack' = IF e \in Directory THEN <<Frame(e), rest>> \o Pop ELSE Goes(rest)
  /\ UNCHANGED <<sortvars, tables, memory, listed, crashed>>

\* opendir(), which may be refused, and the three malloc()s, which may fail.
OpenDir ==
  /\ At("open")
  /\ \/ /\ Top.of \in Locked
        /\ stack' = Pop
        /\ UNCHANGED memory
     \/ /\ Top.of \notin Locked
        /\ opened' = opened + 1
        /\ allocated' = allocated + 3
        /\ stack' = Goes([Top EXCEPT !.at = "read", !.todo = Kids[Top.of]])
        /\ UNCHANGED <<lost, failed>>
     \/ /\ Top.of \notin Locked
        /\ failed' = TRUE
        /\ stack' = Pop
        /\ UNCHANGED <<opened, allocated, lost>>
  /\ UNCHANGED <<sortvars, tables, listed, crashed>>

VisibleMutant(e) == TRUE
Visible(e) == e \in Hidden \cup {Dot, DotDot} => "a" \in options

\* closedir() comes before the recursion.
Closed == opened - 1

\* One round of the readdir() loop.  The arrays grow when they are full; of the k
\* arrays that realloc() could not enlarge the old one stays allocated, and nobody
\* knows where it is.
Full == Len(Top.entries) >= Top.capacity
NextVisible == At("read") /\ Top.todo # <<>> /\ Visible(Head(Top.todo))

Skip ==
  /\ At("read") /\ Top.todo # <<>> /\ ~Visible(Head(Top.todo))
  /\ stack' = Goes([Top EXCEPT !.todo = Tail(@)])
  /\ UNCHANGED <<sortvars, tables, memory, listed, crashed>>

ReadEntry ==
  /\ NextVisible
  /\ stack' = Goes([Top EXCEPT !.todo = Tail(@), !.entries = Append(@, Head(Top.todo)),
                              !.capacity = IF Full THEN 2 * @ ELSE @])
  /\ UNCHANGED <<sortvars, tables, memory, listed, crashed>>

ReallocFails ==
  /\ NextVisible /\ Full
  /\ \E k \in 1..3 : lost' = lost + k /\ allocated' = allocated - (3 - k)
  /\ opened' = Closed
  /\ failed' = TRUE
  /\ stack' = Pop
  /\ UNCHANGED <<sortvars, tables, listed, crashed>>

\* The end of the directory: lstat() of what was found, and the call of quickSort().
SortEntries ==
  /\ At("read") /\ Top.todo = <<>>
  /\ StartSort(ListingOf(Top.of, Top.entries))
  /\ stack' = Goes([Top EXCEPT !.at = "sorted"])
  /\ UNCHANGED <<tables, memory, listed, crashed>>

\* -l asks for the names of owners and groups, and uses the null pointer when there
\* is none: before anything of the directory is printed.
NameMissing ==
  "l" \in options /\ \E k \in 1..N : Inode(Top.of, Top.entries[k]) \in Unowned

PrintListing ==
  /\ At("sorted") /\ Top.of # Main
  /\ \/ /\ NameMissing
        /\ crashed' = TRUE
        /\ UNCHANGED <<stack, listed, opened>>
     \/ /\ ~NameMissing
        /\ listed' = Append(listed, [of |-> Top.of, entries |-> Order])
        /\ opened' = Closed
        /\ stack' = Goes([Top EXCEPT !.at = "calls",
                            !.todo = IF "R" \in options THEN Order ELSE <<>>])
        /\ UNCHANGED crashed
  /\ UNCHANGED <<sortvars, tables, allocated, lost, failed>>

Return ==
  /\ At("calls") /\ Top.todo = <<>>
  /\ stack' = Pop
  /\ allocated' = IF Top.of = Main THEN allocated ELSE allocated - 3
  /\ UNCHANGED <<sortvars, tables, opened, lost, failed, listed, crashed>>

Done == stack = <<>> \/ crashed

Walk ==
  \/ AnalyseArg \/ SortArgs \/ PendObjects \/ Calls
  \/ OpenDir \/ Skip \/ ReadEntry \/ ReallocFails \/ SortEntries \/ PrintListing \/ Return
Next == Walk \/ (SortNext /\ UNCHANGED walkvars)

Spec == Init /\ [][Next]_vars
FairSpec == Spec /\ WF_vars(Next)

-----------------------------------------------------------------------------
(* Properties                                                              *)

FrameType ==
  [of : Directory \cup {Main}, at : {"args", "open", "read", "sorted", "calls"},
   entries : Seq(Entry), todo : Seq(Entry), capacity : Nat]

WalkTypeOK ==
  /\ argv \in Seq([letters : SUBSET Letter, name : File \cup {Missing}])
  /\ options \subseteq Letter /\ stat \in Stats
  /\ pendingObject \in Seq(File) /\ unavaCount \in Nat
  /\ stack \in Seq(FrameType)
  /\ opened \in Nat /\ allocated \in Nat /\ lost \in Nat
  /\ failed \in BOOLEAN /\ crashed \in BOOLEAN

\* Calls of printIdxObj() that have their arrays.
Depth ==
  IF stack = <<>> THEN 0
  ELSE IF Top.at = "open" THEN Len(stack) - 2 ELSE Len(stack) - 1

\* However deep the tree, at most one directory stream is open, and only while the
\* running call reads, sorts and prints; what is allocated is the arrays of the
\* calls on the stack, and what realloc() has lost.
BoundedResources ==
  /\ opened = IF stack # <<>> /\ Top.at \in {"read", "sorted"} /\ Top.of # Main THEN 1 ELSE 0
  /\ allocated = 3 * Depth + lost

\* quickSort() stays inside the arrays it is given, the program's state is
\* well-formed at every step, and the recursion never holds more than it accounts for.
Inv == SortInv /\ WalkTypeOK /\ BoundedResources

\* What an object is supposed to bring into the listing, by steps down the tree: the
\* least set with the object and the wanted directories of those that can be opened.
Wanted(opts, e) == "a" \in opts \/ e \notin Hidden \cup {Dot, DotDot}
Subdirs(opts, d) == {e \in KidsOf(d) \cap Directory : Wanted(opts, e) /\ d \notin Locked}
DownClosed(opts, S) == \A d \in S : Subdirs(opts, d) \subseteq S
Below(opts, d) ==
  {e \in Directory : \A S \in SUBSET Directory : d \in S /\ DownClosed(opts, S) => e \in S}

Reached(opts, d) == (IF "R" \in opts THEN Below(opts, d) ELSE {d}) \ Locked

\* Every directory an argument reaches has been printed exactly once for it: hidden
\* ones only under -a, lower ones only under -R, none that is locked.
Reaches(opts, e, d) == e \in Directory /\ d \in Reached(opts, e)
ReachedOnce ==
  \A d \in Directory :
    Cardinality({k \in 1..Len(listed) : listed[k].of = d}) =
      Cardinality({k \in 1..Len(pendingObject) : Reaches(options, pendingObject[k], d)})

\* And of each every visible entry exactly once, although the sort, the arguments'
\* sizes and the options that order the list may be anything.
Shows(opts, of, shown) ==
  LET visible == {e \in KidsOf(of) : Wanted(opts, e)}
  IN Len(shown) = Cardinality(visible) /\ {shown[j] : j \in 1..Len(shown)} = visible
ShownWhole == \A k \in 1..Len(listed) : Shows(options, listed[k].of, listed[k].entries)

ListsAll == ShownWhole /\ (Done /\ ~failed /\ ~crashed => ReachedOnce)

\* The program comes to an end, for every outcome of the comparisons.
Terminates == <>Done
=============================================================================
