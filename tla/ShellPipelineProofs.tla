------------------------- MODULE ShellPipelineProofs -------------------------
(***************************************************************************)
(* Proofs about ShellPipeline, for any commands and lines of any length.      *)
(* Clean says which ends of pipes the shell has at every point of a line;     *)
(* what a child inherits, and so who can hold back an end of file, follows.   *)
(***************************************************************************)
EXTENDS ShellPipeline, SequenceTheorems, TLAPS

InLine == pc \in {"pipe", "run", "wait", "close"}

\* The shell is at a stage of the line, and its input comes from the stage before.
AtStage ==
  /\ line \in Seq(Command) /\ Len(line) <= MAX_PIPES /\ base + Len(line) <= MaxStages
  /\ InLine => i \in 1..Len(line) /\ in_fd = IF i = 1 THEN STDIN ELSE R(Me - 1)

\* The ends the shell has: what the stage before wrote, and the pipe it made.
Incoming == IF i = 1 THEN {} ELSE {R(Me - 1)}
Made == IF Last THEN {} ELSE {R(Me), W(Me)}

Clean ==
  /\ pc \in {"prompt", "done"} => shfds = {}
  /\ pc = "pipe" => shfds = Incoming
  /\ pc \in {"run", "wait", "close"} => shfds = Incoming \cup Made

\* A stage holds the write end of its own pipe only, and reads no other pipe than
\* the one of the stage before.
Inherited(c) ==
  /\ \A p \in Id : W(p) \in child[c].fds => c = p
  /\ child[c].stdin \in End => child[c].stdin = R(c - 1)
  /\ child[c].state = "running" /\ ~child[c].eof => child[c].stdin \in End

IInv == TypeOK /\ AtStage /\ Clean /\ \A c \in Id : Inherited(c)

-----------------------------------------------------------------------------

\* Pipes have two ends each, and none of them is a terminal or a file.
LEMMA Ends ==
  /\ \A p, q : (R(p) = R(q) => p = q) /\ (W(p) = W(q) => p = q) /\ R(p) # W(q)
  /\ \A p : R(p)[1] = p /\ R(p) \notin {STDIN, STDOUT, FILE} /\ W(p) \notin {STDIN, STDOUT, FILE}
  /\ \A p \in Id : R(p) \in End /\ W(p) \in End
  /\ \A p : W(p) \in End => p \in Id
  /\ STDIN \notin End /\ STDOUT \notin End /\ FILE \notin End
BY DEF R, W, End, STDIN, STDOUT, FILE

\* While the shell works on a line, the stage it is at has a number of its own.
LEMMA StageNumber ==
  ASSUME TypeOK, AtStage, InLine
  PROVE  /\ base \in Nat /\ i \in Nat \ {0} /\ cmd_count \in Nat /\ i <= cmd_count /\ Me \in Id
         /\ line[i] \in Command
         /\ ~Last => i + 1 <= cmd_count
         /\ i # 1 => Me - 1 \in Id
<1>1. base \in Nat /\ Len(line) \in Nat /\ i \in 1..Len(line) /\ base + Len(line) <= MaxStages /\ MaxStages \in Nat
  BY SizeAssumption DEF TypeOK, AtStage
<1>2. line[i] \in Command
  BY <1>1, ElementOfSeq DEF AtStage
<1> QED
  BY <1>1, <1>2 DEF Me, Id, cmd_count, Last

\* The shell starts at its prompt.
LEMMA InitInv == Init => IInv
<1> SUFFICES ASSUME Init PROVE IInv
  OBVIOUS
<1>1. NoChild \in [state : {"none", "running", "ended"}, fds : SUBSET End, stdin : End \cup {STDIN, FILE},
                   stdout : End \cup {STDOUT, FILE}, eof : BOOLEAN, left : Nat]
  BY DEF NoChild
<1>2. TypeOK
  BY <1>1, SizeAssumption DEF Init, TypeOK
<1>3. AtStage
  BY SizeAssumption DEF Init, AtStage, InLine
<1>4. Clean
  BY DEF Init, Clean
<1>5. \A c \in Id : Inherited(c)
  BY Ends DEF Init, Inherited, NoChild
<1> QED
  BY <1>2, <1>3, <1>4, <1>5 DEF IInv

\* A line of n commands.
LEMMA NewLine ==
  ASSUME NEW n \in Nat, NEW cmds \in [1..n -> Command]
  PROVE  cmds \in Seq(Command) /\ Len(cmds) = n
  OBVIOUS

\* A new line comes after the stages of the earlier ones.
LEMMA ReadLineStep ==
  ASSUME IInv, ReadLine
  PROVE  IInv'
<1>1. /\ pc = "prompt" /\ i' = 1 /\ in_fd' = STDIN /\ UNCHANGED <<shfds, child, data, cwd, prev_dir>>
      /\ shfds = {} /\ 1 \in 1..MAX_PIPES
  BY SizeAssumption DEF ReadLine, IInv, Clean
<1>2. (\A c \in Id : Inherited(c))'
  BY <1>1 DEF IInv, Inherited
<1>3. CASE pc' = "pipe"
  <2>1. PICK n \in 1..MAX_PIPES : base' + n <= MaxStages /\ \E cmds \in [1..n -> Command] : line' = cmds
    BY <1>3 DEF ReadLine
  <2>2. base' = base + Len(line) /\ base' \in Nat /\ n \in Nat /\ n <= MAX_PIPES /\ 1 <= n
    BY <1>1, <1>3, <2>1, SizeAssumption DEF ReadLine, cmd_count, IInv, TypeOK, AtStage
  <2>3. line' \in Seq(Command) /\ Len(line') = n
    BY <2>1, <2>2, NewLine
  <2>4. TypeOK'
    BY <1>1, <1>3, <2>1, <2>2, SizeAssumption DEF IInv, TypeOK
  <2>5. AtStage'
    BY <1>1, <1>3, <2>1, <2>2, <2>3 DEF AtStage
  <2>6. Clean'
    BY <1>1, <1>3 DEF Clean, Incoming
  <2> QED
    BY <1>2, <2>4, <2>5, <2>6 DEF IInv
<1>4. CASE pc' # "pipe"
  <2>1. pc' = "done" /\ UNCHANGED <<base, line>>
    BY <1>4 DEF ReadLine
  <2> QED
    BY <1>1, <1>2, <2>1 DEF IInv, TypeOK, AtStage, InLine, Clean
<1> QED
  BY <1>3, <1>4

\* pipe() adds the two ends of the stage's own pipe.
LEMMA PipeStep ==
  ASSUME IInv, Pipe
  PROVE  IInv'
<1>1. /\ pc = "pipe" /\ pc' = "run" /\ UNCHANGED <<base, line, i, in_fd, child, data, cwd, prev_dir>>
      /\ shfds' = shfds \cup Made /\ shfds = Incoming
  BY DEF Pipe, Made, IInv, Clean
<1>2. Me \in Id
  BY <1>1, StageNumber DEF IInv, InLine
<1>3. TypeOK'
  <2>1. Made \subseteq End
    BY <1>2, Ends DEF Made
  <2> QED
    BY <1>1, <2>1 DEF IInv, TypeOK
<1>4. AtStage' /\ (\A c \in Id : Inherited(c))'
  BY <1>1 DEF IInv, AtStage, InLine, Me, Inherited
<1>5. Incoming' = Incoming /\ Made' = Made
  BY <1>1 DEF Incoming, Made, Me, Last, cmd_count
<1>6. Clean'
  BY <1>1, <1>5 DEF Clean
<1> QED
  BY <1>3, <1>4, <1>6 DEF IInv

\* A forked child has the ends of the shell at that moment: of its own pipe and the
\* read end of the one before.
LEMMA ForkedInherits ==
  ASSUME IInv, pc = "run", NEW cmd \in Command, child' = [child EXCEPT ![Me] = Forked(cmd)]
  PROVE  /\ child' \in [Id -> [state : {"none", "running", "ended"}, fds : SUBSET End,
                                stdin : End \cup {STDIN, FILE}, stdout : End \cup {STDOUT, FILE},
                                eof : BOOLEAN, left : Nat]]
         /\ \A c \in Id : Inherited(c)'
<1> DEFINE Proc == [state : {"none", "running", "ended"}, fds : SUBSET End,
                   stdin : End \cup {STDIN, FILE}, stdout : End \cup {STDOUT, FILE},
                   eof : BOOLEAN, left : Nat]
<1>1. Me \in Id /\ (i # 1 => Me - 1 \in Id)
  BY StageNumber DEF IInv, InLine
<1>2. shfds = Incoming \cup Made /\ shfds \subseteq End
  BY DEF IInv, Clean, TypeOK
<1>3. in_fd = IF i = 1 THEN STDIN ELSE R(Me - 1)
  BY DEF IInv, AtStage, InLine
<1>4. cmd.out \in Nat /\ cmd.reads \in BOOLEAN
  BY CommandAssumption
<1>5. /\ Stdin(cmd) \in End \cup {STDIN, FILE} /\ Stdout(cmd) \in End \cup {STDOUT, FILE}
      /\ Stdin(cmd) \in End => Stdin(cmd) = R(Me - 1)
  BY <1>1, <1>3, Ends DEF Stdin, Stdout
<1>6. \A p \in Id : W(p) \in shfds => p = Me
  BY <1>2, Ends DEF Incoming, Made
<1>7. /\ Gone \in Proc /\ Gone.fds = {} /\ Gone.stdin = STDIN /\ Gone.state = "ended"
  BY DEF Gone, NoChild
<1>8. /\ Forked(cmd) \in Proc
      /\ \A p \in Id : W(p) \in Forked(cmd).fds => p = Me
      /\ Forked(cmd).stdin \in End => Forked(cmd).stdin = R(Me - 1)
      /\ Forked(cmd).state = "running" /\ ~Forked(cmd).eof => Forked(cmd).stdin \in End
  <2>1. CASE RedirectFails(cmd)
    BY <1>7, <2>1, Ends DEF Forked
  <2>2. CASE ~RedirectFails(cmd)
    <3>1. Forked(cmd) = [state |-> "running", fds |-> shfds, stdin |-> Stdin(cmd), stdout |-> Stdout(cmd),
                         eof |-> ~cmd.reads \/ Stdin(cmd) \notin End, left |-> cmd.out]
      BY <2>2 DEF Forked
    <3>2. Forked(cmd) \in Proc
      BY <1>2, <1>4, <1>5, <3>1
    <3>3. /\ Forked(cmd).fds = shfds /\ Forked(cmd).stdin = Stdin(cmd)
          /\ Forked(cmd).eof = (~cmd.reads \/ Stdin(cmd) \notin End)
      BY <3>1
    <3> QED
      BY <1>5, <1>6, <3>2, <3>3
  <2> QED
    BY <2>1, <2>2
<1>9. child \in [Id -> Proc] /\ \A c \in Id : Inherited(c)
  BY DEF IInv, TypeOK
<1> HIDE DEF Proc
<1>10. child' \in [Id -> Proc] /\ child'[Me] = Forked(cmd) /\ \A c \in Id : c # Me => child'[c] = child[c]
  BY <1>1, <1>8, <1>9
<1>11. \A c \in Id : Inherited(c)'
  BY <1>8, <1>9, <1>10 DEF Inherited
<1> QED
  BY <1>10, <1>11 DEF Proc

\* A stage runs: as a child, in the shell, or not at all.
LEMMA RunStep ==
  ASSUME IInv, Run
  PROVE  IInv'
<1> DEFINE cmd == line[i]
<1>1. pc = "run" /\ UNCHANGED <<base, line, i, in_fd, data>>
  BY DEF Run
<1>2. cmd \in Command
  BY <1>1, StageNumber DEF IInv, InLine
<1>3. \/ pc' \in {"wait", "close"} /\ shfds' = shfds
      \/ pc' = "done" /\ shfds' = {}
  BY DEF Run, ChangeDir, Fork
<1>4. /\ \/ UNCHANGED <<cwd, prev_dir>>
         \/ cmd.dir \in Dir \cup {"home", "-"} /\ HasTarget(cmd) /\ cwd' = Target(cmd) /\ prev_dir' = cwd
      /\ \/ UNCHANGED child
         \/ child' = [child EXCEPT ![Me] = Forked(cmd)]
  BY <1>2, CommandAssumption DEF Run, ChangeDir, Fork
<1>5. cwd' \in Dir /\ prev_dir' \in Dir \cup {NoDir}
  <2>1. CASE UNCHANGED <<cwd, prev_dir>>
    BY <2>1 DEF IInv, TypeOK
  <2>2. CASE cmd.dir \in Dir \cup {"home", "-"} /\ HasTarget(cmd) /\ cwd' = Target(cmd) /\ prev_dir' = cwd
    BY <2>2, DirAssumption DEF IInv, TypeOK, HasTarget, Target
  <2> QED
    BY <1>4, <2>1, <2>2
<1>6. /\ child' \in [Id -> [state : {"none", "running", "ended"}, fds : SUBSET End,
                             stdin : End \cup {STDIN, FILE}, stdout : End \cup {STDOUT, FILE},
                             eof : BOOLEAN, left : Nat]]
      /\ \A c \in Id : Inherited(c)'
  <2>1. CASE UNCHANGED child
    BY <2>1 DEF IInv, TypeOK, Inherited
  <2>2. CASE child' = [child EXCEPT ![Me] = Forked(cmd)]
    BY <1>1, <1>2, <2>2, ForkedInherits
  <2> QED
    BY <1>4, <2>1, <2>2
<1> HIDE DEF cmd
<1>7. TypeOK'
  <2>1. shfds' \subseteq End
    BY <1>3 DEF IInv, TypeOK
  <2> QED
    BY <1>1, <1>3, <1>5, <1>6, <2>1 DEF IInv, TypeOK
<1>8. AtStage'
  BY <1>1, <1>3 DEF IInv, AtStage, InLine, Me
<1>9. Clean'
  BY <1>1, <1>3 DEF IInv, Clean, Incoming, Made, Me, Last, cmd_count
<1> QED
  BY <1>6, <1>7, <1>8, <1>9 DEF IInv

\* The shell waits for the stage and keeps what it has.
LEMMA WaitStep ==
  ASSUME IInv, Wait
  PROVE  IInv'
BY DEF Wait, IInv, TypeOK, AtStage, InLine, Clean, Incoming, Made, Me, Last, cmd_count, Inherited

\* The shell keeps only the read end of the stage's pipe, the input of the next one.
LEMMA CloseStep ==
  ASSUME IInv, CloseEnds
  PROVE  IInv'
<1>1. /\ pc = "close" /\ UNCHANGED <<base, line, child, data, cwd, prev_dir>>
      /\ shfds' = shfds \ (ClosedIn \cup ClosedOut)
      /\ in_fd' = IF Last THEN in_fd ELSE R(Me)
      /\ i' = IF Last THEN 1 ELSE i + 1
      /\ pc' = IF Last THEN "prompt" ELSE "pipe"
  BY DEF CloseEnds, NextIn
<1>2. /\ base \in Nat /\ i \in Nat \ {0} /\ Len(line) \in Nat /\ i <= Len(line) /\ Me \in Id
      /\ ~Last => i + 1 <= Len(line)
  BY <1>1, StageNumber DEF IInv, InLine, cmd_count
<1>3. shfds = Incoming \cup Made /\ in_fd = IF i = 1 THEN STDIN ELSE R(Me - 1)
  BY <1>1 DEF IInv, Clean, AtStage, InLine
<1>4. Me - 1 # Me
  BY <1>2 DEF Me
<1>5. shfds' = IF Last THEN {} ELSE {R(Me)}
  <2>1. ClosedIn = Incoming
    <3>1. i > 1 <=> i # 1
      BY <1>2
    <3> QED
      BY <1>3, <3>1 DEF ClosedIn, Incoming
  <2>2. R(Me) \notin Incoming /\ R(Me) # W(Me)
    BY <1>4, Ends DEF Incoming
  <2> QED
    BY <1>1, <1>3, <2>1, <2>2 DEF Made, ClosedOut
<1>6. (\A c \in Id : Inherited(c))'
  BY <1>1 DEF IInv, Inherited
<1>7. CASE Last
  <2>1. TypeOK'
    BY <1>1, <1>5, <1>7, SizeAssumption DEF IInv, TypeOK
  <2>2. AtStage' /\ Clean'
    BY <1>1, <1>5, <1>7 DEF IInv, AtStage, InLine, Clean
  <2> QED
    BY <1>6, <2>1, <2>2 DEF IInv
<1>8. CASE ~Last
  <2>1. i' = i + 1 /\ i' # 1 /\ i' \in 1..Len(line) /\ Me' - 1 = Me /\ pc' = "pipe"
    BY <1>1, <1>2, <1>8 DEF Me
  <2>2. AtStage'
    BY <1>1, <1>8, <2>1 DEF IInv, AtStage
  <2>3. TypeOK'
    <3>1. i' \in 1..MAX_PIPES
      BY <1>2, <2>1, SizeAssumption DEF IInv, AtStage
    <3>2. shfds' \subseteq End /\ in_fd' \in End
      BY <1>1, <1>2, <1>5, <1>8, Ends
    <3> QED
      BY <1>1, <2>1, <3>1, <3>2 DEF IInv, TypeOK
  <2>4. Clean'
    BY <1>5, <1>8, <2>1 DEF Clean, Incoming
  <2> QED
    BY <1>6, <2>2, <2>3, <2>4 DEF IInv
<1> QED
  BY <1>7, <1>8

\* What a child does leaves it the ends it has, or none.
LEMMA ChildStepInv ==
  ASSUME IInv, NEW c \in Id, ChildStep(c)
  PROVE  IInv'
<1> DEFINE Proc == [state : {"none", "running", "ended"}, fds : SUBSET End,
                   stdin : End \cup {STDIN, FILE}, stdout : End \cup {STDOUT, FILE},
                   eof : BOOLEAN, left : Nat]
<1>1. UNCHANGED shell /\ child[c].state = "running"
  BY DEF ChildStep, ReadBlock, WriteBlock, Exit
<1>2. child \in [Id -> Proc] /\ child[c] \in Proc /\ data \in [Id -> 0..Cap] /\ Inherited(c)
  BY DEF IInv, TypeOK
<1>3. \/ child' = child
      \/ child' = [child EXCEPT ![c].eof = TRUE]
      \/ child[c].left > 0 /\ child' = [child EXCEPT ![c].left = child[c].left - 1]
      \/ child' = [child EXCEPT ![c] = Gone]
  BY DEF ChildStep, ReadBlock, WriteBlock, Exit
<1>4. child' \in [Id -> Proc] /\ (\A d \in Id : d # c => child'[d] = child[d]) /\ Inherited(c)'
  <2>1. CASE child' = child
    BY <1>2, <2>1 DEF Inherited
  <2>2. CASE child' = [child EXCEPT ![c].eof = TRUE]
    BY <1>2, <2>2 DEF Inherited
  <2>3. CASE child[c].left > 0 /\ child' = [child EXCEPT ![c].left = child[c].left - 1]
    BY <1>2, <2>3 DEF Inherited
  <2>4. CASE child' = [child EXCEPT ![c] = Gone]
    <3>1. Gone \in Proc /\ Gone.fds = {} /\ Gone.stdin = STDIN /\ Gone.state = "ended"
      BY DEF Gone, NoChild
    <3> QED
      BY <1>2, <2>4, <3>1, Ends DEF Inherited
  <2> QED
    BY <1>3, <2>1, <2>2, <2>3, <2>4
<1>5. (\A d \in Id : Inherited(d))'
  BY <1>4 DEF IInv, Inherited
<1>6. data' \in [Id -> 0..Cap]
  <2>1. CASE data' = data
    BY <1>2, <2>1
  <2>2. CASE ReadBlock(c) /\ data' # data
    <3>1. PICK p \in Id : child[c].stdin[1] = p
      BY <1>1, <1>2, <2>2 DEF ReadBlock, Inherited, End
    <3>2. data[p] > 0 /\ data' = [data EXCEPT ![p] = data[p] - 1]
      BY <2>2, <3>1 DEF ReadBlock
    <3> QED
      BY <1>2, <3>1, <3>2, SizeAssumption
  <2>3. CASE WriteBlock(c) /\ data' # data
    <3>1. data[c] < Cap /\ data' = [data EXCEPT ![c] = data[c] + 1]
      BY <2>3 DEF WriteBlock
    <3> QED
      BY <1>2, <3>1, SizeAssumption
  <2> QED
    BY <2>1, <2>2, <2>3 DEF ChildStep, Exit
<1>7. TypeOK'
  BY <1>1, <1>4, <1>6 DEF IInv, TypeOK, shell
<1>8. AtStage' /\ Clean'
  BY <1>1 DEF IInv, AtStage, InLine, Clean, Incoming, Made, Me, Last, cmd_count, shell
<1> QED
  BY <1>5, <1>7, <1>8 DEF IInv

\* The invariant is inductive.
LEMMA Invariance == Spec => []IInv
<1>1. IInv /\ [Next]_vars => IInv'
  <2> SUFFICES ASSUME IInv, [Next]_vars PROVE IInv'
    OBVIOUS
  <2>1. CASE ReadLine \/ ShellStep
    BY <2>1, ReadLineStep, PipeStep, RunStep, WaitStep, CloseStep DEF ShellStep
  <2>2. CASE \E c \in Id : ChildStep(c)
    BY <2>2, ChildStepInv
  <2>3. CASE UNCHANGED vars
    BY <2>3 DEF vars, IInv, TypeOK, AtStage, InLine, Clean, Incoming, Made, Me, Last, cmd_count, Inherited
  <2> QED
    BY <2>1, <2>2, <2>3 DEF Next
<1> QED
  BY <1>1, InitInv, PTL DEF Spec

\* For any commands: back at the prompt the shell has no end of a pipe.
THEOREM ShellLeaksNothing == Spec => []PromptClean
<1>1. IInv => PromptClean
  BY DEF IInv, Clean, PromptClean
<1> QED
  BY <1>1, Invariance, PTL

\* For any commands: nobody but its own stage holds the write end of a pipe, so that
\* the next stage sees the end of its input; and no other stage reads it.
THEOREM EndsWhereTheyBelong == Spec => []PipeEnds
<1>1. IInv => PipeEnds
  <2> SUFFICES ASSUME IInv PROVE PipeEnds
    OBVIOUS
  <2>1. OnlyWriterHolds
    BY DEF IInv, Inherited, OnlyWriterHolds
  <2>2. ASSUME NEW c \in Id, NEW d \in Id, child[c].stdin \in End, child[c].stdin = child[d].stdin
        PROVE  c = d /\ child[c].stdin = R(c - 1)
    <3>1. child[c].stdin = R(c - 1) /\ child[d].stdin = R(d - 1)
      BY <2>2 DEF IInv, Inherited
    <3>2. c - 1 = d - 1
      BY <2>2, <3>1, Ends
    <3>3. c \in Int /\ d \in Int
      BY SizeAssumption DEF Id
    <3> QED
      BY <3>1, <3>2, <3>3
  <2> QED
    BY <2>1, <2>2 DEF IInv, PipeEnds, OneReader
<1> QED
  BY <1>1, Invariance, PTL
=============================================================================
