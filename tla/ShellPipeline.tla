--------------------------- MODULE ShellPipeline ---------------------------
(***************************************************************************)
(* The shell of plan4-shell: main_loop() of analyse.c splits a line into    *)
(* stages and calls run() of run.c for each of them, one after the other.   *)
(*                                                                         *)
(* A stage that is a program is a child process with the file descriptors   *)
(* it inherited; it copies nothing but amounts: it may read its standard     *)
(* input to the end, and it writes a number of blocks.  The stages of all    *)
(* lines are numbered in the order they were typed; the pipe from a stage   *)
(* to the next one has the number of the stage.  Children outlive their     *)
(* line if they run in background.                                         *)
(*                                                                         *)
(* pipe() is taken to succeed; fork(), open() and chdir() may fail.         *)
(***************************************************************************)
EXTENDS Naturals, Sequences, FiniteSets

CONSTANTS
  Command,    \* the commands users type: records, see CommandAssumption
  MAX_PIPES,  \* stages of a line
  MaxStages,  \* stages typed, on all lines together: bounds the runs
  Cap,        \* blocks a pipe holds
  Dir, HOME,  \* directories, and the one of $HOME
  NoDir       \* no previous directory

ASSUME SizeAssumption == MAX_PIPES \in Nat \ {0} /\ Cap \in Nat \ {0} /\ MaxStages \in Nat
ASSUME DirAssumption == HOME \in Dir /\ NoDir \notin Dir
\* kind: what run() does; dir: the argument of cd; bg: there was an "&"; reads:
\* the program reads its input to the end; out: blocks it writes; infile and
\* outfile: the redirections.
ASSUME CommandAssumption ==
  Command \subseteq [kind : {"empty", "cd", "exit", "program"}, dir : Dir \cup {"home", "-"},
                     bg : BOOLEAN, reads : BOOLEAN, out : Nat,
                     infile : {"none", "file", "missing"}, outfile : {"none", "file", "missing"}]

VARIABLES
  pc,        \* where the shell is
  base,      \* stages typed on earlier lines
  line,      \* commands of the current line
  i,         \* current stage
  shfds,     \* ends of pipes open in the shell
  in_fd,     \* standard input of the next stage
  child,     \* id -> the process of that stage
  data,      \* id -> blocks in the pipe
  cwd, prev_dir

vars == <<pc, base, line, i, shfds, in_fd, child, data, cwd, prev_dir>>
shell == <<pc, base, line, i, shfds, in_fd, cwd, prev_dir>>

Id == 1..MaxStages
R(p) == <<p, "r">>
W(p) == <<p, "w">>
End == {<<p, e>> : p \in Id, e \in {"r", "w"}}
STDIN == <<0, "stdin">>
STDOUT == <<0, "stdout">>
FILE == <<0, "file">>

Me == base + i   \* the stage the shell is at
cmd_count == Len(line)
Last == i = cmd_count

NoChild == [state |-> "none", fds |-> {}, stdin |-> STDIN, stdout |-> STDOUT,
            eof |-> FALSE, left |-> 0]

Init ==
  /\ pc = "prompt" /\ base = 0 /\ line = <<>> /\ i = 1
  /\ shfds = {} /\ in_fd = STDIN
  /\ child = [c \in Id |-> NoChild]
  /\ data = [p \in Id |-> 0]
  /\ cwd \in Dir /\ prev_dir = NoDir

-----------------------------------------------------------------------------
(* The shell                                                               *)

\* fgets() and the split at "|".  At the end of the input the loop ends.
ReadLine ==
  /\ pc = "prompt"
  /\ \/ /\ base' = base + cmd_count
        /\ \E n \in 1..MAX_PIPES :
             /\ base' + n <= MaxStages
             /\ \E cmds \in [1..n -> Command] : line' = cmds
        /\ pc' = "pipe"
     \/ pc' = "done" /\ UNCHANGED <<base, line>>
  /\ i' = 1 /\ in_fd' = STDIN
  /\ UNCHANGED <<shfds, child, data, cwd, prev_dir>>

\* if (i < cmd_count - 1) pipe(fds)
Pipe ==
  /\ pc = "pipe"
  /\ shfds' = IF Last THEN shfds ELSE shfds \cup {R(Me), W(Me)}
  /\ pc' = "run"
  /\ UNCHANGED <<base, line, i, in_fd, child, data, cwd, prev_dir>>

\* cd: the shell itself moves, whatever stage of a pipeline the cd is.
Target(cmd) ==
  CASE cmd.dir = "home" -> HOME
    [] cmd.dir = "-" -> prev_dir
    [] OTHER -> cmd.dir

HasTarget(cmd) == Target(cmd) # NoDir

ChangeDir(cmd) ==
  /\ cmd.kind = "cd"
  /\ \/ /\ HasTarget(cmd)
        /\ cwd' = Target(cmd)
        /\ prev_dir' = cwd
     \/ UNCHANGED <<cwd, prev_dir>>    \* "-" without OLDPWD, or chdir() fails
  /\ pc' = "close"
  /\ UNCHANGED child

\* The child after its redirections and dup2s: the pipe wins over the file, and a
\* file that cannot be opened ends the child.  It closes the descriptors it has
\* duplicated, but the read end of its own pipe stays open in it.
Stdin(cmd) == IF in_fd # STDIN THEN in_fd ELSE IF cmd.infile = "file" THEN FILE ELSE STDIN
Stdout(cmd) == IF ~Last THEN W(Me) ELSE IF cmd.outfile = "file" THEN FILE ELSE STDOUT

RedirectFails(cmd) == cmd.infile = "missing" \/ cmd.outfile = "missing"

\* SIGCHLD is ignored: a child that ends leaves nothing behind to wait for.
Gone == [NoChild EXCEPT !.state = "ended"]

Forked(cmd) ==
  IF RedirectFails(cmd)
  THEN Gone
  ELSE [state |-> "running", fds |-> shfds, stdin |-> Stdin(cmd), stdout |-> Stdout(cmd),
        eof |-> ~cmd.reads \/ Stdin(cmd) \notin End, left |-> cmd.out]

Fork(cmd) ==
  /\ cmd.kind = "program"
  /\ \/ /\ child' = [child EXCEPT ![Me] = Forked(cmd)]
        /\ pc' = IF cmd.bg THEN "close" ELSE "wait"
     \/ pc' = "close" /\ UNCHANGED child       \* fork() fails
  /\ UNCHANGED <<cwd, prev_dir>>

\* exit ends the shell in the middle of the line.
Run ==
  /\ pc = "run"
  /\ LET cmd == line[i] IN
       \/ ChangeDir(cmd) /\ UNCHANGED shfds
       \/ Fork(cmd) /\ UNCHANGED shfds
       \/ /\ cmd.kind = "empty"
          /\ pc' = "close"
          /\ UNCHANGED <<shfds, child, cwd, prev_dir>>
       \/ /\ cmd.kind = "exit"
          /\ pc' = "done"
          /\ shfds' = {}
          /\ UNCHANGED <<child, cwd, prev_dir>>
  /\ UNCHANGED <<base, line, i, in_fd, data>>

\* waitpid(): SIGCHLD is ignored, so it fails once the child is gone.
Wait ==
  /\ pc = "wait"
  /\ child[Me].state = "ended"
  /\ pc' = "close"
  /\ UNCHANGED <<base, line, i, shfds, in_fd, child, data, cwd, prev_dir>>

\* What the shell closes after a stage: the input it has handed on, and the end
\* that only the stage writes to.
ClosedInMutant == {}
ClosedIn == IF i > 1 THEN {in_fd} ELSE {}
ClosedOutMutant == {}
ClosedOut == IF Last THEN {} ELSE {W(Me)}

NextInMutant == IF i = 1 THEN R(Me) ELSE in_fd
NextIn == R(Me)

CloseEnds ==
  /\ pc = "close"
  /\ shfds' = shfds \ (ClosedIn \cup ClosedOut)
  /\ in_fd' = IF Last THEN in_fd ELSE NextIn
  /\ i' = IF Last THEN 1 ELSE i + 1
  /\ pc' = IF Last THEN "prompt" ELSE "pipe"
  /\ UNCHANGED <<base, line, child, data, cwd, prev_dir>>

ShellStep == Pipe \/ Run \/ Wait \/ CloseEnds

-----------------------------------------------------------------------------
(* The children and their pipes                                            *)

Holds(fd) == fd \in shfds \/ \E c \in Id : fd \in child[c].fds

ReadBlock(c) ==
  /\ child[c].state = "running" /\ ~child[c].eof
  /\ LET p == child[c].stdin[1] IN
       \/ /\ data[p] > 0
          /\ data' = [data EXCEPT ![p] = @ - 1]
          /\ UNCHANGED child
       \/ /\ data[p] = 0 /\ ~Holds(W(p))
          /\ child' = [child EXCEPT ![c].eof = TRUE]
          /\ UNCHANGED data
  /\ UNCHANGED shell

\* The stage holds a read end of its own pipe, so a write never fails for want of
\* a reader: it blocks when the pipe is full.
WriteBlock(c) ==
  /\ child[c].state = "running" /\ child[c].left > 0
  /\ child' = [child EXCEPT ![c].left = @ - 1]
  /\ IF child[c].stdout \in End
     THEN data[c] < Cap /\ data' = [data EXCEPT ![c] = @ + 1]
     ELSE UNCHANGED data
  /\ UNCHANGED shell

Exit(c) ==
  /\ child[c].state = "running" /\ child[c].eof /\ child[c].left = 0
  /\ child' = [child EXCEPT ![c] = Gone]
  /\ UNCHANGED <<shell, data>>

ChildStep(c) == ReadBlock(c) \/ WriteBlock(c) \/ Exit(c)

Next == ReadLine \/ ShellStep \/ \E c \in Id : ChildStep(c)

Spec == Init /\ [][Next]_vars

\* Every process that can move is scheduled; nobody has to type.
FairSpec == Spec /\ WF_vars(ShellStep) /\ \A c \in Id : WF_vars(ChildStep(c))

-----------------------------------------------------------------------------
(* Properties                                                              *)

TypeOK ==
  /\ pc \in {"prompt", "pipe", "run", "wait", "close", "done"}
  /\ base \in 0..MaxStages /\ i \in 1..MAX_PIPES
  /\ shfds \subseteq End /\ in_fd \in End \cup {STDIN}
  /\ child \in [Id -> [state : {"none", "running", "ended"}, fds : SUBSET End,
                       stdin : End \cup {STDIN, FILE}, stdout : End \cup {STDOUT, FILE},
                       eof : BOOLEAN, left : Nat]]
  /\ data \in [Id -> 0..Cap]
  /\ cwd \in Dir /\ prev_dir \in Dir \cup {NoDir}

\* The shell leaks no descriptor: back at the prompt it has no end of a pipe,
\* whichever stages failed, ran in background, or were no programs at all.
PromptClean == pc = "prompt" => shfds = {}

\* Nobody but its own stage can keep a pipe open for writing: otherwise the reader
\* would wait for an end of file that a sibling holds back.
OnlyWriterHolds ==
  \A c, p \in Id : W(p) \in child[c].fds => c = p

\* A running child that reads a pipe and the writer of that pipe are neighbours of
\* the same line, and no pipe has a second reader: data goes to the next stage only.
OneReader ==
  \A c, d \in Id :
    (child[c].state = "running" /\ child[d].state = "running" /\ child[c].stdin \in End
       /\ child[c].stdin = child[d].stdin) => c = d /\ child[c].stdin = R(c - 1)

\* Each end of a pipe is with the processes it is meant for.
PipeEnds == TypeOK /\ OnlyWriterHolds /\ OneReader

\* A foreground stage that is not the last has to leave all its output in the
\* pipe: nobody reads it before the stage has ended.
Fits ==
  \A k \in 1..(cmd_count - 1) : line[k].bg \/ line[k].kind # "program" \/ line[k].out <= Cap

\* When all such stages fit, the prompt comes back.
PromptReturns == (pc = "pipe" /\ Fits) ~> pc \in {"prompt", "done"}

\* And a stage ends, in the background too, if neither it nor a stage whose output
\* comes down to it writes more than a pipe holds.
Upstream(c) == {d \in 1..c : \A k \in (d + 1)..c : child[k].stdin = R(k - 1)}
Quiet(c) == \A d \in Upstream(c) : child[d].left + data[d] <= Cap

ChildrenEnd == \A c \in Id : (child[c].state = "running" /\ Quiet(c)) ~> child[c].state = "ended"
=============================================================================
