-------------------------- MODULE MCShellPipeline --------------------------
(* The commands that users type in the runs: one for each way a stage can go. *)
EXTENDS ShellPipeline

CONSTANTS home, src

Program(bg, reads, out) ==
  [kind |-> "program", dir |-> home, bg |-> bg, reads |-> reads, out |-> out,
   infile |-> "none", outfile |-> "none"]

Other(kind, dir) == [Program(FALSE, FALSE, 0) EXCEPT !.kind = kind, !.dir = dir]

Producer == Program(FALSE, FALSE, 2)
BackgroundProducer == Program(TRUE, FALSE, 2)
Filter == Program(FALSE, TRUE, 1)
Sink == Program(TRUE, TRUE, 0)
ToFile == [Program(FALSE, TRUE, 1) EXCEPT !.outfile = "file", !.infile = "file"]
NoFile == [Program(FALSE, TRUE, 0) EXCEPT !.infile = "missing"]

MCDir == {home, src}
Commands == {Producer, BackgroundProducer, Filter, Sink, ToFile, NoFile, Other("empty", home),
             Other("cd", src), Other("cd", "-"), Other("cd", "home"), Other("exit", home)}
=============================================================================
