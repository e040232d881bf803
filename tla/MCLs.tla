-------------------------------- MODULE MCLs --------------------------------
(* A directory tree and command lines for Ls:                                *)
(*                                                                           *)
(*   top: sub, .hid, locked, file, other     sub: leaf     .hid: deep         *)
EXTENDS Ls

CONSTANTS top, sub, leaf, hid, deep, locked, file, other, missing

MCKids ==
  [d \in {top, sub, leaf, hid, deep, locked} |->
     <<Dot, DotDot>> \o
     CASE d = top -> <<other, sub, hid, locked, file>>
       [] d = sub -> <<leaf>>
       [] d = hid -> <<deep>>
       [] OTHER -> <<>>]

MCName ==
  [e \in Entry |-> CASE e = Dot -> 0 [] e = DotDot -> 1 [] e = hid -> 2 [] e = file -> 3
                     [] e = locked -> 4 [] e = sub -> 5 [] e = other -> 6 [] OTHER -> 7]

\* What the four visible entries of top may have: every weak order of their times
\* with one size, and every choice of two sizes and times.
Visibles == {sub, locked, file, other}
Given(t, s) ==
  [f \in File |-> [mtime |-> IF f \in Visibles THEN t[f] ELSE 1,
                   size |-> IF f \in Visibles THEN s[f] ELSE 1]]
Times == {Given(t, [f \in Visibles |-> 0]) : t \in [Visibles -> 0..2]}
Sizes == {Given([f \in Visibles |-> IF f \in {sub, file} THEN 1 ELSE 0], s) : s \in [Visibles -> 0..1]}
MCStats == Times \cup Sizes

Arg(n) == [letters |-> {}, name |-> n]
Opt(s) == [letters |-> s, name |-> top]

Lines ==
  {<<Opt({"t"})>>, <<Opt({"t", "r"}), Opt({"s"})>>, <<Opt({"s"}), Arg(top)>>, <<Opt({"r", "s"}), Arg(file), Arg(top)>>,
   <<Opt({"s", "t"}), Arg(other), Arg(sub), Arg(locked), Arg(file)>>,
   <<Opt({"a", "R"})>>, <<Arg(sub), Opt({"R"}), Opt({"a"})>>, <<Opt({"R", "s"}), Arg(missing), Arg(hid), Arg(top)>>,
   <<Arg(missing)>>, <<Opt({"l", "R", "r"}), Arg(sub)>>, <<Opt({"i"}), Arg(leaf), Opt({"l"}), Arg(hid)>>}
=============================================================================
