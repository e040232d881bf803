------------------------------ MODULE MCLsSort ------------------------------
(* Listings for LsSort: three entries of different times, sorted with -t.     *)
EXTENDS LsSort

ByTime ==
  {[stat |-> [e \in 1..3 |-> [mtime |-> m[e], size |-> 0, name |-> e]],
    pendingSize |-> [e \in 1..3 |-> 0], option |-> {"t"}] :
     m \in {f \in [1..3 -> 0..2] : \A d, e \in 1..3 : f[d] = f[e] => d = e}}
=============================================================================
