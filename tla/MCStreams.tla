------------------------------ MODULE MCStreams ------------------------------
(* Two descriptors, and messages of one and two bytes with an empty one.       *)
EXTENDS Streams

CONSTANTS f1, f2
MCLength == [f \in {f1, f2} |-> IF f = f1 THEN 3 ELSE 2]
MCCallers == {{}, {"Readn"}, {"Readline"}, {"Readn", "Readline"}, {"Writen"}}
MCNewlines == {{}, {<<f1, 2>>}, {<<f1, 1>>, <<f1, 3>>}, {<<f1, 2>>, <<f2, 1>>}}
MCMessages == <<2, 0, 1, 2>>
=============================================================================
