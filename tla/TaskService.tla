---------------------------- MODULE TaskService ----------------------------
(***************************************************************************)
(* What a thread pool of this repository promises to the callers of        *)
(* submit(), whatever its workers, locks and wake-ups do.  A caller sees    *)
(* the future of its task:                                                 *)
(*                                                                         *)
(*   none     the task was never enqueued (yet)                            *)
(*   empty    submit() returned a default-constructed future               *)
(*   pending  the task is enqueued or running                              *)
(*   ready    the task has run                                             *)
(*   broken   the task was destroyed before it ran (broken_promise)        *)
(*                                                                         *)
(* The pool as a whole is in a phase, is staffed once a worker exists, and  *)
(* during an orderly shutdown owes its callers the tasks enqueued before.  *)
(***************************************************************************)
CONSTANT Task

VARIABLES future, phase, staffed, owed
vars == <<future, phase, staffed, owed>>

Pending == {t \in Task : future[t] = "pending"}

Init ==
  /\ future = [t \in Task |-> "none"]
  /\ phase = "open"
  /\ staffed = FALSE
  /\ owed = {}

\* A caller's task is enqueued.  Nothing promises that the pool is open: the
\* status test of submit() and its push are two steps.
Accept(t) ==
  /\ future[t] = "none"
  /\ future' = [future EXCEPT ![t] = "pending"]
  /\ UNCHANGED <<phase, staffed, owed>>

\* Only a pool that is not open hands out an empty future.
Refuse(t) ==
  /\ future[t] = "none"
  /\ phase # "open"
  /\ future' = [future EXCEPT ![t] = "empty"]
  /\ UNCHANGED <<phase, staffed, owed>>

\* A task runs once, and never in a closed pool.
Run(t) ==
  /\ future[t] = "pending"
  /\ phase # "closed"
  /\ future' = [future EXCEPT ![t] = "ready"]
  /\ UNCHANGED <<phase, staffed, owed>>

Open ==
  /\ phase \in {"open", "closed"}
  /\ phase' = "open"
  /\ UNCHANGED <<future, staffed, owed>>

Staff ==
  /\ phase = "open"
  /\ staffed' = TRUE
  /\ UNCHANGED <<future, phase, owed>>

\* From here on the callers are owed every task that is enqueued and not run.
BeginDrain ==
  /\ phase \in {"open", "closed"}
  /\ phase' = "draining"
  /\ owed' = IF staffed THEN Pending ELSE {}
  /\ UNCHANGED <<future, staffed>>

BeginStop ==
  /\ phase \in {"open", "closed"}
  /\ phase' = "stopping"
  /\ UNCHANGED <<future, staffed, owed>>

\* The pool closes when nothing is owed any more.
Close ==
  /\ phase \in {"draining", "stopping"}
  /\ \A t \in owed : future[t] = "ready"
  /\ phase' = "closed"
  /\ staffed' = FALSE
  /\ UNCHANGED <<future, owed>>

\* A closed pool destroys what is still enqueued.
Drop ==
  /\ phase = "closed"
  /\ future' = [t \in Task |-> IF t \in Pending THEN "broken" ELSE future[t]]
  /\ owed' = {}
  /\ UNCHANGED <<phase, staffed>>

Next ==
  \/ \E t \in Task : Accept(t) \/ Refuse(t) \/ Run(t)
  \/ Open \/ Staff \/ BeginDrain \/ BeginStop \/ Close \/ Drop

Spec == Init /\ [][Next]_vars
=============================================================================
