-------------------------- MODULE ThreadPoolProofs --------------------------
(***************************************************************************)
(* Proofs about ThreadPool, for any workers, submitters, tasks and core    *)
(* size.  Three layers of invariant, each inductive relative to the ones   *)
(* before it:                                                              *)
(*                                                                         *)
(*   TypeOK     types, and who holds a task                                *)
(*   PoolInv    where the owner is decides the status, and both decide     *)
(*              which workers may have ended                               *)
(*   DebtInv    what shutdown() owes is run, queued or running, and no      *)
(*              worker ends before the queue holds none of it              *)
(***************************************************************************)
EXTENDS ThreadPool, FiniteSetTheorems, TLAPS

\* What the queue operations do to the set of enqueued tasks.
LEMMA AppendAdds ==
  ASSUME NEW q \in Seq(Task), NEW t \in Task
  PROVE  /\ Append(q, t) \in Seq(Task)
         /\ {Append(q, t)[i] : i \in 1..Len(Append(q, t))} = {q[i] : i \in 1..Len(q)} \cup {t}
<1>1. Len(Append(q, t)) = Len(q) + 1 /\ Append(q, t)[Len(q) + 1] = t
  OBVIOUS
<1>2. \A i \in 1..Len(q) : Append(q, t)[i] = q[i]
  OBVIOUS
<1>3. 1..(Len(q) + 1) = (1..Len(q)) \cup {Len(q) + 1}
  OBVIOUS
<1> QED
  BY <1>1, <1>2, <1>3

LEMMA HeadLeaves ==
  ASSUME NEW q \in Seq(Task), q # <<>>
  PROVE  /\ Head(q) \in Task
         /\ Tail(q) \in Seq(Task)
         /\ {q[i] : i \in 1..Len(q)} = {Tail(q)[i] : i \in 1..Len(Tail(q))} \cup {Head(q)}
<1>1. Len(q) \in Nat /\ Len(q) > 0 /\ Head(q) = q[1]
  OBVIOUS
<1>2. Len(Tail(q)) = Len(q) - 1 /\ \A i \in 1..(Len(q) - 1) : Tail(q)[i] = q[i + 1]
  BY <1>1
<1>3. ASSUME NEW i \in 1..Len(q)
      PROVE  i = 1 \/ (i - 1 \in 1..(Len(q) - 1) /\ Tail(q)[i - 1] = q[i])
  BY <1>1, <1>2
<1> QED
  BY <1>1, <1>2, <1>3, SMTT(30)

-----------------------------------------------------------------------------
(* Types                                                                   *)

LEMMA TypeInit == Init => TypeOK
  BY CoreSizeAssumption, NoTaskAssumption DEF Init, TypeOK

LEMMA TypeWorker ==
  ASSUME TypeOK, NEW w \in Worker, WorkerStep(w) \/ SpuriousWake(w)
  PROVE  TypeOK'
<1> USE NoTaskAssumption DEF TypeOK, Goto, svars, ovars
<1>1. CASE Test(w)
  BY <1>1 DEF Test
<1>2. CASE Lock(w)
  BY <1>2 DEF Lock
<1>3. CASE PredStatus(w)
  BY <1>3 DEF PredStatus
<1>4. CASE PredEmpty(w)
  BY <1>4 DEF PredEmpty
<1>5. CASE Block(w)
  BY <1>5 DEF Block
<1>6. CASE ExitStatus(w)
  BY <1>6 DEF ExitStatus
<1>7. CASE ExitEmpty(w)
  BY <1>7 DEF ExitEmpty
<1>8. CASE Pop(w)
  <2>1. CASE m_TaskQueue # <<>>
    <3>1. /\ Head(m_TaskQueue) \in Task
          /\ m_TaskQueue' \in Seq(Task)
      BY <1>8, <2>1, HeadLeaves DEF Pop, Popped
    <3>2. /\ wpc' = [wpc EXCEPT ![w] = "run"]
          /\ wtask' = [wtask EXCEPT ![w] = Head(m_TaskQueue)]
          /\ m_Mutex' = NoOne
          /\ UNCHANGED <<pool_status, svars, ovars, future>>
      BY <1>8, <2>1 DEF Pop
    <3> QED
      BY <3>1, <3>2
  <2>2. CASE m_TaskQueue = <<>>
    BY <1>8, <2>2 DEF Pop
  <2> QED
    BY <2>1, <2>2
<1>9. CASE Run(w)
  BY <1>9 DEF Run
<1>10. CASE SpuriousWake(w)
  BY <1>10 DEF SpuriousWake
<1> QED
  BY <1>1, <1>2, <1>3, <1>4, <1>5, <1>6, <1>7, <1>8, <1>9, <1>10 DEF WorkerStep

LEMMA TypeSubmitter ==
  ASSUME TypeOK, NEW s \in Submitter,
         SubmitterStep(s) \/ \E t \in Task : SubmitCheck(s, t)
  PROVE  TypeOK'
<1> USE NoTaskAssumption DEF TypeOK, wvars, svars, ovars
<1>1. ASSUME NEW t \in Task, SubmitCheck(s, t)
      PROVE  TypeOK'
  <2>1. CASE pool_status # 0
    BY <1>1, <2>1 DEF SubmitCheck
  <2>2. CASE pool_status = 0
    BY <1>1, <2>2 DEF SubmitCheck
  <2> QED
    BY <2>1, <2>2
<1>2. CASE SubmitPush(s)
  BY <1>2, AppendAdds DEF SubmitPush
<1>3. CASE SubmitNotify(s)
  BY <1>3 DEF SubmitNotify, Waiters
<1> QED
  BY <1>1, <1>2, <1>3 DEF SubmitterStep

LEMMA TypeOwner ==
  ASSUME TypeOK, OwnerStep \/ OwnerCall
  PROVE  TypeOK'
<1> USE CoreSizeAssumption, NoTaskAssumption DEF TypeOK, wvars, svars
<1>1. CASE CallInit
  BY <1>1 DEF CallInit
<1>2. ASSUME NEW w \in Worker, Spawn(w)
      PROVE  TypeOK'
  BY <1>2 DEF Spawn, Goto
<1>3. CASE InitReturn
  BY <1>3 DEF InitReturn
<1>4. CASE CallShutdown
  BY <1>4 DEF CallShutdown, Enqueued, Running
<1>5. CASE NotifyAll
  BY <1>5 DEF NotifyAll
<1>6. CASE CallStop
  BY <1>6 DEF CallStop
<1>7. CASE CallDestroy
  BY <1>7 DEF CallDestroy
<1>8. CASE JoinAll
  BY <1>8 DEF JoinAll
<1>9. CASE Tidy
  BY <1>9 DEF Tidy, TidyStatus
<1>10. CASE ClearQueue
  BY <1>10 DEF ClearQueue
<1> QED
  BY <1>1, <1>2, <1>3, <1>4, <1>5, <1>6, <1>7, <1>8, <1>9, <1>10 DEF OwnerStep, OwnerCall

LEMMA TypeStutter == TypeOK /\ UNCHANGED vars => TypeOK'
  BY DEF TypeOK, vars

\* Every variable keeps its type, and a thread holds a task exactly where the
\* code has one in a local variable.
THEOREM TypeCorrect == Spec => []TypeOK
<1>1. TypeOK /\ [Next]_vars => TypeOK'
  BY TypeWorker, TypeSubmitter, TypeOwner, TypeStutter DEF Next
<1> QED
  BY TypeInit, <1>1, PTL DEF Spec

-----------------------------------------------------------------------------
(* Where the owner is, and who has ended                                   *)

OwnerInv ==
  /\ opc = "idle" => call = "none" /\ pool_status \in {0, 3}
  /\ opc = "spawn" => call = "init" /\ pool_status = 0
  /\ opc = "notify" => call = "shutdown"
  /\ opc = "join" => call \in {"shutdown", "stop", "destroy"}
  /\ opc = "tidy" => call \in {"shutdown", "stop", "destroy", "final"}
  /\ opc \in {"notify", "join", "tidy"} =>
       /\ call = "shutdown" => pool_status = 1
       /\ call \in {"stop", "destroy"} => pool_status = 2
       /\ call = "final" => pool_status = 3
  /\ opc \in {"clear", "gone"} => pool_status = 3

WorkersInv ==
  /\ \A w \in Worker \ m_Workers : wpc[w] \in {"unborn", "exited"}
  /\ pool_status = 3 => m_Workers = {}
  /\ opc \in {"idle", "spawn"} => \A w \in m_Workers : wpc[w] # "exited"
  /\ opc = "tidy" => \A w \in m_Workers : wpc[w] = "exited"
  /\ \A w \in Worker :
       wpc[w] = "exit_empty" => opc \in {"notify", "join"} /\ call = "shutdown"

PoolInv == OwnerInv /\ WorkersInv

LEMMA PoolInit == Init => PoolInv
  BY DEF Init, PoolInv, OwnerInv, WorkersInv

LEMMA PoolWorker ==
  ASSUME TypeOK, PoolInv, NEW w \in Worker, WorkerStep(w) \/ SpuriousWake(w)
  PROVE  PoolInv'
<1> USE DEF TypeOK, PoolInv, OwnerInv, WorkersInv, Goto, svars, ovars
<1>1. CASE Test(w)
  BY <1>1 DEF Test
<1>2. CASE Lock(w)
  BY <1>2 DEF Lock
<1>3. CASE PredStatus(w)
  BY <1>3 DEF PredStatus
<1>4. CASE PredEmpty(w)
  BY <1>4 DEF PredEmpty
<1>5. CASE Block(w)
  BY <1>5 DEF Block
<1>6. CASE ExitStatus(w)
  BY <1>6 DEF ExitStatus
<1>7. CASE ExitEmpty(w)
  BY <1>7 DEF ExitEmpty
<1>8. CASE Pop(w)
  BY <1>8 DEF Pop
<1>9. CASE Run(w)
  BY <1>9 DEF Run
<1>10. CASE SpuriousWake(w)
  BY <1>10 DEF SpuriousWake
<1> QED
  BY <1>1, <1>2, <1>3, <1>4, <1>5, <1>6, <1>7, <1>8, <1>9, <1>10 DEF WorkerStep

LEMMA PoolSubmitter ==
  ASSUME TypeOK, PoolInv, NEW s \in Submitter,
         SubmitterStep(s) \/ \E t \in Task : SubmitCheck(s, t)
  PROVE  PoolInv'
<1> USE DEF TypeOK, PoolInv, OwnerInv, WorkersInv, wvars, svars, ovars
<1>1. ASSUME NEW t \in Task, SubmitCheck(s, t)
      PROVE  PoolInv'
  BY <1>1 DEF SubmitCheck
<1>2. CASE SubmitPush(s)
  BY <1>2 DEF SubmitPush
<1>3. CASE SubmitNotify(s)
  BY <1>3 DEF SubmitNotify, Waiters
<1> QED
  BY <1>1, <1>2, <1>3 DEF SubmitterStep

LEMMA PoolOwner ==
  ASSUME TypeOK, PoolInv, OwnerStep \/ OwnerCall
  PROVE  PoolInv'
<1> USE DEF TypeOK, PoolInv, OwnerInv, WorkersInv, wvars, svars
<1>1. CASE CallInit
  BY <1>1 DEF CallInit
<1>2. ASSUME NEW w \in Worker, Spawn(w)
      PROVE  PoolInv'
  BY <1>2 DEF Spawn, Goto
<1>3. CASE InitReturn
  BY <1>3 DEF InitReturn
<1>4. CASE CallShutdown
  BY <1>4 DEF CallShutdown
<1>5. CASE NotifyAll
  BY <1>5 DEF NotifyAll
<1>6. CASE CallStop
  BY <1>6 DEF CallStop
<1>7. CASE CallDestroy
  BY <1>7 DEF CallDestroy
<1>8. CASE JoinAll
  BY <1>8 DEF JoinAll, AllEnded
<1>9. CASE Tidy
  BY <1>9 DEF Tidy, TidyStatus
<1>10. CASE ClearQueue
  BY <1>10 DEF ClearQueue
<1> QED
  BY <1>1, <1>2, <1>3, <1>4, <1>5, <1>6, <1>7, <1>8, <1>9, <1>10 DEF OwnerStep, OwnerCall

LEMMA PoolStep == TypeOK /\ PoolInv /\ [Next]_vars => PoolInv'
<1>1. PoolInv /\ UNCHANGED vars => PoolInv'
  BY DEF PoolInv, OwnerInv, WorkersInv, vars
<1> QED
  BY <1>1, PoolWorker, PoolSubmitter, PoolOwner DEF Next

LEMMA PoolCorrect == Spec => []PoolInv
  BY PoolInit, PoolStep, TypeCorrect, PTL DEF Spec

LEMMA ClosedIsQuiet ==
  ASSUME TypeOK, PoolInv
  PROVE  QuietWhenClosed
  BY DEF TypeOK, PoolInv, WorkersInv, QuietWhenClosed

\* When the status says that the pool is closed, no worker thread is left: the
\* vector is cleared together with the status, after every thread in it ended.
THEOREM Quiet == Spec => []QuietWhenClosed
  BY ClosedIsQuiet, TypeCorrect, PoolCorrect, PTL

-----------------------------------------------------------------------------
(* What shutdown() owes                                                    *)

Taken == Enqueued \cup Running

Draining == call = "shutdown" /\ opc \in {"notify", "join", "tidy", "clear"}

\* A task about to be pushed was never pushed before, by this submitter or by
\* another one.
PushInv ==
  /\ \A t \in Taken : future[t] # "none"
  /\ \A s \in Submitter :
       stask[s] # NoTask => stask[s] \notin Taken /\ future[stask[s]] # "none"
  /\ \A r, s \in Submitter : stask[r] = stask[s] /\ stask[r] # NoTask => r = s

OwedInv ==
  Draining =>
    /\ \A t \in owed : future[t] # "none"
    /\ \A s \in Submitter : stask[s] \notin owed
    /\ \A t \in owed : future[t] = "ready" \/ t \in Taken
    /\ opc = "clear" => \A t \in owed : future[t] = "ready"
    /\ opc # "clear" /\ m_Workers = {} => owed = {}
    /\ opc # "clear" /\ (\E w \in m_Workers : wpc[w] = "exited") => owed \cap Enqueued = {}

DebtInv == PushInv /\ OwedInv

LEMMA DebtInit == Init => DebtInv
  BY DEF Init, DebtInv, PushInv, OwedInv, Taken, Enqueued, Running, Draining

\* A worker step that neither pops nor runs leaves the tasks where they are.
LEMMA DebtControl ==
  ASSUME TypeOK, PoolInv, DebtInv,
         NEW w \in Worker, NEW there, wpc' = [wpc EXCEPT ![w] = there],
         there = "exited" => pool_status > 1 \/ Enqueued = {},
         UNCHANGED <<m_TaskQueue, wtask, svars, ovars, future>>
  PROVE  DebtInv'
<1>1. Enqueued' = Enqueued /\ Running' = Running /\ Draining' = Draining
  BY DEF Enqueued, Running, Draining, ovars
<1>2. PushInv'
  BY <1>1 DEF DebtInv, PushInv, Taken, svars
<1>3. OwedInv'
  BY <1>1, <1>2 DEF TypeOK, PoolInv, OwnerInv, WorkersInv, DebtInv, OwedInv, Taken, Draining, svars, ovars
<1> QED
  BY <1>2, <1>3 DEF DebtInv

LEMMA DebtWorker ==
  ASSUME TypeOK, PoolInv, DebtInv, NEW w \in Worker, WorkerStep(w) \/ SpuriousWake(w)
  PROVE  DebtInv'
<1> USE DEF Goto
<1>1. CASE Test(w)
  <2>1. UNCHANGED <<m_TaskQueue, wtask, svars, ovars, future>>
    BY <1>1 DEF Test
  <2>2. CASE pool_status <= 1
    BY <1>1, <2>1, <2>2, DebtControl DEF Test
  <2>3. CASE ~(pool_status <= 1)
    <3>1. pool_status > 1
      BY <2>3 DEF TypeOK
    <3>2. wpc' = [wpc EXCEPT ![w] = "exited"]
      BY <1>1, <2>3 DEF Test
    <3> QED
      BY <2>1, <3>1, <3>2, DebtControl
  <2> QED
    BY <2>2, <2>3
<1>2. CASE Lock(w)
  BY <1>2, DebtControl DEF Lock
<1>3. CASE PredStatus(w)
  BY <1>3, DebtControl DEF PredStatus
<1>4. CASE PredEmpty(w)
  BY <1>4, DebtControl DEF PredEmpty
<1>5. CASE Block(w)
  BY <1>5, DebtControl DEF Block
<1>6. CASE ExitStatus(w)
  BY <1>6, DebtControl DEF ExitStatus
<1>7. CASE ExitEmpty(w)
  <2>1. m_TaskQueue = <<>> => Enqueued = {}
    BY DEF Enqueued
  <2> QED
    BY <1>7, <2>1, DebtControl DEF ExitEmpty, MayReturn
<1>8. CASE Pop(w)
  <2>1. CASE m_TaskQueue = <<>>
    BY <1>8, <2>1, DebtControl DEF Pop
  <2>2. CASE m_TaskQueue # <<>>
    <3>1. /\ Head(m_TaskQueue) \in Task
          /\ Enqueued = Enqueued' \cup {Head(m_TaskQueue)}
      <4>1. m_TaskQueue \in Seq(Task) /\ m_TaskQueue' = Tail(m_TaskQueue)
        BY <1>8, <2>2 DEF Pop, Popped, TypeOK
      <4> QED
        BY <2>2, <4>1, HeadLeaves DEF Enqueued
    <3>2. Running' = Running \cup {Head(m_TaskQueue)}
      <4>1. wtask[w] = NoTask
        BY <1>8, <2>2, NoTaskAssumption DEF Pop, TypeOK
      <4>2. wtask' = [wtask EXCEPT ![w] = Head(m_TaskQueue)]
        BY <1>8, <2>2 DEF Pop
      <4> QED
        BY <4>1, <4>2, <3>1, NoTaskAssumption DEF Running, TypeOK
    <3>3. Taken' = Taken
      BY <3>1, <3>2 DEF Taken
    <3>4. UNCHANGED <<svars, ovars, future>> /\ wpc' = [wpc EXCEPT ![w] = "run"]
      BY <1>8, <2>2 DEF Pop
    <3>5. PushInv'
      BY <3>3, <3>4 DEF DebtInv, PushInv, svars
    <3>6. OwedInv'
      BY <3>1, <3>3, <3>4 DEF DebtInv, OwedInv, Draining, TypeOK, svars, ovars
    <3> QED
      BY <3>5, <3>6 DEF DebtInv
  <2> QED
    BY <2>1, <2>2
<1>9. CASE Run(w)
  <2> DEFINE t == wtask[w]
  <2>1. /\ t \in Task
        /\ future' = [future EXCEPT ![t] = "ready"]
        /\ wtask' = [wtask EXCEPT ![w] = NoTask]
        /\ wpc' = [wpc EXCEPT ![w] = "test"]
        /\ UNCHANGED <<m_TaskQueue, svars, ovars>>
    BY <1>9 DEF Run, TypeOK
  <2>2. Enqueued' = Enqueued
    BY <2>1 DEF Enqueued
  <2>3. Running' \subseteq Running /\ Running \subseteq Running' \cup {t}
    BY <2>1 DEF Running, TypeOK
  <2>4. t \in Running
    BY <2>1, NoTaskAssumption DEF Running
  <2>5. /\ Taken' \subseteq Taken
        /\ Taken \subseteq Taken' \cup {t}
    BY <2>2, <2>3 DEF Taken
  <2>6. \A u \in Task : future'[u] = IF u = t THEN "ready" ELSE future[u]
    BY <2>1 DEF TypeOK
  <2>7. Taken \subseteq Task
    BY NoTaskAssumption DEF Taken, Enqueued, Running, TypeOK
  <2>8. PushInv'
    BY <2>1, <2>5, <2>6, <2>7 DEF DebtInv, PushInv, TypeOK, svars
  <2>9. OwedInv'
    BY <2>1, <2>2, <2>5, <2>6, <2>7 DEF DebtInv, OwedInv, Draining, TypeOK, svars, ovars
  <2> QED
    BY <2>8, <2>9 DEF DebtInv
<1>10. CASE SpuriousWake(w)
  BY <1>10, DebtControl DEF SpuriousWake
<1> QED
  BY <1>1, <1>2, <1>3, <1>4, <1>5, <1>6, <1>7, <1>8, <1>9, <1>10 DEF WorkerStep

LEMMA DebtSubmitter ==
  ASSUME TypeOK, PoolInv, DebtInv, NEW s \in Submitter,
         SubmitterStep(s) \/ \E t \in Task : SubmitCheck(s, t)
  PROVE  DebtInv'
<1>0. Taken \subseteq Task
  BY NoTaskAssumption DEF Taken, Enqueued, Running, TypeOK
<1>1. ASSUME NEW t \in Task, SubmitCheck(s, t)
      PROVE  DebtInv'
  <2>1. Taken' = Taken /\ Enqueued' = Enqueued /\ Draining' = Draining
    BY <1>1 DEF SubmitCheck, Taken, Enqueued, Running, Draining, wvars, ovars
  <2>2. future[t] = "none" /\ t \notin Taken
    BY <1>1 DEF SubmitCheck, DebtInv, PushInv
  <2>3. \A u \in Task : u # t => future'[u] = future[u]
    BY <1>1 DEF SubmitCheck, TypeOK
  <2>4. future'[t] \in {"empty", "pending"}
    BY <1>1 DEF SubmitCheck, TypeOK
  <2>5. stask' = stask \/ stask' = [stask EXCEPT ![s] = t]
    BY <1>1 DEF SubmitCheck, svars
  <2>6. \A r \in Submitter : stask[r] # t
    BY <2>2, NoTaskAssumption DEF DebtInv, PushInv
  <2>7. PushInv'
    BY <1>0, <2>1, <2>2, <2>3, <2>4, <2>5, <2>6, NoTaskAssumption DEF DebtInv, PushInv, TypeOK
  <2>8. owed' = owed /\ m_Workers' = m_Workers /\ opc' = opc /\ wpc' = wpc
    BY <1>1 DEF SubmitCheck, wvars, ovars
  <2>9. OwedInv'
    BY <1>0, <2>1, <2>2, <2>3, <2>4, <2>5, <2>6, <2>8 DEF DebtInv, OwedInv, Draining, TypeOK
  <2> QED
    BY <2>7, <2>9 DEF DebtInv
<1>2. CASE SubmitPush(s)
  <2> DEFINE t == stask[s]
  <2>1. /\ t \in Task
        /\ m_TaskQueue' = Append(m_TaskQueue, t)
        /\ stask' = [stask EXCEPT ![s] = NoTask]
        /\ UNCHANGED <<pool_status, wvars, ovars, future>>
    BY <1>2 DEF SubmitPush, TypeOK
  <2>2. Enqueued' = Enqueued \cup {t}
    BY <2>1, AppendAdds DEF Enqueued, TypeOK
  <2>3. Running' = Running
    BY <2>1 DEF Running, wvars
  <2>4. Taken' = Taken \cup {t} /\ Draining' = Draining
    BY <2>1, <2>2, <2>3 DEF Taken, Draining, ovars
  <2>5. PushInv'
    BY <2>1, <2>4, NoTaskAssumption DEF DebtInv, PushInv, TypeOK
  <2>6. owed' = owed /\ m_Workers' = m_Workers /\ opc' = opc /\ wpc' = wpc /\ future' = future
    BY <2>1 DEF ovars, wvars
  <2>7. Draining => t \notin owed
    BY DEF DebtInv, OwedInv
  <2>8. owed \subseteq Task
    BY DEF TypeOK
  <2>9. OwedInv'
    BY <2>1, <2>2, <2>4, <2>6, <2>7, <2>8, NoTaskAssumption DEF DebtInv, OwedInv, TypeOK
  <2> QED
    BY <2>5, <2>9 DEF DebtInv
<1>3. CASE SubmitNotify(s)
  <2>1. CASE UNCHANGED wpc
    BY <1>3, <2>1 DEF SubmitNotify, DebtInv, PushInv, OwedInv, Taken, Enqueued, Running, Draining, ovars
  <2>2. ASSUME NEW w \in Waiters, wpc' = [wpc EXCEPT ![w] = "wake"]
        PROVE  DebtInv'
    <3>1. /\ Enqueued' = Enqueued /\ Taken' = Taken /\ Draining' = Draining
          /\ UNCHANGED <<stask, owed, opc, m_Workers, future>>
      BY <1>3 DEF SubmitNotify, Taken, Enqueued, Running, Draining, ovars
    <3>2. \A v \in Worker : wpc'[v] = "exited" => wpc[v] = "exited"
      BY <2>2 DEF TypeOK, Waiters
    <3> QED
      BY <3>1, <3>2 DEF DebtInv, PushInv, OwedInv, TypeOK
  <2> QED
    BY <1>3, <2>1, <2>2 DEF SubmitNotify
<1> QED
  BY <1>1, <1>2, <1>3 DEF SubmitterStep

LEMMA DebtOwner ==
  ASSUME TypeOK, PoolInv, DebtInv, OwnerStep \/ OwnerCall
  PROVE  DebtInv'
<1>1. Taken' = Taken /\ UNCHANGED <<stask, future>> => PushInv'
  BY DEF DebtInv, PushInv
<1>2. m_TaskQueue' = m_TaskQueue /\ wtask' = wtask => Enqueued' = Enqueued /\ Taken' = Taken
  BY DEF Taken, Enqueued, Running
<1>3. CASE CallInit
  BY <1>1, <1>2, <1>3 DEF CallInit, DebtInv, OwedInv, Draining, wvars, svars
<1>4. ASSUME NEW w \in Worker, Spawn(w)
      PROVE  DebtInv'
  BY <1>1, <1>2, <1>4 DEF Spawn, Goto, DebtInv, OwedInv, Draining, svars
<1>5. CASE InitReturn
  BY <1>1, <1>2, <1>5 DEF InitReturn, DebtInv, OwedInv, Draining, wvars, svars
<1>6. CASE CallShutdown
  <2>1. owed' \subseteq Taken /\ (m_Workers = {} => owed' = {})
    BY <1>6 DEF CallShutdown, Taken
  <2>2. /\ Enqueued' = Enqueued /\ Taken' = Taken /\ PushInv'
        /\ opc = "idle" /\ opc' = "notify"
        /\ UNCHANGED <<wpc, stask, future, m_Workers>>
    BY <1>1, <1>2, <1>6 DEF CallShutdown, wvars, svars
  <2>3. \A w \in m_Workers : wpc[w] # "exited"
    BY <2>2 DEF PoolInv, WorkersInv
  <2>4. Taken \subseteq Task
    BY NoTaskAssumption DEF Taken, Enqueued, Running, TypeOK
  <2>5. OwedInv'
    BY <2>1, <2>2, <2>3, <2>4, NoTaskAssumption DEF DebtInv, PushInv, OwedInv
  <2> QED
    BY <2>2, <2>5 DEF DebtInv
<1>7. CASE NotifyAll
  <2>1. \A w \in Worker : wpc'[w] = "exited" => wpc[w] = "exited"
    BY <1>7 DEF NotifyAll
  <2>2. /\ opc = "notify" /\ opc' = "join"
        /\ UNCHANGED <<m_TaskQueue, wtask, stask, future, m_Workers, call, owed>>
    BY <1>7 DEF NotifyAll, svars
  <2> QED
    BY <1>1, <1>2, <2>1, <2>2 DEF DebtInv, OwedInv, Draining, TypeOK
<1>8. CASE CallStop
  BY <1>1, <1>2, <1>8 DEF CallStop, DebtInv, OwedInv, Draining, wvars, svars
<1>9. CASE CallDestroy
  BY <1>1, <1>2, <1>9 DEF CallDestroy, DebtInv, OwedInv, Draining, wvars, svars
<1>10. CASE JoinAll
  BY <1>1, <1>2, <1>10 DEF JoinAll, DebtInv, OwedInv, Draining, wvars, svars
<1>11. CASE Tidy
  <2>1. /\ Enqueued' = Enqueued /\ Taken' = Taken /\ PushInv'
        /\ opc = "tidy" /\ opc' = "clear"
        /\ UNCHANGED <<wpc, stask, future, owed, call>>
    BY <1>1, <1>2, <1>11 DEF Tidy, wvars, svars
  <2>2. \A w \in Worker : wpc[w] \in {"unborn", "exited"}
    BY <2>1 DEF PoolInv, WorkersInv
  <2>3. Running = {}
    BY <2>2, NoTaskAssumption DEF TypeOK, Running
  <2>4. Draining => \A t \in owed : future[t] = "ready"
    <3>1. CASE m_Workers = {}
      BY <2>1, <3>1 DEF DebtInv, OwedInv
    <3>2. CASE m_Workers # {}
      BY <2>1, <2>3, <3>2 DEF DebtInv, OwedInv, PoolInv, WorkersInv, Taken
    <3> QED
      BY <3>1, <3>2
  <2>5. OwedInv'
    BY <2>1, <2>4 DEF DebtInv, OwedInv, Draining
  <2> QED
    BY <2>1, <2>5 DEF DebtInv
<1>12. CASE ClearQueue
  <2>1. /\ Enqueued' = {} /\ Running' = Running
        /\ future' = [t \in Task |-> IF t \in Enqueued THEN "broken" ELSE future[t]]
        /\ UNCHANGED stask
    BY <1>12 DEF ClearQueue, Enqueued, Running, wvars, svars
  <2>2. PushInv'
    <3>1. Taken' \subseteq Taken /\ Taken \subseteq Task
      <4>1. Taken \subseteq Task
        BY NoTaskAssumption DEF Taken, Enqueued, Running, TypeOK
      <4> QED
        BY <2>1, <4>1 DEF Taken
    <3>2. \A t \in Task : future[t] # "none" => future'[t] # "none"
      BY <2>1
    <3> QED
      <4>1. \A t \in Taken' : future'[t] # "none"
        BY <3>1, <3>2 DEF DebtInv, PushInv
      <4>2. ASSUME NEW s \in Submitter, stask[s] # NoTask
            PROVE  stask[s] \notin Taken' /\ future'[stask[s]] # "none"
        BY <4>2, <3>1, <3>2 DEF DebtInv, PushInv, TypeOK
      <4>3. \A r, s \in Submitter : stask'[r] = stask'[s] /\ stask'[r] # NoTask => r = s
        BY <2>1 DEF DebtInv, PushInv
      <4> QED
        BY <2>1, <4>1, <4>2, <4>3 DEF PushInv
  <2>3. ~Draining'
    BY <1>12 DEF ClearQueue, Draining
  <2> QED
    BY <2>2, <2>3 DEF DebtInv, OwedInv
<1> QED
  BY <1>3, <1>4, <1>5, <1>6, <1>7, <1>8, <1>9, <1>10, <1>11, <1>12 DEF OwnerStep, OwnerCall

LEMMA DebtStep == TypeOK /\ PoolInv /\ DebtInv /\ [Next]_vars => DebtInv'
<1>1. DebtInv /\ UNCHANGED vars => DebtInv'
  BY DEF DebtInv, PushInv, OwedInv, Taken, Enqueued, Running, Draining, vars
<1> QED
  BY <1>1, DebtWorker, DebtSubmitter, DebtOwner DEF Next

LEMMA DebtCorrect == Spec => []DebtInv
  BY DebtInit, DebtStep, TypeCorrect, PoolCorrect, PTL DEF Spec

LEMMA DrainedAtTidy ==
  ASSUME TypeOK, PoolInv, DebtInv
  PROVE  ShutdownDrains
<1>1. ASSUME call = "shutdown", opc = "clear"
      PROVE  \A t \in owed : future[t] = "ready"
  BY <1>1 DEF DebtInv, OwedInv, Draining
<1>2. ASSUME call = "shutdown", opc = "tidy"
      PROVE  \A t \in owed : future[t] = "ready"
  <2>1. \A w \in Worker : wpc[w] \in {"unborn", "exited"}
    BY <1>2 DEF PoolInv, WorkersInv
  <2>2. Running = {}
    BY <2>1, NoTaskAssumption DEF TypeOK, Running
  <2>3. m_Workers = {} => owed = {}
    BY <1>2 DEF DebtInv, OwedInv, Draining
  <2>4. m_Workers # {} => owed \cap Enqueued = {}
    BY <1>2 DEF DebtInv, OwedInv, Draining, PoolInv, WorkersInv
  <2> QED
    BY <1>2, <2>2, <2>3, <2>4 DEF DebtInv, OwedInv, Draining, Taken
<1> QED
  BY <1>1, <1>2 DEF ShutdownDrains

\* shutdown() is orderly for any number of workers, submitters and tasks: it
\* drops no task that was enqueued or running when it was called.
THEOREM Drains == Spec => []ShutdownDrains
  BY DrainedAtTidy, TypeCorrect, PoolCorrect, DebtCorrect, PTL

-----------------------------------------------------------------------------
(* One place for every task                                                *)

Held == {stask[s] : s \in Submitter} \ {NoTask}

HomeInv ==
  /\ \A i, j \in 1..Len(m_TaskQueue) : m_TaskQueue[i] = m_TaskQueue[j] => i = j
  /\ \A v, w \in Worker : wtask[v] = wtask[w] /\ wtask[v] # NoTask => v = w
  /\ Enqueued \cap Running = {}
  /\ \A t \in Taken \cup Held : future[t] = "pending"
  /\ \A t \in Task : future[t] = "pending" => t \in Taken \cup Held

\* A queue without duplicates stays one when a new task is appended or the first is
\* taken out, and the task that is taken out is then gone from it.
LEMMA AppendDistinct ==
  ASSUME NEW q \in Seq(Task), NEW t \in Task, t \notin {q[i] : i \in 1..Len(q)},
         \A i, j \in 1..Len(q) : q[i] = q[j] => i = j
  PROVE  \A i, j \in 1..Len(Append(q, t)) : Append(q, t)[i] = Append(q, t)[j] => i = j
<1>1. Len(Append(q, t)) = Len(q) + 1 /\ Append(q, t)[Len(q) + 1] = t
  OBVIOUS
<1>2. \A i \in 1..Len(q) : Append(q, t)[i] = q[i] /\ q[i] # t
  OBVIOUS
<1>3. 1..(Len(q) + 1) = (1..Len(q)) \cup {Len(q) + 1}
  OBVIOUS
<1> QED
  BY <1>1, <1>2, <1>3

LEMMA TailDistinct ==
  ASSUME NEW q \in Seq(Task), q # <<>>,
         \A i, j \in 1..Len(q) : q[i] = q[j] => i = j
  PROVE  /\ \A i, j \in 1..Len(Tail(q)) : Tail(q)[i] = Tail(q)[j] => i = j
         /\ Head(q) \notin {Tail(q)[i] : i \in 1..Len(Tail(q))}
<1>1. Len(q) \in Nat /\ Len(q) > 0 /\ Head(q) = q[1]
  OBVIOUS
<1>2. Len(Tail(q)) = Len(q) - 1 /\ \A i \in 1..(Len(q) - 1) : Tail(q)[i] = q[i + 1]
  BY <1>1
<1>3. \A i \in 1..(Len(q) - 1) : i + 1 \in 1..Len(q) /\ i + 1 # 1 /\ i \in Nat
  BY <1>1
<1>4. 1 \in 1..Len(q)
  BY <1>1
<1>5. ASSUME NEW i \in 1..(Len(q) - 1), NEW j \in 1..(Len(q) - 1), Tail(q)[i] = Tail(q)[j]
      PROVE  i = j
  <2>1. i + 1 = j + 1
    BY <1>2, <1>3, <1>5
  <2> QED
    BY <1>3, <2>1
<1>6. \A i \in 1..(Len(q) - 1) : Tail(q)[i] # Head(q)
  BY <1>1, <1>2, <1>3, <1>4
<1> QED
  BY <1>2, <1>5, <1>6

LEMMA HomeInit == Init => HomeInv
  BY DEF Init, HomeInv, Taken, Held, Enqueued, Running

\* A step that moves no task leaves every task in its place.
LEMMA HomeControl ==
  ASSUME HomeInv, UNCHANGED <<m_TaskQueue, wtask, stask, future>>
  PROVE  HomeInv'
  BY DEF HomeInv, Taken, Held, Enqueued, Running

\* A worker takes the first task of the queue.
LEMMA HomePop ==
  ASSUME TypeOK, PushInv, HomeInv, NEW w \in Worker, m_TaskQueue # <<>>,
         m_TaskQueue' = Tail(m_TaskQueue), wtask[w] = NoTask,
         wtask' = [wtask EXCEPT ![w] = Head(m_TaskQueue)],
         stask' = stask, future' = future
  PROVE  HomeInv'
<1> DEFINE t == Head(m_TaskQueue)
<1>1. m_TaskQueue \in Seq(Task)
  BY DEF TypeOK
<1>2. t \in Task /\ Enqueued = Enqueued' \cup {t} /\ t \notin Enqueued'
  <2>1. t \in Task /\ Enqueued = Enqueued' \cup {t}
    BY <1>1, HeadLeaves DEF Enqueued
  <2>2. t \notin Enqueued'
    BY <1>1, TailDistinct DEF Enqueued, HomeInv
  <2> QED
    BY <2>1, <2>2
<1>3. \A i, j \in 1..Len(m_TaskQueue') : m_TaskQueue'[i] = m_TaskQueue'[j] => i = j
  BY <1>1, TailDistinct DEF HomeInv
<1>4. Running' = Running \cup {t} /\ t \notin Running
  BY <1>1, <1>2, NoTaskAssumption DEF Running, TypeOK, HomeInv
<1>5. \A u \in Worker : wtask[u] # t
  BY <1>2, <1>4, NoTaskAssumption DEF Running
<1>6. \A u, v \in Worker : wtask'[u] = wtask'[v] /\ wtask'[u] # NoTask => u = v
  BY <1>1, <1>5 DEF HomeInv, TypeOK
<1>7. Taken' = Taken /\ Held' = Held
  BY <1>1, <1>2, <1>4 DEF Taken, Held
<1>8. Enqueued' \cap Running' = {}
  BY <1>2, <1>4 DEF HomeInv
<1> QED
  BY <1>1, <1>3, <1>6, <1>7, <1>8 DEF HomeInv

\* A worker has run its task.
LEMMA HomeRun ==
  ASSUME TypeOK, PushInv, HomeInv, NEW w \in Worker, wtask[w] \in Task,
         m_TaskQueue' = m_TaskQueue, stask' = stask,
         wtask' = [wtask EXCEPT ![w] = NoTask],
         future' = [future EXCEPT ![wtask[w]] = "ready"]
  PROVE  HomeInv'
<1> DEFINE t == wtask[w]
<1>1. t \in Task
  OBVIOUS
<1>2. Enqueued' = Enqueued /\ Held' = Held
  BY <1>1 DEF Enqueued, Held
<1>3. t \in Running
  BY <1>1, NoTaskAssumption DEF Running
<1>4. \A v \in Worker : v # w => wtask[v] # t
  BY <1>1, NoTaskAssumption DEF HomeInv
<1>5. Running' = Running \ {t}
  BY <1>1, <1>4, NoTaskAssumption DEF Running, TypeOK
<1>6. t \notin Enqueued /\ t \notin Held
  BY <1>3 DEF HomeInv, PushInv, Taken, Held
<1>7. Taken' \cup Held' = (Taken \cup Held) \ {t}
  BY <1>2, <1>5, <1>6 DEF Taken
<1>8. \A u \in Task : future'[u] = IF u = t THEN "ready" ELSE future[u]
  BY <1>1 DEF TypeOK
<1>9. Taken \cup Held \subseteq Task
  BY NoTaskAssumption DEF Taken, Held, Enqueued, Running, TypeOK
<1>10. \A u, v \in Worker : wtask'[u] = wtask'[v] /\ wtask'[u] # NoTask => u = v
  BY <1>1 DEF HomeInv, TypeOK
<1> QED
  BY <1>1, <1>2, <1>5, <1>7, <1>8, <1>9, <1>10 DEF HomeInv

LEMMA HomeWorker ==
  ASSUME TypeOK, PushInv, HomeInv, NEW w \in Worker, WorkerStep(w) \/ SpuriousWake(w)
  PROVE  HomeInv'
<1>1. CASE Pop(w) /\ m_TaskQueue # <<>>
  <2> DEFINE t == Head(m_TaskQueue)
  <2>1. /\ m_TaskQueue \in Seq(Task) /\ m_TaskQueue' = Tail(m_TaskQueue)
        /\ wtask[w] = NoTask /\ wtask' = [wtask EXCEPT ![w] = t]
        /\ stask' = stask /\ future' = future
    BY <1>1, NoTaskAssumption DEF Pop, Popped, Goto, TypeOK, svars
  <2> QED
    BY <1>1, <2>1, HomePop
<1>2. CASE Run(w)
  <2> DEFINE t == wtask[w]
  <2>1. /\ t \in Task
        /\ m_TaskQueue' = m_TaskQueue /\ stask' = stask
        /\ wtask' = [wtask EXCEPT ![w] = NoTask]
        /\ future' = [future EXCEPT ![t] = "ready"]
    BY <1>2 DEF Run, Goto, TypeOK, svars
  <2> QED
    BY <2>1, HomeRun
<1>3. CASE ~Run(w) /\ ~(Pop(w) /\ m_TaskQueue # <<>>)
  <2>1. UNCHANGED <<m_TaskQueue, wtask, stask, future>>
    BY <1>3 DEF WorkerStep, SpuriousWake, Test, Lock, PredStatus, PredEmpty, Block, ExitStatus,
                ExitEmpty, Pop, svars
  <2> QED
    BY <2>1, HomeControl
<1> QED
  BY <1>1, <1>2, <1>3

LEMMA HomeSubmitter ==
  ASSUME TypeOK, PushInv, HomeInv, NEW s \in Submitter,
         SubmitterStep(s) \/ \E t \in Task : SubmitCheck(s, t)
  PROVE  HomeInv'
<1>0. Taken \subseteq Task /\ Held \subseteq Task
  BY NoTaskAssumption DEF Taken, Held, Enqueued, Running, TypeOK
<1>1. ASSUME NEW t \in Task, SubmitCheck(s, t)
      PROVE  HomeInv'
  <2>1. m_TaskQueue' = m_TaskQueue /\ wtask' = wtask
    BY <1>1 DEF SubmitCheck, wvars
  <2>2. Enqueued' = Enqueued /\ Running' = Running
    BY <2>1 DEF Enqueued, Running
  <2>3. future[t] = "none" /\ t \notin Taken \cup Held
    BY <1>1 DEF SubmitCheck, HomeInv
  <2>4. CASE pool_status # 0
    <3>1. stask' = stask /\ future' = [future EXCEPT ![t] = "empty"]
      BY <1>1, <2>4 DEF SubmitCheck, svars
    <3>2. Held' = Held
      BY <3>1 DEF Held
    <3> QED
      BY <1>0, <2>1, <2>2, <2>3, <3>1, <3>2 DEF HomeInv, Taken, TypeOK
  <2>5. CASE pool_status = 0
    <3>1. /\ stask' = [stask EXCEPT ![s] = t] /\ stask[s] = NoTask
          /\ future' = [future EXCEPT ![t] = "pending"]
      BY <1>1, <2>5 DEF SubmitCheck, TypeOK
    <3>2. Held' = Held \cup {t}
      BY <3>1, NoTaskAssumption DEF Held, TypeOK
    <3> QED
      BY <1>0, <2>1, <2>2, <2>3, <3>1, <3>2 DEF HomeInv, Taken, TypeOK
  <2> QED
    BY <2>4, <2>5
<1>2. CASE SubmitPush(s)
  <2> DEFINE t == stask[s]
  <2>1. /\ t \in Task /\ t \in Held /\ t \notin Taken
        /\ m_TaskQueue \in Seq(Task) /\ m_TaskQueue' = Append(m_TaskQueue, t)
        /\ stask' = [stask EXCEPT ![s] = NoTask]
        /\ wtask' = wtask /\ future' = future
    BY <1>2, NoTaskAssumption DEF SubmitPush, TypeOK, PushInv, Held, wvars
  <2>2. Enqueued' = Enqueued \cup {t} /\ Running' = Running
    BY <2>1, AppendAdds DEF Enqueued, Running
  <2>3. Held' = Held \ {t}
    <3>1. \A r \in Submitter : r # s => stask[r] # t
      BY <2>1, NoTaskAssumption DEF PushInv
    <3> QED
      BY <2>1, <3>1, NoTaskAssumption DEF Held, TypeOK
  <2>4. t \notin Enqueued /\ t \notin Running
    BY <2>1 DEF Taken
  <2>5. \A i, j \in 1..Len(m_TaskQueue') : m_TaskQueue'[i] = m_TaskQueue'[j] => i = j
    <3>1. t \notin {m_TaskQueue[i] : i \in 1..Len(m_TaskQueue)}
      BY <2>4 DEF Enqueued
    <3>2. \A i, j \in 1..Len(m_TaskQueue) : m_TaskQueue[i] = m_TaskQueue[j] => i = j
      BY DEF HomeInv
    <3> QED
      BY <2>1, <3>1, <3>2, AppendDistinct
  <2>6. Taken' \cup Held' = Taken \cup Held
    BY <2>1, <2>2, <2>3 DEF Taken
  <2>7. Enqueued' \cap Running' = {}
    BY <2>2, <2>4 DEF HomeInv
  <2> QED
    BY <2>1, <2>5, <2>6, <2>7 DEF HomeInv
<1>3. CASE SubmitNotify(s)
  BY <1>3, HomeControl DEF SubmitNotify, svars
<1> QED
  BY <1>1, <1>2, <1>3 DEF SubmitterStep

\* Only the clear() at the end of tidy() takes tasks out of the pool, and no worker
\* is then left that could hold one.
LEMMA HomeOwner ==
  ASSUME TypeOK, PushInv, HomeInv, OwnerStep \/ OwnerCall
  PROVE  HomeInv'
<1>1. CASE ClearQueue
  <2>1. /\ m_TaskQueue' = <<>> /\ wtask' = wtask /\ stask' = stask
        /\ \A t \in Task : future'[t] = IF t \in Enqueued THEN "broken" ELSE future[t]
    BY <1>1 DEF ClearQueue, wvars, svars
  <2>2. Enqueued' = {} /\ Running' = Running /\ Held' = Held
    BY <2>1 DEF Enqueued, Running, Held
  <2>3. Taken \subseteq Task /\ Held \subseteq Task /\ Held \cap Taken = {}
    BY NoTaskAssumption DEF Taken, Held, Enqueued, Running, TypeOK, PushInv
  <2>4. Taken' \cup Held' = (Taken \cup Held) \ Enqueued
    BY <2>2, <2>3 DEF Taken, HomeInv
  <2>5. Len(m_TaskQueue') = 0
    BY <2>1
  <2> QED
    BY <2>1, <2>2, <2>3, <2>4, <2>5 DEF HomeInv
<1>2. CASE ~ClearQueue
  <2>1. UNCHANGED <<m_TaskQueue, wtask, stask, future>>
    BY <1>2 DEF OwnerStep, OwnerCall, Spawn, InitReturn, NotifyAll, JoinAll, Tidy, CallInit,
                CallShutdown, CallStop, CallDestroy, wvars, svars
  <2> QED
    BY <2>1, HomeControl
<1> QED
  BY <1>1, <1>2

LEMMA HomeCorrect == Spec => []HomeInv
<1>1. TypeOK /\ DebtInv /\ HomeInv /\ [Next]_vars => HomeInv'
  <2>1. HomeInv /\ UNCHANGED vars => HomeInv'
    BY HomeControl DEF vars
  <2> QED
    BY <2>1, HomeWorker, HomeSubmitter, HomeOwner DEF Next, DebtInv
<1> QED
  BY <1>1, HomeInit, TypeCorrect, DebtCorrect, PTL DEF Spec

LEMMA OnePlace ==
  ASSUME TypeOK, PushInv, HomeInv, NEW t \in Task
  PROVE  Cardinality(Places(t)) = IF future[t] = "pending" THEN 1 ELSE 0
<1>1. Taken \subseteq Task /\ Held \subseteq Task /\ Held \cap Taken = {} /\ t # NoTask
  BY NoTaskAssumption DEF Taken, Held, Enqueued, Running, TypeOK, PushInv
<1>2. CASE t \in Enqueued
  <2>1. PICK i \in 1..Len(m_TaskQueue) : m_TaskQueue[i] = t
    BY <1>2 DEF Enqueued
  <2>2. t \notin Running /\ t \notin Held /\ future[t] = "pending"
    BY <1>1, <1>2 DEF HomeInv, Taken
  <2>3. Places(t) = {<<"queue", i>>}
    BY <1>1, <2>1, <2>2 DEF Places, HomeInv, Running, Held
  <2> QED
    BY <2>2, <2>3, FS_Singleton
<1>3. CASE t \in Running
  <2>1. PICK w \in Worker : wtask[w] = t
    BY <1>3 DEF Running
  <2>2. t \notin Enqueued /\ t \notin Held /\ future[t] = "pending"
    BY <1>1, <1>3 DEF HomeInv, Taken
  <2>3. Places(t) = {<<"worker", w>>}
    BY <1>1, <2>1, <2>2 DEF Places, HomeInv, Enqueued, Held
  <2> QED
    BY <2>2, <2>3, FS_Singleton
<1>4. CASE t \in Held
  <2>1. PICK s \in Submitter : stask[s] = t
    BY <1>4 DEF Held
  <2>2. t \notin Enqueued /\ t \notin Running /\ future[t] = "pending"
    BY <1>1, <1>4 DEF HomeInv, Taken
  <2>3. Places(t) = {<<"submitter", s>>}
    BY <1>1, <2>1, <2>2 DEF Places, PushInv, Enqueued, Running
  <2> QED
    BY <2>2, <2>3, FS_Singleton
<1>5. CASE t \notin Taken \cup Held
  <2>1. future[t] # "pending"
    BY <1>5 DEF HomeInv
  <2>2. Places(t) = {}
    BY <1>1, <1>5 DEF Places, Taken, Held, Enqueued, Running
  <2> QED
    BY <2>1, <2>2, FS_EmptySet
<1> QED
  BY <1>2, <1>3, <1>4, <1>5 DEF Taken

\* No task is lost or duplicated on its way from submit() through safe_queue to a
\* worker, for any number of workers, submitters and tasks.
THEOREM Conserves == Spec => []Conservation
<1>1. TypeOK /\ DebtInv /\ HomeInv => Conservation
  BY OnePlace DEF DebtInv, Conservation
<1> QED
  BY <1>1, TypeCorrect, DebtCorrect, HomeCorrect, PTL

-----------------------------------------------------------------------------
(* The pool implements the task service                                    *)

\* Outside a shutdown() nothing is owed.
NothingOwed == ~Draining => owed = {}

LEMMA NothingOwedOwner ==
  ASSUME PoolInv, NothingOwed, OwnerStep \/ OwnerCall
  PROVE  NothingOwed'
<1>1. CASE OwnerStep
  BY <1>1 DEF OwnerStep, Spawn, InitReturn, NotifyAll, JoinAll, Tidy, ClearQueue,
              NothingOwed, Draining, PoolInv, OwnerInv
<1>2. CASE OwnerCall
  BY <1>2 DEF OwnerCall, CallInit, CallShutdown, CallStop, CallDestroy,
              NothingOwed, Draining
<1> QED
  BY <1>1, <1>2

LEMMA NothingOwedCorrect == Spec => []NothingOwed
<1>1. Init => NothingOwed
  BY DEF Init, NothingOwed
<1>2. TypeOK /\ PoolInv /\ NothingOwed /\ [Next]_vars => NothingOwed'
  <2> SUFFICES ASSUME TypeOK, PoolInv, NothingOwed, [Next]_vars
               PROVE  NothingOwed'
    OBVIOUS
  <2>1. UNCHANGED <<opc, call, owed>> => NothingOwed'
    BY DEF NothingOwed, Draining
  <2>2. ASSUME NEW w \in Worker, WorkerStep(w) \/ SpuriousWake(w)
        PROVE  NothingOwed'
    BY <2>1, <2>2 DEF WorkerStep, SpuriousWake, Test, Lock, PredStatus, PredEmpty, Block,
                      ExitStatus, ExitEmpty, Pop, Run, ovars
  <2>3. ASSUME NEW s \in Submitter, SubmitterStep(s) \/ \E t \in Task : SubmitCheck(s, t)
        PROVE  NothingOwed'
    BY <2>1, <2>3 DEF SubmitterStep, SubmitCheck, SubmitPush, SubmitNotify, ovars
  <2> QED
    BY <2>1, <2>2, <2>3, NothingOwedOwner DEF Next, vars
<1> QED
  BY <1>1, <1>2, TypeCorrect, PoolCorrect, PTL DEF Spec

\* What a caller sees of a task, by the place the task is in.
LEMMA PublicView ==
  ASSUME TypeOK, PushInv, HomeInv
  PROVE  /\ \A t \in Held : PublicFuture[t] = "none"
         /\ \A t \in Task \ Held : PublicFuture[t] = future[t]
         /\ Service!Pending = Taken
<1>1. Taken \subseteq Task /\ Held \subseteq Task /\ Held \cap Taken = {}
  BY NoTaskAssumption DEF Taken, Held, Enqueued, Running, TypeOK, PushInv
<1>2. \A t \in Task : (\E s \in Submitter : stask[s] = t) <=> t \in Held
  BY NoTaskAssumption DEF Held
<1>3. \A t \in Task : PublicFuture[t] = IF t \in Held THEN "none" ELSE future[t]
  BY <1>2 DEF PublicFuture
<1>4. \A t \in Task : PublicFuture[t] = "pending" => t \in Taken
  BY <1>3 DEF HomeInv
<1>5. \A t \in Taken : PublicFuture[t] = "pending"
  BY <1>1, <1>3 DEF HomeInv
<1>6. Service!Pending = Taken
  BY <1>1, <1>4, <1>5 DEF Service!Pending
<1> QED
  BY <1>1, <1>3, <1>6

\* A step that shows nothing to callers.
LEMMA Invisible ==
  ASSUME UNCHANGED <<stask, future, pool_status, m_Workers, owed>>
  PROVE  UNCHANGED Service!vars
  BY DEF Service!vars, PublicFuture, Phase

\* A worker runs its task: the service runs it.
LEMMA ServiceRun ==
  ASSUME TypeOK, PushInv, HomeInv, NEW w \in Worker, wtask[w] \in Task,
         future' = [future EXCEPT ![wtask[w]] = "ready"], pool_status # 3,
         UNCHANGED <<stask, pool_status, m_Workers, owed>>
  PROVE  Service!Run(wtask[w])
<1> DEFINE t == wtask[w]
<1>1. t \in Task /\ t \in Running
  BY NoTaskAssumption DEF Running
<1>2. t \notin Held /\ future[t] = "pending"
  BY <1>1 DEF PushInv, HomeInv, Taken, Held
<1>3. PublicFuture[t] = "pending"
  BY <1>1, <1>2, PublicView
<1>4. Phase # "closed" /\ Phase' = Phase
  BY DEF Phase, TypeOK
<1>5. PublicFuture' = [PublicFuture EXCEPT ![t] = "ready"]
  <2>1. ~(\E s \in Submitter : stask[s] = t)
    BY <1>1, <1>2, NoTaskAssumption DEF Held
  <2> QED
    BY <1>1, <2>1 DEF PublicFuture, TypeOK
<1> QED
  BY <1>1, <1>3, <1>4, <1>5 DEF Service!Run

LEMMA ServiceWorker ==
  ASSUME TypeOK, PoolInv, PushInv, HomeInv,
         NEW w \in Worker, WorkerStep(w) \/ SpuriousWake(w)
  PROVE  [Service!Next]_(Service!vars)
<1>1. CASE Run(w)
  <2>1. /\ wtask[w] \in Task
        /\ future' = [future EXCEPT ![wtask[w]] = "ready"]
        /\ UNCHANGED <<stask, pool_status, m_Workers, owed>>
    BY <1>1 DEF Run, Goto, TypeOK, svars, ovars
  <2>2. pool_status # 3
    BY <1>1 DEF Run, Goto, PoolInv, WorkersInv
  <2>3. Service!Run(wtask[w])
    BY <2>1, <2>2, ServiceRun
  <2> QED
    BY <2>1, <2>3 DEF Service!Next
<1>2. CASE ~Run(w)
  BY <1>2, Invisible DEF WorkerStep, SpuriousWake, Test, Lock, PredStatus, PredEmpty, Block,
                         ExitStatus, ExitEmpty, Pop, svars, ovars
<1> QED
  BY <1>1, <1>2

LEMMA ServiceSubmitter ==
  ASSUME TypeOK, PushInv, HomeInv, NEW s \in Submitter,
         SubmitterStep(s) \/ \E t \in Task : SubmitCheck(s, t)
  PROVE  [Service!Next]_(Service!vars)
<1>1. ASSUME NEW t \in Task, SubmitCheck(s, t)
      PROVE  [Service!Next]_(Service!vars)
  <2>1. UNCHANGED <<pool_status, m_Workers, owed>> /\ future[t] = "none"
    BY <1>1 DEF SubmitCheck, ovars
  <2>2. \A r \in Submitter : stask[r] # t
    BY <2>1, NoTaskAssumption DEF PushInv
  <2>3. Phase' = Phase
    BY <2>1 DEF Phase
  <2>4. CASE pool_status # 0
    <3>1. stask' = stask /\ future' = [future EXCEPT ![t] = "empty"]
      BY <1>1, <2>4 DEF SubmitCheck, svars
    <3>2. PublicFuture[t] = "none" /\ PublicFuture' = [PublicFuture EXCEPT ![t] = "empty"]
      BY <2>1, <2>2, <3>1 DEF PublicFuture, TypeOK
    <3>3. Phase # "open"
      BY <2>4 DEF Phase, TypeOK
    <3>4. Service!Refuse(t)
      BY <2>1, <2>3, <3>2, <3>3 DEF Service!Refuse
    <3> QED
      BY <3>4 DEF Service!Next
  <2>5. CASE pool_status = 0
    <3>1. /\ stask' = [stask EXCEPT ![s] = t] /\ stask[s] = NoTask
          /\ future' = [future EXCEPT ![t] = "pending"]
      BY <1>1, <2>5 DEF SubmitCheck, TypeOK
    <3>2. ASSUME NEW u \in Task
          PROVE  PublicFuture'[u] = PublicFuture[u]
      <4>1. CASE u = t
        BY <2>1, <2>2, <3>1, <4>1 DEF PublicFuture, TypeOK
      <4>2. CASE u # t
        <5>1. (\E r \in Submitter : stask'[r] = u) <=> (\E r \in Submitter : stask[r] = u)
          BY <3>1, <4>2, NoTaskAssumption DEF TypeOK
        <5> QED
          BY <3>1, <4>2, <5>1 DEF PublicFuture, TypeOK
      <4> QED
        BY <4>1, <4>2
    <3>3. PublicFuture' = PublicFuture
      BY <3>2 DEF PublicFuture
    <3> QED
      BY <2>1, <2>3, <3>3 DEF Service!vars
  <2> QED
    BY <2>4, <2>5
<1>2. CASE SubmitPush(s)
  <2> DEFINE t == stask[s]
  <2>1. /\ t \in Task /\ t \in Held
        /\ stask' = [stask EXCEPT ![s] = NoTask]
        /\ UNCHANGED <<future, pool_status, m_Workers, owed>>
    BY <1>2, NoTaskAssumption DEF SubmitPush, TypeOK, Held, ovars
  <2>2. future[t] = "pending" /\ PublicFuture[t] = "none"
    BY <2>1, PublicView DEF HomeInv
  <2>3. \A r \in Submitter : stask'[r] # t
    BY <2>1, NoTaskAssumption DEF PushInv, TypeOK
  <2>4. ASSUME NEW u \in Task, u # t
        PROVE  PublicFuture'[u] = PublicFuture[u]
    <3>1. (\E r \in Submitter : stask'[r] = u) <=> (\E r \in Submitter : stask[r] = u)
      BY <2>1, <2>4, NoTaskAssumption DEF TypeOK
    <3> QED
      BY <2>1, <3>1 DEF PublicFuture
  <2>5. PublicFuture'[t] = "pending"
    BY <2>1, <2>2, <2>3 DEF PublicFuture
  <2>6. PublicFuture' = [PublicFuture EXCEPT ![t] = "pending"]
    <3>1. /\ PublicFuture = [u \in Task |-> PublicFuture[u]]
          /\ PublicFuture' = [u \in Task |-> PublicFuture'[u]]
      BY DEF PublicFuture
    <3> QED
      BY <2>1, <2>4, <2>5, <3>1
  <2>7. Phase' = Phase
    BY <2>1 DEF Phase
  <2>8. Service!Accept(t)
    BY <2>1, <2>2, <2>6, <2>7 DEF Service!Accept
  <2> QED
    BY <2>1, <2>8 DEF Service!Next
<1>3. CASE SubmitNotify(s)
  BY <1>3, Invisible DEF SubmitNotify, ovars
<1> QED
  BY <1>1, <1>2, <1>3 DEF SubmitterStep

LEMMA ServiceOwner ==
  ASSUME TypeOK, PoolInv, DebtInv, HomeInv, NothingOwed, OwnerStep \/ OwnerCall
  PROVE  [Service!Next]_(Service!vars)
<1>0. UNCHANGED <<stask, future>> => PublicFuture' = PublicFuture
  BY DEF PublicFuture
<1>1. opc = "idle" => Phase \in {"open", "closed"}
  BY DEF PoolInv, OwnerInv, Phase
<1>2. CASE CallInit
  <2>1. PublicFuture' = PublicFuture /\ Phase' = "open" /\ UNCHANGED <<m_Workers, owed>>
    BY <1>0, <1>2 DEF CallInit, svars, Phase
  <2>2. Service!Open
    BY <1>1, <1>2, <2>1 DEF CallInit, Service!Open
  <2> QED
    BY <2>2 DEF Service!Next
<1>3. ASSUME NEW w \in Worker, Spawn(w)
      PROVE  [Service!Next]_(Service!vars)
  <2>1. /\ PublicFuture' = PublicFuture /\ Phase = "open" /\ Phase' = "open"
        /\ m_Workers' # {} /\ owed' = owed
    BY <1>0, <1>3 DEF Spawn, svars, Phase, PoolInv, OwnerInv
  <2>2. Service!Staff
    BY <2>1 DEF Service!Staff
  <2> QED
    BY <2>2 DEF Service!Next
<1>4. CASE InitReturn
  BY <1>4, Invisible DEF InitReturn, svars
<1>5. CASE CallShutdown
  <2>1. /\ PublicFuture' = PublicFuture /\ Phase' = "draining"
        /\ UNCHANGED <<m_Workers>>
        /\ owed' = IF m_Workers = {} THEN {} ELSE Taken
    BY <1>0, <1>5 DEF CallShutdown, svars, Phase, Taken
  <2>2. Service!Pending = Taken
    BY PublicView DEF DebtInv
  <2>3. Service!BeginDrain
    BY <1>1, <1>5, <2>1, <2>2 DEF CallShutdown, Service!BeginDrain
  <2> QED
    BY <2>3 DEF Service!Next
<1>6. CASE NotifyAll
  BY <1>6, Invisible DEF NotifyAll, svars
<1>7. CASE CallStop \/ CallDestroy
  <2>1. /\ PublicFuture' = PublicFuture /\ Phase' = "stopping" /\ opc = "idle"
        /\ UNCHANGED <<m_Workers, owed>>
    BY <1>0, <1>7 DEF CallStop, CallDestroy, svars, Phase
  <2>2. Service!BeginStop
    BY <1>1, <2>1 DEF Service!BeginStop
  <2> QED
    BY <2>2 DEF Service!Next
<1>8. CASE JoinAll
  BY <1>8, Invisible DEF JoinAll, svars
<1>9. CASE Tidy
  <2>1. /\ opc = "tidy" /\ pool_status' = 3 /\ m_Workers' = {} /\ owed' = owed
        /\ PublicFuture' = PublicFuture
        /\ UNCHANGED <<stask, future>>
    BY <1>0, <1>9 DEF Tidy, TidyStatus, svars
  <2>2. CASE call = "final"
    <3>1. pool_status = 3 /\ m_Workers = {}
      BY <2>1, <2>2 DEF PoolInv, OwnerInv, WorkersInv
    <3> QED
      BY <2>1, <3>1, Invisible
  <2>3. CASE call # "final"
    <3>1. Phase \in {"draining", "stopping"} /\ Phase' = "closed"
      BY <2>1, <2>3 DEF PoolInv, OwnerInv, Phase
    <3>2. \A t \in owed : future[t] = "ready"
      <4>1. CASE call = "shutdown"
        BY <2>1, <4>1, DrainedAtTidy DEF ShutdownDrains
      <4>2. CASE call # "shutdown"
        BY <4>2 DEF NothingOwed, Draining
      <4> QED
        BY <4>1, <4>2
    <3>3. \A t \in owed : t \in Task \ Held
      <4>1. \A t \in Held : future[t] = "pending"
        BY DEF HomeInv
      <4> QED
        BY <3>2, <4>1 DEF TypeOK
    <3>4. \A t \in owed : PublicFuture[t] = "ready"
      BY <3>2, <3>3, PublicView DEF DebtInv
    <3>5. Service!Close
      BY <2>1, <3>1, <3>4 DEF Service!Close
    <3> QED
      BY <3>5 DEF Service!Next
  <2> QED
    BY <2>2, <2>3
<1>10. CASE ClearQueue
  <2>1. /\ opc = "clear" /\ owed' = {}
        /\ UNCHANGED <<stask, pool_status, m_Workers>>
        /\ future' = [t \in Task |-> IF t \in Enqueued THEN "broken" ELSE future[t]]
    BY <1>10 DEF ClearQueue, svars
  <2>2. pool_status = 3
    BY <2>1 DEF PoolInv, OwnerInv
  <2>3. Phase = "closed" /\ Phase' = "closed"
    BY <2>1, <2>2 DEF Phase
  <2>4. \A w \in Worker : wpc[w] \in {"unborn", "exited"}
    BY <2>2 DEF PoolInv, WorkersInv
  <2>5. Running = {}
    BY <2>4, NoTaskAssumption DEF TypeOK, Running
  <2>6. Service!Pending = Enqueued
    BY <2>5, PublicView DEF DebtInv, Taken
  <2>7. ASSUME NEW t \in Task
        PROVE  PublicFuture'[t] = IF t \in Enqueued THEN "broken" ELSE PublicFuture[t]
    <3>1. t \in Enqueued => ~(\E s \in Submitter : stask[s] = t)
      BY NoTaskAssumption DEF DebtInv, PushInv, Taken
    <3> QED
      BY <2>1, <3>1 DEF PublicFuture
  <2>8. PublicFuture' = [t \in Task |-> IF t \in Service!Pending THEN "broken" ELSE PublicFuture[t]]
    BY <2>6, <2>7 DEF PublicFuture
  <2>9. Service!Drop
    BY <2>1, <2>3, <2>8 DEF Service!Drop
  <2> QED
    BY <2>9 DEF Service!Next
<1> QED
  BY <1>2, <1>3, <1>4, <1>5, <1>6, <1>7, <1>8, <1>9, <1>10 DEF OwnerStep, OwnerCall

\* The pool keeps what the task service promises, for any number of workers,
\* submitters and tasks: every step of every thread is a step of the service or is
\* invisible to the callers of submit().
THEOREM Implements == Spec => ImplementsService
<1>1. Init => Service!Init
  BY NoTaskAssumption DEF Init, Service!Init, PublicFuture, Phase
<1>2. TypeOK /\ PoolInv /\ DebtInv /\ HomeInv /\ NothingOwed /\ [Next]_vars
        => [Service!Next]_(Service!vars)
  <2>1. UNCHANGED vars => UNCHANGED Service!vars
    BY Invisible DEF vars
  <2> QED
    BY <2>1, ServiceWorker, ServiceSubmitter, ServiceOwner DEF Next, DebtInv
<1> QED
  BY <1>1, <1>2, TypeCorrect, PoolCorrect, DebtCorrect, HomeCorrect, NothingOwedCorrect, PTL
     DEF Spec, ImplementsService, Service!Spec
=============================================================================
