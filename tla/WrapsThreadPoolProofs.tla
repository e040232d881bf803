------------------------ MODULE WrapsThreadPoolProofs ------------------------
(***************************************************************************)
(* Proofs about WrapsThreadPool, for any workers, submitters, tasks and    *)
(* core size.  The submitters and the owner are those of ThreadPool, and so *)
(* are the lemmas about them; what is new is the worker, the shutdown() that *)
(* does nothing twice, and the one thing a worker knows that does not hold  *)
(* any more when it acts on it: SeenInv.                                    *)
(***************************************************************************)
EXTENDS WrapsThreadPool, ThreadPoolProofs

\* A worker that has seen the queue empty during a shutdown() saw it without any
\* task that is owed, and none of those comes back.
SeenInv ==
  Draining /\ opc # "clear" /\ (\E w \in m_Workers : wpc[w] = "pred_status") => owed \cap Enqueued = {}

WDebtInv == DebtInv /\ SeenInv

\* The steps of the owner that are calls, the shutdown() of this version aside.
WCall == WInit \/ WStop

-----------------------------------------------------------------------------
(* Types                                                                   *)

LEMMA WTypeWorker ==
  ASSUME TypeOK, NEW w \in Worker, WWorkerStep(w) \/ SpuriousWake(w)
  PROVE  TypeOK'
<1> USE NoTaskAssumption DEF TypeOK, Goto, svars, ovars
<1>1. CASE Test(w) \/ SpuriousWake(w) \/ Block(w)
  BY <1>1, TypeWorker DEF WorkerStep
<1>2. CASE WLock(w)
  BY <1>2 DEF WLock
<1>3. CASE WPredEmpty(w)
  BY <1>3 DEF WPredEmpty
<1>4. CASE WPredStatus(w)
  BY <1>4 DEF WPredStatus
<1>5. CASE WPop(w)
  <2>1. CASE m_TaskQueue # <<>>
    <3>1. /\ Head(m_TaskQueue) \in Task
          /\ m_TaskQueue' \in Seq(Task)
      BY <1>5, <2>1, HeadLeaves DEF WPop, Popped
    <3>2. /\ wpc' = [wpc EXCEPT ![w] = "run"]
          /\ wtask' = [wtask EXCEPT ![w] = Head(m_TaskQueue)]
          /\ m_Mutex' = m_Mutex
          /\ UNCHANGED <<pool_status, svars, ovars, future>>
      BY <1>5, <2>1 DEF WPop
    <3> QED
      BY <3>1, <3>2
  <2>2. CASE m_TaskQueue = <<>>
    BY <1>5, <2>2 DEF WPop
  <2> QED
    BY <2>1, <2>2
<1>6. CASE WRun(w)
  BY <1>6 DEF WRun
<1> QED
  BY <1>1, <1>2, <1>3, <1>4, <1>5, <1>6 DEF WWorkerStep

LEMMA WTypeShutdown ==
  ASSUME TypeOK, WShutdown
  PROVE  TypeOK'
  BY NoTaskAssumption DEF TypeOK, WShutdown, Enqueued, Running, wvars, svars

\* The types of ThreadPool hold of this version too.
LEMMA WTypeCorrect == WSpec => []TypeOK
<1>1. TypeOK /\ [WNext]_vars => TypeOK'
  BY WTypeWorker, TypeSubmitter, TypeOwner, WTypeShutdown, TypeStutter
     DEF WNext, WSubmit, WInit, WStop, OwnerCall
<1> QED
  BY TypeInit, <1>1, PTL DEF WSpec

-----------------------------------------------------------------------------
(* Where the owner is, and who has ended                                   *)

LEMMA WPoolWorker ==
  ASSUME TypeOK, PoolInv, NEW w \in Worker, WWorkerStep(w) \/ SpuriousWake(w)
  PROVE  PoolInv'
<1> USE DEF TypeOK, PoolInv, OwnerInv, WorkersInv, Goto, svars, ovars
<1>1. CASE Test(w) \/ SpuriousWake(w) \/ Block(w)
  BY <1>1, PoolWorker DEF WorkerStep
<1>2. CASE WLock(w)
  BY <1>2 DEF WLock
<1>3. CASE WPredEmpty(w)
  BY <1>3 DEF WPredEmpty
<1>4. CASE WPredStatus(w)
  BY <1>4 DEF WPredStatus, ShutdownSeen
<1>5. CASE WPop(w)
  BY <1>5 DEF WPop
<1>6. CASE WRun(w)
  BY <1>6 DEF WRun
<1> QED
  BY <1>1, <1>2, <1>3, <1>4, <1>5, <1>6 DEF WWorkerStep

LEMMA WPoolCorrect == WSpec => []PoolInv
<1>1. TypeOK /\ PoolInv /\ WShutdown => PoolInv'
  BY DEF TypeOK, PoolInv, OwnerInv, WorkersInv, WShutdown, wvars
<1>2. PoolInv /\ UNCHANGED vars => PoolInv'
  BY DEF PoolInv, OwnerInv, WorkersInv, vars
<1>3. TypeOK /\ PoolInv /\ [WNext]_vars => PoolInv'
  BY <1>1, <1>2, WPoolWorker, PoolSubmitter, PoolOwner DEF WNext, WSubmit, WInit, WStop, OwnerCall
<1> QED
  BY <1>3, PoolInit, WTypeCorrect, PTL DEF WSpec

-----------------------------------------------------------------------------
(* What shutdown() owes                                                    *)

\* A worker step that neither pops nor runs leaves the tasks where they are; a worker
\* comes to see the queue empty, or ends, only when nothing that is owed is queued.
LEMMA WDebtControl ==
  ASSUME TypeOK, PoolInv, WDebtInv,
         NEW w \in Worker, NEW there, wpc' = [wpc EXCEPT ![w] = there],
         there = "pred_status" => Enqueued = {},
         there = "exited" => pool_status > 1 \/ wpc[w] = "pred_status",
         UNCHANGED <<m_TaskQueue, wtask, svars, ovars, future>>
  PROVE  WDebtInv'
<1>1. Enqueued' = Enqueued /\ Running' = Running /\ Draining' = Draining
  BY DEF Enqueued, Running, Draining, ovars
<1>2. PushInv'
  BY <1>1 DEF WDebtInv, DebtInv, PushInv, Taken, svars
<1>3. w \notin m_Workers => there # "exited" \/ wpc[w] # "pred_status"
  BY DEF PoolInv, WorkersInv
<1>4. OwedInv'
  BY <1>1, <1>2, <1>3 DEF TypeOK, PoolInv, OwnerInv, WorkersInv, WDebtInv, SeenInv, DebtInv,
                   OwedInv, Taken, Draining, svars, ovars
<1>5. SeenInv'
  BY <1>1 DEF TypeOK, WDebtInv, SeenInv, ovars
<1> QED
  BY <1>2, <1>4, <1>5 DEF WDebtInv, DebtInv

LEMMA WDebtWorker ==
  ASSUME TypeOK, PoolInv, WDebtInv, NEW w \in Worker, WWorkerStep(w) \/ SpuriousWake(w)
  PROVE  WDebtInv'
<1> USE DEF Goto
<1>1. CASE Test(w)
  <2>1. UNCHANGED <<m_TaskQueue, wtask, svars, ovars, future>>
    BY <1>1 DEF Test
  <2>2. CASE pool_status <= 1
    BY <1>1, <2>1, <2>2, WDebtControl DEF Test
  <2>3. CASE ~(pool_status <= 1)
    <3>1. pool_status > 1
      BY <2>3 DEF TypeOK
    <3>2. wpc' = [wpc EXCEPT ![w] = "exited"]
      BY <1>1, <2>3 DEF Test
    <3> QED
      BY <2>1, <3>1, <3>2, WDebtControl
  <2> QED
    BY <2>2, <2>3
<1>2. CASE WLock(w) \/ Block(w) \/ SpuriousWake(w)
  BY <1>2, WDebtControl DEF WLock, Block, SpuriousWake
<1>3. CASE WPredEmpty(w)
  <2>1. m_TaskQueue = <<>> => Enqueued = {}
    BY DEF Enqueued
  <2> QED
    BY <1>3, <2>1, WDebtControl DEF WPredEmpty, HasTasks
<1>4. CASE WPredStatus(w)
  BY <1>4, WDebtControl DEF WPredStatus
<1>5. CASE WPop(w)
  <2>1. CASE m_TaskQueue = <<>>
    BY <1>5, <2>1, WDebtControl DEF WPop
  <2>2. CASE m_TaskQueue # <<>>
    <3>1. /\ Head(m_TaskQueue) \in Task
          /\ Enqueued = Enqueued' \cup {Head(m_TaskQueue)}
      <4>1. m_TaskQueue \in Seq(Task) /\ m_TaskQueue' = Tail(m_TaskQueue)
        BY <1>5, <2>2 DEF WPop, Popped, TypeOK
      <4> QED
        BY <2>2, <4>1, HeadLeaves DEF Enqueued
    <3>2. Running' = Running \cup {Head(m_TaskQueue)}
      <4>1. wtask[w] = NoTask
        BY <1>5, <2>2, NoTaskAssumption DEF WPop, TypeOK
      <4>2. wtask' = [wtask EXCEPT ![w] = Head(m_TaskQueue)]
        BY <1>5, <2>2 DEF WPop
      <4> QED
        BY <4>1, <4>2, <3>1, NoTaskAssumption DEF Running, TypeOK
    <3>3. Taken' = Taken
      BY <3>1, <3>2 DEF Taken
    <3>4. UNCHANGED <<svars, ovars, future>> /\ wpc' = [wpc EXCEPT ![w] = "run"]
      BY <1>5, <2>2 DEF WPop
    <3>5. PushInv'
      BY <3>3, <3>4 DEF WDebtInv, DebtInv, PushInv, svars
    <3>6. OwedInv'
      BY <3>1, <3>3, <3>4 DEF WDebtInv, DebtInv, OwedInv, Draining, TypeOK, svars, ovars
    <3>7. SeenInv'
      BY <3>1, <3>4 DEF WDebtInv, SeenInv, Draining, TypeOK, ovars
    <3> QED
      BY <3>5, <3>6, <3>7 DEF WDebtInv, DebtInv
  <2> QED
    BY <2>1, <2>2
<1>6. CASE WRun(w)
  <2> DEFINE t == wtask[w]
  <2>1. /\ t \in Task
        /\ future' = [future EXCEPT ![t] = "ready"]
        /\ wtask' = [wtask EXCEPT ![w] = NoTask]
        /\ wpc' = [wpc EXCEPT ![w] = "test"]
        /\ UNCHANGED <<m_TaskQueue, svars, ovars>>
    BY <1>6 DEF WRun, TypeOK
  <2>2. Enqueued' = Enqueued
    BY <2>1 DEF Enqueued
  <2>3. /\ Running' \subseteq Running /\ Running \subseteq Running' \cup {t}
    BY <2>1 DEF Running, TypeOK
  <2>4. /\ Taken' \subseteq Taken
        /\ Taken \subseteq Taken' \cup {t}
    BY <2>2, <2>3 DEF Taken
  <2>5. \A u \in Task : future'[u] = IF u = t THEN "ready" ELSE future[u]
    BY <2>1 DEF TypeOK
  <2>6. Taken \subseteq Task
    BY NoTaskAssumption DEF Taken, Enqueued, Running, TypeOK
  <2>7. PushInv'
    BY <2>1, <2>4, <2>5, <2>6 DEF WDebtInv, DebtInv, PushInv, TypeOK, svars
  <2>8. OwedInv'
    BY <2>1, <2>2, <2>4, <2>5, <2>6 DEF WDebtInv, DebtInv, OwedInv, Draining, TypeOK, svars, ovars
  <2>9. SeenInv'
    BY <2>1, <2>2 DEF WDebtInv, SeenInv, Draining, TypeOK, ovars
  <2> QED
    BY <2>7, <2>8, <2>9 DEF WDebtInv, DebtInv
<1> QED
  BY <1>1, <1>2, <1>3, <1>4, <1>5, <1>6 DEF WWorkerStep

LEMMA WDebtSubmitter ==
  ASSUME TypeOK, PoolInv, WDebtInv, NEW s \in Submitter,
         SubmitterStep(s) \/ \E t \in Task : SubmitCheck(s, t)
  PROVE  WDebtInv'
<1>1. DebtInv'
  BY DebtSubmitter DEF WDebtInv
<1>2. UNCHANGED <<owed, opc, call, m_Workers>>
  BY DEF SubmitterStep, SubmitCheck, SubmitPush, SubmitNotify, ovars
<1>3. \A w \in Worker : wpc'[w] = "pred_status" => wpc[w] = "pred_status"
  BY DEF SubmitterStep, SubmitCheck, SubmitPush, SubmitNotify, Waiters, wvars, TypeOK
<1>4. Draining => owed \cap Enqueued' \subseteq owed \cap Enqueued
  <2>1. CASE SubmitPush(s)
    <3>1. /\ stask[s] \in Task
          /\ m_TaskQueue' = Append(m_TaskQueue, stask[s])
      BY <2>1 DEF SubmitPush, TypeOK
    <3>2. Enqueued' = Enqueued \cup {stask[s]}
      BY <3>1, AppendAdds DEF Enqueued, TypeOK
    <3>3. Draining => stask[s] \notin owed
      BY DEF WDebtInv, DebtInv, OwedInv
    <3> QED
      BY <3>2, <3>3
  <2>2. CASE ~SubmitPush(s)
    BY <2>2 DEF SubmitterStep, SubmitCheck, SubmitNotify, Enqueued
  <2> QED
    BY <2>1, <2>2
<1>5. SeenInv'
  BY <1>2, <1>3, <1>4 DEF WDebtInv, SeenInv, Draining, PoolInv, TypeOK
<1> QED
  BY <1>1, <1>5 DEF WDebtInv

LEMMA WDebtOwner ==
  ASSUME TypeOK, PoolInv, WDebtInv, OwnerStep \/ WCall \/ WShutdown
  PROVE  WDebtInv'
<1>1. CASE OwnerStep \/ WCall
  <2>1. DebtInv'
    BY <1>1, DebtOwner DEF WDebtInv, WCall, WInit, WStop, OwnerCall
  <2>2. CASE ClearQueue \/ InitReturn \/ WCall
    <3>1. ~Draining'
      BY <2>2 DEF ClearQueue, InitReturn, WCall, WInit, WStop, CallInit, CallStop, CallDestroy, Draining
    <3> QED
      BY <2>1, <3>1 DEF WDebtInv, SeenInv
  <2>3. CASE ~ClearQueue /\ ~InitReturn /\ OwnerStep
    <3>1. /\ UNCHANGED <<m_TaskQueue, owed, call>>
          /\ m_Workers' \subseteq m_Workers \/ opc' = "spawn"
          /\ opc' \in {"idle", "spawn", "clear"} \/ opc \in {"notify", "join", "tidy"}
          /\ \A w \in Worker : wpc'[w] = "pred_status" => wpc[w] = "pred_status"
      <4>1. ASSUME NEW v \in Worker, Spawn(v)
            PROVE  \A w \in Worker : wpc'[w] = "pred_status" => wpc[w] = "pred_status"
        BY <4>1 DEF Spawn, Goto, TypeOK
      <4>2. CASE \E v \in Worker : Spawn(v)
        BY <4>1, <4>2 DEF Spawn
      <4>3. CASE NotifyAll
        BY <4>3 DEF NotifyAll, wvars
      <4>4. CASE JoinAll
        BY <4>4 DEF JoinAll, wvars
      <4>5. CASE Tidy
        BY <4>5 DEF Tidy, wvars
      <4> QED
        BY <2>3, <4>2, <4>3, <4>4, <4>5 DEF OwnerStep
    <3>2. Enqueued' = Enqueued
      BY <3>1 DEF Enqueued
    <3> QED
      BY <2>1, <3>1, <3>2 DEF WDebtInv, SeenInv, Draining, TypeOK
  <2> QED
    BY <1>1, <2>1, <2>2, <2>3 DEF WDebtInv
<1>2. CASE WShutdown
  <2>1. /\ owed' \subseteq Taken /\ (m_Workers = {} => owed' = {})
        /\ SeenEmpty => owed' = {}
        /\ opc = "idle" /\ opc' = "notify"
        /\ UNCHANGED <<m_TaskQueue, wtask, wpc, stask, future, m_Workers>>
    BY <1>2 DEF WShutdown, Taken, wvars, svars
  <2>2. Enqueued' = Enqueued /\ Taken' = Taken
    BY <2>1 DEF Taken, Enqueued, Running
  <2>3. PushInv'
    BY <2>1, <2>2 DEF WDebtInv, DebtInv, PushInv
  <2>4. \A w \in m_Workers : wpc[w] # "exited"
    BY <2>1 DEF PoolInv, WorkersInv
  <2>5. Taken \subseteq Task
    BY NoTaskAssumption DEF Taken, Enqueued, Running, TypeOK
  <2>6. OwedInv'
    BY <2>1, <2>2, <2>4, <2>5, NoTaskAssumption DEF WDebtInv, DebtInv, PushInv, OwedInv
  <2>7. SeenInv'
    BY <2>1 DEF SeenInv, SeenEmpty, TypeOK
  <2> QED
    BY <2>3, <2>6, <2>7 DEF WDebtInv, DebtInv
<1> QED
  BY <1>1, <1>2

LEMMA WDebtCorrect == WSpec => []WDebtInv
<1>1. Init => WDebtInv
  BY DebtInit DEF Init, WDebtInv, SeenInv, Draining
<1>2. WDebtInv /\ UNCHANGED vars => WDebtInv'
  BY DEF WDebtInv, SeenInv, DebtInv, PushInv, OwedInv, Taken, Enqueued, Running, Draining, vars
<1>3. TypeOK /\ PoolInv /\ WDebtInv /\ [WNext]_vars => WDebtInv'
  BY <1>2, WDebtWorker, WDebtSubmitter, WDebtOwner DEF WNext, WSubmit, WCall
<1> QED
  BY <1>1, <1>3, WTypeCorrect, WPoolCorrect, PTL DEF WSpec

\* shutdown() of this version is orderly, unless a worker is between its look at the
\* queue and its look at the status when it is called.
THEOREM WDrains == WSpec => []OrderlyUnlessSeen
<1>1. TypeOK /\ PoolInv /\ WDebtInv => OrderlyUnlessSeen
  BY DrainedAtTidy DEF WDebtInv, OrderlyUnlessSeen
<1> QED
  BY <1>1, WTypeCorrect, WPoolCorrect, WDebtCorrect, PTL

-----------------------------------------------------------------------------
(* One place for every task                                                *)

LEMMA WHomeWorker ==
  ASSUME TypeOK, PushInv, HomeInv, NEW w \in Worker, WWorkerStep(w) \/ SpuriousWake(w)
  PROVE  HomeInv'
<1>1. CASE WPop(w) /\ m_TaskQueue # <<>>
  <2> DEFINE t == Head(m_TaskQueue)
  <2>1. /\ m_TaskQueue \in Seq(Task) /\ m_TaskQueue' = Tail(m_TaskQueue)
        /\ wtask[w] = NoTask /\ wtask' = [wtask EXCEPT ![w] = t]
        /\ stask' = stask /\ future' = future
    BY <1>1, NoTaskAssumption DEF WPop, Popped, Goto, TypeOK, svars
  <2> QED
    BY <1>1, <2>1, HomePop
<1>2. CASE WRun(w)
  <2>1. /\ wtask[w] \in Task
        /\ m_TaskQueue' = m_TaskQueue /\ stask' = stask
        /\ wtask' = [wtask EXCEPT ![w] = NoTask]
        /\ future' = [future EXCEPT ![wtask[w]] = "ready"]
    BY <1>2 DEF WRun, Goto, TypeOK, svars
  <2> QED
    BY <2>1, HomeRun
<1>3. CASE ~WRun(w) /\ ~(WPop(w) /\ m_TaskQueue # <<>>)
  <2>1. UNCHANGED <<m_TaskQueue, wtask, stask, future>>
    BY <1>3 DEF WWorkerStep, SpuriousWake, Test, WLock, WPredEmpty, WPredStatus, Block, WPop, svars
  <2> QED
    BY <2>1, HomeControl
<1> QED
  BY <1>1, <1>2, <1>3

LEMMA WHomeCorrect == WSpec => []HomeInv
<1>1. HomeInv /\ UNCHANGED vars => HomeInv'
  BY HomeControl DEF vars
<1>2. HomeInv /\ WShutdown => HomeInv'
  BY HomeControl DEF WShutdown, wvars, svars
<1>3. TypeOK /\ WDebtInv /\ HomeInv /\ [WNext]_vars => HomeInv'
  BY <1>1, <1>2, WHomeWorker, HomeSubmitter, HomeOwner
     DEF WNext, WSubmit, WInit, WStop, OwnerCall, WDebtInv, DebtInv
<1> QED
  BY <1>3, HomeInit, WTypeCorrect, WDebtCorrect, PTL DEF WSpec

\* In this version too no task is lost or duplicated, and no thread of a closed pool
\* is left, for any number of workers, submitters and tasks.
THEOREM WCorrect == WSpec => []WInv
<1>1. TypeOK /\ PoolInv /\ WDebtInv /\ HomeInv => WInv
  BY OnePlace, ClosedIsQuiet DEF WDebtInv, DebtInv, WInv, Conservation
<1> QED
  BY <1>1, WTypeCorrect, WPoolCorrect, WDebtCorrect, WHomeCorrect, PTL

-----------------------------------------------------------------------------
(* The pool implements the task service, draining aside                    *)

LEMMA WNothingOwedCorrect == WSpec => []NothingOwed
<1>1. Init => NothingOwed
  BY DEF Init, NothingOwed
<1>2. TypeOK /\ PoolInv /\ NothingOwed /\ [WNext]_vars => NothingOwed'
  <2> SUFFICES ASSUME TypeOK, PoolInv, NothingOwed, [WNext]_vars
               PROVE  NothingOwed'
    OBVIOUS
  <2>1. UNCHANGED <<opc, call, owed>> => NothingOwed'
    BY DEF NothingOwed, Draining
  <2>2. ASSUME NEW w \in Worker, WWorkerStep(w) \/ SpuriousWake(w)
        PROVE  NothingOwed'
    BY <2>1, <2>2 DEF WWorkerStep, SpuriousWake, Test, WLock, WPredEmpty, WPredStatus, Block,
                      WPop, WRun, ovars
  <2>3. CASE WSubmit
    BY <2>1, <2>3 DEF WSubmit, SubmitterStep, SubmitCheck, SubmitPush, SubmitNotify, ovars
  <2>4. CASE OwnerStep \/ WInit \/ WStop
    BY <2>4, NothingOwedOwner DEF OwnerCall, WInit, WStop
  <2>5. CASE WShutdown
    BY <2>5 DEF WShutdown, NothingOwed, Draining
  <2> QED
    BY <2>1, <2>2, <2>3, <2>4, <2>5 DEF WNext, vars
<1> QED
  BY <1>1, <1>2, WTypeCorrect, WPoolCorrect, PTL DEF WSpec

\* Whoever forgets what is owed and whether workers exist sees the service without
\* draining: every step of the one is a step of the other, or none.
LEMMA Forgets ==
  ASSUME [Service!Next]_(Service!vars)
  PROVE  [WService!Next]_(WService!vars)
<1>1. ASSUME NEW t \in Task, Service!Accept(t) \/ Service!Refuse(t) \/ Service!Run(t)
      PROVE  WService!Next
  BY <1>1 DEF Service!Accept, Service!Refuse, Service!Run,
              WService!Accept, WService!Refuse, WService!Run, WService!Next
<1>2. Service!Open => WService!Open
  BY DEF Service!Open, WService!Open
<1>3. Service!Staff => UNCHANGED WService!vars
  BY DEF Service!Staff, WService!vars
<1>4. Service!BeginDrain => WService!BeginDrain
  BY DEF Service!BeginDrain, WService!BeginDrain
<1>5. Service!BeginStop => WService!BeginStop
  BY DEF Service!BeginStop, WService!BeginStop
<1>6. Service!Close => WService!Close
  BY DEF Service!Close, WService!Close
<1>7. Service!Drop => WService!Drop
  BY DEF Service!Drop, WService!Drop, Service!Pending, WService!Pending
<1>8. UNCHANGED Service!vars => UNCHANGED WService!vars
  BY DEF Service!vars, WService!vars
<1> QED
  BY <1>1, <1>2, <1>3, <1>4, <1>5, <1>6, <1>7, <1>8 DEF Service!Next, WService!Next

LEMMA WServiceWorker ==
  ASSUME TypeOK, PoolInv, PushInv, HomeInv,
         NEW w \in Worker, WWorkerStep(w) \/ SpuriousWake(w)
  PROVE  [Service!Next]_(Service!vars)
<1>1. CASE WRun(w)
  <2>1. /\ wtask[w] \in Task
        /\ future' = [future EXCEPT ![wtask[w]] = "ready"]
        /\ UNCHANGED <<stask, pool_status, m_Workers, owed>>
    BY <1>1 DEF WRun, Goto, TypeOK, svars, ovars
  <2>2. pool_status # 3
    BY <1>1 DEF WRun, Goto, PoolInv, WorkersInv
  <2>3. Service!Run(wtask[w])
    BY <2>1, <2>2, ServiceRun
  <2> QED
    BY <2>1, <2>3 DEF Service!Next
<1>2. CASE ~WRun(w)
  BY <1>2, Invisible DEF WWorkerStep, SpuriousWake, Test, WLock, WPredEmpty, WPredStatus, Block,
                         WPop, svars, ovars
<1> QED
  BY <1>1, <1>2

LEMMA WServiceShutdown ==
  ASSUME PoolInv, WShutdown
  PROVE  WService!BeginDrain
<1>1. PublicFuture' = PublicFuture
  BY DEF WShutdown, PublicFuture, svars
<1>2. Phase = "open" /\ Phase' = "draining"
  BY DEF WShutdown, Phase
<1> QED
  BY <1>1, <1>2 DEF WService!BeginDrain

\* For any number of workers, submitters and tasks: tasks run at most once and never in
\* a closed pool, and only a pool that is not open hands out an empty future.
THEOREM WImplements == WSpec => WImplementsService
<1>1. Init => WService!Init
  BY NoTaskAssumption DEF Init, WService!Init, PublicFuture, Phase
<1>2. TypeOK /\ PoolInv /\ WDebtInv /\ HomeInv /\ NothingOwed /\ [WNext]_vars
        => [WService!Next]_(WService!vars)
  <2> SUFFICES ASSUME TypeOK, PoolInv, WDebtInv, HomeInv, NothingOwed, [WNext]_vars
               PROVE  [WService!Next]_(WService!vars)
    OBVIOUS
  <2>1. CASE WShutdown
    BY <2>1, WServiceShutdown DEF WService!Next
  <2>2. CASE ~WShutdown
    <3>1. UNCHANGED vars => UNCHANGED Service!vars
      BY Invisible DEF vars
    <3>2. [Service!Next]_(Service!vars)
      BY <2>2, <3>1, WServiceWorker, ServiceSubmitter, ServiceOwner
         DEF WNext, WSubmit, WInit, WStop, OwnerCall, WDebtInv, DebtInv
    <3> QED
      BY <3>2, Forgets
  <2> QED
    BY <2>1, <2>2
<1> QED
  BY <1>1, <1>2, WTypeCorrect, WPoolCorrect, WDebtCorrect, WHomeCorrect, WNothingOwedCorrect, PTL
     DEF WSpec, WImplementsService, WService!Spec
=============================================================================
