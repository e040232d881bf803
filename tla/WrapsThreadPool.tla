-------------------------- MODULE WrapsThreadPool --------------------------
(***************************************************************************)
(* The thread pool of plan6-network/wraps/thread_pool.hpp, a later version *)
(* of the pool of ThreadPool.  submit(), stop(), tidy(), the destructor and *)
(* the joins are the same code; this module gives what differs: a worker   *)
(* looks at the queue before the status, waits without a predicate, and    *)
(* runs its task under m_Mutex, and init() and shutdown() return at once    *)
(* unless pool_status is 0.                                                *)
(*                                                                         *)
(* The program counters are those of ThreadPool, "pred_empty" and           *)
(* "pred_status" standing for the two tests before the wait.               *)
(***************************************************************************)
EXTENDS ThreadPool

-----------------------------------------------------------------------------
(* The worker: while (pool_status <= 1) { lock; look; wait; take; run }     *)

\* Entering the locked block, or coming back from wait() with the mutex: after
\* the wait the queue is popped without another look at anything.
WLock(w) ==
  /\ \/ Goto(w, "lock", "pred_empty")
     \/ Goto(w, "wake", "pop")
  /\ m_Mutex = NoOne
  /\ m_Mutex' = w
  /\ UNCHANGED <<pool_status, m_TaskQueue, wtask, svars, ovars, future>>

WPredEmpty(w) ==
  /\ Goto(w, "pred_empty", IF HasTasks THEN "pop" ELSE "pred_status")
  /\ UNCHANGED <<pool_status, m_TaskQueue, m_Mutex, wtask, svars, ovars, future>>

ShutdownSeenMutant == FALSE
ShutdownSeen == pool_status = 1

\* The queue was empty a moment ago; a pool in shutdown ends the thread.
WPredStatus(w) ==
  /\ Goto(w, "pred_status", IF ShutdownSeen THEN "exited" ELSE "block")
  /\ m_Mutex' = IF ShutdownSeen THEN NoOne ELSE m_Mutex
  /\ UNCHANGED <<pool_status, m_TaskQueue, wtask, svars, ovars, future>>

\* The task is popped and kept in the locked block.
WPop(w) ==
  /\ \/ /\ m_TaskQueue # <<>>
        /\ Goto(w, "pop", "run")
        /\ wtask' = [wtask EXCEPT ![w] = Head(m_TaskQueue)]
        /\ m_TaskQueue' = Popped
        /\ UNCHANGED m_Mutex
     \/ /\ m_TaskQueue = <<>>
        /\ Goto(w, "pop", "test")
        /\ m_Mutex' = NoOne
        /\ UNCHANGED <<wtask, m_TaskQueue>>
  /\ UNCHANGED <<pool_status, svars, ovars, future>>

WRun(w) ==
  /\ Goto(w, "run", "test")
  /\ m_Mutex' = NoOne
  /\ wtask' = [wtask EXCEPT ![w] = NoTask]
  /\ future' = [future EXCEPT ![wtask[w]] = "ready"]
  /\ UNCHANGED <<pool_status, m_TaskQueue, svars, ovars>>

WWorkerStep(w) ==
  \/ Test(w) \/ WLock(w) \/ WPredEmpty(w) \/ WPredStatus(w) \/ Block(w)
  \/ WPop(w) \/ WRun(w)

-----------------------------------------------------------------------------
(* The callers                                                             *)

WSubmit ==
  \E s \in Submitter : SubmitterStep(s) \/ \E t \in Task : SubmitCheck(s, t)

WInitGuard == pool_status = 0

WInit == WInitGuard /\ CallInit

\* A worker that has seen the queue empty and not yet looked at the status is
\* about to leave tasks behind that were pushed in between: see OrderlyUnlessSeen.
SeenEmpty == \E w \in Worker : wpc[w] = "pred_status"

WShutdown ==
  /\ opc = "idle"
  /\ pool_status = 0
  /\ pool_status' = 1
  /\ opc' = "notify"
  /\ call' = "shutdown"
  /\ owed' = IF m_Workers = {} \/ SeenEmpty THEN {} ELSE Enqueued \cup Running
  /\ UNCHANGED <<m_TaskQueue, wvars, svars, m_Workers, toSpawn, future>>

WStop == CallStop \/ CallDestroy

WNext ==
  \/ \E w \in Worker : WWorkerStep(w) \/ SpuriousWake(w)
  \/ WSubmit
  \/ OwnerStep
  \/ WInit \/ WShutdown \/ WStop

WSpec == Init /\ [][WNext]_vars

\* As in ThreadPool: every thread that can move is scheduled.
WFairSpec ==
  /\ WSpec
  /\ \A w \in Worker : WF_vars(WWorkerStep(w))
  /\ \A s \in Submitter : WF_vars(SubmitterStep(s))
  /\ WF_vars(OwnerStep)

-----------------------------------------------------------------------------
(* Properties                                                              *)

\* What the two pools have in common: tasks are in one place, and no thread of a
\* closed pool is left, although the worker here runs its task under m_Mutex and
\* shutdown() and init() may be called twice.
WInv == TypeOK /\ Conservation /\ QuietWhenClosed

\* shutdown() drains what was enqueued when it was called, unless a worker was
\* just then between its look at the queue and its look at the status: such a
\* worker ends, and with no other worker the tasks are dropped.
OrderlyUnlessSeen == ShutdownDrains

\* The pool implements the task service without the promise of draining.
WService == INSTANCE TaskService
  WITH future <- PublicFuture, phase <- Phase, staffed <- FALSE, owed <- {}

\* Tasks run at most once and never in a closed pool, and only a pool that is
\* not open hands out an empty future.
WImplementsService == WService!Spec

\* shutdown() gets rid of every worker that is not already bound for the wait
\* when it notifies.
BoundForWait == {"unborn", "block", "blocked"}

\* stop() and the destructor notify nobody, and are rid of every worker that is past
\* its wait, which one that was woken is here.
WPastWait == {"wake", "pop", "run", "test"}

WAwakeWorkersEnd ==
  \A w \in Worker :
    (opc = "join" /\ IF call = "shutdown" THEN wpc[w] \notin BoundForWait ELSE wpc[w] \in WPastWait)
      ~> wpc[w] = "exited"

\* An open pool does not leave its queue standing while some worker is awake and
\* has not just seen the queue empty.
WAwakeWorkerDrains ==
  (/\ pool_status = 0 /\ m_TaskQueue # <<>>
   /\ \E w \in Worker : wpc[w] \notin BoundForWait \cup {"pred_status", "exited"})
    ~> (pool_status # 0 \/ m_TaskQueue = <<>>)
=============================================================================
