----------------------------- MODULE ThreadPool -----------------------------
(***************************************************************************)
(* The C++11 thread pool of plan5-thread/thread_pool.hpp.                  *)
(*                                                                         *)
(* Threads: the workers run thread_worker::operator(), the submitters call *)
(* submit(), and the owner calls init(), shutdown(), stop() and finally the *)
(* destructor, one call after the other.  A step of a thread is one access *)
(* to state that other threads touch: pool_status is a plain int that is   *)
(* read and written without m_Mutex, so each read of it is a step.         *)
(* safe_queue locks a mutex of its own inside each operation and never      *)
(* calls out of it, so an operation on the queue is one step.               *)
(***************************************************************************)
EXTENDS Naturals, Sequences, FiniteSets

CONSTANTS
  Worker,     \* identities of the threads that init() may ever create
  Submitter,  \* threads that call submit()
  Task,       \* the tasks, each submitted at most once: bounds the runs
  CoreSize,   \* pool_core_size
  NoOne,      \* m_Mutex is free
  NoTask      \* an empty std::function

ASSUME CoreSizeAssumption == CoreSize \in Nat \ {0}
ASSUME NoOneAssumption == NoOne \notin Worker
ASSUME NoTaskAssumption == NoTask \notin Task

VARIABLES
  pool_status,  \* 0: working, 1: shutdown, 2: stop, 3: tidying
  m_TaskQueue,  \* enqueued tasks, oldest first
  m_Workers,    \* threads whose std::thread is in the vector m_Workers
  m_Mutex,      \* the worker that holds m_Mutex, or NoOne
  wpc,          \* where each worker thread is
  wtask,        \* the task a worker took from the queue, NoTask before and after
  spc, stask,   \* where each submitter is, and the task it is about to push
  opc, call,    \* where the owner is, and the call it is in
  toSpawn,      \* iterations left of the loop in init()
  future,       \* what the caller of submit() sees of its task
  owed          \* history: tasks enqueued when shutdown() was called

vars == <<pool_status, m_TaskQueue, m_Workers, m_Mutex, wpc, wtask,
          spc, stask, opc, call, toSpawn, future, owed>>
wvars == <<m_Mutex, wpc, wtask>>
svars == <<spc, stask>>
ovars == <<opc, call, toSpawn, m_Workers, owed>>

Enqueued == {m_TaskQueue[i] : i \in 1..Len(m_TaskQueue)}
Running == {wtask[w] : w \in Worker} \ {NoTask}

Init ==
  /\ pool_status = 0
  /\ m_TaskQueue = <<>>
  /\ m_Workers = {}
  /\ m_Mutex = NoOne
  /\ wpc = [w \in Worker |-> "unborn"]
  /\ wtask = [w \in Worker |-> NoTask]
  /\ spc = [s \in Submitter |-> "idle"]
  /\ stask = [s \in Submitter |-> NoTask]
  /\ opc = "idle"
  /\ call = "none"
  /\ toSpawn = 0
  /\ future = [t \in Task |-> "none"]
  /\ owed = {}

-----------------------------------------------------------------------------
(* The worker: while (pool_status <= 1) { lock; wait; take; unlock; run }   *)

Goto(w, here, there) ==
  /\ wpc[w] = here
  /\ wpc' = [wpc EXCEPT ![w] = there]

\* while (pool_status <= 1), read without the mutex.
Test(w) ==
  /\ Goto(w, "test", IF pool_status <= 1 THEN "lock" ELSE "exited")
  /\ UNCHANGED <<pool_status, m_TaskQueue, m_Mutex, wtask, svars, ovars, future>>

\* Taking m_Mutex, on entry or when wait() wakes up.  Either way the wait
\* predicate is evaluated next.
Lock(w) ==
  /\ \/ Goto(w, "lock", "pred_status")
     \/ Goto(w, "wake", "pred_status")
  /\ m_Mutex = NoOne
  /\ m_Mutex' = w
  /\ UNCHANGED <<pool_status, m_TaskQueue, wtask, svars, ovars, future>>

\* First half of the wait predicate: pool_status == 1.
PredStatus(w) ==
  /\ Goto(w, "pred_status", IF pool_status = 1 THEN "exit_status" ELSE "pred_empty")
  /\ UNCHANGED <<pool_status, m_TaskQueue, m_Mutex, wtask, svars, ovars, future>>

\* Second half: !m_TaskQueue.empty().
HasTasksMutant == Len(m_TaskQueue) > 1
HasTasks == m_TaskQueue # <<>>

PredEmpty(w) ==
  /\ Goto(w, "pred_empty", IF HasTasks THEN "exit_status" ELSE "block")
  /\ UNCHANGED <<pool_status, m_TaskQueue, m_Mutex, wtask, svars, ovars, future>>

\* wait() releases m_Mutex and joins the waiters in one step.  Nothing keeps a
\* submit() or a shutdown() from happening between the predicate and this step:
\* they do not take m_Mutex.
Block(w) ==
  /\ Goto(w, "block", "blocked")
  /\ m_Mutex' = NoOne
  /\ UNCHANGED <<pool_status, m_TaskQueue, wtask, svars, ovars, future>>

\* A condition variable may wake a waiter that nobody notified.
SpuriousWake(w) ==
  /\ Goto(w, "blocked", "wake")
  /\ UNCHANGED <<pool_status, m_TaskQueue, m_Mutex, wtask, svars, ovars, future>>

\* if (pool_status == 1 && m_TaskQueue.empty()) return;
ExitStatus(w) ==
  /\ Goto(w, "exit_status", IF pool_status = 1 THEN "exit_empty" ELSE "pop")
  /\ UNCHANGED <<pool_status, m_TaskQueue, m_Mutex, wtask, svars, ovars, future>>

MayReturnMutant == TRUE
NeverReturnMutant == FALSE
MayReturn == m_TaskQueue = <<>>

ExitEmpty(w) ==
  /\ Goto(w, "exit_empty", IF MayReturn THEN "exited" ELSE "pop")
  /\ m_Mutex' = IF MayReturn THEN NoOne ELSE m_Mutex
  /\ UNCHANGED <<pool_status, m_TaskQueue, wtask, svars, ovars, future>>

\* pop() moves the front out, or reports an empty queue and the loop continues;
\* either way the lock goes out of scope.
PoppedMutant == m_TaskQueue
PoppedTwiceMutant == SubSeq(m_TaskQueue, 3, Len(m_TaskQueue))
Popped == Tail(m_TaskQueue)

Pop(w) ==
  /\ \/ /\ m_TaskQueue # <<>>
        /\ Goto(w, "pop", "run")
        /\ wtask' = [wtask EXCEPT ![w] = Head(m_TaskQueue)]
        /\ m_TaskQueue' = Popped
     \/ /\ m_TaskQueue = <<>>
        /\ Goto(w, "pop", "test")
        /\ UNCHANGED <<wtask, m_TaskQueue>>
  /\ m_Mutex' = NoOne
  /\ UNCHANGED <<pool_status, svars, ovars, future>>

\* func(): the packaged_task runs and makes its future ready; func goes out of
\* scope with the loop's body.
Run(w) ==
  /\ Goto(w, "run", "test")
  /\ future' = [future EXCEPT ![wtask[w]] = "ready"]
  /\ wtask' = [wtask EXCEPT ![w] = NoTask]
  /\ UNCHANGED <<pool_status, m_TaskQueue, m_Mutex, svars, ovars>>

WorkerStep(w) ==
  \/ Test(w) \/ Lock(w) \/ PredStatus(w) \/ PredEmpty(w) \/ Block(w)
  \/ ExitStatus(w) \/ ExitEmpty(w) \/ Pop(w) \/ Run(w)

-----------------------------------------------------------------------------
(* submit(): test the status, push, notify_one, three steps without a lock  *)

\* The pool object must outlive the calls made on it, so no submit() starts
\* once the owner has called the destructor.
SubmitCheck(s, t) ==
  /\ spc[s] = "idle"
  /\ call \notin {"destroy", "final"}
  /\ future[t] = "none"
  /\ IF pool_status # 0
     THEN /\ future' = [future EXCEPT ![t] = "empty"]
          /\ UNCHANGED svars
     ELSE /\ future' = [future EXCEPT ![t] = "pending"]
          /\ spc' = [spc EXCEPT ![s] = "push"]
          /\ stask' = [stask EXCEPT ![s] = t]
  /\ UNCHANGED <<pool_status, m_TaskQueue, wvars, ovars>>

SubmitPush(s) ==
  /\ spc[s] = "push"
  /\ spc' = [spc EXCEPT ![s] = "notify"]
  /\ m_TaskQueue' = Append(m_TaskQueue, stask[s])
  /\ stask' = [stask EXCEPT ![s] = NoTask]
  /\ UNCHANGED <<pool_status, wvars, ovars, future>>

Waiters == {w \in Worker : wpc[w] = "blocked"}

\* notify_one() wakes some waiter if there is one, and is lost otherwise.
SubmitNotify(s) ==
  /\ spc[s] = "notify"
  /\ spc' = [spc EXCEPT ![s] = "idle"]
  /\ \/ \E w \in Waiters : wpc' = [wpc EXCEPT ![w] = "wake"]
     \/ Waiters = {} /\ UNCHANGED wpc
  /\ UNCHANGED <<pool_status, m_TaskQueue, m_Mutex, wtask, stask, ovars, future>>

SubmitterStep(s) == SubmitPush(s) \/ SubmitNotify(s)

-----------------------------------------------------------------------------
(* The owner                                                               *)

\* init() may be called again, on a working pool or after a shutdown; the
\* guard bounds the number of calls by the thread identities that are left.
CallInit ==
  /\ opc = "idle"
  /\ Cardinality({w \in Worker : wpc[w] = "unborn"}) >= CoreSize
  /\ pool_status' = 0
  /\ toSpawn' = CoreSize
  /\ opc' = "spawn"
  /\ call' = "init"
  /\ UNCHANGED <<m_TaskQueue, wvars, svars, m_Workers, future, owed>>

\* m_Workers.push_back(std::thread(thread_worker(this, i)))
Spawn(w) ==
  /\ opc = "spawn"
  /\ toSpawn > 0
  /\ Goto(w, "unborn", "test")
  /\ m_Workers' = m_Workers \cup {w}
  /\ toSpawn' = toSpawn - 1
  /\ UNCHANGED <<pool_status, m_TaskQueue, m_Mutex, wtask, svars, opc, call, future, owed>>

InitReturn ==
  /\ opc = "spawn"
  /\ toSpawn = 0
  /\ opc' = "idle"
  /\ call' = "none"
  /\ UNCHANGED <<pool_status, m_TaskQueue, wvars, svars, m_Workers, toSpawn, future, owed>>

\* shutdown() writes the status without taking m_Mutex.
CallShutdown ==
  /\ opc = "idle"
  /\ pool_status' = 1
  /\ opc' = "notify"
  /\ call' = "shutdown"
  /\ owed' = IF m_Workers = {} THEN {} ELSE Enqueued \cup Running
  /\ UNCHANGED <<m_TaskQueue, wvars, svars, m_Workers, toSpawn, future>>

NotifyAll ==
  /\ opc = "notify"
  /\ wpc' = [w \in Worker |-> IF wpc[w] = "blocked" THEN "wake" ELSE wpc[w]]
  /\ opc' = "join"
  /\ UNCHANGED <<pool_status, m_TaskQueue, m_Mutex, wtask, svars, m_Workers,
                 call, toSpawn, future, owed>>

\* stop() wakes nobody up.
CallStop ==
  /\ opc = "idle"
  /\ pool_status' = 2
  /\ opc' = "join"
  /\ call' = "stop"
  /\ UNCHANGED <<m_TaskQueue, wvars, svars, m_Workers, toSpawn, future, owed>>

\* ~thread_pool() is stop() and one more tidy().
CallDestroy ==
  /\ opc = "idle"
  /\ \A s \in Submitter : spc[s] = "idle"
  /\ pool_status' = 2
  /\ opc' = "join"
  /\ call' = "destroy"
  /\ UNCHANGED <<m_TaskQueue, wvars, svars, m_Workers, toSpawn, future, owed>>

\* The loop over worker.join() lets the owner go on when every thread of the
\* vector has ended.
AllEndedMutant == \A w \in m_Workers : wpc[w] \in {"exited", "run"}
AllEnded == \A w \in m_Workers : wpc[w] = "exited"

JoinAll ==
  /\ opc = "join"
  /\ AllEnded
  /\ opc' = "tidy"
  /\ UNCHANGED <<pool_status, m_TaskQueue, wvars, svars, m_Workers, call, toSpawn, future, owed>>

TidyStatusMutant == 4
TidyStatus == 3

Tidy ==
  /\ opc = "tidy"
  /\ pool_status' = TidyStatus
  /\ m_Workers' = {}
  /\ opc' = "clear"
  /\ UNCHANGED <<m_TaskQueue, wvars, svars, call, toSpawn, future, owed>>

\* m_TaskQueue.clear() destroys the packaged tasks that never ran.  A submit()
\* that has pushed and not returned keeps its task alive until it returns, but
\* its caller sees the future only then.
ClearQueue ==
  /\ opc = "clear"
  /\ m_TaskQueue' = <<>>
  /\ future' = [t \in Task |-> IF t \in Enqueued THEN "broken" ELSE future[t]]
  /\ opc' = CASE call = "destroy" -> "tidy" [] call = "final" -> "gone" [] OTHER -> "idle"
  /\ call' = IF call \in {"destroy", "final"} THEN "final" ELSE "none"
  /\ owed' = {}
  /\ UNCHANGED <<pool_status, wvars, svars, m_Workers, toSpawn>>

OwnerStep ==
  \/ \E w \in Worker : Spawn(w)
  \/ InitReturn \/ NotifyAll \/ JoinAll \/ Tidy \/ ClearQueue

OwnerCall == CallInit \/ CallShutdown \/ CallStop \/ CallDestroy

-----------------------------------------------------------------------------
Next ==
  \/ \E w \in Worker : WorkerStep(w) \/ SpuriousWake(w)
  \/ \E s \in Submitter : SubmitterStep(s) \/ \E t \in Task : SubmitCheck(s, t)
  \/ OwnerStep
  \/ OwnerCall

Spec == Init /\ [][Next]_vars

\* The scheduler runs every thread that can move.  Nobody has to call, and no
\* waiter has to wake up without being notified.
Fairness ==
  /\ \A w \in Worker : WF_vars(WorkerStep(w))
  /\ \A s \in Submitter : WF_vars(SubmitterStep(s))
  /\ WF_vars(OwnerStep)

FairSpec == Spec /\ Fairness

-----------------------------------------------------------------------------
(* Properties                                                              *)

TypeOK ==
  /\ pool_status \in 0..3
  /\ m_TaskQueue \in Seq(Task)
  /\ m_Workers \subseteq Worker
  /\ m_Mutex \in Worker \cup {NoOne}
  /\ wpc \in [Worker -> {"unborn", "test", "lock", "pred_status", "pred_empty", "block",
                        "blocked", "wake", "exit_status", "exit_empty", "pop", "run",
                        "exited"}]
  /\ wtask \in [Worker -> Task \cup {NoTask}]
  /\ \A w \in Worker : wtask[w] \in Task <=> wpc[w] = "run"
  /\ spc \in [Submitter -> {"idle", "push", "notify"}]
  /\ stask \in [Submitter -> Task \cup {NoTask}]
  /\ \A s \in Submitter : stask[s] \in Task <=> spc[s] = "push"
  /\ opc \in {"idle", "spawn", "notify", "join", "tidy", "clear", "gone"}
  /\ call \in {"none", "init", "shutdown", "stop", "destroy", "final"}
  /\ toSpawn \in Nat
  /\ future \in [Task -> {"none", "empty", "pending", "ready", "broken"}]
  /\ owed \subseteq Task

\* No task is lost or duplicated: a task whose caller is still waiting is in one
\* place, in the hands of one submitter, once in the queue, or in the hands of
\* one worker, and a task that is anywhere has a caller still waiting.  (The
\* hand-over from submit() through safe_queue to operator()().)
Places(t) ==
  {<<"queue", i>> : i \in {j \in 1..Len(m_TaskQueue) : m_TaskQueue[j] = t}}
    \cup {<<"worker", w>> : w \in {v \in Worker : wtask[v] = t}}
    \cup {<<"submitter", s>> : s \in {v \in Submitter : stask[v] = t}}

Conservation ==
  \A t \in Task : Cardinality(Places(t)) = IF future[t] = "pending" THEN 1 ELSE 0

\* shutdown() is orderly: when it has joined the workers, every task that was
\* enqueued or running when it was called on a pool with workers has run, so the
\* clear() in tidy() breaks no promise made before the call.  What was pushed
\* later, by a submit() that had already tested the status, has no such claim.
ShutdownDrains ==
  call = "shutdown" /\ opc \in {"tidy", "clear"} => \A t \in owed : future[t] = "ready"

\* A closed pool is quiet: no worker thread is left that could touch the pool
\* while it is tidied, re-initialised or destroyed, and none holds a task.
QuietWhenClosed ==
  pool_status = 3 => \A w \in Worker : wpc[w] \in {"unborn", "exited"}

\* The pool implements the task service.  Until the push, submit() has done
\* nothing that anybody else could see.
PublicFuture ==
  [t \in Task |-> IF \E s \in Submitter : stask[s] = t THEN "none" ELSE future[t]]

Phase == CASE pool_status = 0 -> "open"
           [] pool_status = 1 -> "draining"
           [] pool_status = 2 -> "stopping"
           [] pool_status = 3 -> "closed"

Service == INSTANCE TaskService
  WITH future <- PublicFuture, phase <- Phase, staffed <- m_Workers # {}

\* Every step of every thread is a step of the service or invisible to callers:
\* tasks run at most once and never in a closed pool, an empty future is handed
\* out only by a pool that is not open, and a drain ends when nothing is owed.
ImplementsService == Service!Spec

\* shutdown() always gets rid of a worker that is awake when it notifies, unless
\* the worker is between the empty queue it saw and the wait that it starts.
\* (A worker inside that window misses notify_all(), which takes no mutex, and
\* blocks for good with the owner in join().)
OutsideWindow(w) == wpc[w] \notin {"unborn", "pred_empty", "block", "blocked"}

\* stop() and the destructor notify nobody: of theirs, every worker ends that is on
\* its way back to the test of the status, and has no wait before it.
PastWait(w) == wpc[w] \in {"exit_status", "exit_empty", "pop", "run", "test"}

AwakeWorkersEnd ==
  \A w \in Worker :
    (opc = "join" /\ IF call = "shutdown" THEN OutsideWindow(w) ELSE PastWait(w)) ~> wpc[w] = "exited"

\* While some worker is awake outside that window, an open pool does not leave
\* its queue standing, whatever notify_one() calls were lost.
AwakeWorkerDrains ==
  (pool_status = 0 /\ m_TaskQueue # <<>> /\ \E w \in Worker : wpc[w] # "exited" /\ OutsideWindow(w))
    ~> (pool_status # 0 \/ m_TaskQueue = <<>>)
=============================================================================
