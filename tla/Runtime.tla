------------------------------ MODULE Runtime ------------------------------
(***************************************************************************)
(* runtime: it owns the timer queue and the executors it has made, and its *)
(* destructor shuts them down, the timer queue first and the executors in  *)
(* the order of their registration, while their tasks are still running.   *)
(*                                                                         *)
(* The runtime is composed with the thread executor, which its constructor *)
(* registers, and with a manual executor made later.  The tasks of the     *)
(* thread executor, and the thread that owns the runtime, enqueue to both, *)
(* and call loop, wait_for_tasks, clear and shutdown of the manual one.    *)
(* The tasks of the manual executor enqueue.  A timer posts to the thread  *)
(* executor.  The inline executor and the thread pools, registered before, *)
(* touch neither.                                                          *)
(***************************************************************************)
EXTENDS Naturals, Sequences

CONSTANTS MaxThreads, MaxTasks, MaxCount,   \* see the executors
          Loopers,                          \* threads that execute the manual executor's tasks
          MaxCalls                          \* bound on the loop and wait calls of a thread

ASSUME RuntimeAssumption ==
  /\ MaxThreads \in Nat /\ MaxTasks \in Nat /\ MaxCalls \in Nat
  /\ MaxCount \in Nat \ {0}

Main == 0             \* the thread that owns the runtime
Nobody == MaxThreads + 1
Callers == 0 .. MaxThreads

VARIABLES
  (* the thread executor *)
  m_workers, m_last_retired, t_abort, t_atomic_abort, locked, tpc, last_retired, cpc, threads, before,
  (* the manual executor *)
  m_tasks, m_abort, m_atomic_abort, pc, call, running, shut, created, executed, destroyed,
  (* the runtime *)
  m_executors,    \* registered executors
  maker,          \* thread in make_manual_executor, before it has m_lock
  dpc, k,         \* next statement of the destructor, and of shutdown_all's loop
  terminated,     \* an exception has left the timer queue's thread
  calls           \* calls made so far

T == INSTANCE ThreadExecutor
       WITH m_abort <- t_abort, m_atomic_abort <- t_atomic_abort, created <- threads
M == INSTANCE ManualExecutor WITH Clients <- Callers

thread_executor == <<m_workers, m_last_retired, t_abort, t_atomic_abort, locked, tpc, last_retired,
                     cpc, threads, before>>
manual_executor == <<m_tasks, m_abort, m_atomic_abort, shut, pc, call, running, created, executed,
                     destroyed>>
runtime == <<m_executors, maker, dpc, k, terminated>>
vars == <<thread_executor, manual_executor, runtime, calls>>

Init ==
  /\ T!Init
  /\ M!Init
  /\ m_executors = <<"thread">>
  /\ maker = Nobody
  /\ dpc = "alive"
  /\ k = 1
  /\ terminated = FALSE
  /\ calls = [c \in Callers |-> 0]

Registered == \E j \in DOMAIN m_executors : m_executors[j] = "manual"

(* The thread runs code of the application.                                *)
Active(c) == /\ IF c = Main THEN dpc = "alive" ELSE tpc[c] = "task"
             /\ maker # c

-----------------------------------------------------------------------------
(* What threads and tasks do with the executors.                           *)

EnqueueThread(c) ==
  /\ Active(c)
  /\ pc[c] \in {"idle", "run"}
  /\ T!Enqueue
  /\ UNCHANGED <<manual_executor, runtime, calls>>

EnqueueManual(c) ==
  /\ Active(c)
  /\ Registered
  /\ M!Enqueue(c)
  /\ UNCHANGED <<thread_executor, runtime, calls>>

CallManual(c) ==
  /\ c \in Loopers
  /\ Active(c)
  /\ Registered
  /\ calls[c] < MaxCalls
  /\ M!Call(c)
  /\ calls' = [calls EXCEPT ![c] = @ + 1]
  /\ UNCHANGED <<thread_executor, runtime>>

ClearOrShutManual(c) ==
  /\ c \in Loopers
  /\ Active(c)
  /\ Registered
  /\ M!Clear(c) \/ M!Shutdown(c)
  /\ UNCHANGED <<thread_executor, runtime, calls>>

ManualSteps(c) == M!Steps(c) /\ UNCHANGED <<thread_executor, runtime, calls>>

ThreadSteps(t) == T!ThreadSteps(t) /\ UNCHANGED <<manual_executor, runtime, calls>>

FinishThreadTask(t) ==
  /\ Active(t)
  /\ pc[t] = "idle"
  /\ T!FinishTask(t)
  /\ UNCHANGED <<manual_executor, runtime, calls>>

(* make_manual_executor, and register_executor's critical section, which   *)
(* waits for the lock that shutdown_all holds.                             *)
MakeManualExecutor(c) ==
  /\ Active(c)
  /\ pc[c] = "idle"
  /\ ~Registered /\ maker = Nobody
  /\ maker' = c
  /\ UNCHANGED <<thread_executor, manual_executor, m_executors, dpc, k, terminated, calls>>

RegisterExecutor ==
  /\ maker # Nobody
  /\ dpc # "shutdown_all"
  /\ m_executors' = Append(m_executors, "manual")
  /\ maker' = Nobody
  /\ UNCHANGED <<thread_executor, manual_executor, dpc, k, terminated, calls>>

(* A timer of the thread executor fires.  Unlike a task's, its exception   *)
(* has nobody to catch it.                                                 *)
FireTimer ==
  /\ dpc \in {"alive", "timers"}
  /\ terminated' = t_abort
  /\ IF t_abort THEN UNCHANGED thread_executor ELSE T!Enqueue
  /\ UNCHANGED <<manual_executor, m_executors, maker, dpc, k, calls>>

-----------------------------------------------------------------------------
(* The destructor.                                                         *)

DestroyRuntime ==
  /\ Active(Main)
  /\ pc[Main] = "idle"
  /\ dpc' = "timers"
  /\ UNCHANGED <<thread_executor, manual_executor, m_executors, maker, k, terminated, calls>>

ShutDownTimerQueue ==
  /\ dpc = "timers"
  /\ dpc' = "shutdown_all"
  /\ UNCHANGED <<thread_executor, manual_executor, m_executors, maker, k, terminated, calls>>

(* shutdown_all: the call of an executor's shutdown()                      *)
ShutDownExecutor ==
  /\ dpc = "shutdown_all"
  /\ k <= Len(m_executors)
  /\ \/ m_executors[k] = "thread" /\ T!Shutdown /\ UNCHANGED manual_executor
     \/ m_executors[k] = "manual" /\ M!Shutdown(Main) /\ UNCHANGED thread_executor
  /\ UNCHANGED <<runtime, calls>>

ShutdownSteps == T!ShutdownSteps /\ UNCHANGED <<manual_executor, runtime, calls>>

(* Mutant of Returned: shutdown() is called, and its return not awaited.   *)
Returned_Called == IF m_executors[k] = "thread" THEN t_atomic_abort ELSE m_atomic_abort

Returned == IF m_executors[k] = "thread" THEN cpc = "shut" ELSE m_atomic_abort /\ pc[Main] = "idle"

(* ... and its return                                                      *)
NextExecutor ==
  /\ dpc = "shutdown_all"
  /\ \/ /\ k <= Len(m_executors)
        /\ Returned
        /\ k' = k + 1
        /\ UNCHANGED <<m_executors, dpc>>
     \/ /\ k > Len(m_executors)
        /\ m_executors' = <<>>
        /\ k' = 1
        /\ dpc' = "destroyed"
  /\ UNCHANGED <<thread_executor, manual_executor, maker, terminated, calls>>

Destructor == ShutDownTimerQueue \/ ShutDownExecutor \/ ShutdownSteps \/ NextExecutor

-----------------------------------------------------------------------------
CallerNext(c) == EnqueueThread(c) \/ EnqueueManual(c) \/ CallManual(c) \/ ClearOrShutManual(c)
                 \/ ManualSteps(c) \/ MakeManualExecutor(c)

ThreadNext(t) == ThreadSteps(t) \/ FinishThreadTask(t)

Next == /\ ~terminated
        /\ \/ \E c \in Callers : CallerNext(c)
           \/ \E t \in T!Threads : ThreadNext(t)
           \/ RegisterExecutor \/ FireTimer \/ DestroyRuntime \/ Destructor

Spec == Init /\ [][Next]_vars

(* Threads are scheduled, tasks return unless a call of theirs does not.   *)
FairSpec ==
  /\ Spec
  /\ \A c \in Callers : WF_vars(~terminated /\ ManualSteps(c))
  /\ \A t \in T!Threads : WF_vars(~terminated /\ ThreadNext(t))
  /\ WF_vars(~terminated /\ Destructor)
  /\ WF_vars(~terminated /\ RegisterExecutor)
-----------------------------------------------------------------------------
(* Every variable has a value the code can give it; an executor is         *)
(* registered once, and none is when shutdown_all has emptied the list.    *)
TypeOK ==
  /\ T!TypeOK
  /\ M!TypeOK
  /\ m_executors \in {<<"thread">>, <<"thread", "manual">>, <<>>}
  /\ maker \in Callers \cup {Nobody}
  /\ dpc \in {"alive", "timers", "shutdown_all", "destroyed"}
  /\ k \in 1 .. 3
  /\ calls \in [Callers -> 0 .. MaxCalls]

(* Both executors do what every executor promises, whatever their tasks do *)
(* to the other one while the runtime is destroyed.                        *)
ImplementsExecutor == T!E!Spec /\ M!E!Spec

(* Of all the threads the thread executor has started none is left when    *)
(* its shutdown() returns, although it joins only one of them.             *)
ThreadsJoined == T!ThreadsJoined

(* When the runtime's destructor returns, nothing of it is left at work:   *)
(* every thread of the thread executor has ended, nobody is in a call of   *)
(* the manual executor or still registering it, and if that executor was   *)
(* ever given a task, even by a task that registered it while the runtime  *)
(* was being destroyed, it has been shut down and holds no task.           *)
QuiescentWhenDestroyed ==
  dpc = "destroyed" => /\ maker = Nobody
                       /\ \A t \in T!Threads : tpc[t] \in {"new", "destroyed", "ended"}
                       /\ \A c \in Callers : pc[c] = "idle"
                       /\ created > 0 => shut
                       /\ m_tasks = <<>>

(* A task of the thread executor, which is shut down first, waits for what *)
(* happens only when the executors after it have been shut down.           *)
Blocked(t) == tpc[t] = "task" /\ \/ pc[t] = "waiting" /\ ~call[t].timed
                                 \/ maker = t /\ dpc = "shutdown_all"

(* Waits of the manual executor end when they should, and the runtime's    *)
(* destructor returns, unless a task of the thread executor is blocked in  *)
(* wait_for_tasks or make_manual_executor for good.                        *)
CallsReturn ==
  /\ \A c \in Loopers : M!WaiterWoken(c)
  /\ \/ dpc = "timers" ~> dpc = "destroyed"
     \/ <>[](\E t \in T!Threads : Blocked(t))
=============================================================================
