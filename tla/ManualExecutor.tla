--------------------------- MODULE ManualExecutor ---------------------------
(***************************************************************************)
(* manual_executor: a queue of tasks that the application's own threads    *)
(* execute by calling loop, and wait for by calling wait_for_tasks, each   *)
(* with or without a time limit.  All wait on one condition variable.      *)
(*                                                                         *)
(* A critical section of m_lock is one step; the time a limit leaves is    *)
(* left open.  The calls with a count of 0 change nothing and are left     *)
(* out.  Tasks are numbered in the order of their creation.                *)
(***************************************************************************)
EXTENDS Naturals, Sequences

CONSTANTS Clients,    \* threads that call the executor
          MaxTasks,   \* bound on the tasks ever enqueued
          MaxCount    \* bound on max_count and count

Tasks == 1 .. MaxTasks
NoTask == 0

VARIABLES
  m_tasks, m_abort, m_atomic_abort,
  pc,               \* next statement of each client
  call,             \* what it has called, with what is left of max_count
  running,          \* the task it executes
  shut,             \* shutdown() has returned
  created, executed, destroyed    \* history

aborts == <<m_abort, m_atomic_abort, shut>>
history == <<created, executed, destroyed>>
vars == <<m_tasks, aborts, pc, call, running, history>>

NoCall == [op |-> "none", count |-> 0, timed |-> FALSE]
Calls == [op : {"loop", "wait"}, count : 0 .. MaxCount, timed : BOOLEAN] \cup {NoCall}

Init ==
  /\ m_tasks = <<>>
  /\ m_abort = FALSE
  /\ m_atomic_abort = FALSE
  /\ pc = [c \in Clients |-> "idle"]
  /\ call = [c \in Clients |-> NoCall]
  /\ running = [c \in Clients |-> NoTask]
  /\ shut = FALSE
  /\ created = 0
  /\ executed = {}
  /\ destroyed = {}

Queued == {m_tasks[i] : i \in DOMAIN m_tasks}

Goto(c, from, to) == pc[c] = from /\ pc' = [pc EXCEPT ![c] = to]

WakeAll(c, to) ==
  pc' = [d \in Clients |-> IF d = c THEN to ELSE IF pc[d] = "waiting" THEN "woken" ELSE pc[d]]

-----------------------------------------------------------------------------
(* enqueue, of one task or of a span; a refused task dies.                 *)
Enqueue(c) ==
  /\ pc[c] \in {"idle", "run"}
  /\ \E n \in 1 .. MaxTasks - created :
       /\ created' = created + n
       /\ IF m_abort
          THEN destroyed' = destroyed \cup (created + 1 .. created + n) /\ UNCHANGED <<m_tasks, pc>>
          ELSE /\ m_tasks' = m_tasks \o [k \in 1 .. n |-> created + k]
               /\ pc' = [pc EXCEPT ![c] = IF @ = "idle" THEN "notify" ELSE "run_notify"]
               /\ UNCHANGED destroyed
  /\ UNCHANGED <<aborts, call, running, executed>>

Notify(c) ==
  /\ pc[c] \in {"notify", "run_notify"}
  /\ WakeAll(c, IF pc[c] = "notify" THEN "idle" ELSE "run")
  /\ UNCHANGED <<m_tasks, aborts, call, running, history>>

-----------------------------------------------------------------------------
(* loop, loop_once, wait_for_tasks, wait_for_task and their variants with  *)
(* _for and _until; a time limit of 0 makes loop_for a loop.               *)
Call(c) ==
  /\ Goto(c, "idle", "test")
  /\ \E op \in {"loop", "wait"}, n \in 1 .. MaxCount, timed \in BOOLEAN :
       call' = [call EXCEPT ![c] = [op |-> op, count |-> n, timed |-> timed]]
  /\ UNCHANGED <<m_tasks, aborts, running, history>>

(* The call returns or, if the executor is shut down, throws.              *)
Return(c) ==
  /\ pc' = [pc EXCEPT ![c] = "idle"]
  /\ call' = [call EXCEPT ![c] = NoCall]
  /\ UNCHANGED <<m_tasks, running>>

PopTask(c) ==
  /\ pc' = [pc EXCEPT ![c] = "run"]
  /\ running' = [running EXCEPT ![c] = Head(m_tasks)]
  /\ m_tasks' = Tail(m_tasks)
  /\ UNCHANGED call

Suspend(c) ==
  /\ pc' = [pc EXCEPT ![c] = "waiting"]
  /\ UNCHANGED <<m_tasks, call, running>>

(* What the call waits for, apart from m_abort.                            *)
Enough(c) == Len(m_tasks) >= IF call[c].op = "loop" THEN 1 ELSE call[c].count

TimedOut(c) == pc[c] = "timed_out"

(* One turn of loop_impl or loop_until_impl up to the task.                *)
LoopStep(c) ==
  /\ pc[c] \in {"test", "woken", "timed_out"}
  /\ call[c].op = "loop"
  /\ \/ (call[c].count = 0 \/ m_abort) /\ Return(c)
     \/ pc[c] = "test" /\ call[c].timed /\ Return(c)       \* now >= deadline
     \/ call[c].count > 0 /\ ~m_abort /\
          \/ Enough(c) /\ PopTask(c)
          \/ ~Enough(c) /\ (~call[c].timed \/ TimedOut(c)) /\ Return(c)
          \/ ~Enough(c) /\ call[c].timed /\ ~TimedOut(c) /\ Suspend(c)
  /\ UNCHANGED <<aborts, history>>

FinishTask(c) ==
  /\ Goto(c, "run", "test")
  /\ call' = [call EXCEPT ![c].count = @ - 1]
  /\ executed' = executed \cup {running[c]}
  /\ running' = [running EXCEPT ![c] = NoTask]
  /\ UNCHANGED <<m_tasks, aborts, created, destroyed>>

(* wait_for_tasks_impl                                                     *)
WaitStep(c) ==
  /\ pc[c] \in {"test", "woken", "timed_out"}
  /\ call[c].op = "wait"
  /\ IF m_abort \/ Enough(c) \/ TimedOut(c) THEN Return(c) ELSE Suspend(c)
  /\ UNCHANGED <<aborts, history>>

Timeout(c) ==
  /\ call[c].timed
  /\ Goto(c, "waiting", "timed_out")
  /\ UNCHANGED <<m_tasks, aborts, call, running, history>>

(* clear                                                                   *)
Clear(c) ==
  /\ pc[c] = "idle"
  /\ ~m_abort
  /\ m_tasks # <<>>
  /\ destroyed' = destroyed \cup Queued
  /\ m_tasks' = <<>>
  /\ UNCHANGED <<aborts, pc, call, running, created, executed>>

-----------------------------------------------------------------------------
(* shutdown; a second call returns at once.                                *)
Shutdown(c) ==
  /\ ~m_atomic_abort
  /\ Goto(c, "idle", "store_abort")
  /\ m_atomic_abort' = TRUE
  /\ UNCHANGED <<m_tasks, m_abort, shut, call, running, history>>

(* Mutant of StoreAbort: the tasks are left to the destructor.             *)
StoreAbort_KeepsTasks(c) ==
  /\ Goto(c, "store_abort", "notify_abort")
  /\ m_abort' = TRUE
  /\ UNCHANGED <<m_tasks, m_atomic_abort, shut, call, running, history>>

(* The tasks are out of reach now, and destroyed before shutdown returns.  *)
StoreAbort(c) ==
  /\ Goto(c, "store_abort", "notify_abort")
  /\ m_abort' = TRUE
  /\ destroyed' = destroyed \cup Queued
  /\ m_tasks' = <<>>
  /\ UNCHANGED <<m_atomic_abort, shut, call, running, created, executed>>

NotifyAbort(c) ==
  /\ pc[c] = "notify_abort"
  /\ WakeAll(c, "idle")
  /\ shut' = TRUE
  /\ UNCHANGED <<m_tasks, m_abort, m_atomic_abort, call, running, history>>

-----------------------------------------------------------------------------
Steps(c) == Notify(c) \/ LoopStep(c) \/ FinishTask(c) \/ WaitStep(c) \/ Timeout(c)
            \/ StoreAbort(c) \/ NotifyAbort(c)

Next == \E c \in Clients : Enqueue(c) \/ Call(c) \/ Clear(c) \/ Shutdown(c) \/ Steps(c)

Spec == Init /\ [][Next]_vars
-----------------------------------------------------------------------------
(* Every variable has a value the code can give it.                        *)
TypeOK ==
  /\ m_tasks \in Seq(Tasks)
  /\ {m_abort, m_atomic_abort, shut} \subseteq BOOLEAN
  /\ pc \in [Clients -> {"idle", "notify", "test", "run", "run_notify", "waiting", "woken",
                         "timed_out", "store_abort", "notify_abort"}]
  /\ call \in [Clients -> Calls]
  /\ running \in [Clients -> Tasks \cup {NoTask}]
  /\ created \in 0 .. MaxTasks
  /\ executed \cup destroyed \subseteq Tasks

(* A thread in a call that has what it waits for, or whose executor has    *)
(* been shut down, does not go on waiting: whoever changed the queue wakes *)
(* all threads, whatever number of tasks each waits for.                   *)
WaiterWoken(c) ==
  (pc[c] = "waiting" /\ (m_abort \/ Enough(c))) ~> (pc[c] # "waiting" \/ ~(m_abort \/ Enough(c)))

(* What Executor calls the status of a task.                               *)
status == [t \in Tasks |->
  IF t \in executed THEN "executed"
  ELSE IF t \in destroyed THEN "destroyed"
  ELSE IF t \in Queued THEN "queued"
  ELSE IF \E c \in Clients : running[c] = t THEN "running"
  ELSE "new"]

E == INSTANCE Executor
=============================================================================
