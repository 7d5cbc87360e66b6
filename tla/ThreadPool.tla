----------------------------- MODULE ThreadPool -----------------------------
(***************************************************************************)
(* thread_pool_executor, its workers and its idle_worker_set.  Any thread  *)
(* enqueues; a worker's thread drains the worker's two queues, donates     *)
(* part of its work to workers flagged idle, waits on its semaphore, and   *)
(* exits when nothing comes for m_max_idle_time; one client shuts down.    *)
(*                                                                         *)
(* A critical section of a worker's m_lock is one step, an access to an    *)
(* atomic or to the semaphore outside it is another.  A task is a number;  *)
(* while it runs it may enqueue others.                                    *)
(***************************************************************************)
EXTENDS Integers, Sequences, FiniteSets, SequencesExt

CONSTANTS N,         \* m_workers.size()
          Enqueuers, \* threads outside the pool that enqueue tasks
          Closers,   \* threads outside the pool that shut it down
          MaxTasks   \* bound on the tasks ever created

ASSUME PoolAssumption ==
  /\ N \in Nat \ {0}
  /\ MaxTasks \in Nat
  /\ (Enqueuers \cup Closers) \cap (0 .. N - 1) = {}

Workers == 0 .. N - 1
Clients == Enqueuers \cup Closers
Threads == Workers \cup Clients
Tasks == 1 .. MaxTasks
NoTask == 0

VARIABLES
  m_private_queue, m_public_queue, m_semaphore, m_idle, m_abort,
  m_atomic_abort, m_task_found_or_abort,     \* of each worker
  idle_flags, m_approx_size,                 \* of the idle_worker_set
  m_round_robin_cursor, pool_abort,          \* of the executor
  pc,                                        \* next statement of each thread
  running,                                   \* task a worker executes
  todo,                                      \* tasks still to be passed to enqueue
  scan, want, targets, batches,              \* search for idle workers, what they get
  sd,                                        \* worker shutdown() is at
  created, ran, destroyed,                   \* tasks created, executed, never executed
  terminated                                 \* an exception left a thread's function

queues == <<m_private_queue, m_public_queue>>
aborts == <<m_abort, m_atomic_abort, pool_abort, sd>>
wakeup == <<m_semaphore, m_task_found_or_abort>>
idlers == <<idle_flags, m_approx_size>>
frame == <<todo, scan, want, targets, batches>>
history == <<created, ran, destroyed>>
vars == <<queues, m_idle, aborts, wakeup, idlers, m_round_robin_cursor, pc, running,
          frame, history, terminated>>

Init ==
  /\ m_private_queue = [w \in Workers |-> <<>>]
  /\ m_public_queue = [w \in Workers |-> <<>>]
  /\ m_semaphore = [w \in Workers |-> 0]
  /\ m_idle = [w \in Workers |-> TRUE]
  /\ m_abort = [w \in Workers |-> FALSE]
  /\ m_atomic_abort = [w \in Workers |-> FALSE]
  /\ m_task_found_or_abort = [w \in Workers |-> FALSE]
  /\ idle_flags = [w \in Workers |-> TRUE]
  /\ m_approx_size = N
  /\ m_round_robin_cursor = 0
  /\ pool_abort = FALSE
  /\ pc = [t \in Threads |-> IF t \in Workers THEN "none" ELSE "idle"]
  /\ running = [w \in Workers |-> NoTask]
  /\ todo = [t \in Threads |-> <<>>]
  /\ scan = [t \in Threads |-> <<>>]
  /\ want = [t \in Threads |-> 0]
  /\ targets = [t \in Threads |-> <<>>]
  /\ batches = [t \in Threads |-> <<>>]
  /\ sd = 0
  /\ created = 0
  /\ ran = {}
  /\ destroyed = {}
  /\ terminated = FALSE

-----------------------------------------------------------------------------
Least(a, b) == IF a < b THEN a ELSE b

(* Share number k of n tasks between "total" workers: n \div total tasks,  *)
(* and one of the tasks that are left over while there are any.            *)
ShareEnd(k, n, total) == k * (n \div total) + Least(k, n % total)

Share(tasks, k, total) ==
  SubSeq(tasks, ShareEnd(k - 1, Len(tasks), total) + 1, ShareEnd(k, Len(tasks), total))

Goto(t, to) == pc' = [pc EXCEPT ![t] = to]

(* A thread inside balance_work, not inside a task it runs.                *)
Balancing(t) == t \in Workers /\ running[t] = NoTask

(* Where a thread goes on when it has nothing left to hand over.           *)
Return(t) == IF t \in Clients THEN "idle"
             ELSE IF Balancing(t) THEN "check_abort" ELSE "run"

(* Worker w holds its m_lock between two of its own steps only while it    *)
(* marks itself active.                                                    *)
Unlocked(w) == pc[w] # "set_active"

(* Mutant of ReleaseSemaphore: a notification, lost when nobody waits.     *)
ReleaseSemaphore_NotSticky(w) ==
  m_semaphore' = IF pc[w] = "try_acquire" THEN [m_semaphore EXCEPT ![w] = 1] ELSE m_semaphore

(* The semaphore is binary, and released more than once: the count goes up *)
(* in one standard library and stays 1 in another.                         *)
ReleaseSemaphore(w) ==
  \E count \in {1, m_semaphore[w] + 1} : m_semaphore' = [m_semaphore EXCEPT ![w] = count]

-----------------------------------------------------------------------------
(* enqueue, from a client or from a task that a worker runs.               *)

New(n) == [k \in 1 .. n |-> created + k]

EnqueueTask(t) ==
  /\ pc[t] \in {"idle", "run"}
  /\ created < MaxTasks
  /\ created' = created + 1
  /\ todo' = [todo EXCEPT ![t] = New(1)]
  /\ Goto(t, "enqueue")
  /\ UNCHANGED <<queues, m_idle, aborts, wakeup, idlers, m_round_robin_cursor, running,
                 scan, want, targets, batches, ran, destroyed, terminated>>

(* Mutant of EnqueueSpan: a span is always divided between all workers.    *)
EnqueueSpan_NoSizeTest(c) ==
  /\ pc[c] = "idle"
  /\ \E n \in 1 .. MaxTasks - created :
       /\ created' = created + n
       /\ targets' = [targets EXCEPT ![c] = [k \in 1 .. N |-> k - 1]]
       /\ batches' = [batches EXCEPT ![c] = [k \in 1 .. N |-> Share(New(n), k, N)]]
  /\ Goto(c, "hand_over")
  /\ UNCHANGED <<queues, m_idle, aborts, wakeup, idlers, m_round_robin_cursor, running,
                 todo, scan, want, ran, destroyed, terminated>>

(* enqueue(span) by a thread that is no worker: one by one, or a share for *)
(* every worker when there are enough.                                     *)
EnqueueSpan(c) ==
  /\ pc[c] = "idle"
  /\ \E n \in 1 .. MaxTasks - created :
       /\ created' = created + n
       /\ \/ /\ n < N
             /\ todo' = [todo EXCEPT ![c] = New(n)]
             /\ Goto(c, "enqueue")
             /\ UNCHANGED <<targets, batches>>
          \/ /\ n >= N
             /\ targets' = [targets EXCEPT ![c] = [k \in 1 .. N |-> k - 1]]
             /\ batches' = [batches EXCEPT ![c] = [k \in 1 .. N |-> Share(New(n), k, N)]]
             /\ Goto(c, "hand_over")
             /\ UNCHANGED todo
  /\ UNCHANGED <<queues, m_idle, aborts, wakeup, idlers, m_round_robin_cursor, running,
                 scan, want, ran, destroyed, terminated>>

(* enqueue_local                                                           *)
EnqueueLocal(w, tasks) ==
  IF m_atomic_abort[w]
  THEN destroyed' = destroyed \cup ToSet(tasks) /\ UNCHANGED m_private_queue
  ELSE /\ m_private_queue' = [m_private_queue EXCEPT ![w] = @ \o tasks]
       /\ UNCHANGED destroyed

(* enqueue(span) by a task that a worker runs.                             *)
EnqueueSpanLocal(w) ==
  /\ pc[w] = "run"
  /\ \E n \in 1 .. MaxTasks - created :
       /\ created' = created + n
       /\ EnqueueLocal(w, New(n))
  /\ UNCHANGED <<m_public_queue, m_idle, aborts, wakeup, idlers, m_round_robin_cursor, pc,
                 running, frame, ran, terminated>>

appears_empty(w) == m_private_queue[w] = <<>> /\ ~m_task_found_or_abort[w]

(* enqueue(task), its first test.                                          *)
AppearsEmpty(t) ==
  /\ pc[t] = "enqueue"
  /\ \/ /\ t \in Workers
        /\ appears_empty(t)
        /\ EnqueueLocal(t, todo[t])
        /\ todo' = [todo EXCEPT ![t] = <<>>]
        /\ Goto(t, "run")
     \/ /\ t \in Workers => ~appears_empty(t)
        /\ Goto(t, "find")
        /\ UNCHANGED <<m_private_queue, destroyed, todo>>
  /\ UNCHANGED <<m_public_queue, m_idle, aborts, wakeup, idlers, m_round_robin_cursor,
                 running, scan, want, targets, batches, created, ran, terminated>>

-----------------------------------------------------------------------------
(* find_idle_worker and find_idle_workers.                                 *)

(* How many idle workers the thread looks for.                             *)
Wanted(t) ==
  IF Balancing(t)
  THEN Least(m_approx_size, Least(N - 1, Len(m_private_queue[t]) - 1)) ELSE 1

(* What is done with the workers that were found: give each its share of   *)
(* the private queue, or one of them the task; without one, keep the task  *)
(* or choose the next worker in turn.                                      *)
Found(t, idle) ==
  \/ /\ Balancing(t)
     /\ idle # <<>>
     /\ LET tasks == m_private_queue[t]
            total == Len(idle) + 1
        IN /\ batches' = [batches EXCEPT ![t] =
                            [k \in 1 .. Len(idle) |-> Share(tasks, k, total)]]
           /\ m_private_queue' = [m_private_queue EXCEPT ![t] =
                SubSeq(tasks, ShareEnd(Len(idle), Len(tasks), total) + 1, Len(tasks))]
     /\ Goto(t, "hand_over")
     /\ UNCHANGED <<todo, targets, m_round_robin_cursor, destroyed>>
  \/ /\ Balancing(t)
     /\ idle = <<>>
     /\ Goto(t, "check_abort")
     /\ UNCHANGED <<m_private_queue, todo, targets, batches, m_round_robin_cursor, destroyed>>
  \/ /\ ~Balancing(t)
     /\ idle # <<>> \/ t \in Clients
     /\ batches' = [batches EXCEPT ![t] = <<SubSeq(todo[t], 1, 1)>>]
     /\ todo' = [todo EXCEPT ![t] = Tail(@)]
     /\ targets' = [targets EXCEPT ![t] = IF idle # <<>> THEN idle
                                          ELSE <<m_round_robin_cursor>>]
     /\ m_round_robin_cursor' = IF idle # <<>> THEN m_round_robin_cursor
                                ELSE (m_round_robin_cursor + 1) % N
     /\ Goto(t, "hand_over")
     /\ UNCHANGED <<m_private_queue, destroyed>>
  \/ /\ ~Balancing(t)
     /\ idle = <<>>
     /\ t \in Workers
     /\ EnqueueLocal(t, todo[t])
     /\ todo' = [todo EXCEPT ![t] = <<>>]
     /\ Goto(t, "run")
     /\ UNCHANGED <<targets, batches, m_round_robin_cursor>>

(* The load of m_approx_size.  A worker begins to search at its own index  *)
(* and skips it, a client anywhere (at a hash of its thread's id).         *)
FindBegin(t) ==
  /\ pc[t] = "find"
  /\ \/ /\ m_approx_size <= 0
        /\ Found(t, <<>>)
        /\ UNCHANGED <<scan, want>>
     \/ /\ m_approx_size > 0
        /\ want' = [want EXCEPT ![t] = Wanted(t)]
        /\ \E start \in IF t \in Workers THEN {t} ELSE Workers :
             scan' = [scan EXCEPT ![t] =
               SelectSeq([i \in 1 .. N |-> (start + i - 1) % N], LAMBDA w : w # t)]
        /\ Goto(t, "scan")
        /\ UNCHANGED <<m_private_queue, todo, targets, batches, m_round_robin_cursor,
                       destroyed>>
  /\ UNCHANGED <<m_public_queue, m_idle, aborts, wakeup, idlers, running, created, ran,
                 terminated>>

Searching(t) == scan[t] # <<>> /\ Len(targets[t]) < want[t]

(* try_acquire_flag: the exchange decides, whatever was loaded before it.  *)
TryAcquireFlag(t) ==
  /\ pc[t] = "scan"
  /\ Searching(t)
  /\ LET index == Head(scan[t])
     IN \/ /\ idle_flags[index]
           /\ idle_flags' = [idle_flags EXCEPT ![index] = FALSE]
           /\ targets' = [targets EXCEPT ![t] = Append(@, index)]
           /\ Goto(t, "sub")
        \/ /\ ~idle_flags[index]
           /\ UNCHANGED <<idle_flags, targets, pc>>
  /\ scan' = [scan EXCEPT ![t] = Tail(@)]
  /\ UNCHANGED <<queues, m_idle, aborts, wakeup, m_approx_size, m_round_robin_cursor,
                 running, todo, want, batches, history, terminated>>

(* try_acquire_flag: m_approx_size.fetch_sub                               *)
FlagAcquired(t) ==
  /\ pc[t] = "sub"
  /\ m_approx_size' = m_approx_size - 1
  /\ Goto(t, "scan")
  /\ UNCHANGED <<queues, m_idle, aborts, wakeup, idle_flags, m_round_robin_cursor, running,
                 frame, history, terminated>>

FindEnd(t) ==
  /\ pc[t] = "scan"
  /\ ~Searching(t)
  /\ Found(t, targets[t])
  /\ scan' = [scan EXCEPT ![t] = <<>>]
  /\ want' = [want EXCEPT ![t] = 0]
  /\ UNCHANGED <<m_public_queue, m_idle, aborts, wakeup, idlers, running, created, ran,
                 terminated>>

-----------------------------------------------------------------------------
(* enqueue_foreign and ensure_worker_active.                               *)

(* One worker has been given its tasks: the next worker, the next task, or *)
(* back to the caller.                                                     *)
AfterHandOver(t, rest) ==
  IF rest # <<>> THEN "hand_over" ELSE IF todo[t] # <<>> THEN "enqueue" ELSE Return(t)

(* The worker accepts.  If its thread has exited, a new one is started; if *)
(* not, it is to be woken when the queue was empty.                        *)
EnqueueForeign(t) ==
  /\ pc[t] = "hand_over"
  /\ LET w == Head(targets[t])
         first_enqueuer == m_public_queue[w] = <<>>
         next == AfterHandOver(t, Tail(batches[t]))
     IN /\ Unlocked(w)
        /\ ~m_abort[w]
        /\ m_task_found_or_abort' = [m_task_found_or_abort EXCEPT ![w] = TRUE]
        /\ m_public_queue' = [m_public_queue EXCEPT ![w] = @ \o Head(batches[t])]
        /\ m_idle' = [m_idle EXCEPT ![w] = FALSE]
        /\ \/ m_idle[w] /\ pc' = [pc EXCEPT ![w] = "drain", ![t] = next]
           \/ ~m_idle[w] /\ Goto(t, IF first_enqueuer THEN "release" ELSE next)
        /\ targets' = [targets EXCEPT ![t] = IF m_idle[w] \/ ~first_enqueuer THEN Tail(@) ELSE @]
  /\ batches' = [batches EXCEPT ![t] = Tail(@)]
  /\ UNCHANGED <<m_private_queue, aborts, m_semaphore, idlers, m_round_robin_cursor, running,
                 todo, scan, want, history, terminated>>

(* The worker has been shut down: runtime_shutdown is thrown to whoever    *)
(* called enqueue, or out of balance_work and the thread's function.       *)
EnqueueForeignThrows(t) ==
  /\ pc[t] = "hand_over"
  /\ Unlocked(Head(targets[t]))
  /\ m_abort[Head(targets[t])]
  /\ destroyed' = destroyed \cup ToSet(todo[t]) \cup ToSet(FlattenSeq(batches[t]))
  /\ todo' = [todo EXCEPT ![t] = <<>>]
  /\ targets' = [targets EXCEPT ![t] = <<>>]
  /\ batches' = [batches EXCEPT ![t] = <<>>]
  /\ terminated' = Balancing(t)
  /\ Goto(t, Return(t))
  /\ UNCHANGED <<queues, m_idle, aborts, wakeup, idlers, m_round_robin_cursor, running,
                 scan, want, created, ran>>

Release(t) ==
  /\ pc[t] = "release"
  /\ ReleaseSemaphore(Head(targets[t]))
  /\ targets' = [targets EXCEPT ![t] = Tail(@)]
  /\ Goto(t, AfterHandOver(t, batches[t]))
  /\ UNCHANGED <<queues, m_idle, aborts, m_task_found_or_abort, idlers, m_round_robin_cursor,
                 running, todo, scan, want, batches, history, terminated>>

-----------------------------------------------------------------------------
(* The thread of worker w: drain_queue and wait_for_task.                  *)

(* The head of the loop in drain_queue_impl and the early returns of       *)
(* balance_work, for a worker that has these private tasks.                *)
DrainQueueImpl(tasks) ==
  IF tasks = <<>> THEN "drain"
  ELSE IF Len(tasks) < 2 \/ N = 1 THEN "check_abort" ELSE "find"

(* Mutant of Swap: move the public queue and clear it.                     *)
Swap_MoveAndClear(w) ==
  /\ m_task_found_or_abort' = [m_task_found_or_abort EXCEPT ![w] = FALSE]
  /\ m_private_queue' = [m_private_queue EXCEPT ![w] = m_public_queue[w]]
  /\ m_public_queue' = [m_public_queue EXCEPT ![w] = <<>>]
  /\ Goto(w, DrainQueueImpl(m_public_queue[w]))

(* The tail of drain_queue, executed with m_lock held.                     *)
Swap(w) ==
  /\ m_task_found_or_abort' = [m_task_found_or_abort EXCEPT ![w] = FALSE]
  /\ m_private_queue' = [m_private_queue EXCEPT ![w] = m_public_queue[w]]
  /\ m_public_queue' = [m_public_queue EXCEPT ![w] = m_private_queue[w]]
  /\ Goto(w, DrainQueueImpl(m_public_queue[w]))

Exit(w) == m_idle' = [m_idle EXCEPT ![w] = TRUE] /\ Goto(w, "none")

DrainQueue(w) ==
  /\ pc[w] = "drain"
  /\ \/ /\ m_abort[w]
        /\ m_task_found_or_abort' = [m_task_found_or_abort EXCEPT ![w] = FALSE]
        /\ Exit(w)
        /\ UNCHANGED queues
     \/ ~m_abort[w] /\ m_public_queue[w] # <<>> /\ Swap(w) /\ UNCHANGED m_idle
     \/ /\ ~m_abort[w] /\ m_public_queue[w] = <<>>
        /\ Goto(w, "set_idle")
        /\ UNCHANGED <<queues, m_idle, m_task_found_or_abort>>
  /\ UNCHANGED <<aborts, m_semaphore, idlers, m_round_robin_cursor, running, frame, history,
                 terminated>>

(* Mutants of SetIdle: the value before the exchange is not looked at; the *)
(* worker is declared idle before it waits.                                *)
SetIdle_AlwaysCounts(w) ==
  /\ pc[w] = "set_idle"
  /\ idle_flags' = [idle_flags EXCEPT ![w] = TRUE]
  /\ Goto(w, "add")
  /\ UNCHANGED <<queues, m_idle, aborts, wakeup, m_approx_size, m_round_robin_cursor, running,
                 frame, history, terminated>>

SetIdle_Early(w) ==
  /\ pc[w] = "set_idle"
  /\ idle_flags' = [idle_flags EXCEPT ![w] = TRUE]
  /\ m_idle' = [m_idle EXCEPT ![w] = TRUE]
  /\ Goto(w, IF idle_flags[w] THEN "try_acquire" ELSE "add")
  /\ UNCHANGED <<queues, aborts, wakeup, m_approx_size, m_round_robin_cursor, running,
                 frame, history, terminated>>

(* set_idle                                                                *)
SetIdle(w) ==
  /\ pc[w] = "set_idle"
  /\ idle_flags' = [idle_flags EXCEPT ![w] = TRUE]
  /\ Goto(w, IF idle_flags[w] THEN "try_acquire" ELSE "add")
  /\ UNCHANGED <<queues, m_idle, aborts, wakeup, m_approx_size, m_round_robin_cursor, running,
                 frame, history, terminated>>

CountIdle(w) ==
  /\ pc[w] = "add"
  /\ m_approx_size' = m_approx_size + 1
  /\ Goto(w, "try_acquire")
  /\ UNCHANGED <<queues, m_idle, aborts, wakeup, idle_flags, m_round_robin_cursor, running,
                 frame, history, terminated>>

TryAcquire(w) ==
  /\ pc[w] = "try_acquire"
  /\ m_semaphore[w] > 0
  /\ m_semaphore' = [m_semaphore EXCEPT ![w] = @ - 1]
  /\ Goto(w, "woken")
  /\ UNCHANGED <<queues, m_idle, aborts, m_task_found_or_abort, idlers, m_round_robin_cursor,
                 running, frame, history, terminated>>

(* m_max_idle_time has passed.                                             *)
Timeout(w) ==
  /\ pc[w] = "try_acquire"
  /\ m_semaphore[w] = 0
  /\ Goto(w, "timed_out")
  /\ UNCHANGED <<queues, m_idle, aborts, wakeup, idlers, m_round_robin_cursor, running, frame,
                 history, terminated>>

Woken(w) ==
  /\ pc[w] = "woken"
  /\ Goto(w, IF m_task_found_or_abort[w] THEN "relock" ELSE "try_acquire")
  /\ UNCHANGED <<queues, m_idle, aborts, wakeup, idlers, m_round_robin_cursor, running, frame,
                 history, terminated>>

(* lock.lock() in the loop: keep waiting, exit, or set_active and go on.   *)
Relock(w) ==
  /\ pc[w] = "relock"
  /\ \/ /\ m_public_queue[w] = <<>> /\ ~m_abort[w]
        /\ Goto(w, "try_acquire")
        /\ UNCHANGED <<queues, m_idle, m_task_found_or_abort, idle_flags>>
     \/ m_abort[w] /\ Exit(w) /\ UNCHANGED <<queues, m_task_found_or_abort, idle_flags>>
     \/ /\ m_public_queue[w] # <<>> /\ ~m_abort[w]
        /\ idle_flags' = [idle_flags EXCEPT ![w] = FALSE]
        /\ \/ idle_flags[w] /\ Goto(w, "set_active")
                            /\ UNCHANGED <<queues, m_task_found_or_abort>>
           \/ ~idle_flags[w] /\ Swap(w)
        /\ UNCHANGED m_idle
  /\ UNCHANGED <<aborts, m_semaphore, m_approx_size, m_round_robin_cursor, running, frame,
                 history, terminated>>

SetActive(w) ==
  /\ pc[w] = "set_active"
  /\ m_approx_size' = m_approx_size - 1
  /\ Swap(w)
  /\ UNCHANGED <<m_idle, aborts, m_semaphore, idle_flags, m_round_robin_cursor, running,
                 frame, history, terminated>>

(* Past the loop without an event: the thread exits, whatever was put in   *)
(* the queue since the deadline.                                           *)
TimedOut(w) ==
  /\ pc[w] = "timed_out"
  /\ Exit(w)
  /\ UNCHANGED <<queues, aborts, wakeup, idlers, m_round_robin_cursor, running, frame,
                 history, terminated>>

-----------------------------------------------------------------------------
(* The thread of worker w: drain_queue_impl.                               *)

(* The newest task is executed first.                                      *)
PopTask(w) ==
  /\ pc[w] = "check_abort"
  /\ \/ m_atomic_abort[w] /\ Goto(w, "aborted") /\ UNCHANGED <<m_private_queue, running>>
     \/ /\ ~m_atomic_abort[w]
        /\ running' = [running EXCEPT ![w] = Last(m_private_queue[w])]
        /\ m_private_queue' = [m_private_queue EXCEPT ![w] = Front(@)]
        /\ Goto(w, "run")
  /\ UNCHANGED <<m_public_queue, m_idle, aborts, wakeup, idlers, m_round_robin_cursor, frame,
                 history, terminated>>

FinishTask(w) ==
  /\ pc[w] = "run"
  /\ ran' = ran \cup {running[w]}
  /\ running' = [running EXCEPT ![w] = NoTask]
  /\ Goto(w, DrainQueueImpl(m_private_queue[w]))
  /\ UNCHANGED <<queues, m_idle, aborts, wakeup, idlers, m_round_robin_cursor, frame, created,
                 destroyed, terminated>>

(* Mutant of Aborted: the thread leaves without setting m_idle.            *)
Aborted_NotIdle(w) ==
  /\ pc[w] = "aborted"
  /\ Goto(w, "none")
  /\ UNCHANGED <<queues, m_idle, aborts, wakeup, idlers, m_round_robin_cursor, running, frame,
                 history, terminated>>

Aborted(w) ==
  /\ pc[w] = "aborted"
  /\ Exit(w)
  /\ UNCHANGED <<queues, aborts, wakeup, idlers, m_round_robin_cursor, running, frame,
                 history, terminated>>

-----------------------------------------------------------------------------
(* shutdown, by client c: worker after worker, each joined before the next *)
(* is told.                                                                *)

Shutdown(c) ==
  /\ pc[c] = "idle"
  /\ ~pool_abort
  /\ pool_abort' = TRUE
  /\ Goto(c, "store_atomic_abort")
  /\ UNCHANGED <<queues, m_idle, m_abort, m_atomic_abort, sd, wakeup, idlers,
                 m_round_robin_cursor, running, frame, history, terminated>>

StoreAtomicAbort(c) ==
  /\ pc[c] = "store_atomic_abort"
  /\ m_atomic_abort' = [m_atomic_abort EXCEPT ![sd] = TRUE]
  /\ Goto(c, "store_abort")
  /\ UNCHANGED <<queues, m_idle, m_abort, pool_abort, sd, wakeup, idlers,
                 m_round_robin_cursor, running, frame, history, terminated>>

(* Mutant of StoreAbort: only the atomic flag is set.                      *)
StoreAbort_Omitted(c) ==
  /\ pc[c] = "store_abort"
  /\ Goto(c, "store_found")
  /\ UNCHANGED <<queues, m_idle, aborts, wakeup, idlers, m_round_robin_cursor, running, frame,
                 history, terminated>>

StoreAbort(c) ==
  /\ pc[c] = "store_abort"
  /\ Unlocked(sd)
  /\ m_abort' = [m_abort EXCEPT ![sd] = TRUE]
  /\ Goto(c, "store_found")
  /\ UNCHANGED <<queues, m_idle, m_atomic_abort, pool_abort, sd, wakeup, idlers,
                 m_round_robin_cursor, running, frame, history, terminated>>

(* Mutant of StoreFound: the worker is woken and not told why.             *)
StoreFound_Omitted(c) ==
  /\ pc[c] = "store_found"
  /\ Goto(c, "notify")
  /\ UNCHANGED <<queues, m_idle, aborts, wakeup, idlers, m_round_robin_cursor, running, frame,
                 history, terminated>>

StoreFound(c) ==
  /\ pc[c] = "store_found"
  /\ m_task_found_or_abort' = [m_task_found_or_abort EXCEPT ![sd] = TRUE]
  /\ Goto(c, "notify")
  /\ UNCHANGED <<queues, m_idle, aborts, m_semaphore, idlers, m_round_robin_cursor, running,
                 frame, history, terminated>>

NotifyAbort(c) ==
  /\ pc[c] = "notify"
  /\ ReleaseSemaphore(sd)
  /\ Goto(c, "join")
  /\ UNCHANGED <<queues, m_idle, aborts, m_task_found_or_abort, idlers, m_round_robin_cursor,
                 running, frame, history, terminated>>

(* Joined, the worker's tasks are destroyed.                               *)
Join(c) ==
  /\ pc[c] = "join"
  /\ pc[sd] = "none"
  /\ destroyed' = destroyed \cup ToSet(m_public_queue[sd] \o m_private_queue[sd])
  /\ m_public_queue' = [m_public_queue EXCEPT ![sd] = <<>>]
  /\ m_private_queue' = [m_private_queue EXCEPT ![sd] = <<>>]
  /\ sd' = sd + 1
  /\ Goto(c, IF sd' = N THEN "idle" ELSE "store_atomic_abort")
  /\ UNCHANGED <<m_idle, m_abort, m_atomic_abort, pool_abort, wakeup, idlers,
                 m_round_robin_cursor, running, frame, created, ran, terminated>>

-----------------------------------------------------------------------------
(* What a thread inside one of the pool's functions does by itself.        *)
EnqueueSteps(t) == AppearsEmpty(t) \/ FindBegin(t) \/ TryAcquireFlag(t) \/ FlagAcquired(t)
                   \/ FindEnd(t) \/ EnqueueForeign(t) \/ EnqueueForeignThrows(t) \/ Release(t)

WorkLoop(w) == DrainQueue(w) \/ SetIdle(w) \/ CountIdle(w) \/ TryAcquire(w) \/ Woken(w)
               \/ Relock(w) \/ SetActive(w) \/ TimedOut(w) \/ PopTask(w)
               \/ FinishTask(w) \/ Aborted(w)

ShutdownSteps(c) == StoreAtomicAbort(c) \/ StoreAbort(c) \/ StoreFound(c) \/ NotifyAbort(c)
                    \/ Join(c)

Steps(t) == EnqueueSteps(t) \/ (t \in Workers /\ WorkLoop(t))
            \/ (t \in Clients /\ ShutdownSteps(t))

Next ==
  /\ ~terminated
  /\ \/ \E t \in Threads : Steps(t)
     \/ \E t \in Workers \cup Enqueuers : EnqueueTask(t)
     \/ \E w \in Workers : EnqueueSpanLocal(w) \/ Timeout(w)
     \/ \E c \in Enqueuers : EnqueueSpan(c)
     \/ \E c \in Closers : Shutdown(c)

Spec == Init /\ [][Next]_vars

(* Threads are scheduled and tasks return; nothing forces a call, or the   *)
(* idle time to run out.                                                   *)
FairSpec == Spec /\ \A t \in Threads : WF_vars(~terminated /\ Steps(t))

-----------------------------------------------------------------------------
Positions == {"idle", "none", "run", "enqueue", "find", "scan", "sub", "hand_over", "release",
              "drain", "set_idle", "add", "try_acquire", "timed_out", "woken", "relock",
              "set_active", "check_abort", "aborted", "store_atomic_abort",
              "store_abort", "store_found", "notify", "join"}

(* Every variable has a value the code can give it; in particular a thread *)
(* hands over to workers of the pool, never to itself, one batch to each.  *)
TypeOK ==
  /\ m_private_queue \in [Workers -> Seq(Tasks)]
  /\ m_public_queue \in [Workers -> Seq(Tasks)]
  /\ m_semaphore \in [Workers -> 0 .. MaxTasks + 1]
  /\ m_idle \in [Workers -> BOOLEAN]
  /\ m_abort \in [Workers -> BOOLEAN]
  /\ m_atomic_abort \in [Workers -> BOOLEAN]
  /\ m_task_found_or_abort \in [Workers -> BOOLEAN]
  /\ idle_flags \in [Workers -> BOOLEAN]
  /\ m_approx_size \in Int
  /\ m_round_robin_cursor \in Workers
  /\ pool_abort \in BOOLEAN
  /\ pc \in [Threads -> Positions]
  /\ running \in [Workers -> Tasks \cup {NoTask}]
  /\ todo \in [Threads -> Seq(Tasks)]
  /\ scan \in [Threads -> Seq(Workers)]
  /\ want \in [Threads -> 0 .. N]
  /\ \A t \in Threads : /\ targets[t] \in Seq(Workers \ {t})
                        /\ batches[t] \in Seq(Seq(Tasks) \ {<<>>})
                        /\ pc[t] = "hand_over" => Len(batches[t]) = Len(targets[t])
  /\ sd \in 0 .. N
  /\ created \in 0 .. MaxTasks
  /\ ran \cup destroyed \subseteq Tasks
  /\ terminated \in BOOLEAN

(* The assertions of the executor: donating leaves the worker a task, a    *)
(* worker that waits has no private task, a worker is told to shut down    *)
(* once, and is idle when the pool is destroyed.  The second one can fail  *)
(* while shutdown() is between its stores to m_atomic_abort and m_abort: a *)
(* thread exits with tasks in its private queue and another is started.    *)
AssertionsHold ==
  /\ \A w \in Workers :
       /\ pc[w] = "check_abort" \/ (pc[w] \in {"find", "scan", "hand_over"} /\ Balancing(w))
            => m_private_queue[w] # <<>>
       /\ pc[w] \in {"drain", "set_idle", "try_acquire", "relock", "set_active"}
            => m_private_queue[w] = <<>> \/ m_atomic_abort[w]
       /\ sd = N => m_idle[w]
  /\ \A c \in Clients : pc[c] = "store_atomic_abort" => ~m_atomic_abort[sd]

(* A task that was created is in one place and only once: in a queue, in   *)
(* the hands of a thread that enqueues or runs it, executed, or destroyed. *)
(* Donating, swapping and throwing neither lose nor duplicate it.          *)
Held(t) == todo[t] \o FlattenSeq(batches[t])
           \o IF t \in Workers
              THEN m_private_queue[t] \o m_public_queue[t]
                   \o SelectSeq(<<running[t]>>, LAMBDA task : task # NoTask)
              ELSE <<>>

TasksConserved ==
  \A task \in 1 .. created :
    LET holders == {t \in Threads : task \in ToSet(Held(t))}
    IN /\ Cardinality(holders)
            + Cardinality({s \in {<<1, ran>>, <<2, destroyed>>} : task \in s[2]}) = 1
       /\ \A t \in holders : Cardinality({k \in DOMAIN Held(t) : Held(t)[k] = task}) = 1

(* m_approx_size is the number of raised flags once every exchange has     *)
(* been followed by its fetch_add or fetch_sub; and m_idle, which lets an  *)
(* enqueuer start a thread for a worker, is set exactly when the previous  *)
(* thread is past its last access.                                         *)
IdleWorkersCounted ==
  /\ m_approx_size = Cardinality({w \in Workers : idle_flags[w]})
                     + Cardinality({t \in Threads : pc[t] \in {"sub", "set_active"}})
                     - Cardinality({w \in Workers : pc[w] = "add"})
  /\ \A w \in Workers : m_idle[w] <=> pc[w] = "none"

(* The pool does what every executor promises; while a worker donates a    *)
(* task, it is still queued.                                               *)
Queued(w) == ToSet(m_private_queue[w]) \cup ToSet(m_public_queue[w])
             \cup IF Balancing(w) THEN ToSet(FlattenSeq(batches[w])) ELSE {}

status == [task \in Tasks |->
  IF \E w \in Workers : running[w] = task THEN "running"
  ELSE IF task \in ran THEN "executed"
  ELSE IF task \in destroyed THEN "destroyed"
  ELSE IF \E w \in Workers : task \in Queued(w) THEN "queued"
  ELSE "new"]

E == INSTANCE Executor WITH shut <- (sd = N)

ImplementsExecutor == E!Spec

(* What a live thread of a worker finds in its public queue is taken out   *)
(* (or the thread exits, its idle time over): the load of                  *)
(* m_task_found_or_abort, the extra tokens of the semaphore and the        *)
(* is_empty test lose no wake-up.                                          *)
TasksPickedUp ==
  \A w \in Workers : m_public_queue[w] # <<>> ~> (m_public_queue[w] = <<>> \/ m_idle[w] \/ terminated)

(* shutdown() returns, unless an exception ends the process.               *)
ShutdownReturns == pool_abort ~> (sd = N \/ terminated)

(* "Schedules a task to run in this executor": a task left in a queue is   *)
(* executed or, at shutdown, destroyed.                                    *)
EnqueuedTaskLeavesQueue ==
  \A w \in Workers : m_public_queue[w] # <<>> ~> (m_public_queue[w] = <<>> \/ terminated)

(* "Every executor then exits gracefully": no exception ends a worker's    *)
(* thread.                                                                 *)
ExitsGracefully == ~terminated
=============================================================================
