---------------------------- MODULE WorkerThread ----------------------------
(***************************************************************************)
(* worker_thread_executor: one thread that executes tasks in order.  Other *)
(* threads put theirs into m_public_queue under m_lock, the tasks it runs  *)
(* put theirs into m_private_queue, which is the thread's own.             *)
(*                                                                         *)
(* A critical section of m_lock is one step, an access to the semaphore    *)
(* outside it is another.  A task is a number.                             *)
(***************************************************************************)
EXTENDS Integers, Sequences, FiniteSets, Functions

CONSTANTS Enqueuers,  \* threads that enqueue tasks
          Closers,    \* threads that shut the executor down
          MaxTasks    \* bound on the tasks ever created

ASSUME WorkerAssumption == MaxTasks \in Nat /\ IsFiniteSet(Enqueuers \cup Closers)

Clients == Enqueuers \cup Closers
Tasks == 1 .. MaxTasks
NoTask == 0

VARIABLES
  m_private_queue, m_public_queue, m_semaphore, m_abort, m_atomic_abort,
  wpc, pc,                \* next statement of the thread, of each client
  running,                \* task the thread executes
  shut,                   \* shutdown() has returned
  created, local,         \* tasks created; those created by tasks
  ran, destroyed          \* tasks executed, in order; tasks never executed

queues == <<m_private_queue, m_public_queue>>
aborts == <<m_abort, m_atomic_abort, shut>>
history == <<created, local, ran, destroyed>>
vars == <<queues, m_semaphore, aborts, wpc, pc, running, history>>

(* Set to false by the constructor, read twice, and stored to nowhere.     *)
m_private_atomic_abort == FALSE

Init ==
  /\ m_private_queue = <<>>
  /\ m_public_queue = <<>>
  /\ m_semaphore = 0
  /\ m_abort = FALSE
  /\ m_atomic_abort = FALSE
  /\ wpc = "drain"
  /\ pc = [c \in Clients |-> "idle"]
  /\ running = NoTask
  /\ shut = FALSE
  /\ created = 0
  /\ local = {}
  /\ ran = <<>>
  /\ destroyed = {}

Goto(c, from, to) == pc[c] = from /\ pc' = [pc EXCEPT ![c] = to]

New(n) == [k \in 1 .. n |-> created + k]

(* Releasing a binary semaphore that is not 0: the count goes up in one    *)
(* standard library and stays 1 in another.                                *)
ReleaseSemaphore == m_semaphore' \in {1, m_semaphore + 1}

-----------------------------------------------------------------------------
(* enqueue, of one task or of a span.                                      *)

(* Mutant of EnqueueForeign: is_empty is read after the push.              *)
EnqueueForeign_EmptyAfter(c) ==
  /\ pc[c] = "idle"
  /\ \E n \in 1 .. MaxTasks - created :
       /\ created' = created + n
       /\ \/ /\ m_abort
             /\ destroyed' = destroyed \cup Range(New(n))
             /\ UNCHANGED m_public_queue
          \/ /\ ~m_abort
             /\ m_public_queue' = m_public_queue \o New(n)
             /\ UNCHANGED destroyed
  /\ UNCHANGED <<m_private_queue, m_semaphore, aborts, wpc, pc, running, local, ran>>

EnqueueForeign(c) ==
  /\ pc[c] = "idle"
  /\ \E n \in 1 .. MaxTasks - created :
       /\ created' = created + n
       /\ \/ /\ m_abort
             /\ destroyed' = destroyed \cup Range(New(n))
             /\ UNCHANGED <<m_public_queue, pc>>
          \/ /\ ~m_abort
             /\ m_public_queue' = m_public_queue \o New(n)
             /\ Goto(c, "idle", IF m_public_queue = <<>> THEN "release" ELSE "idle")
             /\ UNCHANGED destroyed
  /\ UNCHANGED <<m_private_queue, m_semaphore, aborts, wpc, running, local, ran>>

Release(c) ==
  /\ Goto(c, "release", "idle")
  /\ ReleaseSemaphore
  /\ UNCHANGED <<queues, aborts, wpc, running, history>>

EnqueueLocal ==
  /\ wpc = "run"
  /\ \E n \in 1 .. MaxTasks - created :
       /\ created' = created + n
       /\ local' = local \cup Range(New(n))
       /\ IF m_private_atomic_abort
          THEN destroyed' = destroyed \cup Range(New(n)) /\ UNCHANGED m_private_queue
          ELSE m_private_queue' = m_private_queue \o New(n) /\ UNCHANGED destroyed
  /\ UNCHANGED <<m_public_queue, m_semaphore, aborts, wpc, pc, running, ran>>

-----------------------------------------------------------------------------
(* The thread.                                                             *)

(* drain_queue and wait_for_task, whose loop repeats the first test.       *)
DrainQueue ==
  /\ wpc = "drain"
  /\ \/ m_abort /\ wpc' = "none" /\ UNCHANGED queues
     \/ /\ ~m_abort /\ m_public_queue # <<>>
        /\ m_private_queue' = m_public_queue
        /\ m_public_queue' = m_private_queue
        /\ wpc' = "loop"
     \/ ~m_abort /\ m_public_queue = <<>> /\ wpc' = "acquire" /\ UNCHANGED queues
  /\ UNCHANGED <<m_semaphore, aborts, pc, running, history>>

Acquire ==
  /\ wpc = "acquire"
  /\ m_semaphore > 0
  /\ m_semaphore' = m_semaphore - 1
  /\ wpc' = "drain"
  /\ UNCHANGED <<queues, aborts, pc, running, history>>

(* Mutant of PopTask: the newest task first.                               *)
PopTask_Back ==
  /\ wpc = "loop"
  /\ IF m_private_queue = <<>>
     THEN wpc' = "drain" /\ UNCHANGED <<m_private_queue, running>>
     ELSE /\ running' = m_private_queue[Len(m_private_queue)]
          /\ m_private_queue' = SubSeq(m_private_queue, 1, Len(m_private_queue) - 1)
          /\ wpc' = "run"
  /\ UNCHANGED <<m_public_queue, m_semaphore, aborts, pc, history>>

(* drain_queue_impl, whose test of m_private_atomic_abort never succeeds.  *)
PopTask ==
  /\ wpc = "loop"
  /\ IF m_private_queue = <<>>
     THEN wpc' = "drain" /\ UNCHANGED <<m_private_queue, running>>
     ELSE /\ running' = Head(m_private_queue)
          /\ m_private_queue' = Tail(m_private_queue)
          /\ wpc' = IF m_private_atomic_abort THEN "none" ELSE "run"
  /\ UNCHANGED <<m_public_queue, m_semaphore, aborts, pc, history>>

FinishTask ==
  /\ wpc = "run"
  /\ ran' = Append(ran, running)
  /\ running' = NoTask
  /\ wpc' = "loop"
  /\ UNCHANGED <<queues, m_semaphore, aborts, pc, created, local, destroyed>>

-----------------------------------------------------------------------------
(* shutdown                                                                *)

Shutdown(c) ==
  /\ ~m_atomic_abort
  /\ Goto(c, "idle", "store_abort")
  /\ m_atomic_abort' = TRUE
  /\ UNCHANGED <<queues, m_semaphore, m_abort, shut, wpc, running, history>>

StoreAbort(c) ==
  /\ Goto(c, "store_abort", "notify")
  /\ m_abort' = TRUE
  /\ UNCHANGED <<queues, m_semaphore, m_atomic_abort, shut, wpc, running, history>>

NotifyAbort(c) ==
  /\ Goto(c, "notify", "join")
  /\ ReleaseSemaphore
  /\ UNCHANGED <<queues, aborts, wpc, running, history>>

(* Mutant of Join: the queues are emptied before the thread has ended.     *)
Join_Early(c) ==
  /\ Goto(c, "join", "idle")
  /\ destroyed' = destroyed \cup Range(m_private_queue) \cup Range(m_public_queue)
  /\ m_private_queue' = <<>>
  /\ m_public_queue' = <<>>
  /\ shut' = TRUE
  /\ UNCHANGED <<m_semaphore, m_abort, m_atomic_abort, wpc, running, created, local, ran>>

Join(c) ==
  /\ wpc = "none"
  /\ Goto(c, "join", "idle")
  /\ destroyed' = destroyed \cup Range(m_private_queue) \cup Range(m_public_queue)
  /\ m_private_queue' = <<>>
  /\ m_public_queue' = <<>>
  /\ shut' = TRUE
  /\ UNCHANGED <<m_semaphore, m_abort, m_atomic_abort, wpc, running, created, local, ran>>

-----------------------------------------------------------------------------
WorkLoop == DrainQueue \/ Acquire \/ PopTask \/ FinishTask

ClientSteps(c) == Release(c) \/ StoreAbort(c) \/ NotifyAbort(c) \/ Join(c)

Next == \/ WorkLoop \/ EnqueueLocal
        \/ \E c \in Clients : ClientSteps(c)
        \/ \E c \in Enqueuers : EnqueueForeign(c)
        \/ \E c \in Closers : Shutdown(c)

Spec == Init /\ [][Next]_vars

(* Threads are scheduled and tasks return; nothing forces a call.          *)
FairSpec == Spec /\ WF_vars(WorkLoop) /\ \A c \in Clients : WF_vars(ClientSteps(c))
-----------------------------------------------------------------------------
(* Every variable has a value the code can give it; the thread waits or    *)
(* swaps only when its private queue is empty.                             *)
TypeOK ==
  /\ m_private_queue \in Seq(Tasks)
  /\ m_public_queue \in Seq(Tasks)
  /\ m_semaphore \in 0 .. MaxTasks + 1
  /\ {m_abort, m_atomic_abort, shut} \subseteq BOOLEAN
  /\ wpc \in {"drain", "acquire", "loop", "run", "none"}
  /\ pc \in [Clients -> {"idle", "release", "store_abort", "notify", "join"}]
  /\ running \in Tasks \cup {NoTask}
  /\ created \in 0 .. MaxTasks
  /\ ran \in Seq(Tasks)
  /\ local \cup destroyed \subseteq Tasks
  /\ wpc \in {"drain", "acquire"} => m_private_queue = <<>>

(* "a single thread executor that maintains a single task queue": although *)
(* there are two, the tasks of other threads are executed in the order     *)
(* enqueue accepted them, and so are those the executor's tasks enqueued.  *)
ExecutedInOrder ==
  \A b \in DOMAIN ran : \A a \in 1 .. ran[b] - 1 :
    (a \in local <=> ran[b] \in local) => \E k \in 1 .. b - 1 : ran[k] = a

(* The executor does what every executor promises.                         *)
status == [t \in Tasks |->
  IF t = running THEN "running"
  ELSE IF t \in Range(ran) THEN "executed"
  ELSE IF t \in destroyed THEN "destroyed"
  ELSE IF t \in Range(m_private_queue) \cup Range(m_public_queue) THEN "queued"
  ELSE "new"]

E == INSTANCE Executor

ImplementsExecutor == E!Spec

(* A task that was accepted is executed or, by shutdown(), destroyed: no   *)
(* wake-up is lost between the is_empty test and the semaphore.            *)
TasksLeaveQueue == \A t \in Tasks : t <= created ~> (t \in destroyed \/ t \in Range(ran))
=============================================================================
