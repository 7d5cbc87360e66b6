--------------------------- MODULE ThreadExecutor ---------------------------
(***************************************************************************)
(* thread_executor: every task gets a thread of its own.  A thread cannot  *)
(* join itself: when its task is over it leaves its std::thread object in  *)
(* m_last_retired and joins the thread that left there before it, so that  *)
(* shutdown() only has to join the last one.                               *)
(*                                                                         *)
(* A critical section of m_lock is one step, except that of shutdown(),    *)
(* which joins a thread while it holds the lock.  Threads are numbered in  *)
(* the order of their creation, and stand for their tasks.                 *)
(***************************************************************************)
EXTENDS Naturals

CONSTANT MaxThreads   \* bound on the tasks ever enqueued

Threads == 1 .. MaxThreads
NoThread == 0

VARIABLES
  m_workers,        \* the list, as a set
  m_last_retired,   \* its only member, or NoThread
  m_abort, m_atomic_abort,
  locked,           \* shutdown() holds m_lock
  tpc,              \* next statement of each thread, or what became of its task
  last_retired,     \* local variable of retire_worker
  cpc,              \* next statement of shutdown()
  created,          \* history: threads or tasks so far
  before            \* history: the threads that had retired when one retires

vars == <<m_workers, m_last_retired, m_abort, m_atomic_abort, locked, tpc, last_retired, cpc,
          created, before>>

Init ==
  /\ m_workers = {}
  /\ m_last_retired = NoThread
  /\ m_abort = FALSE
  /\ m_atomic_abort = FALSE
  /\ locked = FALSE
  /\ tpc = [t \in Threads |-> "new"]
  /\ last_retired = [t \in Threads |-> NoThread]
  /\ cpc = "idle"
  /\ created = 0
  /\ before = [t \in Threads |-> {}]

Goto(t, from, to) == tpc[t] = from /\ tpc' = [tpc EXCEPT ![t] = to]

Retired == {t \in Threads : tpc[t] \in {"notify", "join", "ended"}}

-----------------------------------------------------------------------------
(* enqueue, of one task or of a span; a refused task dies.                 *)
Enqueue ==
  /\ ~locked
  /\ \E n \in 1 .. MaxThreads - created :
       LET new == created + 1 .. created + n
       IN /\ created' = created + n
          /\ tpc' = [t \in Threads |-> IF t \notin new THEN tpc[t]
                                       ELSE IF m_abort THEN "destroyed" ELSE "start"]
          /\ m_workers' = IF m_abort THEN m_workers ELSE m_workers \cup new
  /\ UNCHANGED <<m_last_retired, m_abort, m_atomic_abort, locked, last_retired, cpc, before>>

StartTask(t) ==
  /\ Goto(t, "start", "task")
  /\ UNCHANGED <<m_workers, m_last_retired, m_abort, m_atomic_abort, locked, last_retired, cpc,
                 created, before>>

FinishTask(t) ==
  /\ Goto(t, "task", "retire")
  /\ UNCHANGED <<m_workers, m_last_retired, m_abort, m_atomic_abort, locked, last_retired, cpc,
                 created, before>>

(* Mutant of RetireWorker: the list that is there is overwritten.          *)
RetireWorker_Overwrites(t) ==
  /\ ~locked
  /\ Goto(t, "retire", "notify")
  /\ m_last_retired' = t
  /\ m_workers' = m_workers \ {t}
  /\ before' = [before EXCEPT ![t] = Retired]
  /\ UNCHANGED <<m_abort, m_atomic_abort, locked, last_retired, cpc, created>>

RetireWorker(t) ==
  /\ ~locked
  /\ Goto(t, "retire", "notify")
  /\ last_retired' = [last_retired EXCEPT ![t] = m_last_retired]
  /\ m_last_retired' = t
  /\ m_workers' = m_workers \ {t}
  /\ before' = [before EXCEPT ![t] = Retired]
  /\ UNCHANGED <<m_abort, m_atomic_abort, locked, cpc, created>>

NotifyOne(t) ==
  /\ Goto(t, "notify", "join")
  /\ cpc' = IF cpc = "waiting" THEN "wait" ELSE cpc
  /\ UNCHANGED <<m_workers, m_last_retired, m_abort, m_atomic_abort, locked, last_retired,
                 created, before>>

Ended(t) == t = NoThread \/ (t \in Threads /\ tpc[t] = "ended")

(* The end of retire_worker, and of the thread.                            *)
JoinLastRetired(t) ==
  /\ Ended(last_retired[t])
  /\ Goto(t, "join", "ended")
  /\ UNCHANGED <<m_workers, m_last_retired, m_abort, m_atomic_abort, locked, last_retired, cpc,
                 created, before>>

-----------------------------------------------------------------------------
(* shutdown; a second call returns at once.                                *)
Shutdown ==
  /\ cpc = "idle"
  /\ m_atomic_abort' = TRUE
  /\ cpc' = "wait"
  /\ UNCHANGED <<m_workers, m_last_retired, m_abort, locked, tpc, last_retired, created, before>>

(* Mutant of WaitForWorkers: it waits before it tests the predicate.       *)
WaitForWorkers_First ==
  /\ cpc = "wait"
  /\ m_abort' = TRUE
  /\ cpc' = IF ~m_abort \/ m_workers # {} THEN "waiting"
            ELSE IF m_last_retired = NoThread THEN "shut" ELSE "join"
  /\ locked' = (cpc' = "join")
  /\ UNCHANGED <<m_workers, m_last_retired, m_atomic_abort, tpc, last_retired, created, before>>

(* The critical section up to the join, or the wait; also each time the    *)
(* wait evaluates its predicate again.                                     *)
WaitForWorkers ==
  /\ cpc = "wait"
  /\ m_abort' = TRUE
  /\ cpc' = IF m_workers # {} THEN "waiting"
            ELSE IF m_last_retired = NoThread THEN "shut" ELSE "join"
  /\ locked' = (cpc' = "join")
  /\ UNCHANGED <<m_workers, m_last_retired, m_atomic_abort, tpc, last_retired, created, before>>

JoinLast ==
  /\ cpc = "join"
  /\ Ended(m_last_retired)
  /\ m_last_retired' = NoThread
  /\ locked' = FALSE
  /\ cpc' = "shut"
  /\ UNCHANGED <<m_workers, m_abort, m_atomic_abort, tpc, last_retired, created, before>>

-----------------------------------------------------------------------------
ThreadSteps(t) == StartTask(t) \/ RetireWorker(t) \/ NotifyOne(t) \/ JoinLastRetired(t)

ShutdownSteps == WaitForWorkers \/ JoinLast

Next == \/ Enqueue \/ Shutdown \/ ShutdownSteps
        \/ \E t \in Threads : FinishTask(t) \/ ThreadSteps(t)

Spec == Init /\ [][Next]_vars
-----------------------------------------------------------------------------
(* Every variable has a value the code can give it.                        *)
TypeOK ==
  /\ m_workers \subseteq Threads
  /\ m_last_retired \in Threads \cup {NoThread}
  /\ m_abort \in BOOLEAN
  /\ m_atomic_abort \in BOOLEAN
  /\ locked \in BOOLEAN
  /\ tpc \in [Threads -> {"new", "destroyed", "start", "task", "retire", "notify", "join", "ended"}]
  /\ last_retired \in [Threads -> Threads \cup {NoThread}]
  /\ cpc \in {"idle", "wait", "waiting", "join", "shut"}
  /\ created \in 0 .. MaxThreads
  /\ before \in [Threads -> SUBSET Threads]

(* When shutdown() returns every thread the executor ever started has      *)
(* ended, although it joins only one of them, and the two lists that the   *)
(* destructor asserts to be empty are empty.                               *)
ThreadsJoined ==
  cpc = "shut" => /\ \A t \in Threads : tpc[t] \in {"new", "destroyed", "ended"}
                  /\ m_workers = {}
                  /\ m_last_retired = NoThread

(* What Executor calls the status of a task.                               *)
status == [t \in Threads |->
  IF tpc[t] = "start" THEN "queued"
  ELSE IF tpc[t] = "task" THEN "running"
  ELSE IF tpc[t] \in {"new", "destroyed"} THEN tpc[t]
  ELSE "executed"]

E == INSTANCE Executor WITH Tasks <- Threads, shut <- (cpc = "shut")
=============================================================================
