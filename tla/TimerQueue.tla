----------------------------- MODULE TimerQueue -----------------------------
(***************************************************************************)
(* timer_queue and its timers.  Threads make and cancel timers by queueing *)
(* requests under m_lock; a worker thread, started on demand and ended     *)
(* after a while without timers, keeps them ordered by deadline and posts  *)
(* the expired ones to their executor.                                     *)
(*                                                                         *)
(* A critical section of m_lock is one step, and so is what process_timers *)
(* does between two accesses to what other threads change.  The clock goes *)
(* up to MaxTime; how long the worker waits for timers is left open.       *)
(***************************************************************************)
EXTENDS Integers, Sequences

CONSTANTS Regular, Oneshot, Delay,  \* timers by kind; Delay: of delay objects
          Callers,                  \* threads that make and cancel timers
          Closer,                   \* thread that shuts the queue down
          NoTimer,
          DueTimes,                 \* the due times timers are made with
          MaxTime                   \* bound on the clock

Timers == Regular \cup Oneshot \cup Delay

ASSUME TimerAssumption == MaxTime \in Nat /\ DueTimes \subseteq Nat /\ NoTimer \notin Timers

Threads == Callers \cup {Closer}
Frequencies == {1, 2}

VARIABLES
  m_request_queue, m_abort, m_idle,
  m_worker,                     \* m_worker.joinable()
  m_timers,                     \* the worker's set
  now, firing,                  \* locals of process_timers
  wpc, pc, arg,                 \* next statement of worker and threads; a thread's timer
  handle,                       \* timer objects that are not empty
  m_cancelled, m_frequency, m_deadline,
  clock, executor_shut,
  posted,                       \* tasks the executor has not executed, per timer
  due_at, fires, executed       \* history: due time, fire()s, executed at all

worker == <<m_timers, now, firing>>
timer == <<handle, m_cancelled, m_frequency, m_deadline, due_at>>
outside == <<posted, executed, clock, executor_shut>>
vars == <<m_request_queue, m_abort, m_idle, m_worker, worker, wpc, pc, arg, timer, fires, outside>>

Never == MaxTime + 1

Init ==
  /\ m_request_queue = <<>>
  /\ m_abort = FALSE
  /\ m_idle = TRUE
  /\ m_worker = FALSE
  /\ m_timers = {}
  /\ now = 0
  /\ firing = NoTimer
  /\ wpc = "none"
  /\ pc = [c \in Threads |-> "idle"]
  /\ arg = [c \in Threads |-> NoTimer]
  /\ handle = [t \in Timers |-> FALSE]
  /\ m_cancelled = [t \in Timers |-> FALSE]
  /\ m_frequency = [t \in Timers |-> IF t \in Regular THEN 1 ELSE 0]
  /\ m_deadline = [t \in Timers |-> Never]
  /\ clock = 0
  /\ executor_shut = FALSE
  /\ posted = [t \in Timers |-> 0]
  /\ due_at = [t \in Timers |-> Never]
  /\ fires = [t \in Timers |-> 0]
  /\ executed = [t \in Timers |-> FALSE]

Goto(c, from, to) == pc[c] = from /\ pc' = [pc EXCEPT ![c] = to]

Request(t, opt) == m_request_queue' = Append(m_request_queue, [timer |-> t, opt |-> opt])

Requested(t) == \E i \in DOMAIN m_request_queue :
                  m_request_queue[i] = [timer |-> t, opt |-> "add"]

-----------------------------------------------------------------------------
(* make_timer, make_one_shot_timer and awaiting a delay object: the timer  *)
(* state, with its deadline, is made before the lock is taken.             *)
MakeTimer(c) ==
  /\ Goto(c, "idle", "add")
  /\ \E t \in Timers, due \in DueTimes :
       /\ due_at[t] = Never
       /\ clock + due <= MaxTime
       /\ arg' = [arg EXCEPT ![c] = t]
       /\ due_at' = [due_at EXCEPT ![t] = clock + due]
       /\ m_deadline' = [m_deadline EXCEPT ![t] = clock + due]
  /\ UNCHANGED <<m_request_queue, m_abort, m_idle, m_worker, worker, wpc, handle, m_cancelled,
                 m_frequency, fires, outside>>

EnsureWorkerThread ==
  IF m_idle THEN m_worker' = TRUE /\ wpc' = "lock" /\ m_idle' = FALSE
            ELSE UNCHANGED <<m_worker, wpc, m_idle>>

Accept(c) ==
  /\ Goto(c, "add", "notify")
  /\ EnsureWorkerThread
  /\ Request(arg[c], "add")
  /\ handle' = [handle EXCEPT ![arg[c]] = arg[c] \notin Delay]

(* Mutant of AddTimer: a queue that has been shut down accepts timers.     *)
AddTimer_NoAbortTest(c) ==
  /\ Accept(c)
  /\ UNCHANGED <<m_abort, worker, arg, m_cancelled, m_frequency, m_deadline, due_at, fires, outside>>

(* Mutant of AddTimer: a call that has started the worker begins again.    *)
AddTimer_Retries(c) ==
  /\ pc[c] = "add"
  /\ \/ ~m_abort /\ m_idle /\ EnsureWorkerThread /\ Request(arg[c], "add") /\ UNCHANGED <<pc, handle>>
     \/ ~m_abort /\ ~m_idle /\ Accept(c)
     \/ m_abort /\ Goto(c, "add", "idle") /\ UNCHANGED <<m_request_queue, m_worker, wpc, m_idle, handle>>
  /\ UNCHANGED <<m_abort, worker, arg, m_cancelled, m_frequency, m_deadline, due_at, fires, outside>>

AddTimer(c) ==
  /\ \/ ~m_abort /\ Accept(c)
     \/ m_abort /\ Goto(c, "add", "idle") /\ UNCHANGED <<m_request_queue, m_worker, wpc, m_idle, handle>>
  /\ UNCHANGED <<m_abort, worker, arg, m_cancelled, m_frequency, m_deadline, due_at, fires, outside>>

(* timer::cancel, also of the destructor and of an assignment.             *)
Cancel(c) ==
  /\ Goto(c, "idle", "remove")
  /\ \E t \in Timers :
       /\ handle[t]
       /\ arg' = [arg EXCEPT ![c] = t]
       /\ handle' = [handle EXCEPT ![t] = FALSE]
       /\ m_cancelled' = [m_cancelled EXCEPT ![t] = TRUE]
  /\ UNCHANGED <<m_request_queue, m_abort, m_idle, m_worker, worker, wpc, m_frequency, m_deadline,
                 due_at, fires, outside>>

RemoveInternalTimer(c) ==
  /\ Goto(c, "remove", "notify")
  /\ Request(arg[c], "remove")
  /\ UNCHANGED <<m_abort, m_idle, m_worker, worker, wpc, arg, timer, fires, outside>>

Notify(c) ==
  /\ Goto(c, "notify", "idle")
  /\ wpc' = IF wpc = "wait" THEN "lock" ELSE wpc
  /\ arg' = [arg EXCEPT ![c] = NoTimer]
  /\ UNCHANGED <<m_request_queue, m_abort, m_idle, m_worker, worker, timer, fires, outside>>

SetFrequency(t) ==
  /\ handle[t]
  /\ \E f \in Frequencies : m_frequency' = [m_frequency EXCEPT ![t] = f]
  /\ UNCHANGED <<m_request_queue, m_abort, m_idle, m_worker, worker, wpc, pc, arg, handle,
                 m_cancelled, m_deadline, due_at, fires, outside>>

-----------------------------------------------------------------------------
(* The worker: work_loop and timer_queue_internal::process_timers.         *)

Pred == m_request_queue # <<>> \/ m_abort

RemovedBetween(t, i, k) ==
  \E j \in DOMAIN m_request_queue :
    i < j /\ j < k /\ m_request_queue[j] = [timer |-> t, opt |-> "remove"]

(* The set contains the timer when process_request_queue, which serves the *)
(* requests in their order, has served those before request k.             *)
Contains(t, k) ==
  \/ t \in m_timers /\ ~RemovedBetween(t, 0, k)
  \/ \E i \in DOMAIN m_request_queue :
       /\ i < k
       /\ m_request_queue[i] = [timer |-> t, opt |-> "add"]
       /\ ~RemovedBetween(t, i, k)

(* What follows the wait.                                                  *)
TakeRequests ==
  IF m_abort THEN wpc' = "none" /\ m_timers' = {} /\ UNCHANGED m_request_queue
  ELSE /\ m_timers' = {t \in Timers : Contains(t, Len(m_request_queue) + 1)}
       /\ m_request_queue' = <<>>
       /\ wpc' = "now"

(* The wait evaluates its predicate first, and again when it is woken.     *)
Wait ==
  /\ wpc = "lock"
  /\ IF Pred THEN TakeRequests ELSE wpc' = "wait" /\ UNCHANGED <<m_timers, m_request_queue>>
  /\ UNCHANGED <<m_abort, m_idle, m_worker, now, firing, pc, arg, timer, fires, outside>>

(* The first timers of the set.  Their deadline is next_deadline: while    *)
(* the worker waits, neither the set nor a deadline in it changes.         *)
Closest == {t \in m_timers : \A u \in m_timers : m_deadline[t] <= m_deadline[u]}

(* At the next deadline or, without timers, after m_max_waiting_time.      *)
Timeout ==
  /\ wpc = "wait"
  /\ \A t \in Closest : m_deadline[t] <= clock
  /\ wpc' = "timed_out"
  /\ UNCHANGED <<m_request_queue, m_abort, m_idle, m_worker, worker, pc, arg, timer, fires, outside>>

(* Mutant of TimedOut: the predicate is not evaluated after a time-out.    *)
TimedOut_NoRecheck ==
  /\ wpc = "timed_out"
  /\ IF m_timers = {}
     THEN m_idle' = TRUE /\ wpc' = "none" /\ UNCHANGED <<m_timers, m_request_queue>>
     ELSE TakeRequests /\ UNCHANGED m_idle
  /\ UNCHANGED <<m_abort, m_worker, now, firing, pc, arg, timer, fires, outside>>

(* Mutant of TimedOut: the thread leaves without a word.                   *)
TimedOut_NotIdle ==
  /\ wpc = "timed_out"
  /\ IF m_timers = {} /\ ~Pred
     THEN wpc' = "none" /\ UNCHANGED <<m_timers, m_request_queue>>
     ELSE TakeRequests
  /\ UNCHANGED <<m_abort, m_idle, m_worker, now, firing, pc, arg, timer, fires, outside>>

TimedOut ==
  /\ wpc = "timed_out"
  /\ IF m_timers = {} /\ ~Pred
     THEN m_idle' = TRUE /\ wpc' = "none" /\ UNCHANGED <<m_timers, m_request_queue>>
     ELSE TakeRequests /\ UNCHANGED m_idle
  /\ UNCHANGED <<m_abort, m_worker, now, firing, pc, arg, timer, fires, outside>>

ReadClock ==
  /\ wpc = "now"
  /\ now' = clock
  /\ wpc' = "loop"
  /\ UNCHANGED <<m_request_queue, m_abort, m_idle, m_worker, m_timers, firing, pc, arg,
                 timer, fires, outside>>

(* Mutant of Extract: the timer stays in the set while it is changed.      *)
Extract_Stays ==
  /\ wpc = "loop"
  /\ \E t \in Closest :
       /\ m_deadline[t] <= now
       /\ m_timers' = IF m_cancelled[t] THEN m_timers \ {t} ELSE m_timers
       /\ firing' = IF m_cancelled[t] THEN NoTimer ELSE t
       /\ wpc' = IF m_cancelled[t] THEN "loop" ELSE "fire"
  /\ UNCHANGED <<m_request_queue, m_abort, m_idle, m_worker, now, pc, arg, timer,
                 fires, outside>>

(* Take an expired timer out; a cancelled one dies.                        *)
Extract ==
  /\ wpc = "loop"
  /\ \E t \in Closest :
       /\ m_deadline[t] <= now
       /\ m_timers' = m_timers \ {t}
       /\ firing' = IF m_cancelled[t] THEN NoTimer ELSE t
       /\ wpc' = IF m_cancelled[t] THEN "loop" ELSE "fire"
  /\ UNCHANGED <<m_request_queue, m_abort, m_idle, m_worker, now, pc, arg, timer,
                 fires, outside>>

Reinsert == m_timers' = IF firing \in Regular THEN m_timers \cup {firing} ELSE m_timers

(* Mutant of Fire: the deadline is not moved.                              *)
Fire_SameDeadline ==
  /\ wpc = "fire"
  /\ ~executor_shut
  /\ posted' = [posted EXCEPT ![firing] = @ + 1]
  /\ fires' = [fires EXCEPT ![firing] = @ + 1]
  /\ Reinsert
  /\ firing' = NoTimer
  /\ wpc' = "loop"
  /\ UNCHANGED <<m_request_queue, m_abort, m_idle, m_worker, now, pc, arg, timer,
                 executed, clock, executor_shut>>

(* fire() and what process_timers does with the timer afterwards.  A post  *)
(* to an executor that has been shut down throws, out of the thread's      *)
(* function: the program is terminated.                                    *)
Fire ==
  /\ wpc = "fire"
  /\ \/ executor_shut /\ wpc' = "terminated" /\ UNCHANGED <<m_deadline, posted, fires, m_timers, firing>>
     \/ /\ ~executor_shut
        /\ m_deadline' = [m_deadline EXCEPT ![firing] = clock + m_frequency[firing]]
        /\ posted' = [posted EXCEPT ![firing] = @ + 1]
        /\ fires' = [fires EXCEPT ![firing] = @ + 1]
        /\ Reinsert
        /\ firing' = NoTimer
        /\ wpc' = "loop"
  /\ UNCHANGED <<m_request_queue, m_abort, m_idle, m_worker, now, pc, arg, handle,
                 m_cancelled, m_frequency, due_at, executed, clock, executor_shut>>

ProcessingDone ==
  /\ wpc = "loop"
  /\ \A t \in Closest : m_deadline[t] > now
  /\ now' = 0
  /\ wpc' = "lock"
  /\ UNCHANGED <<m_request_queue, m_abort, m_idle, m_worker, m_timers, firing, pc, arg, timer,
                 fires, outside>>

-----------------------------------------------------------------------------
(* timer_state::execute, on a thread of the executor.                      *)
Execute(t) ==
  /\ posted[t] > 0
  /\ posted' = [posted EXCEPT ![t] = @ - 1]
  /\ executed' = [executed EXCEPT ![t] = @ \/ ~m_cancelled[t]]
  /\ UNCHANGED <<m_request_queue, m_abort, m_idle, m_worker, worker, wpc, pc, arg, timer, fires,
                 clock, executor_shut>>

ShutDownExecutor ==
  /\ ~executor_shut
  /\ executor_shut' = TRUE
  /\ posted' = [t \in Timers |-> 0]
  /\ UNCHANGED <<m_request_queue, m_abort, m_idle, m_worker, worker, wpc, pc, arg, timer, fires,
                 executed, clock>>

(* shutdown; a second call returns at once.                                *)
Shutdown ==
  /\ ~m_abort
  /\ m_abort' = TRUE
  /\ IF m_worker THEN Goto(Closer, "idle", "notify_all") /\ m_request_queue' = <<>>
                 ELSE UNCHANGED <<pc, m_request_queue>>
  /\ UNCHANGED <<m_idle, m_worker, worker, wpc, arg, timer, fires, outside>>

NotifyAll ==
  /\ Goto(Closer, "notify_all", "join")
  /\ wpc' = IF wpc = "wait" THEN "lock" ELSE wpc
  /\ UNCHANGED <<m_request_queue, m_abort, m_idle, m_worker, worker, arg, timer, fires, outside>>

Join ==
  /\ Goto(Closer, "join", "idle")
  /\ wpc = "none"
  /\ m_worker' = FALSE
  /\ UNCHANGED <<m_request_queue, m_abort, m_idle, worker, wpc, arg, timer, fires, outside>>

Tick ==
  /\ clock < MaxTime
  /\ clock' = clock + 1
  /\ UNCHANGED <<m_request_queue, m_abort, m_idle, m_worker, worker, wpc, pc, arg, timer, fires,
                 posted, executed, executor_shut>>

-----------------------------------------------------------------------------
WorkLoop == Wait \/ Timeout \/ TimedOut \/ ReadClock \/ Extract \/ Fire \/ ProcessingDone

CallerSteps(c) == AddTimer(c) \/ RemoveInternalTimer(c) \/ Notify(c)

Next == /\ wpc # "terminated"
        /\ \/ WorkLoop
           \/ \E c \in Callers : MakeTimer(c) \/ Cancel(c) \/ CallerSteps(c)
           \/ \E t \in Regular : SetFrequency(t)
           \/ \E t \in Timers : Execute(t)
           \/ ShutDownExecutor \/ Shutdown \/ NotifyAll \/ Join \/ Tick

Spec == Init /\ [][Next]_vars

Alive(A) == wpc # "terminated" /\ A

(* Time passes, threads are scheduled, the executor executes its tasks.    *)
FairSpec == /\ Spec
            /\ WF_vars(WorkLoop)
            /\ \A c \in Callers : WF_vars(Alive(CallerSteps(c)))
            /\ \A t \in Timers : WF_vars(Alive(Execute(t)))
            /\ WF_vars(Alive(NotifyAll \/ Join))
            /\ WF_vars(Alive(Tick))
-----------------------------------------------------------------------------
(* Every variable has a value the code can give it; the set is ordered by  *)
(* deadline, so the timer whose deadline changes is not in it.             *)
TypeOK ==
  /\ m_request_queue \in Seq([timer : Timers, opt : {"add", "remove"}])
  /\ {m_abort, m_idle, m_worker, executor_shut} \subseteq BOOLEAN
  /\ m_timers \subseteq Timers
  /\ now \in 0 .. MaxTime
  /\ firing \in (Timers \cup {NoTimer}) \ m_timers
  /\ wpc \in {"none", "lock", "wait", "timed_out", "now", "loop", "fire", "terminated"}
  /\ pc \in [Threads -> {"idle", "add", "remove", "notify", "notify_all", "join"}]
  /\ arg \in [Threads -> Timers \cup {NoTimer}]
  /\ handle \in [Timers -> BOOLEAN]
  /\ m_cancelled \in [Timers -> BOOLEAN]
  /\ m_frequency \in [Timers -> Frequencies \cup {0}]
  /\ m_deadline \in [Timers -> 0 .. MaxTime + 2]
  /\ clock \in 0 .. MaxTime
  /\ \A t \in Timers : posted[t] \in 0 .. fires[t]
  /\ executed \in [Timers -> BOOLEAN]

(* The assertions of process_request_queue: a timer that is to be added is *)
(* not in the set, and one that is to be removed and is not there has been *)
(* cancelled or is no regular timer, which leaves by being fired.          *)
AssertionsHold ==
  \A k \in DOMAIN m_request_queue :
    LET t == m_request_queue[k].timer
    IN IF m_request_queue[k].opt = "add" THEN ~Contains(t, k)
       ELSE Contains(t, k) \/ t \notin Regular \/ m_cancelled[t]

(* A timer in the set or about to enter it has a worker that looks after   *)
(* it, although the worker ends whenever it has been idle for long enough. *)
WorkerPresent ==
  ~m_abort /\ (m_timers # {} \/ \E t \in Timers : Requested(t)) => wpc # "none" /\ ~m_idle

(* No timer is fired before its due time, one-shot timers and delays are   *)
(* fired once, and a regular timer never in quicker succession than its    *)
(* frequency (at least 1) allows.                                          *)
FiresOnTime ==
  \A t \in Timers : fires[t] > 0 =>
    fires[t] <= IF t \in Regular THEN 1 + clock - due_at[t] ELSE IF due_at[t] <= clock THEN 1 ELSE 0

Pending(t) == (t \in m_timers \/ Requested(t)) /\ ~m_cancelled[t]

(* A timer that is not cancelled does not stay expired: it is fired.  One  *)
(* that is cancelled, even while process_timers fires it and puts it back, *)
(* is in the end forgotten for good.  Unless the queue is shut down or a   *)
(* post has ended the program.                                             *)
TimersServed ==
  \A t \in Timers :
    /\ (Pending(t) /\ m_deadline[t] <= clock) ~>
         (~Pending(t) \/ m_deadline[t] > clock \/ m_abort \/ wpc = "terminated")
    /\ m_cancelled[t] ~> ([](t \notin m_timers /\ firing # t) \/ m_abort \/ wpc = "terminated")

(* The timer state, and with it the coroutine awaiting a delay, is alive.  *)
Referenced(t) == \/ Requested(t) \/ t \in m_timers \/ firing = t \/ posted[t] > 0
                 \/ \E c \in Callers : pc[c] = "add" /\ arg[c] = t

(* A coroutine that awaits a delay object is always resumed: after the     *)
(* delay, or interrupted when the last reference to its timer goes,        *)
(* whenever the queue and the executor are shut down.                      *)
DelaysResume ==
  \A t \in Delay : (due_at[t] # Never) ~> (executed[t] \/ ~Referenced(t) \/ wpc = "terminated")
=============================================================================
