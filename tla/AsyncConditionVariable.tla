----------------------- MODULE AsyncConditionVariable -----------------------
(***************************************************************************)
(* async_condition_variable together with async_lock, used as its users    *)
(* do: consumers lock, await until there is an item, take it and unlock;   *)
(* producers lock, add an item, unlock and notify.                         *)
(*                                                                         *)
(* unlock() and notify_*() resume other coroutines inline: "caller" says   *)
(* on top of whom a coroutine runs, and nobody goes on while somebody runs *)
(* on top of them, locks of a std::mutex held included.                    *)
(***************************************************************************)
EXTENDS Integers, Sequences, FiniteSets

CONSTANTS Producers, Consumers, Nobody

Coroutines == Producers \cup Consumers

ASSUME CoroutinesAssumption == IsFiniteSet(Producers) /\ Nobody \notin Coroutines

VARIABLES
  m_locked, lock_awaiters, lpc,   \* the async_lock
  cv_lock,                        \* holder of the condition variable's m_lock
  cv_awaiters,                    \* its suspension queue
  to_resume,                      \* what a notify_all has left to resume
  upc,                            \* where each coroutine is
  caller,                         \* who resumed it inline
  items,                          \* the shared memory the predicate reads
  executor_shut                   \* the resume executor has been shut down

lockVars == <<m_locked, lock_awaiters, lpc>>
cvVars == <<cv_lock, cv_awaiters, to_resume>>
vars == <<lockVars, cvVars, upc, caller, items, executor_shut>>

L == INSTANCE AsyncLock WITH m_awaiters <- lock_awaiters

Init ==
  /\ L!Init
  /\ cv_lock = Nobody
  /\ cv_awaiters = <<>>
  /\ to_resume = [c \in Coroutines |-> <<>>]
  /\ upc = [c \in Coroutines |-> "start"]
  /\ caller = [c \in Coroutines |-> Nobody]
  /\ items = 0
  /\ executor_shut = FALSE

-----------------------------------------------------------------------------
(* c is at a statement and not below another coroutine on its stack.       *)
At(c, where) == upc[c] = where /\ \A b \in Coroutines : caller[b] # c

Goto(c, to) == upc' = [upc EXCEPT ![c] = to]

(* c suspends or ends: whoever resumed it goes on.                         *)
Suspend(c) == caller' = [caller EXCEPT ![c] = Nobody]

SuspendIf(c, condition) == IF condition THEN Suspend(c) ELSE UNCHANGED caller

ResumeInline(c, awaiters) ==
  caller' = IF awaiters = <<>> THEN caller ELSE [caller EXCEPT ![Head(awaiters)] = c]

Inside(c) == lpc[c] = "in"

-----------------------------------------------------------------------------
(* The lock, as the coroutines use it.                                     *)

Lock(c) ==
  /\ At(c, "start") \/ At(c, "relock")
  /\ L!Lock(c)
  /\ Goto(c, "locking")
  /\ SuspendIf(c, m_locked)
  /\ UNCHANGED <<cvVars, items, executor_shut>>

(* A try_lock that fails changes nothing.                                  *)
TryLock(c) ==
  /\ At(c, "start")
  /\ L!TryLock(c)
  /\ Goto(c, "locking")
  /\ UNCHANGED <<cvVars, caller, items, executor_shut>>

Retry(c) ==
  /\ L!Retry(c)
  /\ SuspendIf(c, m_locked)
  /\ UNCHANGED <<cvVars, upc, items, executor_shut>>

(* resume_on: an executor that has been shut down throws, which destroys   *)
(* the continuation and so resumes it inline, interrupted.                 *)
ResumeOn(c) ==
  /\ \/ ~executor_shut /\ L!Post(c) /\ Suspend(c)
     \/ executor_shut /\ lpc[c] = "resume_on" /\ L!Interrupt(c) /\ UNCHANGED caller
  /\ UNCHANGED <<cvVars, upc, items, executor_shut>>

(* The executor runs the continuation or, shut down, destroys it.          *)
RunPosted(c) ==
  /\ L!Resume(c) \/ (executor_shut /\ lpc[c] = "posted" /\ L!Interrupt(c))
  /\ UNCHANGED <<cvVars, upc, caller, items, executor_shut>>

ReleaseInterrupted(c) ==
  /\ L!ReleaseInterrupted(c)
  /\ ResumeInline(c, lock_awaiters)
  /\ Goto(c, "unwinding")
  /\ UNCHANGED <<cvVars, items, executor_shut>>

(* The exception ends the coroutine.                                       *)
Unwind(c) ==
  /\ At(c, "unwinding")
  /\ Goto(c, "failed")
  /\ Suspend(c)
  /\ UNCHANGED <<lockVars, cvVars, items, executor_shut>>

(* The producer's critical section.                                        *)
Produce(c) ==
  /\ c \in Producers
  /\ At(c, "locking")
  /\ Inside(c)
  /\ items' = items + 1
  /\ Goto(c, "unlock")
  /\ UNCHANGED <<lockVars, cvVars, caller, executor_shut>>

Unlock(c) ==
  /\ At(c, "unlock")
  /\ L!Unlock(c)
  /\ ResumeInline(c, lock_awaiters)
  /\ Goto(c, IF c \in Producers THEN "notify" ELSE "done")
  /\ UNCHANGED <<cvVars, items, executor_shut>>

-----------------------------------------------------------------------------
(* await with a predicate: the predicate is evaluated with the lock held.  *)

(* Mutant of AwaitPredicate: the predicate is negated.                     *)
AwaitPredicate_Negated(c) ==
  /\ c \in Consumers
  /\ At(c, "locking")
  /\ Inside(c)
  /\ \/ items = 0 /\ items' = items - 1 /\ Goto(c, "unlock")
     \/ items > 0 /\ UNCHANGED items /\ Goto(c, "await")
  /\ UNCHANGED <<lockVars, cvVars, caller, executor_shut>>

AwaitPredicate(c) ==
  /\ c \in Consumers
  /\ At(c, "locking")
  /\ Inside(c)
  /\ \/ items > 0 /\ items' = items - 1 /\ Goto(c, "unlock")
     \/ items = 0 /\ UNCHANGED items /\ Goto(c, "await")
  /\ UNCHANGED <<lockVars, cvVars, caller, executor_shut>>

(* Mutant of AwaitLock: the queue's mutex is not taken before the unlock.  *)
AwaitLock_Omitted(c) ==
  /\ At(c, "await")
  /\ Goto(c, "await_unlock")
  /\ UNCHANGED <<lockVars, cvVars, caller, items, executor_shut>>

(* cv_awaiter::await_suspend: lock the queue, unlock the async_lock (which *)
(* resumes a coroutine inline), enter the queue.                           *)
AwaitLock(c) ==
  /\ At(c, "await")
  /\ cv_lock = Nobody
  /\ cv_lock' = c
  /\ Goto(c, "await_unlock")
  /\ UNCHANGED <<lockVars, cv_awaiters, to_resume, caller, items, executor_shut>>

AwaitUnlock(c) ==
  /\ At(c, "await_unlock")
  /\ L!Unlock(c)
  /\ ResumeInline(c, lock_awaiters)
  /\ Goto(c, "await_push")
  /\ UNCHANGED <<cvVars, items, executor_shut>>

AwaitPush(c) ==
  /\ At(c, "await_push")
  /\ cv_awaiters' = Append(cv_awaiters, c)
  /\ cv_lock' = Nobody
  /\ Goto(c, "awaiting")
  /\ Suspend(c)
  /\ UNCHANGED <<lockVars, to_resume, items, executor_shut>>

(* await_impl goes on when notified: through the resume executor, then     *)
(* lock again.                                                             *)
AwaitResumeOn(c) ==
  /\ At(c, "notified")
  /\ Goto(c, IF executor_shut THEN "failed" ELSE "await_posted")
  /\ Suspend(c)
  /\ UNCHANGED <<lockVars, cvVars, items, executor_shut>>

AwaitRunPosted(c) ==
  /\ At(c, "await_posted")
  /\ Goto(c, "relock") \/ (executor_shut /\ Goto(c, "failed"))
  /\ UNCHANGED <<lockVars, cvVars, caller, items, executor_shut>>

-----------------------------------------------------------------------------
NotifyOne(c) ==
  /\ At(c, "notify")
  /\ cv_lock = Nobody
  /\ \/ cv_awaiters = <<>> /\ Goto(c, "done") /\ UNCHANGED cv_awaiters
     \/ /\ cv_awaiters # <<>>
        /\ cv_awaiters' = Tail(cv_awaiters)
        /\ upc' = [upc EXCEPT ![c] = "done", ![Head(cv_awaiters)] = "notified"]
  /\ ResumeInline(c, cv_awaiters)
  /\ UNCHANGED <<lockVars, cv_lock, to_resume, items, executor_shut>>

(* Mutant of NotifyAll: the queue is copied.                               *)
NotifyAll_Copy(c) ==
  /\ At(c, "notify")
  /\ cv_lock = Nobody
  /\ to_resume' = [to_resume EXCEPT ![c] = cv_awaiters]
  /\ Goto(c, "notifying")
  /\ UNCHANGED <<lockVars, cv_lock, cv_awaiters, caller, items, executor_shut>>

NotifyAll(c) ==
  /\ At(c, "notify")
  /\ cv_lock = Nobody
  /\ to_resume' = [to_resume EXCEPT ![c] = cv_awaiters]
  /\ cv_awaiters' = <<>>
  /\ Goto(c, "notifying")
  /\ UNCHANGED <<lockVars, cv_lock, caller, items, executor_shut>>

NotifyNext(c) ==
  /\ At(c, "notifying")
  /\ \/ to_resume[c] = <<>> /\ Goto(c, "done") /\ UNCHANGED to_resume
     \/ /\ to_resume[c] # <<>>
        /\ to_resume' = [to_resume EXCEPT ![c] = Tail(@)]
        /\ upc' = [upc EXCEPT ![Head(to_resume[c])] = "notified"]
  /\ ResumeInline(c, to_resume[c])
  /\ UNCHANGED <<lockVars, cv_lock, cv_awaiters, items, executor_shut>>

-----------------------------------------------------------------------------
ShutDownExecutor ==
  /\ ~executor_shut
  /\ executor_shut' = TRUE
  /\ UNCHANGED <<lockVars, cvVars, upc, caller, items>>

Steps(c) ==
  \/ Lock(c) \/ Retry(c) \/ ResumeOn(c) \/ RunPosted(c) \/ ReleaseInterrupted(c) \/ Unwind(c)
  \/ Produce(c) \/ Unlock(c) \/ AwaitPredicate(c) \/ AwaitLock(c) \/ AwaitUnlock(c)
  \/ AwaitPush(c) \/ AwaitResumeOn(c) \/ AwaitRunPosted(c)
  \/ NotifyOne(c) \/ NotifyAll(c) \/ NotifyNext(c)

(* Nothing is left to do; what awaits the condition when the executor has  *)
(* been shut down, or when there are more consumers than items, stays.     *)
Quiescent == (\A c \in Coroutines : upc[c] \in {"done", "failed", "awaiting"}) /\ UNCHANGED vars

Next == \/ \E c \in Coroutines : Steps(c)
        \/ \E c \in Producers : TryLock(c)
        \/ ShutDownExecutor
        \/ Quiescent

Spec == Init /\ [][Next]_vars

(* Coroutines run on threads that are scheduled, and executors run what is *)
(* posted to them.                                                         *)
FairSpec == Spec /\ \A c \in Coroutines : WF_vars(Steps(c))
-----------------------------------------------------------------------------
(* Every variable has a value the code can give it; the predicate is true  *)
(* whenever await returns, so no consumer takes an item that is not there. *)
TypeOK ==
  /\ L!TypeOK
  /\ cv_lock \in Coroutines \cup {Nobody}
  /\ cv_awaiters \in Seq(Coroutines)
  /\ to_resume \in [Coroutines -> Seq(Coroutines)]
  /\ upc \in [Coroutines -> {"start", "relock", "locking", "unwinding", "failed", "unlock",
                             "notify", "notifying", "done", "await", "await_unlock",
                             "await_push", "awaiting", "notified", "await_posted"}]
  /\ caller \in [Coroutines -> Coroutines \cup {Nobody}]
  /\ items \in 0 .. Cardinality(Producers)
  /\ executor_shut \in BOOLEAN

(* The lock excludes, across the suspensions of await and the detours      *)
(* through executors that may fail.                                        *)
MutualExclusion == L!MutualExclusion

(* The lock never forgets who waits for it.                                *)
HandOff == L!HandOff

Queue(c) == IF c = Nobody THEN cv_awaiters ELSE to_resume[c]

(* The queues hold exactly the suspended coroutines, each once, so that    *)
(* notify_* and unlock() resume nobody who runs and nobody twice.          *)
AwaitersSuspended ==
  /\ L!AwaitersSuspended
  /\ LET links == UNION {{<<c, i>> : i \in DOMAIN Queue(c)} : c \in Coroutines \cup {Nobody}}
         Linked(l) == Queue(l[1])[l[2]]
     IN /\ {c \in Coroutines : upc[c] = "awaiting"} = {Linked(l) : l \in links}
        /\ \A l, k \in links : Linked(l) = Linked(k) => l = k

(* "This will atomically unlock the lock and suspend": no consumer waits   *)
(* for ever when each producer adds an item and notifies once, whatever    *)
(* happens between the unlock and the suspension.                          *)
ConsumersServed ==
  <>(executor_shut \/ \A c \in Consumers : upc[c] = "done")
=============================================================================
