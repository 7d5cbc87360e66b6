----------------------------- MODULE AsyncLock -----------------------------
(***************************************************************************)
(* async_lock: a lock for coroutines.  A coroutine that finds it taken is  *)
(* put into m_awaiters and suspended; unlock() takes the first one out and *)
(* resumes it inside its loop, where it tries again and may lose to a      *)
(* coroutine that was not waiting.  One that succeeds on a retry goes on   *)
(* in its resume executor, which may refuse or destroy the continuation.   *)
(*                                                                         *)
(* A critical section of m_awaiter_lock is one step.  Users lock and       *)
(* unlock as they please; AsyncConditionVariable gives them a program.     *)
(***************************************************************************)
EXTENDS Naturals, Sequences

CONSTANT Coroutines

VARIABLES m_locked,
          m_awaiters,  \* suspended coroutines, first in first out
          lpc          \* where each coroutine is in lock_impl

vars == <<m_locked, m_awaiters, lpc>>

Init == /\ m_locked = FALSE
        /\ m_awaiters = <<>>
        /\ lpc = [c \in Coroutines |-> "out"]

Goto(c, to) == lpc' = [lpc EXCEPT ![c] = to]

(* One turn of the loop in lock_impl: take the lock, or suspend.           *)
Attempt(c, acquired) ==
  \/ ~m_locked /\ m_locked' = TRUE /\ Goto(c, acquired) /\ UNCHANGED m_awaiters
  \/ /\ m_locked
     /\ m_awaiters' = Append(m_awaiters, c)
     /\ Goto(c, "suspended")
     /\ UNCHANGED m_locked

(* lock(), scoped_async_lock::lock(): the first attempt, which goes on     *)
(* synchronously when it succeeds.                                         *)
Lock(c) == lpc[c] = "out" /\ Attempt(c, "in")

TryLock(c) == lpc[c] = "out" /\ ~m_locked /\ m_locked' = TRUE /\ Goto(c, "in")
              /\ UNCHANGED m_awaiters

TryLockFails(c) == lpc[c] = "out" /\ m_locked /\ UNCHANGED vars

(* Mutant of Retry: the resumed coroutine takes the lock to be its own.    *)
Retry_Owner(c) ==
  /\ lpc[c] = "retry"
  /\ m_locked' = TRUE
  /\ Goto(c, "resume_on")
  /\ UNCHANGED m_awaiters

Retry(c) == lpc[c] = "retry" /\ Attempt(c, "resume_on")

(* co_await resume_on(resume_executor): post the continuation, which the   *)
(* executor runs or destroys; a post that throws destroys it too.          *)
Post(c) == lpc[c] = "resume_on" /\ Goto(c, "posted") /\ UNCHANGED <<m_locked, m_awaiters>>

Resume(c) == lpc[c] = "posted" /\ Goto(c, "in") /\ UNCHANGED <<m_locked, m_awaiters>>

Interrupt(c) == /\ lpc[c] \in {"resume_on", "posted"}
                /\ Goto(c, "interrupted")
                /\ UNCHANGED <<m_locked, m_awaiters>>

(* Unlock and resume the first awaiter, if there is one.                   *)
Release(c) ==
  /\ m_locked' = FALSE
  /\ \/ m_awaiters = <<>> /\ Goto(c, "out") /\ UNCHANGED m_awaiters
     \/ /\ m_awaiters # <<>>
        /\ m_awaiters' = Tail(m_awaiters)
        /\ lpc' = [lpc EXCEPT ![c] = "out", ![Head(m_awaiters)] = "retry"]

(* Mutant of ReleaseInterrupted: the next awaiter is forgotten.            *)
ReleaseInterrupted_NoRetry(c) ==
  lpc[c] = "interrupted" /\ m_locked' = FALSE /\ Goto(c, "out") /\ UNCHANGED m_awaiters

(* The catch block of lock_impl.                                           *)
ReleaseInterrupted(c) == lpc[c] = "interrupted" /\ Release(c)

Unlock(c) == lpc[c] = "in" /\ Release(c)

Next == \E c \in Coroutines :
          \/ Lock(c) \/ TryLock(c) \/ TryLockFails(c) \/ Retry(c)
          \/ Post(c) \/ Resume(c) \/ Interrupt(c) \/ ReleaseInterrupted(c) \/ Unlock(c)

Spec == Init /\ [][Next]_vars

-----------------------------------------------------------------------------
Holding == {"resume_on", "posted", "interrupted", "in"}

(* Every variable has a value the code can give it.                        *)
TypeOK ==
  /\ m_locked \in BOOLEAN
  /\ m_awaiters \in Seq(Coroutines)
  /\ lpc \in [Coroutines -> Holding \cup {"out", "suspended", "retry"}]

(* At most one coroutine is between taking the lock and releasing it, also *)
(* while its continuation travels through an executor or is destroyed      *)
(* there; and m_locked says whether there is one.                          *)
MutualExclusion ==
  /\ m_locked <=> \E c \in Coroutines : lpc[c] \in Holding
  /\ \A c, d \in Coroutines : lpc[c] \in Holding /\ lpc[d] \in Holding => c = d

(* The lock is never free with coroutines queued for it unless one of them *)
(* has been taken out and is about to try: an awaiter is not forgotten     *)
(* when the one before it loses its retry or its executor.                 *)
HandOff == m_awaiters # <<>> /\ ~m_locked => \E c \in Coroutines : lpc[c] = "retry"

(* m_awaiters links exactly the awaiters of suspended coroutines, each     *)
(* once: retry() never resumes a coroutine that runs.                      *)
AwaitersSuspended ==
  /\ \A c \in Coroutines : lpc[c] = "suspended" <=> \E i \in DOMAIN m_awaiters : m_awaiters[i] = c
  /\ \A i, j \in DOMAIN m_awaiters : m_awaiters[i] = m_awaiters[j] => i = j
=============================================================================
