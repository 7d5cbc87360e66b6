-------------------- MODULE AsyncConditionVariableProofs --------------------
(***************************************************************************)
(* The async_lock excludes and forgets nobody, for any set of coroutines.  *)
(* MutualExclusion is inductive by itself.  HandOff is not: it needs to    *)
(* know that the awaiter unlock() takes out of the queue was suspended,    *)
(* not holding the lock and not retrying already, which AwaitersSuspended  *)
(* says.                                                                   *)
(*                                                                         *)
(* However producers and consumers use the lock, awaiting and notifying,   *)
(* every step of theirs is a step of the async_lock or leaves it alone:    *)
(* what is proved of the lock holds in the composition.  So do the         *)
(* promises of the condition variable's own queues, once the positions of  *)
(* a coroutine in the two components are tied to each other.               *)
(***************************************************************************)
EXTENDS AsyncConditionVariable, TLAPS

(* A leaf is for Zenon unless it names another prover.                     *)
USE Zenon

(* The inductive invariant of the lock.                                    *)
LockInv == L!TypeOK /\ L!MutualExclusion /\ L!HandOff /\ L!AwaitersSuspended

(* A new lock is free and nobody waits for it.                             *)
LEMMA InitLockInv == L!Init => LockInv
<1> SUFFICES ASSUME L!Init PROVE LockInv  OBVIOUS
<1> USE DEF L!Init, L!Holding
<1>1. L!TypeOK
  <2>1. m_locked \in BOOLEAN  OBVIOUS
  <2>2. lock_awaiters \in Seq(Coroutines)  BY SMT
  <2>3. lpc \in [Coroutines -> L!Holding \cup {"out", "suspended", "retry"}]  OBVIOUS
  <2> QED BY <2>1, <2>2, <2>3 DEF L!TypeOK
<1>2. L!MutualExclusion  BY DEF L!MutualExclusion
<1>3. L!HandOff  BY DEF L!HandOff
<1>4. L!AwaitersSuspended  BY SMT DEF L!AwaitersSuspended
<1> QED BY <1>1, <1>2, <1>3, <1>4 DEF LockInv

(* One turn of the loop in lock_impl, by a coroutine that has not got the  *)
(* lock and is not suspended, keeps the invariant.                         *)
LEMMA LockAttempt ==
  ASSUME LockInv, NEW c \in Coroutines, NEW to \in {"in", "resume_on"},
         lpc[c] \in {"out", "retry"}, L!Attempt(c, to)
  PROVE  LockInv'
<1> USE DEF LockInv, L!Goto, L!Holding
<1>1. CASE ~m_locked /\ m_locked' = TRUE /\ L!Goto(c, to) /\ UNCHANGED lock_awaiters
  <2>1. L!TypeOK'  BY <1>1 DEF L!TypeOK
  <2>2. L!MutualExclusion'  BY <1>1, SMT DEF L!TypeOK, L!MutualExclusion
  <2>3. L!HandOff'  BY <1>1 DEF L!HandOff
  <2>4. L!AwaitersSuspended'  BY <1>1 DEF L!TypeOK, L!AwaitersSuspended
  <2> QED BY <2>1, <2>2, <2>3, <2>4
<1>2. CASE /\ m_locked
           /\ lock_awaiters' = Append(lock_awaiters, c)
           /\ L!Goto(c, "suspended")
           /\ UNCHANGED m_locked
  <2>1. L!TypeOK'  BY <1>2, SMT DEF L!TypeOK
  <2>2. L!MutualExclusion'  BY <1>2 DEF L!TypeOK, L!MutualExclusion
  <2>3. L!HandOff'  BY <1>2 DEF L!HandOff
  <2>4. L!AwaitersSuspended'  BY <1>2, SMT DEF L!TypeOK, L!AwaitersSuspended
  <2> QED BY <2>1, <2>2, <2>3, <2>4
<1> QED BY <1>1, <1>2 DEF L!Attempt

(* Unlocking, with the resumption of the first awaiter, keeps it.          *)
LEMMA LockRelease ==
  ASSUME LockInv, NEW c \in Coroutines, lpc[c] \in L!Holding, L!Release(c)
  PROVE  LockInv'
<1> USE DEF LockInv, L!Goto, L!Holding
<1>1. CASE lock_awaiters = <<>>
  <2>0. m_locked' = FALSE /\ L!Goto(c, "out") /\ UNCHANGED lock_awaiters  BY <1>1 DEF L!Release
  <2>1. L!TypeOK'  BY <2>0 DEF L!TypeOK
  <2>2. L!MutualExclusion'  BY <2>0 DEF L!TypeOK, L!MutualExclusion
  <2>3. L!HandOff'  BY <1>1, <2>0 DEF L!HandOff
  <2>4. L!AwaitersSuspended'  BY <1>1, <2>0, SMT DEF L!TypeOK, L!AwaitersSuspended
  <2> QED BY <2>1, <2>2, <2>3, <2>4
<1>2. CASE lock_awaiters # <<>>
  <2> DEFINE first == Head(lock_awaiters)
  <2>0. /\ m_locked' = FALSE
        /\ lock_awaiters' = Tail(lock_awaiters)
        /\ lpc' = [lpc EXCEPT ![c] = "out", ![first] = "retry"]
    BY <1>2 DEF L!Release
  <2>a. first \in Coroutines /\ first = lock_awaiters[1] /\ 1 \in DOMAIN lock_awaiters
    BY <1>2, SMT DEF L!TypeOK
  <2>b. lpc[first] = "suspended" /\ first # c  BY <2>a DEF L!AwaitersSuspended
  <2>1. L!TypeOK'
    <3>1. lock_awaiters' \in Seq(Coroutines)  BY <2>0, <1>2, SMT DEF L!TypeOK
    <3>2. m_locked' \in BOOLEAN  BY <2>0
    <3>3. lpc' \in [Coroutines -> L!Holding \cup {"out", "suspended", "retry"}]  BY <2>0, <2>a DEF L!TypeOK
    <3> QED BY <3>1, <3>2, <3>3 DEF L!TypeOK
  <2>2. L!MutualExclusion'  BY <2>0, <2>a, <2>b, SMT DEF L!TypeOK, L!MutualExclusion
  <2>3. L!HandOff'  BY <2>0, <2>a DEF L!TypeOK, L!HandOff
  <2>4. L!AwaitersSuspended'
    <3> HIDE DEF first
    <3>1. /\ Len(lock_awaiters') = Len(lock_awaiters) - 1
          /\ Len(lock_awaiters) \in Nat /\ Len(lock_awaiters') \in Nat
          /\ \A i \in 1 .. Len(lock_awaiters') : lock_awaiters'[i] = lock_awaiters[i + 1]
          /\ DOMAIN lock_awaiters' = 1 .. Len(lock_awaiters')
          /\ DOMAIN lock_awaiters = 1 .. Len(lock_awaiters)
      BY <2>0, <1>2, <2>1, SMT DEF L!TypeOK
    <3>2. ASSUME NEW i \in DOMAIN lock_awaiters', NEW j \in DOMAIN lock_awaiters',
                 lock_awaiters'[i] = lock_awaiters'[j]
          PROVE  i = j
      <4>1. /\ i \in Int /\ i + 1 \in DOMAIN lock_awaiters /\ lock_awaiters'[i] = lock_awaiters[i + 1]
            /\ j \in Int /\ j + 1 \in DOMAIN lock_awaiters /\ lock_awaiters'[j] = lock_awaiters[j + 1]
        BY <3>1, SMT
      <4>2. \A k, l \in DOMAIN lock_awaiters : lock_awaiters[k] = lock_awaiters[l] => k = l
        BY DEF L!AwaitersSuspended
      <4>3. lock_awaiters[i + 1] = lock_awaiters[j + 1]  BY <3>2, <4>1
      <4>4. i + 1 = j + 1  BY <4>1, <4>2, <4>3
      <4> QED BY <4>1, <4>4, SMT
    <3>3. ASSUME NEW d \in Coroutines
          PROVE  lpc'[d] = "suspended" <=> \E i \in DOMAIN lock_awaiters' : lock_awaiters'[i] = d
      <4>1. CASE d = c
        <5>1. lpc'[d] # "suspended"  BY <4>1, <2>0, <2>b DEF L!TypeOK
        <5>2. \A i \in DOMAIN lock_awaiters : lock_awaiters[i] # d  BY <4>1 DEF L!AwaitersSuspended
        <5> QED BY <5>1, <5>2, <3>1, SMT
      <4>2. CASE d = first
        <5>1. lpc'[d] # "suspended"  BY <4>2, <2>0, <2>a DEF L!TypeOK
        <5>2. \A i \in DOMAIN lock_awaiters : lock_awaiters[i] = d => i = 1
          BY <4>2, <2>a DEF L!AwaitersSuspended
        <5> QED BY <5>1, <5>2, <3>1, SMT
      <4>3. CASE d # c /\ d # first
        <5>1. lpc'[d] = lpc[d]  BY <4>3, <2>0 DEF L!TypeOK
        <5>2. \A i \in DOMAIN lock_awaiters : lock_awaiters[i] = d => i # 1  BY <4>3, <2>a
        <5>3. (\E i \in DOMAIN lock_awaiters : lock_awaiters[i] = d)
                <=> \E i \in DOMAIN lock_awaiters' : lock_awaiters'[i] = d
          <6>1. ASSUME NEW i \in DOMAIN lock_awaiters, lock_awaiters[i] = d
                PROVE  i - 1 \in DOMAIN lock_awaiters' /\ lock_awaiters'[i - 1] = d
            BY <6>1, <5>2, <3>1, SMT
          <6>2. ASSUME NEW i \in DOMAIN lock_awaiters', lock_awaiters'[i] = d
                PROVE  i + 1 \in DOMAIN lock_awaiters /\ lock_awaiters[i + 1] = d
            BY <6>2, <3>1, SMT
          <6> QED BY <6>1, <6>2
        <5> QED BY <5>1, <5>3 DEF L!AwaitersSuspended
      <4> QED BY <4>1, <4>2, <4>3
    <3> QED BY <3>2, <3>3 DEF L!AwaitersSuspended
  <2> QED BY <2>1, <2>2, <2>3, <2>4
<1> QED BY <1>1, <1>2

(* A step of a coroutine's continuation on its way through the executor    *)
(* keeps the lock held.                                                    *)
LEMMA LockTravel ==
  ASSUME LockInv, NEW c \in Coroutines, NEW to \in L!Holding,
         lpc[c] \in L!Holding, L!Goto(c, to), UNCHANGED <<m_locked, lock_awaiters>>
  PROVE  LockInv'
<1> USE DEF LockInv, L!Goto, L!Holding
<1>1. L!TypeOK'  BY DEF L!TypeOK
<1>2. L!MutualExclusion'  BY DEF L!TypeOK, L!MutualExclusion
<1>3. L!HandOff'  BY DEF L!TypeOK, L!HandOff
<1>4. L!AwaitersSuspended'  BY SMT DEF L!TypeOK, L!AwaitersSuspended
<1> QED BY <1>1, <1>2, <1>3, <1>4

(* Every step keeps the invariant.                                         *)
LEMMA NextLockInv == LockInv /\ [L!Next]_L!vars => LockInv'
<1> SUFFICES ASSUME LockInv, [L!Next]_L!vars PROVE LockInv'  OBVIOUS
<1>1. CASE UNCHANGED L!vars
  BY <1>1 DEF L!vars, LockInv, L!TypeOK, L!MutualExclusion, L!HandOff, L!AwaitersSuspended
<1>2. ASSUME NEW c \in Coroutines, L!Lock(c) PROVE LockInv'  BY <1>2, LockAttempt DEF L!Lock
<1>3. ASSUME NEW c \in Coroutines, L!TryLock(c) PROVE LockInv'  BY <1>3, LockAttempt DEF L!TryLock, L!Attempt
<1>4. ASSUME NEW c \in Coroutines, L!TryLockFails(c) PROVE LockInv'  BY <1>1, <1>4 DEF L!TryLockFails
<1>5. ASSUME NEW c \in Coroutines, L!Retry(c) PROVE LockInv'  BY <1>5, LockAttempt DEF L!Retry
<1>6. ASSUME NEW c \in Coroutines, L!Post(c) PROVE LockInv'  BY <1>6, LockTravel DEF L!Post, L!Holding
<1>7. ASSUME NEW c \in Coroutines, L!Resume(c) PROVE LockInv'  BY <1>7, LockTravel DEF L!Resume, L!Holding
<1>8. ASSUME NEW c \in Coroutines, L!Interrupt(c) PROVE LockInv'
  BY <1>8, LockTravel DEF L!Interrupt, L!Holding
<1>9. ASSUME NEW c \in Coroutines, L!ReleaseInterrupted(c) PROVE LockInv'
  BY <1>9, LockRelease DEF L!ReleaseInterrupted, L!Holding
<1>10. ASSUME NEW c \in Coroutines, L!Unlock(c) PROVE LockInv'  BY <1>10, LockRelease DEF L!Unlock, L!Holding
<1> QED BY <1>1, <1>2, <1>3, <1>4, <1>5, <1>6, <1>7, <1>8, <1>9, <1>10 DEF L!Next

(* The invariant holds in every reachable state.                           *)
THEOREM LockInvariance == L!Spec => []LockInv
BY InitLockInv, NextLockInv, PTL DEF L!Spec

-----------------------------------------------------------------------------
(* The composition starts with a free lock.                                *)
LEMMA InitLock == Init => L!Init
BY DEF Init

(* Every step of the composition is a step of the lock or a stutter.       *)
LEMMA NextLock == [Next]_vars => [L!Next]_L!vars
<1> SUFFICES ASSUME [Next]_vars PROVE [L!Next]_L!vars  OBVIOUS
<1> USE DEF lockVars, L!vars
<1>1. ASSUME NEW c \in Coroutines, Steps(c) PROVE [L!Next]_L!vars
  <2>1. CASE Lock(c)  BY <2>1 DEF Lock, L!Next
  <2>2. CASE Retry(c)  BY <2>2 DEF Retry, L!Next
  <2>3. CASE ResumeOn(c)  BY <2>3 DEF ResumeOn, L!Next
  <2>4. CASE RunPosted(c)  BY <2>4 DEF RunPosted, L!Next
  <2>5. CASE ReleaseInterrupted(c)  BY <2>5 DEF ReleaseInterrupted, L!Next
  <2>6. CASE Unlock(c)  BY <2>6 DEF Unlock, L!Next
  <2>7. CASE AwaitUnlock(c)  BY <2>7 DEF AwaitUnlock, L!Next
  <2>8. CASE Unwind(c) \/ Produce(c) \/ AwaitPredicate(c) \/ AwaitLock(c) \/ AwaitPush(c)
    BY <2>8 DEF Unwind, Produce, AwaitPredicate, AwaitLock, AwaitPush
  <2>9. CASE AwaitResumeOn(c) \/ AwaitRunPosted(c) \/ NotifyOne(c) \/ NotifyAll(c) \/ NotifyNext(c)
    BY <2>9 DEF AwaitResumeOn, AwaitRunPosted, NotifyOne, NotifyAll, NotifyNext
  <2> QED BY <1>1, <2>1, <2>2, <2>3, <2>4, <2>5, <2>6, <2>7, <2>8, <2>9 DEF Steps
<1>2. ASSUME NEW c \in Producers, TryLock(c) PROVE [L!Next]_L!vars  BY <1>2 DEF TryLock, L!Next, Coroutines
<1>3. CASE ShutDownExecutor  BY <1>3 DEF ShutDownExecutor
<1>4. CASE Quiescent \/ UNCHANGED vars  BY <1>4 DEF Quiescent, vars
<1> QED BY <1>1, <1>2, <1>3, <1>4 DEF Next

(* Producers and consumers use the lock as it is meant to be used.         *)
THEOREM ImplementsLock == Spec => L!Spec
BY InitLock, NextLock, PTL DEF Spec, L!Spec

(* At most one producer or consumer is in its critical section, also       *)
(* between the unlock of await and the lock it takes when it is notified,  *)
(* and with an executor that refuses or destroys continuations.            *)
THEOREM Exclusion == Spec => []MutualExclusion
<1>1. LockInv => MutualExclusion  BY DEF LockInv, MutualExclusion
<1> QED BY ImplementsLock, LockInvariance, <1>1, PTL

(* The lock forgets no coroutine, whoever loses its executor.              *)
THEOREM NobodyForgotten == Spec => []HandOff
<1>1. LockInv => HandOff  BY DEF LockInv, HandOff
<1> QED BY ImplementsLock, LockInvariance, <1>1, PTL

-----------------------------------------------------------------------------
Owners == Coroutines \cup {Nobody}
Queues == [d \in Owners |-> Queue(d)]

Places == {"start", "relock", "locking", "unwinding", "failed", "unlock", "notify", "notifying",
           "done", "await", "await_unlock", "await_push", "awaiting", "notified", "await_posted"}

(* The queues in Q hold the coroutines that u says are awaiting, once.     *)
Hold(Q, u) ==
  /\ \A d \in Owners : \A i \in DOMAIN Q[d] : u[Q[d][i]] = "awaiting"
  /\ \A c \in Coroutines : u[c] = "awaiting" => \E d \in Owners : \E i \in DOMAIN Q[d] : Q[d][i] = c
  /\ \A d, e \in Owners : \A i \in DOMAIN Q[d], j \in DOMAIN Q[e] : Q[d][i] = Q[e][j] => d = e /\ i = j

(* Where a coroutine is in lock_impl, and where in its program.            *)
Positions ==
  \A c \in Coroutines :
    /\ lpc[c] \in {"suspended", "retry", "resume_on", "posted", "interrupted"} => upc[c] = "locking"
    /\ lpc[c] = "in" => upc[c] \in {"locking", "unlock", "await", "await_unlock"}
    /\ upc[c] # "notifying" => to_resume[c] = <<>>

(* Every item was added by a producer that does not come back.             *)
Produced == {c \in Producers : upc[c] \in {"unlock", "notify", "notifying", "done"}}
Counted == items \in Nat /\ items <= Cardinality(Produced)

Types ==
  /\ cv_lock \in Owners
  /\ cv_awaiters \in Seq(Coroutines)
  /\ to_resume \in [Coroutines -> Seq(Coroutines)]
  /\ upc \in [Coroutines -> Places]
  /\ caller \in [Coroutines -> Owners]
  /\ executor_shut \in BOOLEAN

(* The inductive invariant of the composition.                             *)
IInv == LockInv /\ Types /\ Positions /\ Hold(Queues, upc) /\ Counted

-----------------------------------------------------------------------------
(* A coroutine that does not await goes elsewhere.                         *)
LEMMA MoveHolds ==
  ASSUME NEW Q, NEW u \in [Coroutines -> Places], Hold(Q, u), NEW c \in Coroutines,
         u[c] # "awaiting", NEW to \in Places \ {"awaiting"},
         \A d \in Owners : \A i \in DOMAIN Q[d] : Q[d][i] \in Coroutines
  PROVE  Hold(Q, [u EXCEPT ![c] = to])
BY SMT DEF Hold

(* notify_*: the first coroutine is taken out of a queue.                  *)
LEMMA PopHolds ==
  ASSUME NEW Q \in [Owners -> Seq(Coroutines)], NEW u \in [Coroutines -> Places], Hold(Q, u),
         NEW d \in Owners, Q[d] # <<>>
  PROVE  /\ Head(Q[d]) \in Coroutines /\ u[Head(Q[d])] = "awaiting"
         /\ Hold([Q EXCEPT ![d] = Tail(@)], [u EXCEPT ![Head(Q[d])] = "notified"])
<1> DEFINE first == Head(Q[d])
<1> DEFINE rest == Tail(Q[d])
<1> DEFINE R == [Q EXCEPT ![d] = Tail(@)]
<1> DEFINE v == [u EXCEPT ![first] = "notified"]
<1>1. Q[d] \in Seq(Coroutines)  OBVIOUS
<1>2. /\ Len(Q[d]) \in Nat \ {0}
      /\ DOMAIN Q[d] = 1 .. Len(Q[d])
      /\ DOMAIN rest = 1 .. Len(Q[d]) - 1
      /\ \A i \in 1 .. Len(Q[d]) - 1 : rest[i] = Q[d][i + 1]
      /\ first = Q[d][1] /\ first \in Coroutines
  BY <1>1, SMT
<1>3. R[d] = rest /\ \A e \in Owners : e # d => R[e] = Q[e]  OBVIOUS
<1>4. 1 \in DOMAIN Q[d]  BY <1>2, SMT
<1>5. u[first] = "awaiting"  BY <1>2, <1>4, SMT DEF Hold
<1>6. v[first] = "notified" /\ \A c \in Coroutines : c # first => v[c] = u[c]  BY <1>2
<1> HIDE DEF first, rest, R, v
<1>7. ASSUME NEW e \in Owners, NEW i \in DOMAIN R[e]
      PROVE  \E j \in DOMAIN Q[e] : /\ Q[e][j] = R[e][i] /\ R[e][i] # first /\ R[e][i] \in Coroutines
                                   /\ j = IF e = d THEN i + 1 ELSE i
  <2>1. CASE e = d
    <3>1. i + 1 \in DOMAIN Q[d] /\ Q[d][i + 1] = R[d][i] /\ i + 1 # 1  BY <2>1, <1>2, <1>3, SMT
    <3>2. Q[d][i + 1] # Q[d][1]  BY <3>1, <1>4, SMT DEF Hold
    <3>3. Q[d][i + 1] \in Coroutines  BY <3>1, <1>1, SMT
    <3> QED BY <2>1, <3>1, <3>2, <3>3, <1>2
  <2>2. CASE e # d
    <3>1. R[e] = Q[e] /\ Q[e] \in Seq(Coroutines)  BY <2>2, <1>3
    <3>2. Q[e][i] # Q[d][1]  BY <3>1, <2>2, <1>4, SMT DEF Hold
    <3>3. Q[e][i] \in Coroutines  BY <3>1, SMT
    <3> QED BY <2>2, <3>1, <3>2, <3>3, <1>2
  <2> QED BY <2>1, <2>2
<1>8. ASSUME NEW e \in Owners, NEW i \in DOMAIN R[e] PROVE v[R[e][i]] = "awaiting"
  <2>1. PICK j \in DOMAIN Q[e] : Q[e][j] = R[e][i] /\ R[e][i] # first /\ R[e][i] \in Coroutines  BY <1>7
  <2> QED BY <2>1, <1>6, SMT DEF Hold
<1>9. ASSUME NEW c \in Coroutines, v[c] = "awaiting"
      PROVE  \E e \in Owners : \E i \in DOMAIN R[e] : R[e][i] = c
  <2>1. c # first /\ u[c] = "awaiting"  BY <1>9, <1>6
  <2>2. PICK e \in Owners : \E i \in DOMAIN Q[e] : Q[e][i] = c  BY <2>1 DEF Hold
  <2>3. PICK i \in DOMAIN Q[e] : Q[e][i] = c  BY <2>2
  <2>4. CASE e = d
    <3>1. i # 1  BY <2>1, <2>3, <2>4, <1>2
    <3>2. i - 1 \in DOMAIN rest /\ rest[i - 1] = c  BY <3>1, <2>3, <2>4, <1>2, SMT
    <3> QED BY <3>2, <1>3
  <2>5. CASE e # d  BY <2>3, <2>5, <1>3
  <2> QED BY <2>4, <2>5
<1>10. ASSUME NEW e \in Owners, NEW f \in Owners, NEW i \in DOMAIN R[e], NEW j \in DOMAIN R[f],
              R[e][i] = R[f][j]
       PROVE  e = f /\ i = j
  <2>1. PICK k \in DOMAIN Q[e] : Q[e][k] = R[e][i] /\ k = IF e = d THEN i + 1 ELSE i  BY <1>7, SMT
  <2>2. PICK l \in DOMAIN Q[f] : Q[f][l] = R[f][j] /\ l = IF f = d THEN j + 1 ELSE j  BY <1>7, SMT
  <2>3. e = f /\ k = l  BY <2>1, <2>2, <1>10, SMT DEF Hold
  <2>4. CASE e = d
    <3>1. i \in Int /\ j \in Int  BY <2>3, <2>4, <1>2, <1>3, SMT
    <3> QED BY <3>1, <2>1, <2>2, <2>3, <2>4, SMT
  <2>5. CASE e # d  BY <2>1, <2>2, <2>3, <2>5
  <2> QED BY <2>4, <2>5
<1>11. Hold(R, v)  BY <1>8, <1>9, <1>10 DEF Hold
<1> QED BY <1>2, <1>5, <1>11 DEF R, v, first

(* await: a coroutine enters the queue of the condition variable.          *)
LEMMA PushHolds ==
  ASSUME NEW Q \in [Owners -> Seq(Coroutines)], NEW u \in [Coroutines -> Places], Hold(Q, u),
         NEW c \in Coroutines, u[c] # "awaiting"
  PROVE  Hold([Q EXCEPT ![Nobody] = Append(@, c)], [u EXCEPT ![c] = "awaiting"])
<1> DEFINE q == Q[Nobody]
<1> DEFINE r == Append(q, c)
<1> DEFINE R == [Q EXCEPT ![Nobody] = Append(@, c)]
<1> DEFINE v == [u EXCEPT ![c] = "awaiting"]
<1>0. Nobody \in Owners  BY DEF Owners
<1>1. q \in Seq(Coroutines)  BY <1>0
<1>2. /\ Len(q) \in Nat
      /\ DOMAIN q = 1 .. Len(q)
      /\ DOMAIN r = 1 .. Len(q) + 1
      /\ \A i \in 1 .. Len(q) : r[i] = q[i]
      /\ r[Len(q) + 1] = c
  BY <1>1, SMT
<1>3. R[Nobody] = r /\ \A e \in Owners : e # Nobody => R[e] = Q[e]  BY <1>0
<1>4. v[c] = "awaiting" /\ \A d \in Coroutines : d # c => v[d] = u[d]  OBVIOUS
<1>5. \A e \in Owners : \A i \in DOMAIN Q[e] : Q[e][i] \in Coroutines /\ Q[e][i] # c
  <2> SUFFICES ASSUME NEW e \in Owners, NEW i \in DOMAIN Q[e] PROVE Q[e][i] \in Coroutines /\ Q[e][i] # c
    OBVIOUS
  <2>1. Q[e] \in Seq(Coroutines)  OBVIOUS
  <2>2. Q[e][i] \in Coroutines  BY <2>1, SMT
  <2> QED BY <2>2, SMT DEF Hold
<1>6. \A d, e \in Owners : \A i \in DOMAIN Q[d], j \in DOMAIN Q[e] : Q[d][i] = Q[e][j] => d = e /\ i = j
  BY DEF Hold
<1> HIDE DEF q, r, R, v
<1>7. ASSUME NEW e \in Owners, NEW i \in DOMAIN R[e]
      PROVE  \/ e = Nobody /\ i = Len(q) + 1 /\ R[e][i] = c
             \/ i \in DOMAIN Q[e] /\ R[e][i] = Q[e][i]
  <2>1. CASE e = Nobody
    <3>1. i \in 1 .. Len(q) + 1 /\ R[e][i] = r[i]  BY <2>1, <1>2, <1>3
    <3>2. i \in 1 .. Len(q) \/ i = Len(q) + 1  BY <3>1, <1>2, SMT
    <3> QED BY <2>1, <3>1, <3>2, <1>2 DEF q
  <2>2. CASE e # Nobody  BY <2>2, <1>3
  <2> QED BY <2>1, <2>2
<1>8. ASSUME NEW e \in Owners, NEW i \in DOMAIN R[e] PROVE v[R[e][i]] = "awaiting"
  BY <1>4, <1>5, <1>7, SMT DEF Hold
<1>9. ASSUME NEW d \in Coroutines, v[d] = "awaiting"
      PROVE  \E e \in Owners : \E i \in DOMAIN R[e] : R[e][i] = d
  <2>1. CASE d = c
    <3>1. Len(q) + 1 \in DOMAIN R[Nobody] /\ R[Nobody][Len(q) + 1] = c  BY <1>2, <1>3, SMT
    <3> QED BY <3>1, <2>1, <1>0
  <2>2. CASE d # c
    <3>1. PICK e \in Owners : \E i \in DOMAIN Q[e] : Q[e][i] = d  BY <2>2, <1>4, <1>9 DEF Hold
    <3>2. PICK i \in DOMAIN Q[e] : Q[e][i] = d  BY <3>1
    <3>3. CASE e = Nobody
      <4>1. i \in DOMAIN R[e] /\ R[e][i] = d  BY <3>2, <3>3, <1>2, <1>3, SMT DEF q
      <4> QED BY <4>1
    <3>4. CASE e # Nobody  BY <3>2, <3>4, <1>3
    <3> QED BY <3>3, <3>4
  <2> QED BY <2>1, <2>2
<1>10. ASSUME NEW e \in Owners, NEW f \in Owners, NEW i \in DOMAIN R[e], NEW j \in DOMAIN R[f],
              R[e][i] = R[f][j]
       PROVE  e = f /\ i = j
  <2>1. CASE i \in DOMAIN Q[e] /\ R[e][i] = Q[e][i]
    <3>1. R[f][j] # c  BY <2>1, <1>5, <1>10
    <3>2. j \in DOMAIN Q[f] /\ R[f][j] = Q[f][j]  BY <3>1, <1>7
    <3>3. Q[e][i] = Q[f][j]  BY <2>1, <3>2, <1>10
    <3> QED BY <2>1, <3>2, <3>3, <1>6, SMT
  <2>2. CASE e = Nobody /\ i = Len(q) + 1 /\ R[e][i] = c
    <3>1. ~(j \in DOMAIN Q[f] /\ R[f][j] = Q[f][j])  BY <2>2, <1>5, <1>10
    <3> QED BY <2>2, <3>1, <1>7
  <2> QED BY <2>1, <2>2, <1>7
<1>11. Hold(R, v)  BY <1>8, <1>9, <1>10 DEF Hold
<1> QED BY <1>11 DEF R, v

(* notify_all: the queue of the condition variable becomes a local one.    *)
LEMMA SwapHolds ==
  ASSUME NEW Q \in [Owners -> Seq(Coroutines)], NEW u, Hold(Q, u), NEW c \in Coroutines, Q[c] = <<>>
  PROVE  Hold([Q EXCEPT ![Nobody] = <<>>, ![c] = Q[Nobody]], u)
<1> DEFINE R == [Q EXCEPT ![Nobody] = <<>>, ![c] = Q[Nobody]]
<1>0. Nobody \in Owners /\ c \in Owners /\ c # Nobody  BY CoroutinesAssumption DEF Owners
<1>1. /\ R[Nobody] = <<>> /\ R[c] = Q[Nobody]
      /\ \A e \in Owners : e # Nobody /\ e # c => R[e] = Q[e]
  BY <1>0
<1> HIDE DEF R
<1>2. ASSUME NEW e \in Owners, NEW i \in DOMAIN R[e]
      PROVE  \/ e = c /\ i \in DOMAIN Q[Nobody] /\ R[e][i] = Q[Nobody][i]
             \/ e # c /\ e # Nobody /\ i \in DOMAIN Q[e] /\ R[e][i] = Q[e][i]
  <2>1. e # Nobody  BY <1>1, SMT
  <2> QED BY <2>1, <1>1
<1>3. ASSUME NEW d \in Coroutines, u[d] = "awaiting"
      PROVE  \E e \in Owners : \E i \in DOMAIN R[e] : R[e][i] = d
  <2>1. PICK e \in Owners : \E i \in DOMAIN Q[e] : Q[e][i] = d  BY <1>3 DEF Hold
  <2>2. e # c  BY <2>1, SMT
  <2>3. CASE e = Nobody  BY <2>1, <2>3, <1>0, <1>1
  <2>4. CASE e # Nobody  BY <2>1, <2>2, <2>4, <1>1
  <2> QED BY <2>3, <2>4
<1>4. ASSUME NEW e \in Owners, NEW i \in DOMAIN R[e] PROVE u[R[e][i]] = "awaiting"
  <2>1. PICK d \in Owners : i \in DOMAIN Q[d] /\ R[e][i] = Q[d][i]  BY <1>0, <1>2
  <2>2. u[Q[d][i]] = "awaiting"  BY <2>1 DEF Hold
  <2> QED BY <2>1, <2>2
<1>5. ASSUME NEW e \in Owners, NEW f \in Owners, NEW i \in DOMAIN R[e], NEW j \in DOMAIN R[f],
             R[e][i] = R[f][j]
      PROVE  e = f /\ i = j
  <2>1. PICK d \in Owners : /\ i \in DOMAIN Q[d] /\ R[e][i] = Q[d][i]
                           /\ d = IF e = c THEN Nobody ELSE e
    BY <1>0, <1>2
  <2>2. PICK g \in Owners : /\ j \in DOMAIN Q[g] /\ R[f][j] = Q[g][j]
                           /\ g = IF f = c THEN Nobody ELSE f
    BY <1>0, <1>2
  <2>3. d = g /\ i = j  BY <2>1, <2>2, <1>5, SMT DEF Hold
  <2>4. e # Nobody /\ f # Nobody  BY <1>1, SMT
  <2>5. e = f  BY <2>1, <2>2, <2>3, <2>4
  <2> QED BY <2>3, <2>5
<1>6. Hold(R, u)  BY <1>3, <1>4, <1>5 DEF Hold
<1> QED BY <1>6 DEF R

(* Queues and positions have their types.                                  *)
LEMMA QueueTypes ==
  ASSUME IInv
  PROVE  /\ Queues \in [Owners -> Seq(Coroutines)]
         /\ upc \in [Coroutines -> Places]
         /\ \A d \in Owners : \A i \in DOMAIN Queues[d] : Queues[d][i] \in Coroutines
         /\ Queues[Nobody] = cv_awaiters
         /\ \A d \in Coroutines : Queues[d] = to_resume[d]
<1>1. cv_awaiters \in Seq(Coroutines) /\ to_resume \in [Coroutines -> Seq(Coroutines)]
      /\ upc \in [Coroutines -> Places]
  BY DEF IInv, Types
<1>2. Queues[Nobody] = cv_awaiters /\ \A d \in Coroutines : Queues[d] = to_resume[d]
  BY CoroutinesAssumption DEF Queues, Queue, Owners
<1>3. Queues \in [Owners -> Seq(Coroutines)]  BY <1>1, <1>2 DEF Queues, Queue, Owners
<1>4. ASSUME NEW d \in Owners, NEW i \in DOMAIN Queues[d] PROVE Queues[d][i] \in Coroutines
  <2>1. Queues[d] \in Seq(Coroutines)  BY <1>3
  <2> QED BY <2>1, SMT
<1> QED BY <1>1, <1>2, <1>3, <1>4

(* What counting the producers needs to know of finite sets; Countable     *)
(* below derives it from the library.                                      *)
Finiteness ==
  \A S \in SUBSET Producers :
    /\ Cardinality(S) \in Nat
    /\ \A R \in SUBSET S : Cardinality(R) <= Cardinality(S)
    /\ \A c : c \notin S => Cardinality(S \cup {c}) = Cardinality(S) + 1

(* Items are not more than the producers that have added theirs.           *)
LEMMA StillCounted ==
  ASSUME Finiteness, IInv, items' \in Nat, items' <= items, Produced \subseteq Produced'
  PROVE  Counted'
<1>1. Produced' \in SUBSET Producers /\ Produced \in SUBSET Producers /\ Produced \in SUBSET Produced'
  BY DEF Produced
<1>2. /\ Cardinality(Produced) <= Cardinality(Produced')
      /\ Cardinality(Produced) \in Nat /\ Cardinality(Produced') \in Nat
  BY <1>1 DEF Finiteness
<1> QED BY <1>2, SMT DEF IInv, Counted

(* Who resumed whom stays a coroutine or nobody.                           *)
LEMMA CallerTypes ==
  ASSUME IInv, NEW c \in Coroutines
  PROVE  /\ Suspend(c) => caller' \in [Coroutines -> Owners]
         /\ UNCHANGED caller => caller' \in [Coroutines -> Owners]
         /\ \A q \in Seq(Coroutines) : ResumeInline(c, q) => caller' \in [Coroutines -> Owners]
<1>1. caller \in [Coroutines -> Owners] /\ c \in Owners /\ Nobody \in Owners  BY DEF IInv, Types, Owners
<1>2. ASSUME NEW q \in Seq(Coroutines), ResumeInline(c, q) PROVE caller' \in [Coroutines -> Owners]
  BY <1>1, <1>2 DEF ResumeInline
<1> QED BY <1>1, <1>2 DEF Suspend

(* What a step of the lock does to the positions in lock_impl.             *)
LEMMA LockMoves ==
  ASSUME LockInv, NEW c \in Coroutines, NEW to
  PROVE  /\ L!Goto(c, to) => lpc'[c] = to /\ \A d \in Coroutines \ {c} : lpc'[d] = lpc[d]
         /\ L!Attempt(c, to) => lpc'[c] \in {to, "suspended"} /\ \A d \in Coroutines \ {c} : lpc'[d] = lpc[d]
         /\ L!Release(c) /\ lpc[c] \in L!Holding =>
              /\ lpc'[c] = "out"
              /\ \A d \in Coroutines \ {c} : lpc'[d] = lpc[d] \/ (lpc[d] = "suspended" /\ lpc'[d] = "retry")
<1>1. lpc \in [Coroutines -> L!Holding \cup {"out", "suspended", "retry"}] /\ lock_awaiters \in Seq(Coroutines)
  BY DEF LockInv, L!TypeOK
<1>2. ASSUME NEW t, L!Goto(c, t) PROVE lpc'[c] = t /\ \A d \in Coroutines \ {c} : lpc'[d] = lpc[d]
  BY <1>1, <1>2 DEF L!Goto
<1>3. ASSUME L!Attempt(c, to)
      PROVE  lpc'[c] \in {to, "suspended"} /\ \A d \in Coroutines \ {c} : lpc'[d] = lpc[d]
  BY <1>2, <1>3 DEF L!Attempt
<1>4. ASSUME L!Release(c), lpc[c] \in L!Holding
      PROVE  /\ lpc'[c] = "out"
             /\ \A d \in Coroutines \ {c} : lpc'[d] = lpc[d] \/ (lpc[d] = "suspended" /\ lpc'[d] = "retry")
  <2>1. CASE lock_awaiters = <<>>
    <3>1. L!Goto(c, "out")  BY <1>4, <2>1 DEF L!Release
    <3> QED BY <3>1, <1>2
  <2>2. CASE lock_awaiters # <<>>
    <3>1. lpc' = [lpc EXCEPT ![c] = "out", ![Head(lock_awaiters)] = "retry"]  BY <1>4, <2>2 DEF L!Release
    <3>2. Head(lock_awaiters) = lock_awaiters[1] /\ 1 \in DOMAIN lock_awaiters /\ Head(lock_awaiters) \in Coroutines
      BY <1>1, <2>2, SMT
    <3>3. lpc[Head(lock_awaiters)] = "suspended"  BY <3>2 DEF LockInv, L!AwaitersSuspended
    <3>4. Head(lock_awaiters) # c  BY <3>3, <1>4 DEF L!Holding
    <3> QED BY <1>1, <3>1, <3>2, <3>3, <3>4
  <2> QED BY <2>1, <2>2
<1> QED BY <1>2, <1>3, <1>4

Adding == {"unlock", "notify", "notifying", "done"}

(* A coroutine goes from one statement of its program to another and       *)
(* leaves the queues of the condition variable alone.                      *)
Moves(c, to) ==
  /\ to \in Places \ {"awaiting", "notifying"}
  /\ upc[c] \notin {"awaiting", "notifying"}
  /\ upc[c] \in Adding => to \in Adding
  /\ upc' = [upc EXCEPT ![c] = to]
  /\ \A d \in Coroutines \ {c} : lpc'[d] = lpc[d] \/ (lpc[d] = "suspended" /\ lpc'[d] = "retry")
  /\ lpc'[c] \in {"suspended", "retry", "resume_on", "posted", "interrupted"} => to = "locking"
  /\ lpc'[c] = "in" => to \in {"locking", "unlock", "await", "await_unlock"}
  /\ cv_lock' \in Owners
  /\ caller' \in [Coroutines -> Owners]
  /\ UNCHANGED <<cv_awaiters, to_resume, executor_shut>>

(* Such a step keeps the invariant, but for the number of items.           *)
LEMMA MoveInv ==
  ASSUME IInv, NEW c \in Coroutines, NEW to, Moves(c, to)
  PROVE  Types' /\ Positions' /\ Hold(Queues', upc') /\ Produced \subseteq Produced'
<1> USE DEF Moves
<1>1. upc \in [Coroutines -> Places]  BY QueueTypes
<1>2. upc'[c] = to /\ \A d \in Coroutines \ {c} : upc'[d] = upc[d]  BY <1>1
<1>3. Types'  BY <1>1 DEF IInv, Types
<1>4. Positions'
  <2> SUFFICES ASSUME NEW d \in Coroutines
               PROVE  /\ lpc'[d] \in {"suspended", "retry", "resume_on", "posted", "interrupted"} => upc'[d] = "locking"
                      /\ lpc'[d] = "in" => upc'[d] \in {"locking", "unlock", "await", "await_unlock"}
                      /\ upc'[d] # "notifying" => to_resume'[d] = <<>>
    BY DEF Positions
  <2>1. CASE d = c  BY <2>1, <1>2 DEF IInv, Positions
  <2>2. CASE d # c  BY <2>2, <1>2 DEF IInv, Positions
  <2> QED BY <2>1, <2>2
<1>5. Queues' = Queues  BY DEF Queues, Queue
<1>6. Hold(Queues, upc')  BY <1>1, QueueTypes, MoveHolds DEF IInv
<1>7. Produced \subseteq Produced'  BY <1>2 DEF Produced, Adding, Coroutines
<1> QED BY <1>3, <1>4, <1>5, <1>6, <1>7

(* The composition takes such a step when a coroutine uses the lock, ...   *)
LEMMA LockStepMoves ==
  ASSUME IInv, NEW c \in Coroutines, Lock(c) \/ TryLock(c) \/ Unlock(c) \/ AwaitUnlock(c) \/ ReleaseInterrupted(c)
  PROVE  (\E to : Moves(c, to)) /\ UNCHANGED items
<1> USE DEF At, Goto
<1>0. LockInv /\ lock_awaiters \in Seq(Coroutines) /\ cv_lock \in Owners
  BY DEF IInv, LockInv, L!TypeOK, Types
<1>1. CASE Lock(c)
  <2>1. lpc'[c] \in {"in", "suspended"} /\ \A d \in Coroutines \ {c} : lpc'[d] = lpc[d]
    BY <1>0, <1>1, LockMoves DEF Lock, L!Lock
  <2>2. caller' \in [Coroutines -> Owners]  BY <1>1, CallerTypes DEF Lock, SuspendIf
  <2>3. Moves(c, "locking") /\ UNCHANGED items
    BY <1>0, <1>1, <2>1, <2>2 DEF Lock, Moves, Places, Adding, cvVars
  <2> QED BY <2>3
<1>2. CASE TryLock(c)
  <2>1. lpc'[c] = "in" /\ \A d \in Coroutines \ {c} : lpc'[d] = lpc[d]
    BY <1>0, <1>2, LockMoves DEF TryLock, L!TryLock
  <2>2. caller' \in [Coroutines -> Owners]  BY <1>2, CallerTypes DEF TryLock
  <2>3. Moves(c, "locking") /\ UNCHANGED items
    BY <1>0, <1>2, <2>1, <2>2 DEF TryLock, Moves, Places, Adding, cvVars
  <2> QED BY <2>3
<1>3. CASE Unlock(c)
  <2>1. /\ lpc'[c] = "out"
        /\ \A d \in Coroutines \ {c} : lpc'[d] = lpc[d] \/ (lpc[d] = "suspended" /\ lpc'[d] = "retry")
    BY <1>0, <1>3, LockMoves DEF Unlock, L!Unlock, L!Holding
  <2>2. caller' \in [Coroutines -> Owners]  BY <1>0, <1>3, CallerTypes DEF Unlock
  <2> DEFINE to == IF c \in Producers THEN "notify" ELSE "done"
  <2>3. Moves(c, to) /\ UNCHANGED items  BY <1>0, <1>3, <2>1, <2>2 DEF Unlock, Moves, Places, Adding, cvVars
  <2> QED BY <2>3
<1>4. CASE AwaitUnlock(c)
  <2>1. /\ lpc'[c] = "out"
        /\ \A d \in Coroutines \ {c} : lpc'[d] = lpc[d] \/ (lpc[d] = "suspended" /\ lpc'[d] = "retry")
    BY <1>0, <1>4, LockMoves DEF AwaitUnlock, L!Unlock, L!Holding
  <2>2. caller' \in [Coroutines -> Owners]  BY <1>0, <1>4, CallerTypes DEF AwaitUnlock
  <2>3. Moves(c, "await_push") /\ UNCHANGED items
    BY <1>0, <1>4, <2>1, <2>2 DEF AwaitUnlock, Moves, Places, Adding, cvVars
  <2> QED BY <2>3
<1>5. CASE ReleaseInterrupted(c)
  <2>0. lpc[c] = "interrupted" /\ L!Release(c)  BY <1>5 DEF ReleaseInterrupted, L!ReleaseInterrupted
  <2>1. /\ lpc'[c] = "out"
        /\ \A d \in Coroutines \ {c} : lpc'[d] = lpc[d] \/ (lpc[d] = "suspended" /\ lpc'[d] = "retry")
    BY <1>0, <2>0, LockMoves DEF L!Holding
  <2>2. caller' \in [Coroutines -> Owners]  BY <1>0, <1>5, CallerTypes DEF ReleaseInterrupted
  <2>3. upc[c] = "locking"  BY <2>0 DEF IInv, Positions
  <2>4. Moves(c, "unwinding") /\ UNCHANGED items
    BY <1>0, <1>5, <2>1, <2>2, <2>3 DEF ReleaseInterrupted, Moves, Places, Adding, cvVars
  <2> QED BY <2>4
<1> QED BY <1>1, <1>2, <1>3, <1>4, <1>5

(* ... when lock_impl goes on below it, ...                                *)
LEMMA LockImplMoves ==
  ASSUME IInv, NEW c \in Coroutines, Retry(c) \/ ResumeOn(c) \/ RunPosted(c)
  PROVE  (\E to : Moves(c, to)) /\ UNCHANGED items
<1>0. LockInv /\ cv_lock \in Owners /\ upc \in [Coroutines -> Places]  BY DEF IInv, Types
<1>1. lpc[c] \in {"retry", "resume_on", "posted"}
  BY DEF Retry, ResumeOn, RunPosted, L!Retry, L!Post, L!Resume
<1>2. upc[c] = "locking"  BY <1>1 DEF IInv, Positions
<1>3. upc' = [upc EXCEPT ![c] = "locking"]  BY <1>0, <1>2 DEF Retry, ResumeOn, RunPosted
<1>4. \A d \in Coroutines \ {c} : lpc'[d] = lpc[d]
  BY <1>0, LockMoves DEF Retry, ResumeOn, RunPosted, L!Retry, L!Post, L!Resume, L!Interrupt
<1>5. caller' \in [Coroutines -> Owners]  BY CallerTypes DEF Retry, ResumeOn, RunPosted, SuspendIf
<1>6. UNCHANGED <<cvVars, items, executor_shut>>  BY DEF Retry, ResumeOn, RunPosted
<1>7. Moves(c, "locking")  BY <1>0, <1>2, <1>3, <1>4, <1>5, <1>6 DEF Moves, Places, Adding, cvVars
<1> QED BY <1>6, <1>7

(* ... and when it uses only the condition variable or the items.          *)
LEMMA ProgramMoves ==
  ASSUME IInv, NEW c \in Coroutines,
         Unwind(c) \/ Produce(c) \/ AwaitPredicate(c) \/ AwaitLock(c) \/ AwaitResumeOn(c) \/ AwaitRunPosted(c)
  PROVE  \E to : Moves(c, to)
<1> USE DEF At, Goto
<1>0. cv_lock \in Owners /\ c \in Owners  BY DEF IInv, Types, Owners
<1>1. UNCHANGED lpc
  BY DEF Unwind, Produce, AwaitPredicate, AwaitLock, AwaitResumeOn, AwaitRunPosted, lockVars
<1>2. caller' \in [Coroutines -> Owners]
  BY CallerTypes DEF Unwind, Produce, AwaitPredicate, AwaitLock, AwaitResumeOn, AwaitRunPosted
<1>3. /\ lpc[c] \in {"suspended", "retry", "resume_on", "posted", "interrupted"} => upc[c] = "locking"
      /\ lpc[c] = "in" => upc[c] \in {"locking", "unlock", "await", "await_unlock"}
  BY DEF IInv, Positions
<1>4. CASE Unwind(c)
  <2>1. Moves(c, "failed")  BY <1>0, <1>1, <1>2, <1>3, <1>4 DEF Unwind, Moves, Places, Adding, cvVars
  <2> QED BY <2>1
<1>5. CASE Produce(c)
  <2>1. Moves(c, "unlock")  BY <1>0, <1>1, <1>2, <1>3, <1>5 DEF Produce, Inside, Moves, Places, Adding, cvVars
  <2> QED BY <2>1
<1>6. CASE AwaitPredicate(c)
  <2>1. Moves(c, "unlock") \/ Moves(c, "await")
    BY <1>0, <1>1, <1>2, <1>3, <1>6 DEF AwaitPredicate, Inside, Moves, Places, Adding, cvVars
  <2> QED BY <2>1
<1>7. CASE AwaitLock(c)
  <2>1. Moves(c, "await_unlock")  BY <1>0, <1>1, <1>2, <1>3, <1>7 DEF AwaitLock, Moves, Places, Adding, cvVars
  <2> QED BY <2>1
<1>8. CASE AwaitResumeOn(c)
  <2>1. Moves(c, "failed") \/ Moves(c, "await_posted")
    BY <1>0, <1>1, <1>2, <1>3, <1>8 DEF AwaitResumeOn, Moves, Places, Adding, cvVars
  <2> QED BY <2>1
<1>9. CASE AwaitRunPosted(c)
  <2>1. Moves(c, "relock") \/ Moves(c, "failed")
    BY <1>0, <1>1, <1>2, <1>3, <1>9 DEF AwaitRunPosted, Moves, Places, Adding, cvVars
  <2> QED BY <2>1
<1> QED BY <1>4, <1>5, <1>6, <1>7, <1>8, <1>9

(* A coroutine enters the queue of the condition variable.                 *)
LEMMA AwaitPushInv ==
  ASSUME Finiteness, IInv, NEW c \in Coroutines, AwaitPush(c)
  PROVE  Types' /\ Positions' /\ Hold(Queues', upc') /\ Counted'
<1>0. /\ upc[c] = "await_push" /\ upc' = [upc EXCEPT ![c] = "awaiting"]
      /\ cv_awaiters' = Append(cv_awaiters, c)
      /\ cv_lock' = Nobody
      /\ Suspend(c)
      /\ UNCHANGED <<lpc, to_resume, items, executor_shut>>
  BY DEF AwaitPush, At, Goto, lockVars
<1>1. /\ Queues \in [Owners -> Seq(Coroutines)] /\ upc \in [Coroutines -> Places]
      /\ Queues[Nobody] = cv_awaiters
  BY QueueTypes
<1>2. upc'[c] = "awaiting" /\ \A d \in Coroutines \ {c} : upc'[d] = upc[d]  BY <1>0, <1>1
<1>3. Types'
  <2>1. cv_awaiters' \in Seq(Coroutines) /\ Nobody \in Owners  BY <1>0, SMT DEF IInv, Types, Owners
  <2>2. caller' \in [Coroutines -> Owners]  BY <1>0, CallerTypes
  <2>3. upc' \in [Coroutines -> Places]  BY <1>0, <1>1 DEF Places
  <2> QED BY <1>0, <2>1, <2>2, <2>3 DEF IInv, Types
<1>4. Positions'  BY <1>0, <1>2 DEF IInv, Positions
<1>5. Queues' = [Queues EXCEPT ![Nobody] = Append(@, c)]
  BY <1>0, CoroutinesAssumption DEF Queues, Queue, Owners
<1>6. Hold(Queues', upc')
  <2>1. Hold([Queues EXCEPT ![Nobody] = Append(@, c)], [upc EXCEPT ![c] = "awaiting"])
    BY <1>0, <1>1, PushHolds DEF IInv
  <2> QED BY <2>1, <1>0, <1>5
<1>7. Produced \subseteq Produced'  BY <1>0, <1>2 DEF Produced, Coroutines
<1>8. Counted'  BY <1>0, <1>7, StillCounted, SMT DEF IInv, Counted
<1> QED BY <1>3, <1>4, <1>6, <1>8

(* notify_one resumes the first of the queue, if there is one.             *)
LEMMA NotifyOneInv ==
  ASSUME Finiteness, IInv, NEW c \in Coroutines, NotifyOne(c)
  PROVE  Types' /\ Positions' /\ Hold(Queues', upc') /\ Counted'
<1> DEFINE first == Head(cv_awaiters)
<1> DEFINE u == [upc EXCEPT ![c] = "done"]
<1>0. /\ upc[c] = "notify"
      /\ ResumeInline(c, cv_awaiters)
      /\ UNCHANGED <<lpc, cv_lock, to_resume, items, executor_shut>>
  BY DEF NotifyOne, At, lockVars
<1>1. /\ Queues \in [Owners -> Seq(Coroutines)] /\ upc \in [Coroutines -> Places]
      /\ Queues[Nobody] = cv_awaiters
      /\ cv_awaiters \in Seq(Coroutines) /\ Nobody \in Owners
  BY QueueTypes DEF IInv, Types, Owners
<1>a. \A d \in Owners : \A i \in DOMAIN Queues[d] : Queues[d][i] \in Coroutines  BY QueueTypes
<1>2. u \in [Coroutines -> Places] /\ Hold(Queues, u)
  <2>1. Hold(Queues, u)  BY <1>0, <1>1, <1>a, MoveHolds DEF IInv, Places
  <2> QED BY <2>1, <1>1 DEF Places
<1>3. caller' \in [Coroutines -> Owners]  BY <1>0, <1>1, CallerTypes
<1>4. CASE cv_awaiters = <<>>
  <2>1. upc' = u /\ cv_awaiters' = cv_awaiters  BY <1>4 DEF NotifyOne, Goto
  <2>2. Moves(c, "done")  BY <1>0, <1>3, <2>1 DEF Moves, Places, Adding, IInv, Types, Positions
  <2>3. Counted'  BY <1>0, <2>2, MoveInv, StillCounted, SMT DEF IInv, Counted
  <2> QED BY <2>2, <2>3, MoveInv
<1>5. CASE cv_awaiters # <<>>
  <2>0. /\ upc' = [upc EXCEPT ![c] = "done", ![first] = "notified"]
        /\ cv_awaiters' = Tail(cv_awaiters)
    BY <1>5 DEF NotifyOne
  <2>1. /\ first \in Coroutines /\ u[first] = "awaiting"
        /\ Hold([Queues EXCEPT ![Nobody] = Tail(@)], [u EXCEPT ![first] = "notified"])
    BY <1>1, <1>2, <1>5, PopHolds
  <2>2. first # c  BY <2>1, <1>1
  <2>3. upc' = [u EXCEPT ![first] = "notified"]  BY <2>0
  <2>4. /\ upc[first] = "awaiting"
        /\ upc'[c] = "done" /\ upc'[first] = "notified"
        /\ \A d \in Coroutines \ {c, first} : upc'[d] = upc[d]
    BY <2>0, <2>1, <2>2, <1>1
  <2> HIDE DEF first, u
  <2>5. Types'
    <3>1. cv_awaiters' \in Seq(Coroutines)  BY <2>0, <1>1, <1>5, SMT
    <3>2. upc' \in [Coroutines -> Places]  BY <2>1, <2>3, <1>2 DEF Places
    <3> QED BY <1>0, <1>3, <3>1, <3>2 DEF IInv, Types
  <2>6. Positions'  BY <1>0, <2>1, <2>4 DEF IInv, Positions
  <2>7. Queues' = [Queues EXCEPT ![Nobody] = Tail(@)]
    BY <1>0, <2>0, CoroutinesAssumption DEF Queues, Queue, Owners
  <2>8. Hold(Queues', upc')  BY <2>1, <2>3, <2>7
  <2>9. Produced \subseteq Produced'  BY <1>0, <2>4 DEF Produced, Coroutines
  <2>10. Counted'  BY <1>0, <2>9, StillCounted, SMT DEF IInv, Counted
  <2> QED BY <2>5, <2>6, <2>8, <2>10
<1> QED BY <1>4, <1>5

(* notify_all takes the whole queue, ...                                   *)
LEMMA NotifyAllInv ==
  ASSUME Finiteness, IInv, NEW c \in Coroutines, NotifyAll(c)
  PROVE  Types' /\ Positions' /\ Hold(Queues', upc') /\ Counted'
<1>0. /\ upc[c] = "notify" /\ upc' = [upc EXCEPT ![c] = "notifying"]
      /\ to_resume' = [to_resume EXCEPT ![c] = cv_awaiters]
      /\ cv_awaiters' = <<>>
      /\ UNCHANGED <<lpc, cv_lock, caller, items, executor_shut>>
  BY DEF NotifyAll, At, Goto, lockVars
<1>1. /\ Queues \in [Owners -> Seq(Coroutines)] /\ upc \in [Coroutines -> Places]
      /\ Queues[Nobody] = cv_awaiters /\ Queues[c] = to_resume[c]
      /\ cv_awaiters \in Seq(Coroutines) /\ to_resume \in [Coroutines -> Seq(Coroutines)]
  BY QueueTypes DEF IInv, Types, Owners
<1>a. \A d \in Owners : \A i \in DOMAIN Queues[d] : Queues[d][i] \in Coroutines  BY QueueTypes
<1>2. upc'[c] = "notifying" /\ \A d \in Coroutines \ {c} : upc'[d] = upc[d]  BY <1>0, <1>1
<1>3. Types'
  <2>1. cv_awaiters' \in Seq(Coroutines) /\ to_resume' \in [Coroutines -> Seq(Coroutines)]  BY <1>0, <1>1, SMT
  <2>2. upc' \in [Coroutines -> Places]  BY <1>0, <1>1 DEF Places
  <2> QED BY <1>0, <2>1, <2>2 DEF IInv, Types
<1>4. Positions'
  <2>1. \A d \in Coroutines \ {c} : to_resume'[d] = to_resume[d]  BY <1>0, <1>1
  <2> QED BY <1>0, <1>2, <2>1, SMT DEF IInv, Positions
<1>5. Queues' = [Queues EXCEPT ![Nobody] = <<>>, ![c] = Queues[Nobody]]
  <2>1. \A d \in Owners : Queue(d)' = IF d = c THEN cv_awaiters ELSE IF d = Nobody THEN <<>> ELSE Queue(d)
    BY <1>0, <1>1, CoroutinesAssumption DEF Queue, Owners
  <2>2. c # Nobody  BY CoroutinesAssumption
  <2> QED BY <1>1, <2>1, <2>2 DEF Queues
<1>6. Hold(Queues', upc')
  <2>1. Queues[c] = <<>>  BY <1>0, <1>1 DEF IInv, Positions
  <2>2. Hold(Queues, upc')  BY <1>0, <1>1, <1>a, MoveHolds DEF IInv, Places
  <2>3. Hold([Queues EXCEPT ![Nobody] = <<>>, ![c] = Queues[Nobody]], upc')  BY <1>1, <2>1, <2>2, SwapHolds
  <2> QED BY <1>5, <2>3
<1>7. Produced \subseteq Produced'  BY <1>0, <1>2 DEF Produced, Coroutines
<1>8. Counted'  BY <1>0, <1>7, StillCounted, SMT DEF IInv, Counted
<1> QED BY <1>3, <1>4, <1>6, <1>8

(* ... and resumes the coroutines in it one after the other.               *)
LEMMA NotifyNextInv ==
  ASSUME Finiteness, IInv, NEW c \in Coroutines, NotifyNext(c)
  PROVE  Types' /\ Positions' /\ Hold(Queues', upc') /\ Counted'
<1> DEFINE first == Head(to_resume[c])
<1>0. /\ upc[c] = "notifying"
      /\ ResumeInline(c, to_resume[c])
      /\ UNCHANGED <<lpc, cv_lock, cv_awaiters, items, executor_shut>>
  BY DEF NotifyNext, At, lockVars
<1>1. /\ Queues \in [Owners -> Seq(Coroutines)] /\ upc \in [Coroutines -> Places]
      /\ Queues[c] = to_resume[c] /\ c \in Owners
      /\ to_resume \in [Coroutines -> Seq(Coroutines)]
  BY QueueTypes DEF IInv, Types, Owners
<1>a. \A d \in Owners : \A i \in DOMAIN Queues[d] : Queues[d][i] \in Coroutines  BY QueueTypes
<1>3. caller' \in [Coroutines -> Owners]  BY <1>0, <1>1, CallerTypes
<1>4. CASE to_resume[c] = <<>>
  <2>0. upc' = [upc EXCEPT ![c] = "done"] /\ to_resume' = to_resume  BY <1>4 DEF NotifyNext, Goto
  <2>1. upc'[c] = "done" /\ \A d \in Coroutines \ {c} : upc'[d] = upc[d]  BY <2>0, <1>1
  <2>2. Types'
    <3>1. upc' \in [Coroutines -> Places]  BY <2>0, <1>1 DEF Places
    <3> QED BY <1>0, <1>3, <2>0, <3>1 DEF IInv, Types
  <2>3. Positions'  BY <1>0, <1>4, <2>0, <2>1 DEF IInv, Positions
  <2>4. Hold(Queues, upc')  BY <1>0, <1>1, <1>a, <2>0, MoveHolds DEF IInv, Places
  <2>5. Queues' = Queues  BY <1>0, <2>0 DEF Queues, Queue
  <2>6. Produced \subseteq Produced'  BY <1>0, <2>1 DEF Produced, Coroutines
  <2>7. Counted'  BY <1>0, <2>6, StillCounted, SMT DEF IInv, Counted
  <2> QED BY <2>2, <2>3, <2>4, <2>5, <2>7
<1>5. CASE to_resume[c] # <<>>
  <2>0. /\ upc' = [upc EXCEPT ![first] = "notified"]
        /\ to_resume' = [to_resume EXCEPT ![c] = Tail(@)]
    BY <1>5 DEF NotifyNext
  <2>1. /\ first \in Coroutines /\ upc[first] = "awaiting"
        /\ Hold([Queues EXCEPT ![c] = Tail(@)], [upc EXCEPT ![first] = "notified"])
    <3>1. Hold(Queues, upc)  BY DEF IInv
    <3>2. Queues[c] # <<>>  BY <1>1, <1>5
    <3>3. /\ Head(Queues[c]) \in Coroutines /\ upc[Head(Queues[c])] = "awaiting"
          /\ Hold([Queues EXCEPT ![c] = Tail(@)], [upc EXCEPT ![Head(Queues[c])] = "notified"])
      BY <3>1, <3>2, <1>1, PopHolds
    <3> QED BY <3>3, <1>1
  <2>2. upc'[first] = "notified" /\ \A d \in Coroutines \ {first} : upc'[d] = upc[d]  BY <2>0, <2>1, <1>1
  <2>3. first # c  BY <2>1, <1>0
  <2> HIDE DEF first
  <2>4. Types'
    <3>1. Tail(to_resume[c]) \in Seq(Coroutines)  BY <1>1, <1>5, SMT
    <3>2. to_resume' \in [Coroutines -> Seq(Coroutines)]  BY <2>0, <1>1, <3>1
    <3>3. upc' \in [Coroutines -> Places]  BY <2>0, <2>1, <1>1 DEF Places
    <3> QED BY <1>0, <1>3, <3>2, <3>3 DEF IInv, Types
  <2>5. Positions'
    <3>1. \A d \in Coroutines \ {c} : to_resume'[d] = to_resume[d]  BY <2>0, <1>1
    <3> QED BY <1>0, <2>1, <2>2, <2>3, <3>1, SMT DEF IInv, Positions
  <2>6. Queues' = [Queues EXCEPT ![c] = Tail(@)]
    <3>1. \A d \in Owners : Queue(d)' = IF d = c THEN Tail(to_resume[c]) ELSE Queue(d)
      BY <1>0, <1>1, <2>0, CoroutinesAssumption DEF Queue, Owners
    <3> QED BY <1>1, <3>1 DEF Queues
  <2>7. Hold(Queues', upc')  BY <2>0, <2>1, <2>6
  <2>8. Produced \subseteq Produced'  BY <2>1, <2>2 DEF Produced, Coroutines
  <2>9. Counted'  BY <1>0, <2>8, StillCounted, SMT DEF IInv, Counted
  <2> QED BY <2>4, <2>5, <2>7, <2>9
<1> QED BY <1>4, <1>5

(* A producer adds its item once: it was not past its critical section.    *)
LEMMA ProduceCounted ==
  ASSUME Finiteness, IInv, NEW c \in Coroutines, Produce(c)
  PROVE  Counted'
<1>0. /\ c \in Producers /\ upc[c] = "locking" /\ upc' = [upc EXCEPT ![c] = "unlock"]
      /\ items' = items + 1
  BY DEF Produce, At, Goto
<1>1. upc \in [Coroutines -> Places]  BY QueueTypes
<1>2. upc'[c] = "unlock" /\ \A d \in Coroutines \ {c} : upc'[d] = upc[d]  BY <1>0, <1>1
<1>3. Produced' = Produced \cup {c} /\ c \notin Produced  BY <1>0, <1>2 DEF Produced, Coroutines
<1>4. Produced \in SUBSET Producers  BY DEF Produced
<1>5. Cardinality(Produced') = Cardinality(Produced) + 1 /\ Cardinality(Produced) \in Nat
  BY <1>3, <1>4 DEF Finiteness
<1> QED BY <1>0, <1>5, SMT DEF IInv, Counted

(* An await that returns found the predicate true: it takes an item that   *)
(* is there.                                                               *)
LEMMA OthersCounted ==
  ASSUME Finiteness, IInv, NEW c \in Coroutines, \E to : Moves(c, to),
         UNCHANGED items \/ AwaitPredicate(c)
  PROVE  Counted'
<1>1. Produced \subseteq Produced'
  <2>1. PICK to : Moves(c, to)  OBVIOUS
  <2> QED BY <2>1, MoveInv
<1>2. items' \in Nat /\ items' <= items  BY SMT DEF IInv, Counted, AwaitPredicate
<1> QED BY <1>1, <1>2, StillCounted

(* Every step of a coroutine keeps the invariant.                          *)
LEMMA StepInv ==
  ASSUME Finiteness, IInv, NEW c \in Coroutines, Steps(c) \/ TryLock(c)
  PROVE  Types' /\ Positions' /\ Hold(Queues', upc') /\ Counted'
<1>1. ASSUME \E to : Moves(c, to), UNCHANGED items \/ AwaitPredicate(c) \/ Produce(c)
      PROVE  Types' /\ Positions' /\ Hold(Queues', upc') /\ Counted'
  <2>1. PICK to : Moves(c, to)  BY <1>1
  <2>2. Types' /\ Positions' /\ Hold(Queues', upc')  BY <2>1, MoveInv
  <2>3. Counted'  BY <1>1, ProduceCounted, OthersCounted
  <2> QED BY <2>2, <2>3
<1>2. CASE Lock(c) \/ TryLock(c) \/ Unlock(c) \/ AwaitUnlock(c) \/ ReleaseInterrupted(c)
  BY <1>1, <1>2, LockStepMoves
<1>3. CASE Retry(c) \/ ResumeOn(c) \/ RunPosted(c)  BY <1>1, <1>3, LockImplMoves
<1>4. CASE Unwind(c) \/ Produce(c) \/ AwaitPredicate(c) \/ AwaitLock(c) \/ AwaitResumeOn(c) \/ AwaitRunPosted(c)
  <2>1. UNCHANGED items \/ AwaitPredicate(c) \/ Produce(c)
    BY <1>4 DEF Unwind, AwaitLock, AwaitResumeOn, AwaitRunPosted
  <2> QED BY <1>1, <1>4, <2>1, ProgramMoves
<1>5. CASE AwaitPush(c)  BY <1>5, AwaitPushInv
<1>6. CASE NotifyOne(c)  BY <1>6, NotifyOneInv
<1>7. CASE NotifyAll(c)  BY <1>7, NotifyAllInv
<1>8. CASE NotifyNext(c)  BY <1>8, NotifyNextInv
<1> QED BY <1>2, <1>3, <1>4, <1>5, <1>6, <1>7, <1>8 DEF Steps

(* Shutting the executor down changes nothing else.                        *)
LEMMA OtherInv ==
  ASSUME IInv, ShutDownExecutor \/ UNCHANGED vars
  PROVE  Types' /\ Positions' /\ Hold(Queues', upc') /\ Counted'
<1>1. /\ UNCHANGED <<lpc, cv_lock, cv_awaiters, to_resume, upc, caller, items>>
      /\ executor_shut' \in BOOLEAN
  BY DEF ShutDownExecutor, vars, lockVars, cvVars, IInv, Types, Zenon
<1>2. Types'  BY <1>1 DEF IInv, Types
<1>3. Positions'  BY <1>1 DEF IInv, Positions
<1>4. Queues' = Queues  BY <1>1 DEF Queues, Queue
<1>5. Hold(Queues', upc')  BY <1>1, <1>4 DEF IInv
<1>6. Counted'  BY <1>1 DEF IInv, Counted, Produced
<1> QED BY <1>2, <1>3, <1>5, <1>6

(* Nobody waits and nothing was added at first.                            *)
LEMMA InitIInv == ASSUME Finiteness, Init PROVE IInv
<1>1. LockInv  BY InitLockInv DEF Init
<1>2. Types
  <2>1. /\ cv_awaiters \in Seq(Coroutines) /\ to_resume \in [Coroutines -> Seq(Coroutines)]
        /\ upc \in [Coroutines -> Places] /\ caller \in [Coroutines -> Owners]
    BY SMT DEF Init, Owners, Places
  <2>2. cv_lock \in Owners /\ executor_shut \in BOOLEAN  BY DEF Init, Owners
  <2> QED BY <2>1, <2>2 DEF Types
<1>3. Positions  BY DEF Init, Positions, L!Init
<1>4. Hold(Queues, upc)
  <2>1. \A d \in Owners : Queues[d] = <<>>  BY CoroutinesAssumption DEF Init, Queues, Queue, Owners
  <2>2. \A c \in Coroutines : upc[c] # "awaiting"  BY DEF Init
  <2> QED BY <2>1, <2>2, SMT DEF Hold
<1>5. Counted
  <2>1. Produced \in SUBSET Producers  BY DEF Produced
  <2>2. Cardinality(Produced) \in Nat  BY <2>1 DEF Finiteness
  <2> QED BY <2>2, SMT DEF Init, Counted
<1> QED BY <1>1, <1>2, <1>3, <1>4, <1>5 DEF IInv

(* No step of the composition breaks the invariant.                        *)
LEMMA NextIInv == ASSUME Finiteness, IInv, [Next]_vars PROVE IInv'
<1>1. LockInv'  BY NextLock, NextLockInv DEF IInv
<1>2. Types' /\ Positions' /\ Hold(Queues', upc') /\ Counted'
  <2>1. CASE \E c \in Coroutines : Steps(c)
    <3>1. PICK c \in Coroutines : Steps(c)  BY <2>1
    <3> QED BY <3>1, StepInv
  <2>2. CASE \E c \in Producers : TryLock(c)
    <3>1. PICK c \in Coroutines : TryLock(c)  BY <2>2 DEF Coroutines
    <3> QED BY <3>1, StepInv
  <2>3. CASE ShutDownExecutor \/ UNCHANGED vars  BY <2>3, OtherInv
  <2> QED BY <2>1, <2>2, <2>3 DEF Next, Quiescent
<1> QED BY <1>1, <1>2 DEF IInv

-----------------------------------------------------------------------------
(* The theorems on finite sets come in here: they would burden every proof *)
(* above.                                                                  *)
F == INSTANCE FiniteSetTheorems

LEMMA Countable == Finiteness
<1>1. \A S : IsFiniteSet(S) <=> F!IsFiniteSet(S)  BY DEF IsFiniteSet, F!IsFiniteSet
<1>2. \A S : Cardinality(S) = F!Cardinality(S)  BY DEF Cardinality, F!Cardinality
<1>3. ASSUME NEW S \in SUBSET Producers
      PROVE  /\ F!Cardinality(S) \in Nat
             /\ \A R \in SUBSET S : F!Cardinality(R) <= F!Cardinality(S)
             /\ \A c : c \notin S => F!Cardinality(S \cup {c}) = F!Cardinality(S) + 1
  <2>1. F!IsFiniteSet(S)  BY <1>1, CoroutinesAssumption, F!FS_Subset
  <2> QED BY <2>1, F!FS_CardinalityType, F!FS_Subset, F!FS_AddElement
<1> QED BY <1>2, <1>3 DEF Finiteness

(* The inductive invariant holds in every reachable state.                 *)
THEOREM Invariance == Spec => []IInv
<1>1. Init => IInv  BY Countable, InitIInv
<1>2. IInv /\ [Next]_vars => IInv'  BY Countable, NextIInv
<1> QED BY <1>1, <1>2, PTL DEF Spec

(* Every variable has a value the code can give it, and no consumer takes  *)
(* an item that is not there: the predicate is true when await returns,    *)
(* however many coroutines produce, consume, notify and are interrupted.   *)
THEOREM TypeCorrect == Spec => []TypeOK
<1>1. IInv => TypeOK
  <2> SUFFICES ASSUME IInv PROVE TypeOK  OBVIOUS
  <2>1. items \in 0 .. Cardinality(Producers)
    <3>1. Produced \in SUBSET Producers /\ Producers \in SUBSET Producers  BY DEF Produced
    <3>2. /\ Cardinality(Produced) <= Cardinality(Producers)
          /\ Cardinality(Produced) \in Nat /\ Cardinality(Producers) \in Nat
      BY <3>1, Countable DEF Finiteness
    <3> QED BY <3>2, SMT DEF IInv, Counted
  <2> QED BY <2>1 DEF IInv, LockInv, Types, Owners, Places, TypeOK
<1> QED BY <1>1, Invariance, PTL

(* The queue of the lock, the queue of the condition variable and what     *)
(* every notify_all has swapped out of it hold together exactly the        *)
(* suspended coroutines, each once: nobody who runs is resumed, nobody is  *)
(* resumed twice, and nobody suspended is forgotten.                       *)
THEOREM ResumesOnlySuspended == Spec => []AwaitersSuspended
<1>1. IInv => AwaitersSuspended
  <2> SUFFICES ASSUME IInv PROVE AwaitersSuspended  OBVIOUS
  <2> DEFINE links == UNION {{<<c, i>> : i \in DOMAIN Queue(c)} : c \in Coroutines \cup {Nobody}}
  <2> DEFINE Linked(l) == Queue(l[1])[l[2]]
  <2>1. \A d \in Owners : Queues[d] = Queue(d)  BY DEF Queues
  <2>2. \A l : l \in links <=> \E d \in Owners : \E i \in DOMAIN Queue(d) : l = <<d, i>>  BY SMT DEF Owners
  <2>3. \A d \in Owners : \A i \in DOMAIN Queue(d) : Queue(d)[i] \in Coroutines  BY <2>1, QueueTypes
  <2> HIDE DEF links
  <2>4. {c \in Coroutines : upc[c] = "awaiting"} = {Linked(l) : l \in links}
    <3>1. ASSUME NEW c \in Coroutines, upc[c] = "awaiting" PROVE \E l \in links : c = Linked(l)
      <4>1. PICK d \in Owners : \E i \in DOMAIN Queue(d) : Queue(d)[i] = c  BY <3>1, <2>1, SMT DEF IInv, Hold
      <4>2. PICK i \in DOMAIN Queue(d) : Queue(d)[i] = c  BY <4>1
      <4>3. <<d, i>> \in links /\ Linked(<<d, i>>) = c  BY <4>2, <2>2
      <4> QED BY <4>3
    <3>2. ASSUME NEW l \in links PROVE Linked(l) \in Coroutines /\ upc[Linked(l)] = "awaiting"
      <4>1. PICK d \in Owners : \E i \in DOMAIN Queue(d) : l = <<d, i>>  BY <2>2
      <4>2. PICK i \in DOMAIN Queue(d) : l = <<d, i>>  BY <4>1
      <4>3. Linked(l) = Queue(d)[i]  BY <4>2
      <4> QED BY <4>3, <2>1, <2>3, SMT DEF IInv, Hold
    <3> QED BY <3>1, <3>2, SMT
  <2>5. ASSUME NEW l \in links, NEW k \in links, Linked(l) = Linked(k) PROVE l = k
    <3>1. PICK d \in Owners : \E i \in DOMAIN Queue(d) : l = <<d, i>>  BY <2>2
    <3>2. PICK i \in DOMAIN Queue(d) : l = <<d, i>>  BY <3>1
    <3>3. PICK e \in Owners : \E j \in DOMAIN Queue(e) : k = <<e, j>>  BY <2>2
    <3>4. PICK j \in DOMAIN Queue(e) : k = <<e, j>>  BY <3>3
    <3>5. Queue(d)[i] = Queue(e)[j]  BY <2>5, <3>2, <3>4
    <3>6. d = e /\ i = j  BY <3>5, <2>1, SMT DEF IInv, Hold
    <3> QED BY <3>2, <3>4, <3>6
  <2> QED BY <2>4, <2>5 DEF links, AwaitersSuspended, IInv, LockInv
<1> QED BY <1>1, Invariance, PTL
=============================================================================
