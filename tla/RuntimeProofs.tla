--------------------------- MODULE RuntimeProofs ---------------------------
(***************************************************************************)
(* Whatever tasks, timers and the destructor of a runtime do, every step   *)
(* of theirs is a step of the thread executor, or of the manual executor,  *)
(* or leaves it alone: what is proved of an executor by itself holds in    *)
(* the runtime.                                                            *)
(*                                                                         *)
(* First the thread executor.  However many threads it has started, when   *)
(* its shutdown() returns all of them have ended: each thread joins the    *)
(* one that retired before it, so joining the last one is enough.  Then    *)
(* the manual executor: a task is in its queue, executed by one thread, or *)
(* done with, and the one thread that shuts it down leaves nothing behind. *)
(* The runtime adds that nobody registers an executor when shutdown_all    *)
(* has been through the list, and who can be in a call of the manual       *)
(* executor then (Using): nothing of it is at work when the destructor has *)
(* returned.                                                               *)
(***************************************************************************)
EXTENDS Runtime, Functions, TLAPS

(* A leaf is for Zenon unless it names another prover.                     *)
USE Zenon

(* m_workers holds the threads that have not retired.                      *)
WorkersListed ==
  /\ \A t \in T!Threads : t \in m_workers <=> tpc[t] \in {"start", "task", "retire"}
  /\ \A t \in T!Threads : t > threads => tpc[t] = "new"

(* m_last_retired is the head of a chain through the local variables of    *)
(* retire_worker, and the chain holds all the threads that have retired.   *)
Chained ==
  /\ m_last_retired = T!NoThread /\ cpc # "shut" => T!Retired = {}
  /\ m_last_retired # T!NoThread => /\ m_last_retired \in T!Retired
                                    /\ T!Retired = before[m_last_retired] \cup {m_last_retired}
  /\ \A t \in T!Retired :
       IF last_retired[t] = T!NoThread THEN before[t] = {}
       ELSE /\ last_retired[t] \in T!Retired
            /\ before[t] = before[last_retired[t]] \cup {last_retired[t]}

(* A thread ends after all that retired before it.                         *)
EndInOrder ==
  \A t \in T!Threads : tpc[t] = "ended" => \A u \in before[t] : tpc[u] = "ended"

Closing ==
  /\ locked <=> cpc = "join"
  /\ cpc \in {"waiting", "join", "shut"} => t_abort
  /\ cpc \in {"join", "shut"} => m_workers = {}
  /\ cpc = "join" => m_last_retired # T!NoThread
  /\ cpc = "shut" => m_last_retired = T!NoThread /\ \A t \in T!Retired : tpc[t] = "ended"

(* The inductive invariant.                                                *)
ThreadInv == T!TypeOK /\ WorkersListed /\ Chained /\ EndInOrder /\ Closing
-----------------------------------------------------------------------------
(* An executor without threads satisfies the invariant.                    *)
LEMMA InitThreadInv == T!Init => ThreadInv
<1> SUFFICES ASSUME T!Init PROVE ThreadInv  OBVIOUS
<1> USE RuntimeAssumption DEF T!Init, T!Threads, T!NoThread
<1>1. T!TypeOK
  <2>1. threads \in 0 .. MaxThreads  BY SMT
  <2>2. /\ tpc \in [T!Threads -> {"new", "destroyed", "start", "task", "retire", "notify", "join", "ended"}]
        /\ last_retired \in [T!Threads -> T!Threads \cup {T!NoThread}]
        /\ before \in [T!Threads -> SUBSET T!Threads]
    OBVIOUS
  <2> QED BY <2>1, <2>2 DEF T!TypeOK
<1>2. WorkersListed  BY DEF WorkersListed
<1>3. T!Retired = {}  BY DEF T!Retired
<1>4. Chained  BY <1>3 DEF Chained
<1>5. EndInOrder  BY DEF EndInOrder
<1>6. Closing  BY DEF Closing
<1> QED BY <1>1, <1>2, <1>4, <1>5, <1>6 DEF ThreadInv

(* Enqueueing starts threads that are not in the chain, or none.           *)
LEMMA ThreadEnqueue == ASSUME ThreadInv, T!Enqueue PROVE ThreadInv'
<1> USE DEF ThreadInv
<1>n. PICK n \in 1 .. MaxThreads - threads :
      /\ threads' = threads + n
      /\ tpc' = [t \in T!Threads |-> IF t \notin threads + 1 .. threads + n THEN tpc[t]
                                   ELSE IF t_abort THEN "destroyed" ELSE "start"]
      /\ m_workers' = IF t_abort THEN m_workers ELSE m_workers \cup (threads + 1 .. threads + n)
  BY DEF T!Enqueue
<1>0. /\ UNCHANGED <<m_last_retired, t_abort, t_atomic_abort, locked, last_retired, cpc, before>>
      /\ ~locked
  BY DEF T!Enqueue
<1>1. threads \in Nat /\ n \in Nat /\ threads + n \in 0 .. MaxThreads /\ MaxThreads \in Nat
  BY RuntimeAssumption, SMT DEF T!TypeOK
<1>2. threads + 1 .. threads + n \subseteq T!Threads
  <2>1. \A i \in threads + 1 .. threads + n : i \in 1 .. MaxThreads  BY <1>1, SMT
  <2> QED BY <2>1 DEF T!Threads
<1>3. \A t \in threads + 1 .. threads + n : tpc[t] = "new"  BY <1>1, <1>2, SMT DEF WorkersListed
<1>4. \A t \in T!Threads : /\ tpc[t] # "new" => tpc'[t] = tpc[t]
                           /\ tpc[t] = "new" => tpc'[t] \in {"new", "start", "destroyed"}
  BY <1>n, <1>3
<1>5. T!TypeOK'  BY <1>n, <1>0, <1>1, <1>2 DEF T!TypeOK
<1>6. WorkersListed'
  <2>1. ASSUME NEW t \in T!Threads, t > threads' PROVE tpc'[t] = "new"
    BY <1>n, <1>1, <2>1, SMT DEF WorkersListed, T!Threads
  <2>2. \A t \in T!Threads : t \in m_workers' <=> tpc'[t] \in {"start", "task", "retire"}
    BY <1>n, <1>2, <1>3 DEF WorkersListed
  <2> QED BY <2>1, <2>2 DEF WorkersListed
<1>7. T!Retired' = T!Retired  BY <1>4 DEF T!Retired
<1>8. Chained'  BY <1>0, <1>7 DEF Chained
<1>9. EndInOrder'
  <2> SUFFICES ASSUME NEW t \in T!Threads, tpc'[t] = "ended", NEW u \in before[t]
               PROVE  tpc'[u] = "ended"
    BY <1>0 DEF EndInOrder
  <2>1. tpc[t] = "ended"  BY <1>4
  <2>2. u \in T!Threads /\ tpc[u] = "ended"  BY <2>1 DEF EndInOrder, T!TypeOK
  <2> QED BY <2>2, <1>4
<1>10. Closing'
  <2>1. cpc = "shut" => m_workers' = {}  BY <1>n DEF Closing
  <2>2. \A t \in T!Retired : tpc'[t] = tpc[t]  BY <1>4 DEF T!Retired
  <2> QED BY <1>0, <1>7, <2>1, <2>2 DEF Closing
<1> QED BY <1>5, <1>6, <1>8, <1>9, <1>10

(* A thread that retires becomes the head of the chain.                    *)
LEMMA ThreadRetire == ASSUME ThreadInv, NEW t \in T!Threads, T!RetireWorker(t) PROVE ThreadInv'
<1> USE RuntimeAssumption DEF ThreadInv, T!RetireWorker, T!Goto
<1>0. t \in m_workers /\ t \notin T!Retired  BY DEF WorkersListed, T!Retired
<1>1. cpc \notin {"join", "shut"}  BY <1>0 DEF Closing
<1>2. T!Retired' = T!Retired \cup {t}  BY DEF T!Retired, T!TypeOK
<1>3. t \in Nat /\ t # T!NoThread  BY SMT DEF T!Threads, T!NoThread
<1>4. T!TypeOK'  BY <1>2 DEF T!TypeOK, T!Retired
<1>5. WorkersListed'  BY <1>3 DEF WorkersListed, T!TypeOK
<1>6. Chained'
  <2>1. before'[t] = T!Retired /\ last_retired'[t] = m_last_retired  BY DEF T!TypeOK
  <2>2. \A u \in T!Retired : before'[u] = before[u] /\ last_retired'[u] = last_retired[u] /\ u # t
    BY <1>0 DEF T!TypeOK, T!Retired
  <2>3. m_last_retired' \in T!Retired' /\ T!Retired' = before'[m_last_retired'] \cup {m_last_retired'}
    BY <1>2, <2>1
  <2>4. ASSUME NEW u \in T!Retired
        PROVE  IF last_retired'[u] = T!NoThread THEN before'[u] = {}
               ELSE /\ last_retired'[u] \in T!Retired'
                    /\ before'[u] = before'[last_retired'[u]] \cup {last_retired'[u]}
    BY <1>2, <2>2, SMT DEF Chained
  <2>5. IF last_retired'[t] = T!NoThread THEN before'[t] = {}
        ELSE /\ last_retired'[t] \in T!Retired'
             /\ before'[t] = before'[last_retired'[t]] \cup {last_retired'[t]}
    BY <1>1, <1>2, <2>1, <2>2, SMT DEF Chained
  <2> QED BY <1>2, <1>3, <2>3, <2>4, <2>5 DEF Chained
<1>7. EndInOrder'
  <2> SUFFICES ASSUME NEW u \in T!Threads, tpc'[u] = "ended" PROVE \A v \in before'[u] : tpc'[v] = "ended"
    BY DEF EndInOrder
  <2>1. u # t /\ tpc[u] = "ended" /\ before'[u] = before[u]  BY DEF T!TypeOK
  <2>2. \A v \in before[u] : tpc[v] = "ended" /\ v # t  BY <2>1 DEF EndInOrder
  <2>3. \A v \in before[u] : v \in T!Threads  BY DEF T!TypeOK
  <2> QED BY <2>1, <2>2, <2>3 DEF T!TypeOK
<1>8. Closing'  BY <1>1 DEF Closing
<1> QED BY <1>4, <1>5, <1>6, <1>7, <1>8

(* A step of a thread's that leaves the lists alone: the chain, and which  *)
(* threads are in it, stay as they are.                                    *)
LEMMA ThreadMove ==
  ASSUME ThreadInv, NEW t \in T!Threads, NEW from, NEW to, T!Goto(t, from, to),
         UNCHANGED <<m_workers, m_last_retired, t_abort, t_atomic_abort, locked, last_retired,
                     threads, before>>,
         cpc' \in {"idle", "wait", "waiting", "join", "shut"},
         cpc' = cpc \/ (cpc = "waiting" /\ cpc' = "wait"),
         <<from, to>> \in {<<"start", "task">>, <<"task", "retire">>, <<"notify", "join">>,
                           <<"join", "ended">>},
         to = "ended" => T!Ended(last_retired[t])
  PROVE  ThreadInv'
<1> USE RuntimeAssumption DEF ThreadInv, T!Goto
<1>1. T!TypeOK'  BY DEF T!TypeOK
<1>2. WorkersListed'  BY DEF WorkersListed, T!TypeOK
<1>3. T!Retired' = T!Retired  BY DEF T!Retired, T!TypeOK
<1>4. Chained'  BY <1>3 DEF Chained
<1>5. EndInOrder'
  <2> SUFFICES ASSUME NEW u \in T!Threads, tpc'[u] = "ended", NEW v \in before[u]
               PROVE  tpc'[v] = "ended"
    BY DEF EndInOrder
  <2>0. v \in T!Threads  BY DEF T!TypeOK
  <2>1. CASE tpc[u] = "ended"  BY <2>0, <2>1 DEF EndInOrder, T!TypeOK
  <2>2. CASE tpc[u] # "ended"
    <3>1. u = t /\ from = "join" /\ to = "ended"  BY <2>2 DEF T!TypeOK
    <3>2. t \in T!Retired  BY <3>1 DEF T!Retired
    <3>3. last_retired[t] # T!NoThread  BY <3>1, <3>2 DEF Chained
    <3>4. last_retired[t] \in T!Threads /\ tpc[last_retired[t]] = "ended"  BY <3>1, <3>3 DEF T!Ended
    <3>5. v = last_retired[t] \/ v \in before[last_retired[t]]  BY <3>1, <3>2, <3>3 DEF Chained
    <3>6. tpc[v] = "ended"  BY <3>4, <3>5 DEF EndInOrder
    <3> QED BY <2>0, <3>1, <3>6 DEF T!TypeOK
  <2> QED BY <2>1, <2>2
<1>6. Closing'
  <2>1. cpc = "shut" => \A u \in T!Retired : tpc'[u] = "ended"  BY DEF Closing, T!TypeOK, T!Retired
  <2> QED BY <1>3, <2>1 DEF Closing
<1> QED BY <1>1, <1>2, <1>4, <1>5, <1>6

(* When the head of the chain has ended, all the threads have.             *)
LEMMA ThreadJoinLast == ASSUME ThreadInv, T!JoinLast PROVE ThreadInv'
<1> USE RuntimeAssumption DEF ThreadInv, T!JoinLast
<1>1. T!TypeOK'  BY DEF T!TypeOK
<1>2. WorkersListed'  BY DEF WorkersListed
<1>3. T!Retired' = T!Retired  BY DEF T!Retired
<1>4. Chained'  BY <1>3 DEF Chained
<1>5. EndInOrder'  BY DEF EndInOrder
<1>6. \A t \in T!Retired : tpc[t] = "ended"
  <2>1. m_last_retired # T!NoThread  BY DEF Closing
  <2>2. m_last_retired \in T!Threads /\ tpc[m_last_retired] = "ended"  BY <2>1 DEF T!Ended
  <2>3. \A t \in before[m_last_retired] : tpc[t] = "ended"  BY <2>2 DEF EndInOrder
  <2> QED BY <2>1, <2>2, <2>3 DEF Chained
<1>7. Closing'  BY <1>3, <1>6 DEF Closing
<1> QED BY <1>1, <1>2, <1>4, <1>5, <1>7

(* Every step of the executor keeps the invariant.                         *)
LEMMA NextThreadInv == ThreadInv /\ [T!Next]_T!vars => ThreadInv'
<1> SUFFICES ASSUME ThreadInv, [T!Next]_T!vars PROVE ThreadInv'  OBVIOUS
<1>1. CASE UNCHANGED T!vars
  BY <1>1, SMT DEF T!vars, ThreadInv, T!TypeOK, WorkersListed, Chained, EndInOrder, Closing, T!Retired
<1>2. CASE T!Enqueue  BY <1>2, ThreadEnqueue
<1>3. CASE T!JoinLast  BY <1>3, ThreadJoinLast
<1>4. CASE T!Shutdown
  BY <1>4, SMT DEF T!Shutdown, ThreadInv, T!TypeOK, WorkersListed, Chained, EndInOrder, Closing, T!Retired
<1>5. CASE T!WaitForWorkers
  <2>1. T!TypeOK' /\ WorkersListed' /\ Chained' /\ EndInOrder'
    BY <1>5 DEF T!WaitForWorkers, ThreadInv, T!TypeOK, WorkersListed, Chained, EndInOrder, T!Retired
  <2>2. Closing'  BY <1>5 DEF T!WaitForWorkers, ThreadInv, T!TypeOK, Chained, Closing, T!Retired
  <2> QED BY <2>1, <2>2 DEF ThreadInv
<1>6. ASSUME NEW t \in T!Threads, T!RetireWorker(t) PROVE ThreadInv'  BY <1>6, ThreadRetire
<1>7. cpc \in {"idle", "wait", "waiting", "join", "shut"}  BY DEF ThreadInv, T!TypeOK
<1>8. ASSUME NEW t \in T!Threads, T!StartTask(t) PROVE ThreadInv'  BY <1>7, <1>8, ThreadMove DEF T!StartTask
<1>9. ASSUME NEW t \in T!Threads, T!FinishTask(t) PROVE ThreadInv'  BY <1>7, <1>9, ThreadMove DEF T!FinishTask
<1>10. ASSUME NEW t \in T!Threads, T!NotifyOne(t) PROVE ThreadInv'  BY <1>7, <1>10, ThreadMove DEF T!NotifyOne
<1>11. ASSUME NEW t \in T!Threads, T!JoinLastRetired(t) PROVE ThreadInv'
  BY <1>7, <1>11, ThreadMove DEF T!JoinLastRetired
<1> QED
  BY <1>1, <1>2, <1>3, <1>4, <1>5, <1>6, <1>8, <1>9, <1>10, <1>11 DEF T!Next, T!ThreadSteps, T!ShutdownSteps

(* ThreadInv holds in every reachable state of the executor.                    *)
THEOREM ThreadInvariance == T!Spec => []ThreadInv
BY InitThreadInv, NextThreadInv, PTL DEF T!Spec

(* No thread is left when shutdown() has returned.                         *)
LEMMA AllEnded == ASSUME ThreadInv PROVE T!ThreadsJoined
<1> SUFFICES ASSUME cpc = "shut" PROVE T!ThreadsJoined  BY DEF T!ThreadsJoined
<1>1. m_workers = {} /\ m_last_retired = T!NoThread  BY DEF ThreadInv, Closing
<1>2. ASSUME NEW t \in T!Threads PROVE tpc[t] \in {"new", "destroyed", "ended"}
  <2>1. tpc[t] \notin {"start", "task", "retire"}  BY <1>1 DEF ThreadInv, WorkersListed
  <2>2. tpc[t] \in {"notify", "join"} => t \in T!Retired /\ tpc[t] = "ended"
    BY DEF ThreadInv, Closing, T!Retired
  <2> QED BY <2>1, <2>2 DEF ThreadInv, T!TypeOK
<1> QED BY <1>1, <1>2 DEF T!ThreadsJoined

(* When shutdown() returns, every thread ever started has ended and the    *)
(* lists its destructor asserts to be empty are empty.                     *)
THEOREM AllJoined == T!Spec => []T!ThreadsJoined
<1>1. ThreadInv => T!ThreadsJoined  BY AllEnded
<1> QED BY <1>1, ThreadInvariance, PTL

-----------------------------------------------------------------------------
(* What a thread is doing tells what has become of its task.               *)
LEMMA TaskStatus ==
  /\ T!status = [t \in T!Threads |-> IF tpc[t] = "start" THEN "queued"
                                     ELSE IF tpc[t] = "task" THEN "running"
                                     ELSE IF tpc[t] \in {"new", "destroyed"} THEN tpc[t]
                                     ELSE "executed"]
  /\ T!status' = [t \in T!Threads |-> IF tpc'[t] = "start" THEN "queued"
                                      ELSE IF tpc'[t] = "task" THEN "running"
                                      ELSE IF tpc'[t] \in {"new", "destroyed"} THEN tpc'[t]
                                      ELSE "executed"]
BY DEF T!status

(* Every step of the thread executor is a step of an executor.             *)
LEMMA ThreadNextExecutor == ASSUME ThreadInv, [T!Next]_T!vars PROVE [T!E!Next]_T!E!vars
<1> DEFINE Same == T!status' = T!status /\ (cpc' = "shut") = (cpc = "shut")
<1>0. Same => UNCHANGED T!E!vars  BY DEF T!E!vars
<1>1. tpc \in [T!Threads -> {"new", "destroyed", "start", "task", "retire", "notify", "join", "ended"}]
  BY DEF ThreadInv, T!TypeOK
<1>2. CASE T!Enqueue
  <2>1. PICK n \in 1 .. MaxThreads - threads :
          tpc' = [t \in T!Threads |-> IF t \notin threads + 1 .. threads + n THEN tpc[t]
                                      ELSE IF t_abort THEN "destroyed" ELSE "start"]
    BY <1>2 DEF T!Enqueue
  <2>2. PICK new : new = threads + 1 .. threads + n  OBVIOUS
  <2>3. new \subseteq T!Threads /\ new # {} /\ \A t \in new : tpc[t] = "new"
    <3>1. threads \in Nat /\ n \in Nat \ {0} /\ threads + n <= MaxThreads /\ MaxThreads \in Nat
      BY RuntimeAssumption, SMT DEF ThreadInv, T!TypeOK
    <3>2. \A i \in new : i \in 1 .. MaxThreads /\ i > threads  BY <2>2, <3>1, SMT
    <3>3. threads + 1 \in new  BY <2>2, <3>1, SMT
    <3> QED BY <3>2, <3>3 DEF T!Threads, ThreadInv, WorkersListed
  <2>4. tpc' = [t \in T!Threads |-> IF t \notin new THEN tpc[t] ELSE IF t_abort THEN "destroyed" ELSE "start"]
        /\ UNCHANGED cpc
    BY <2>1, <2>2, <1>2 DEF T!Enqueue
  <2>5. new \in SUBSET T!Threads /\ new # {} /\ new \subseteq T!E!InState("new")
    BY <2>3, TaskStatus DEF T!E!InState
  <2>6. CASE t_abort
    <3>1. T!E!Become(new, "destroyed")  BY <2>3, <2>4, <2>6, TaskStatus DEF T!E!Become
    <3>2. T!E!Refuse(new)  BY <2>4, <2>5, <3>1 DEF T!E!Refuse
    <3> QED BY <2>5, <3>2 DEF T!E!Next
  <2>7. CASE ~t_abort
    <3>1. T!E!Become(new, "queued")  BY <2>3, <2>4, <2>7, TaskStatus DEF T!E!Become
    <3>2. cpc # "shut"  BY <2>7 DEF ThreadInv, Closing
    <3>3. T!E!Accept(new)  BY <2>4, <2>5, <3>1, <3>2 DEF T!E!Accept
    <3> QED BY <2>5, <3>3 DEF T!E!Next
  <2> QED BY <2>6, <2>7
<1>3. ASSUME NEW t \in T!Threads, T!StartTask(t) PROVE T!E!Next
  <2>1. tpc[t] = "start" /\ tpc' = [tpc EXCEPT ![t] = "task"] /\ UNCHANGED cpc
    BY <1>3 DEF T!StartTask, T!Goto
  <2>2. cpc # "shut"  BY <2>1 DEF ThreadInv, WorkersListed, Closing
  <2>3. T!E!Become({t}, "running") /\ t \in T!E!InState("queued")
    BY <2>1, <1>1, TaskStatus DEF T!E!Become, T!E!InState
  <2>4. T!E!Start(t)  BY <2>1, <2>2, <2>3 DEF T!E!Start
  <2> QED BY <2>4 DEF T!E!Next
<1>4. ASSUME NEW t \in T!Threads, T!FinishTask(t) PROVE T!E!Next
  <2>1. tpc[t] = "task" /\ tpc' = [tpc EXCEPT ![t] = "retire"] /\ UNCHANGED cpc
    BY <1>4 DEF T!FinishTask, T!Goto
  <2>2. T!E!Become({t}, "executed") /\ t \in T!E!InState("running")
    BY <2>1, <1>1, TaskStatus DEF T!E!Become, T!E!InState
  <2>3. T!E!Finish(t)  BY <2>1, <2>2 DEF T!E!Finish
  <2> QED BY <2>3 DEF T!E!Next
<1>5. ASSUME NEW t \in T!Threads, T!RetireWorker(t) \/ T!NotifyOne(t) \/ T!JoinLastRetired(t) PROVE Same
  <2>1. \E from, to \in {"retire", "notify", "join", "ended"} : tpc[t] = from /\ tpc' = [tpc EXCEPT ![t] = to]
    BY <1>5 DEF T!RetireWorker, T!NotifyOne, T!JoinLastRetired, T!Goto
  <2>2. (cpc' = "shut") = (cpc = "shut")  BY <1>5 DEF T!RetireWorker, T!NotifyOne, T!JoinLastRetired
  <2>3. T!status' = T!status  BY <2>1, <1>1, TaskStatus
  <2> QED BY <2>2, <2>3
<1>6. CASE T!Shutdown \/ T!ShutdownSteps
  <2>1. UNCHANGED tpc  BY <1>6 DEF T!Shutdown, T!ShutdownSteps, T!WaitForWorkers, T!JoinLast
  <2>2. T!status' = T!status  BY <2>1, TaskStatus
  <2>3. CASE (cpc' = "shut") = (cpc = "shut")  BY <2>2, <2>3, <1>0
  <2>4. CASE (cpc' = "shut") # (cpc = "shut")
    <3>1. cpc # "shut" /\ cpc' = "shut" /\ m_workers = {}
      BY <1>6, <2>4 DEF T!Shutdown, T!ShutdownSteps, T!WaitForWorkers, T!JoinLast, ThreadInv, Closing
    <3>2. \A t \in T!Threads : tpc[t] # "start"  BY <3>1 DEF ThreadInv, WorkersListed
    <3>3. T!E!InState("queued") = {}  BY <3>2, <1>1, TaskStatus DEF T!E!InState
    <3>4. T!E!Become({}, "destroyed")  BY <2>2, TaskStatus DEF T!E!Become
    <3>5. T!E!Shutdown  BY <3>1, <3>3, <3>4 DEF T!E!Shutdown
    <3> QED BY <3>5 DEF T!E!Next
  <2> QED BY <2>3, <2>4
<1>7. CASE UNCHANGED T!vars
  <2>1. UNCHANGED tpc /\ UNCHANGED cpc  BY <1>7 DEF T!vars
  <2>2. T!status' = T!status  BY <2>1, TaskStatus
  <2> QED BY <2>1, <2>2, <1>0
<1> HIDE DEF Same
<1> QED BY <1>0, <1>2, <1>3, <1>4, <1>5, <1>6, <1>7 DEF T!Next, T!ThreadSteps

(* The thread executor is an executor.                                     *)
THEOREM ThreadExecutor == T!Spec => T!E!Spec
<1>1. T!Init => T!E!Init
  <2>1. T!Init => T!status = [t \in T!Threads |-> "new"] /\ cpc = "idle"  BY TaskStatus DEF T!Init
  <2> QED BY <2>1 DEF T!E!Init
<1>2. ThreadInv /\ [T!Next]_T!vars => [T!E!Next]_T!E!vars  BY ThreadNextExecutor
<1> QED BY <1>1, <1>2, ThreadInvariance, PTL DEF T!Spec, T!E!Spec

-----------------------------------------------------------------------------
(* What the constants have to be.                                          *)
Bounds == MaxTasks \in Nat /\ MaxCount \in Nat

Stops == {"idle", "notify", "test", "run", "run_notify", "waiting", "woken", "timed_out",
          "store_abort", "notify_abort"}

(* Of n tasks those in the queue q, those that the threads execute, r, the *)
(* executed and the destroyed ones, x and d, are different ones.           *)
Apart(q, r, x, d, n) ==
  /\ \A t \in x \cup d \cup Range(q) : t \in 1 .. n
  /\ x \cap d = {}
  /\ (x \cup d) \cap Range(q) = {}
  /\ \A i, j \in DOMAIN q : q[i] = q[j] => i = j
  /\ \A c \in Callers : r[c] \in 0 .. n /\ r[c] \notin x \cup d \cup Range(q)
  /\ \A c, e \in Callers : r[c] = r[e] /\ r[c] # M!NoTask => c = e

(* A thread that executes a task does so in a call of loop, whose count is *)
(* not used up.                                                            *)
InCalls ==
  \A c \in Callers :
    /\ pc[c] \in {"run", "run_notify"} <=> running[c] # M!NoTask
    /\ pc[c] \in {"run", "run_notify"} => call[c].op = "loop" /\ call[c].count > 0

(* One thread shuts down, the others return at once; no task is left in    *)
(* the queue behind its back.                                              *)
Shutting ==
  /\ m_abort => m_tasks = <<>>
  /\ shut => m_abort /\ m_atomic_abort
  /\ \A c \in Callers : /\ pc[c] \in {"store_abort", "notify_abort"} => m_atomic_abort /\ ~shut
                        /\ pc[c] = "notify_abort" => m_abort
  /\ \A c, e \in Callers : /\ pc[c] \in {"store_abort", "notify_abort"}
                           /\ pc[e] \in {"store_abort", "notify_abort"}
                           => c = e

(* The inductive invariant of the manual executor.                         *)
ManualInv ==
  Bounds /\ M!TypeOK /\ Apart(m_tasks, running, executed, destroyed, created) /\ InCalls /\ Shutting

-----------------------------------------------------------------------------
New(n) == [j \in 1 .. n |-> created + j]

(* What a queue is after a span of new tasks has been put into it.         *)
LEMMA NewTasks ==
  ASSUME Bounds, NEW q \in Seq(M!Tasks), created \in 0 .. MaxTasks, NEW n \in 1 .. MaxTasks - created
  PROVE  /\ Range(New(n)) = created + 1 .. created + n
         /\ q \o New(n) \in Seq(M!Tasks)
         /\ Range(q \o New(n)) = Range(q) \cup (created + 1 .. created + n)
         /\ (\A i, j \in DOMAIN q : q[i] = q[j] => i = j) /\ (\A t \in Range(q) : t \in 1 .. created)
              => \A i, j \in DOMAIN (q \o New(n)) : (q \o New(n))[i] = (q \o New(n))[j] => i = j
<1> DEFINE l == Len(q)
<1> DEFINE r == q \o New(n)
<1>0. l \in Nat /\ DOMAIN q = 1 .. l /\ created \in Nat /\ n \in Nat /\ MaxTasks \in Nat
      /\ created + n <= MaxTasks
  BY SMT DEF Bounds
<1>1. New(n) \in Seq(M!Tasks) /\ Len(New(n)) = n /\ DOMAIN New(n) = 1 .. n
      /\ \A j \in 1 .. n : New(n)[j] = created + j
  <2>1. \A j \in 1 .. n : created + j \in 1 .. MaxTasks  BY <1>0, SMT
  <2> QED BY <1>0, <2>1, SMT DEF New, M!Tasks
<1>2. /\ r \in Seq(M!Tasks) /\ DOMAIN r = 1 .. l + n
      /\ \A i \in 1 .. l : r[i] = q[i]
      /\ \A i \in l + 1 .. l + n : r[i] = created + (i - l)
  <2>1. r \in Seq(M!Tasks) /\ DOMAIN r = 1 .. l + n  BY <1>0, <1>1, SMT
  <2>2. \A i \in 1 .. l : r[i] = q[i]  BY <1>0, <1>1, SMT
  <2>3. \A i \in l + 1 .. l + n : r[i] = created + (i - l)  BY <1>0, <1>1, <2>1, SMT
  <2> QED BY <2>1, <2>2, <2>3
<1>3. Range(New(n)) = created + 1 .. created + n
  <2>1. \A t \in created + 1 .. created + n : t - created \in 1 .. n /\ created + (t - created) = t
    BY <1>0, SMT
  <2>2. \A j \in 1 .. n : created + j \in created + 1 .. created + n  BY <1>0, SMT
  <2>3. ASSUME NEW t \in created + 1 .. created + n PROVE t \in Range(New(n))
    <3>1. PICK j \in 1 .. n : New(n)[j] = t  BY <2>1, <1>1
    <3> QED BY <3>1, <1>1 DEF Range
  <2>4. ASSUME NEW t \in Range(New(n)) PROVE t \in created + 1 .. created + n
    <3>1. PICK j \in 1 .. n : New(n)[j] = t  BY <1>1 DEF Range
    <3> QED BY <3>1, <2>2, <1>1
  <2> QED BY <2>3, <2>4
<1> HIDE DEF r, l
<1>4. Range(r) = Range(q) \cup (created + 1 .. created + n)
  <2>1. ASSUME NEW i \in 1 .. l + n PROVE r[i] \in Range(q) \cup (created + 1 .. created + n)
    <3>1. CASE i <= l
      <4>1. i \in 1 .. l  BY <3>1, <1>0, SMT
      <4> QED BY <4>1, <1>0, <1>2 DEF Range
    <3>2. CASE ~(i <= l)
      <4>1. i \in l + 1 .. l + n /\ created + (i - l) \in created + 1 .. created + n  BY <3>2, <1>0, SMT
      <4> QED BY <4>1, <1>2
    <3> QED BY <3>1, <3>2
  <2>2. ASSUME NEW i \in 1 .. l PROVE q[i] \in Range(r)
    <3>1. i \in 1 .. l + n  BY <1>0, SMT
    <3> QED BY <3>1, <1>2 DEF Range
  <2>3. ASSUME NEW t \in created + 1 .. created + n PROVE t \in Range(r)
    <3>1. PICK i : i = l + (t - created)  OBVIOUS
    <3>2. i \in l + 1 .. l + n /\ i \in 1 .. l + n /\ created + (i - l) = t  BY <3>1, <1>0, SMT
    <3> QED BY <3>2, <1>2 DEF Range
  <2> QED BY <2>1, <2>2, <2>3, <1>0, <1>2 DEF Range
<1>5. ASSUME \A i, j \in DOMAIN q : q[i] = q[j] => i = j, \A t \in Range(q) : t \in 1 .. created,
             NEW i \in 1 .. l + n, NEW j \in 1 .. l + n, r[i] = r[j]
      PROVE  i = j
  <2>1. \A a \in 1 .. l : r[a] = q[a] /\ q[a] \in 1 .. created  BY <1>0, <1>2, <1>5 DEF Range
  <2>2. CASE i <= l /\ j <= l
    <3>1. i \in 1 .. l /\ j \in 1 .. l  BY <2>2, <1>0, SMT
    <3>2. q[i] = q[j] /\ i \in DOMAIN q /\ j \in DOMAIN q  BY <3>1, <2>1, <1>0, <1>5
    <3> QED BY <3>2, <1>5
  <2>3. CASE i > l /\ j > l
    <3>1. i \in l + 1 .. l + n /\ j \in l + 1 .. l + n  BY <2>3, <1>0, SMT
    <3>2. created + (i - l) = created + (j - l)  BY <3>1, <1>2, <1>5
    <3> QED BY <3>2, <1>0, SMT
  <2>4. CASE i <= l /\ j > l
    <3>1. i \in 1 .. l /\ j \in l + 1 .. l + n  BY <2>4, <1>0, SMT
    <3>2. q[i] = created + (j - l) /\ q[i] \in 1 .. created  BY <3>1, <2>1, <1>2, <1>5
    <3> QED BY <3>1, <3>2, <1>0, SMT
  <2>5. CASE i > l /\ j <= l
    <3>1. j \in 1 .. l /\ i \in l + 1 .. l + n  BY <2>5, <1>0, SMT
    <3>2. q[j] = created + (i - l) /\ q[j] \in 1 .. created  BY <3>1, <2>1, <1>2, <1>5
    <3> QED BY <3>1, <3>2, <1>0, SMT
  <2> QED BY <2>2, <2>3, <2>4, <2>5, <1>0, SMT
<1>6. (\A i, j \in DOMAIN q : q[i] = q[j] => i = j) /\ (\A t \in Range(q) : t \in 1 .. created)
        => \A i, j \in DOMAIN r : r[i] = r[j] => i = j
  BY <1>2, <1>5
<1> QED BY <1>2, <1>3, <1>4, <1>6 DEF r

(* Tasks that enter the queue are new, ...                                 *)
LEMMA ApartAccept ==
  ASSUME Bounds, NEW q \in Seq(M!Tasks), created \in 0 .. MaxTasks, NEW n \in 1 .. MaxTasks - created,
         NEW r, NEW x, NEW d, Apart(q, r, x, d, created)
  PROVE  Apart(q \o New(n), r, x, d, created + n)
<1> DEFINE p == q \o New(n)
<1>0. created \in Nat /\ n \in Nat  BY SMT DEF Bounds
<1>1. Range(p) = Range(q) \cup (created + 1 .. created + n)  BY NewTasks
<1>2. \A i, j \in DOMAIN p : p[i] = p[j] => i = j
  <2>1. (\A i, j \in DOMAIN q : q[i] = q[j] => i = j) /\ (\A t \in Range(q) : t \in 1 .. created)
    BY DEF Apart
  <2> QED BY <2>1, NewTasks
<1>3. \A t \in created + 1 .. created + n : t \in 1 .. created + n /\ t \notin 1 .. created /\ t \notin 0 .. created
  BY <1>0, SMT
<1>4. \A t \in 1 .. created : t \in 1 .. created + n  BY <1>0, SMT
<1>5. \A t \in 0 .. created : t \in 0 .. created + n  BY <1>0, SMT
<1> HIDE DEF p
<1>6. Apart(p, r, x, d, created + n)  BY <1>1, <1>2, <1>3, <1>4, <1>5 DEF Apart
<1> QED BY <1>6 DEF p

(* ... and so are those that are refused and destroyed.                    *)
LEMMA ApartRefuse ==
  ASSUME Bounds, NEW q, created \in 0 .. MaxTasks, NEW n \in 1 .. MaxTasks - created,
         NEW r, NEW x, NEW d, Apart(q, r, x, d, created)
  PROVE  Apart(q, r, x, d \cup (created + 1 .. created + n), created + n)
<1>0. created \in Nat /\ n \in Nat  BY SMT DEF Bounds
<1>3. \A t \in created + 1 .. created + n : t \in 1 .. created + n /\ t \notin 1 .. created /\ t \notin 0 .. created
  BY <1>0, SMT
<1>4. \A t \in 1 .. created : t \in 1 .. created + n  BY <1>0, SMT
<1>5. \A t \in 0 .. created : t \in 0 .. created + n  BY <1>0, SMT
<1> QED BY <1>3, <1>4, <1>5, SMT DEF Apart

(* What a queue is after its first task has been taken out.                *)
LEMMA FirstTask ==
  ASSUME NEW q \in Seq(M!Tasks), q # <<>>, \A i, j \in DOMAIN q : q[i] = q[j] => i = j
  PROVE  /\ Tail(q) \in Seq(M!Tasks)
         /\ Head(q) \in M!Tasks
         /\ Range(q) = Range(Tail(q)) \cup {Head(q)}
         /\ Head(q) \notin Range(Tail(q))
         /\ \A i, j \in DOMAIN Tail(q) : Tail(q)[i] = Tail(q)[j] => i = j
<1> DEFINE r == Tail(q)
<1> DEFINE l == Len(q)
<1>1. /\ r \in Seq(M!Tasks) /\ l \in Nat \ {0}
      /\ DOMAIN q = 1 .. l /\ DOMAIN r = 1 .. l - 1
      /\ Head(q) = q[1] /\ Head(q) \in M!Tasks
      /\ \A i \in 1 .. l - 1 : r[i] = q[i + 1]
  BY SMT
<1> HIDE DEF r, l
<1>2. \A i \in 1 .. l - 1 : i + 1 \in 1 .. l /\ i + 1 # 1  BY <1>1, SMT
<1>3. 1 \in 1 .. l  BY <1>1, SMT
<1>4. ASSUME NEW i \in 1 .. l PROVE q[i] \in Range(r) \cup {q[1]}
  <2>1. CASE i = 1  BY <2>1
  <2>2. CASE i # 1
    <3>1. PICK a : a = i - 1  OBVIOUS
    <3>2. a \in 1 .. l - 1 /\ a + 1 = i  BY <2>2, <3>1, <1>1, SMT
    <3>3. r[a] = q[i]  BY <3>2, <1>1
    <3>4. a \in DOMAIN r  BY <3>2, <1>1
    <3> QED BY <3>3, <3>4 DEF Range
  <2> QED BY <2>1, <2>2
<1>5. ASSUME NEW i \in 1 .. l - 1 PROVE r[i] \in Range(q) /\ r[i] # q[1]
  <2>1. r[i] = q[i + 1] /\ i + 1 \in 1 .. l /\ i + 1 # 1  BY <1>1, <1>2
  <2>2. r[i] \in Range(q)  BY <2>1, <1>1 DEF Range
  <2>3. r[i] # q[1]  BY <2>1, <1>1, <1>3
  <2> QED BY <2>2, <2>3
<1>6. ASSUME NEW i \in 1 .. l - 1, NEW j \in 1 .. l - 1, r[i] = r[j] PROVE i = j
  <2>1. q[i + 1] = q[j + 1] /\ i + 1 \in 1 .. l /\ j + 1 \in 1 .. l  BY <1>6, <1>1, <1>2
  <2>2. i + 1 = j + 1  BY <2>1, <1>1
  <2> QED BY <2>2, SMT
<1>7. Range(q) = Range(r) \cup {q[1]}
  <2>1. q[1] \in Range(q)  BY <1>1, <1>3 DEF Range
  <2>2. \A t \in Range(r) : t \in Range(q)  BY <1>1, <1>5, SMT DEF Range
  <2>3. \A t \in Range(q) : t \in Range(r) \cup {q[1]}  BY <1>1, <1>4, SMT DEF Range
  <2> QED BY <2>1, <2>2, <2>3
<1>8. q[1] \notin Range(r)  BY <1>1, <1>5 DEF Range
<1> QED BY <1>1, <1>6, <1>7, <1>8 DEF r

(* A thread takes the first task out of the queue.                         *)
LEMMA ApartPop ==
  ASSUME NEW q \in Seq(M!Tasks), q # <<>>, NEW r \in [Callers -> M!Tasks \cup {M!NoTask}],
         NEW x, NEW d, NEW n \in Nat, Apart(q, r, x, d, n),
         NEW c \in Callers, r[c] = M!NoTask
  PROVE  Apart(Tail(q), [r EXCEPT ![c] = Head(q)], x, d, n)
<1> DEFINE s == [r EXCEPT ![c] = Head(q)]
<1>1. \A i, j \in DOMAIN q : q[i] = q[j] => i = j  BY DEF Apart
<1>2. /\ Range(q) = Range(Tail(q)) \cup {Head(q)}
      /\ Head(q) \notin Range(Tail(q))
      /\ \A i, j \in DOMAIN Tail(q) : Tail(q)[i] = Tail(q)[j] => i = j
  BY <1>1, FirstTask
<1>3. s[c] = Head(q) /\ \A e \in Callers \ {c} : s[e] = r[e]  OBVIOUS
<1>4. Head(q) \in 1 .. n /\ Head(q) \in 0 .. n /\ Head(q) \notin x \cup d
      /\ \A e \in Callers : r[e] # Head(q)
  <2>1. Head(q) \in Range(q)  BY <1>2
  <2>2. Head(q) \in 1 .. n  BY <2>1 DEF Apart
  <2> QED BY <2>1, <2>2, SMT DEF Apart
<1> HIDE DEF s
<1>5. Apart(Tail(q), s, x, d, n)  BY <1>2, <1>3, <1>4, SMT DEF Apart
<1> QED BY <1>5 DEF s

(* It has executed it.                                                     *)
LEMMA ApartFinish ==
  ASSUME NEW q, NEW r \in [Callers -> M!Tasks \cup {M!NoTask}],
         NEW x, NEW d, NEW n \in Nat, Apart(q, r, x, d, n),
         NEW c \in Callers, r[c] # M!NoTask
  PROVE  Apart(q, [r EXCEPT ![c] = M!NoTask], x \cup {r[c]}, d, n)
<1> DEFINE s == [r EXCEPT ![c] = M!NoTask]
<1>1. s[c] = M!NoTask /\ \A e \in Callers \ {c} : s[e] = r[e]  OBVIOUS
<1>2. r[c] \in 1 .. n /\ r[c] \notin d \cup Range(q) /\ \A e \in Callers \ {c} : r[e] # r[c]
  BY SMT DEF Apart, M!NoTask
<1>3. M!NoTask \in 0 .. n /\ M!NoTask \notin 1 .. n  BY SMT DEF M!NoTask
<1> HIDE DEF s
<1>4. Apart(q, s, x \cup {r[c]}, d, n)  BY <1>1, <1>2, <1>3, SMT DEF Apart
<1> QED BY <1>4 DEF s

(* The queue is emptied, and what was in it destroyed.                     *)
LEMMA ApartClear ==
  ASSUME NEW q, NEW r, NEW x, NEW d, NEW n, Apart(q, r, x, d, n)
  PROVE  Apart(<<>>, r, x, d \cup Range(q), n)
<1>1. Range(<<>>) = {} /\ DOMAIN <<>> = {}  BY SMT DEF Range
<1> QED BY <1>1 DEF Apart

-----------------------------------------------------------------------------
(* A step in which threads only go from one statement of the manual        *)
(* executor to another, and no task moves.                                 *)
Quiet ==
  /\ UNCHANGED <<m_tasks, m_abort, m_atomic_abort, shut, running, created, executed, destroyed>>
  /\ pc' \in [Callers -> Stops]
  /\ call' \in [Callers -> M!Calls]
  /\ \A d \in Callers :
       \/ pc'[d] = pc[d] /\ call'[d] = call[d]
       \/ pc[d] = "run_notify" /\ pc'[d] = "run" /\ call'[d] = call[d]
       \/ {pc[d], pc'[d]} \cap {"run", "run_notify", "store_abort", "notify_abort"} = {}

(* Such a step keeps the invariant.                                        *)
LEMMA QuietInv == ASSUME ManualInv, Quiet PROVE ManualInv'
<1> USE DEF ManualInv
<1>1. M!TypeOK'  BY DEF Quiet, M!TypeOK, Stops
<1>2. Apart(m_tasks, running, executed, destroyed, created)'  BY DEF Quiet
<1>3. InCalls'  BY DEF Quiet, InCalls
<1>4. Shutting'
  <2>1. \A d \in Callers : pc'[d] \in {"store_abort", "notify_abort"} => pc'[d] = pc[d]  BY DEF Quiet
  <2> QED BY <2>1 DEF Quiet, Shutting
<1> QED BY <1>1, <1>2, <1>3, <1>4

(* Types of the manual executor's variables, for the leaves below.         *)
LEMMA ManualTypes ==
  ASSUME ManualInv
  PROVE  /\ Bounds
         /\ m_tasks \in Seq(M!Tasks)
         /\ m_abort \in BOOLEAN /\ m_atomic_abort \in BOOLEAN /\ shut \in BOOLEAN
         /\ pc \in [Callers -> Stops]
         /\ call \in [Callers -> M!Calls]
         /\ running \in [Callers -> M!Tasks \cup {M!NoTask}]
         /\ created \in 0 .. MaxTasks /\ created \in Nat /\ MaxTasks \in Nat
         /\ executed \subseteq M!Tasks /\ destroyed \subseteq M!Tasks
         /\ M!Tasks = 1 .. MaxTasks
<1>1. M!TypeOK  BY DEF ManualInv
<1>2. m_abort \in BOOLEAN /\ m_atomic_abort \in BOOLEAN /\ shut \in BOOLEAN  BY <1>1 DEF M!TypeOK
<1>3. pc \in [Callers -> Stops]  BY <1>1 DEF M!TypeOK, Stops
<1>4. created \in Nat /\ MaxTasks \in Nat  BY <1>1, SMT DEF M!TypeOK, ManualInv, Bounds
<1>5. Bounds  BY DEF ManualInv
<1> QED BY <1>1, <1>2, <1>3, <1>4, <1>5 DEF M!TypeOK, M!Tasks

(* notify_all, calls, returns, waits and time limits.                      *)
LEMMA QuietSteps ==
  ASSUME ManualInv, NEW c \in Callers,
         \/ M!Notify(c) \/ M!Call(c) \/ M!Timeout(c) \/ M!WaitStep(c)
         \/ M!LoopStep(c) /\ (M!Return(c) \/ M!Suspend(c))
  PROVE  Quiet
<1>0. /\ pc \in [Callers -> Stops] /\ call \in [Callers -> M!Calls]
      /\ M!NoCall \in M!Calls
  BY ManualTypes DEF M!Calls
<1>1. CASE M!Notify(c)
  <2>1. pc' = [d \in Callers |-> IF d = c THEN IF pc[c] = "notify" THEN "idle" ELSE "run"
                                 ELSE IF pc[d] = "waiting" THEN "woken" ELSE pc[d]]
        /\ pc[c] \in {"notify", "run_notify"}
        /\ UNCHANGED <<m_tasks, m_abort, m_atomic_abort, shut, call, running, created, executed, destroyed>>
    BY <1>1 DEF M!Notify, M!WakeAll, M!aborts, M!history
  <2> QED BY <1>0, <2>1 DEF Quiet, Stops
<1>2. CASE M!Call(c)
  <2>1. /\ pc[c] = "idle" /\ pc' = [pc EXCEPT ![c] = "test"]
        /\ UNCHANGED <<m_tasks, m_abort, m_atomic_abort, shut, running, created, executed, destroyed>>
    BY <1>2 DEF M!Call, M!Goto, M!aborts, M!history
  <2>2. PICK op \in {"loop", "wait"}, n \in 1 .. MaxCount, timed \in BOOLEAN :
          call' = [call EXCEPT ![c] = [op |-> op, count |-> n, timed |-> timed]]
    BY <1>2 DEF M!Call
  <2>3. [op |-> op, count |-> n, timed |-> timed] \in M!Calls
    <3>1. n \in 0 .. MaxCount  BY SMT DEF Bounds
    <3> QED BY <3>1 DEF M!Calls
  <2>4. call' \in [Callers -> M!Calls] /\ \A d \in Callers \ {c} : call'[d] = call[d]  BY <1>0, <2>2, <2>3
  <2>5. pc' \in [Callers -> Stops] /\ pc'[c] = "test" /\ \A d \in Callers \ {c} : pc'[d] = pc[d]
    BY <1>0, <2>1 DEF Stops
  <2> QED BY <2>1, <2>4, <2>5 DEF Quiet
<1>3. CASE M!Timeout(c)
  <2>1. /\ pc[c] = "waiting" /\ pc' = [pc EXCEPT ![c] = "timed_out"]
        /\ UNCHANGED <<m_tasks, m_abort, m_atomic_abort, shut, call, running, created, executed, destroyed>>
    BY <1>3 DEF M!Timeout, M!Goto, M!aborts, M!history
  <2> QED BY <1>0, <2>1 DEF Quiet, Stops
<1>4. ASSUME pc[c] \in {"test", "woken", "timed_out"}, M!Return(c) \/ M!Suspend(c),
             UNCHANGED M!aborts, UNCHANGED M!history
      PROVE  Quiet
  <2>1. UNCHANGED <<m_tasks, m_abort, m_atomic_abort, shut, running, created, executed, destroyed>>
    BY <1>4 DEF M!Return, M!Suspend, M!aborts, M!history
  <2>2. \E to \in {"idle", "waiting"} : pc' = [pc EXCEPT ![c] = to]  BY <1>4 DEF M!Return, M!Suspend
  <2>3. pc' \in [Callers -> Stops] /\ pc'[c] \in {"idle", "waiting"} /\ \A d \in Callers \ {c} : pc'[d] = pc[d]
    BY <1>0, <2>2 DEF Stops
  <2>4. call' = call \/ call' = [call EXCEPT ![c] = M!NoCall]  BY <1>4 DEF M!Return, M!Suspend
  <2>5. call' \in [Callers -> M!Calls] /\ \A d \in Callers \ {c} : call'[d] = call[d]  BY <1>0, <2>4
  <2> QED BY <1>4, <2>1, <2>3, <2>5 DEF Quiet
<1>5. CASE M!WaitStep(c)  BY <1>4, <1>5 DEF M!WaitStep
<1>6. CASE M!LoopStep(c) /\ (M!Return(c) \/ M!Suspend(c))  BY <1>4, <1>6 DEF M!LoopStep
<1> QED BY <1>1, <1>2, <1>3, <1>5, <1>6

-----------------------------------------------------------------------------
(* Where a task is tells what has become of it.                            *)
LEMMA ManualStatus ==
  /\ M!status = [t \in M!Tasks |-> IF t \in executed THEN "executed"
                               ELSE IF t \in destroyed THEN "destroyed"
                               ELSE IF t \in Range(m_tasks) THEN "queued"
                               ELSE IF \E c \in Callers : running[c] = t THEN "running"
                               ELSE "new"]
  /\ M!status' = [t \in M!Tasks |-> IF t \in executed' THEN "executed"
                                ELSE IF t \in destroyed' THEN "destroyed"
                                ELSE IF t \in Range(m_tasks') THEN "queued"
                                ELSE IF \E c \in Callers : running'[c] = t THEN "running"
                                ELSE "new"]
BY DEF M!status, M!Queued, Range

(* The places are different ones.                                          *)
LEMMA StatusNow ==
  ASSUME ManualInv, NEW t \in M!Tasks
  PROVE  /\ t > created => M!status[t] = "new"
         /\ t \in Range(m_tasks) => M!status[t] = "queued"
         /\ (\E c \in Callers : running[c] = t) => M!status[t] = "running"
<1>1. Apart(m_tasks, running, executed, destroyed, created) /\ created \in Nat /\ t \in Nat
  BY ManualTypes, SMT DEF ManualInv
<1>2. t > created => t \notin 1 .. created /\ t \notin 0 .. created  BY <1>1, SMT
<1> QED BY <1>1, <1>2, ManualStatus, SMT DEF Apart

(* enqueue accepts a span or, after shutdown() has set m_abort, refuses    *)
(* it.                                                                     *)
LEMMA ManualEnqueue ==
  ASSUME ManualInv, NEW c \in Callers, M!Enqueue(c)
  PROVE  ManualInv' /\ M!E!Next
<1>0. PICK n \in 1 .. MaxTasks - created :
        /\ created' = created + n
        /\ IF m_abort
           THEN destroyed' = destroyed \cup (created + 1 .. created + n) /\ UNCHANGED <<m_tasks, pc>>
           ELSE /\ m_tasks' = m_tasks \o New(n)
                /\ pc' = [pc EXCEPT ![c] = IF @ = "idle" THEN "notify" ELSE "run_notify"]
                /\ UNCHANGED destroyed
  BY DEF M!Enqueue, New
<1>1. /\ pc[c] \in {"idle", "run"}
      /\ UNCHANGED <<m_abort, m_atomic_abort, shut, call, running, executed>>
  BY DEF M!Enqueue, M!aborts
<1>2. PICK new : new = created + 1 .. created + n  OBVIOUS
<1>3. /\ Range(New(n)) = new
      /\ m_tasks \o New(n) \in Seq(M!Tasks)
      /\ Range(m_tasks \o New(n)) = Range(m_tasks) \cup new
  BY <1>2, ManualTypes, NewTasks
<1>4. /\ created + n \in 0 .. MaxTasks /\ new \subseteq M!Tasks /\ new # {}
      /\ \A t \in new : t > created
  <2>1. created \in Nat /\ n \in Nat \ {0} /\ MaxTasks \in Nat /\ created + n <= MaxTasks
        /\ M!Tasks = 1 .. MaxTasks
    BY ManualTypes, SMT
  <2>2. created + 1 \in new  BY <2>1, <1>2, SMT
  <2>3. \A t \in new : t \in 1 .. MaxTasks /\ t > created  BY <2>1, <1>2, SMT
  <2>4. created + n \in 0 .. MaxTasks  BY <2>1, SMT
  <2> QED BY <2>1, <2>2, <2>3, <2>4
<1>5. new \in SUBSET M!Tasks /\ new # {} /\ new \subseteq M!E!InState("new")
  BY <1>4, StatusNow DEF M!E!InState
<1>6. \A t \in new : t \notin executed \cup destroyed
  <2>1. created \in Nat  BY ManualTypes
  <2>2. \A t \in executed \cup destroyed : t \in 1 .. created  BY DEF ManualInv, Apart
  <2> QED BY <2>1, <2>2, <1>2, SMT
<1>7. CASE m_abort
  <2>0. destroyed' = destroyed \cup new /\ created' = created + n /\ UNCHANGED <<m_tasks, pc>>
    BY <1>0, <1>2, <1>7
  <2>1. M!TypeOK'  BY <1>1, <1>4, <2>0 DEF ManualInv, M!TypeOK
  <2>2. Apart(m_tasks', running', executed', destroyed', created')
    <3>1. Apart(m_tasks, running, executed, destroyed \cup (created + 1 .. created + n), created + n)
      BY ManualTypes, ApartRefuse DEF ManualInv
    <3> QED BY <1>1, <1>2, <2>0, <3>1
  <2>3. InCalls' /\ Shutting'  BY <1>1, <2>0 DEF ManualInv, InCalls, Shutting
  <2>4. M!E!Become(new, "destroyed")  BY <1>1, <1>6, <2>0, ManualStatus DEF M!E!Become
  <2>5. M!E!Refuse(new)  BY <1>1, <1>5, <2>4 DEF M!E!Refuse
  <2> QED BY <2>1, <2>2, <2>3, <2>5, <1>5 DEF ManualInv, M!E!Next
<1>8. CASE ~m_abort
  <2>0. /\ m_tasks' = m_tasks \o New(n) /\ created' = created + n /\ UNCHANGED destroyed
        /\ Range(m_tasks') = Range(m_tasks) \cup new
        /\ pc' = [pc EXCEPT ![c] = IF pc[c] = "idle" THEN "notify" ELSE "run_notify"]
    BY <1>0, <1>3, <1>8
  <2>a. pc \in [Callers -> Stops]  BY ManualTypes
  <2>1. M!TypeOK'
    <3>1. m_tasks' \in Seq(M!Tasks) /\ created' \in 0 .. MaxTasks  BY <1>3, <1>4, <2>0
    <3>2. pc' \in [Callers -> Stops]  BY <2>0, <2>a DEF Stops
    <3> QED BY <1>1, <2>0, <3>1, <3>2 DEF ManualInv, M!TypeOK, Stops
  <2>2. Apart(m_tasks', running', executed', destroyed', created')
    <3>1. Apart(m_tasks \o New(n), running, executed, destroyed, created + n)
      BY ManualTypes, ApartAccept DEF ManualInv
    <3> QED BY <1>1, <2>0, <3>1
  <2>b. /\ pc'[c] = IF pc[c] = "idle" THEN "notify" ELSE "run_notify"
        /\ \A d \in Callers \ {c} : pc'[d] = pc[d]
    BY <2>0, <2>a
  <2>3. InCalls' /\ Shutting'
    <3>1. InCalls'  BY <1>1, <2>b DEF ManualInv, InCalls
    <3>2. Shutting'  BY <1>1, <1>8, <2>b DEF ManualInv, Shutting
    <3> QED BY <3>1, <3>2
  <2>4. M!E!Become(new, "queued")  BY <1>1, <1>6, <2>0, ManualStatus DEF M!E!Become
  <2>c. ~shut  BY <1>8 DEF ManualInv, Shutting
  <2>5. M!E!Accept(new)  BY <1>1, <1>5, <2>4, <2>c DEF M!E!Accept
  <2> QED BY <2>1, <2>2, <2>3, <2>5, <1>5 DEF ManualInv, M!E!Next
<1> QED BY <1>7, <1>8

(* A thread in loop starts the first task, ...                             *)
LEMMA ManualPop ==
  ASSUME ManualInv, NEW c \in Callers, M!LoopStep(c), M!PopTask(c)
  PROVE  ManualInv' /\ M!E!Next
<1> DEFINE first == Head(m_tasks)
<1>1. /\ pc[c] \in {"test", "woken", "timed_out"} /\ call[c].op = "loop"
      /\ UNCHANGED <<m_abort, m_atomic_abort, shut, call, created, executed, destroyed>>
      /\ pc' = [pc EXCEPT ![c] = "run"]
      /\ running' = [running EXCEPT ![c] = first]
      /\ m_tasks' = Tail(m_tasks)
  BY DEF M!LoopStep, M!PopTask, M!aborts, M!history
<1>2. call[c].count > 0 /\ ~m_abort /\ m_tasks # <<>>
  <2>1. pc' \in [Callers -> Stops] /\ pc'[c] = "run"  BY <1>1, ManualTypes DEF Stops
  <2>2. ~M!Return(c) /\ ~M!Suspend(c)  BY <2>1, ManualTypes DEF M!Return, M!Suspend
  <2>3. call[c].count > 0 /\ ~m_abort /\ M!Enough(c)  BY <2>2 DEF M!LoopStep
  <2>4. Len(m_tasks) >= 1  BY <1>1, <2>3 DEF M!Enough
  <2> QED BY <2>3, <2>4, ManualTypes, SMT
<1>3. /\ pc \in [Callers -> Stops] /\ running \in [Callers -> M!Tasks \cup {M!NoTask}]
      /\ m_tasks \in Seq(M!Tasks) /\ created \in Nat
  BY ManualTypes
<1>4. running[c] = M!NoTask  BY <1>1 DEF ManualInv, InCalls
<1>5. /\ Tail(m_tasks) \in Seq(M!Tasks) /\ first \in M!Tasks
      /\ Range(m_tasks) = Range(Tail(m_tasks)) \cup {first}
      /\ first \notin Range(Tail(m_tasks))
  <2>1. \A i, j \in DOMAIN m_tasks : m_tasks[i] = m_tasks[j] => i = j  BY DEF ManualInv, Apart
  <2> QED BY <1>2, <1>3, <2>1, FirstTask
<1>6. Apart(m_tasks', running', executed', destroyed', created')
  <2>1. Apart(m_tasks, running, executed, destroyed, created)  BY DEF ManualInv
  <2>2. Apart(Tail(m_tasks), [running EXCEPT ![c] = Head(m_tasks)], executed, destroyed, created)
    BY <1>2, <1>3, <1>4, <2>1, ApartPop
  <2> QED BY <1>1, <2>2
<1> HIDE DEF first
<1>7. /\ pc' \in [Callers -> Stops] /\ pc'[c] = "run" /\ \A d \in Callers \ {c} : pc'[d] = pc[d]
      /\ running' \in [Callers -> M!Tasks \cup {M!NoTask}]
      /\ running'[c] = first /\ \A d \in Callers \ {c} : running'[d] = running[d]
  BY <1>1, <1>3, <1>5 DEF Stops
<1>8. first # M!NoTask  BY <1>5, SMT DEF M!Tasks, M!NoTask
<1>9. M!TypeOK'
  <2>1. m_tasks' \in Seq(M!Tasks)  BY <1>1, <1>5
  <2> QED BY <1>1, <1>7, <2>1 DEF ManualInv, M!TypeOK, Stops
<1>10. InCalls'  BY <1>1, <1>2, <1>7, <1>8 DEF ManualInv, InCalls
<1>11. Shutting'  BY <1>1, <1>2, <1>7 DEF ManualInv, Shutting
<1>12. M!E!Become({first}, "running")
  <2>1. first \notin executed \cup destroyed /\ \A d \in Callers : running[d] # first
    BY <1>5 DEF ManualInv, Apart
  <2>2. \A t \in M!Tasks : t # first => ((\E d \in Callers : running'[d] = t) <=> (\E d \in Callers : running[d] = t))
    BY <1>4, <1>7, <1>8, SMT DEF M!Tasks, M!NoTask
  <2>3. \A t : t \in Range(m_tasks') <=> t \in Range(m_tasks) /\ t # first  BY <1>1, <1>5
  <2> QED BY <1>1, <1>7, <2>1, <2>2, <2>3, ManualStatus, SMT DEF M!E!Become
<1>13. M!E!Start(first)
  <2>1. ~shut  BY <1>2 DEF ManualInv, Shutting
  <2>2. first \in M!E!InState("queued")  BY <1>5, StatusNow DEF M!E!InState
  <2> QED BY <1>1, <1>12, <2>1, <2>2 DEF M!E!Start
<1> QED BY <1>5, <1>6, <1>9, <1>10, <1>11, <1>13 DEF ManualInv, M!E!Next

(* ... and has executed it.                                                *)
LEMMA ManualFinish ==
  ASSUME ManualInv, NEW c \in Callers, M!FinishTask(c)
  PROVE  ManualInv' /\ M!E!Next
<1>1. /\ pc[c] = "run" /\ pc' = [pc EXCEPT ![c] = "test"]
      /\ call' = [call EXCEPT ![c].count = @ - 1]
      /\ executed' = executed \cup {running[c]}
      /\ running' = [running EXCEPT ![c] = M!NoTask]
      /\ UNCHANGED <<m_tasks, m_abort, m_atomic_abort, shut, created, destroyed>>
  BY DEF M!FinishTask, M!Goto, M!aborts
<1>2. running[c] # M!NoTask /\ call[c].op = "loop" /\ call[c].count > 0  BY <1>1 DEF ManualInv, InCalls
<1>3. /\ pc \in [Callers -> Stops] /\ running \in [Callers -> M!Tasks \cup {M!NoTask}]
      /\ call \in [Callers -> M!Calls] /\ created \in Nat
  BY ManualTypes
<1>4. running[c] \in M!Tasks  BY <1>2, <1>3
<1>5. /\ pc' \in [Callers -> Stops] /\ pc'[c] = "test" /\ \A d \in Callers \ {c} : pc'[d] = pc[d]
      /\ running' \in [Callers -> M!Tasks \cup {M!NoTask}]
      /\ running'[c] = M!NoTask /\ \A d \in Callers \ {c} : running'[d] = running[d]
  BY <1>1, <1>3 DEF Stops
<1>6. call' \in [Callers -> M!Calls] /\ \A d \in Callers \ {c} : call'[d] = call[d]
  <2>1. call[c] \in [op : {"loop", "wait"}, count : 0 .. MaxCount, timed : BOOLEAN]
    BY <1>2, <1>3, SMT DEF M!Calls, M!NoCall
  <2>2. call[c].count - 1 \in 0 .. MaxCount  BY <1>2, <2>1, SMT DEF ManualInv, Bounds
  <2>3. [call[c] EXCEPT !.count = call[c].count - 1]
          \in [op : {"loop", "wait"}, count : 0 .. MaxCount, timed : BOOLEAN]
    BY <2>1, <2>2
  <2>4. call' = [call EXCEPT ![c] = [call[c] EXCEPT !.count = call[c].count - 1]]  BY <1>1
  <2> QED BY <1>3, <2>3, <2>4 DEF M!Calls
<1>7. M!TypeOK'
  <2>1. executed' \cup destroyed' \subseteq M!Tasks  BY <1>1, <1>4, ManualTypes
  <2> QED BY <1>1, <1>5, <1>6, <2>1 DEF ManualInv, M!TypeOK, Stops
<1>8. Apart(m_tasks', running', executed', destroyed', created')
  <2>1. Apart(m_tasks, running, executed, destroyed, created)  BY DEF ManualInv
  <2>2. Apart(m_tasks, [running EXCEPT ![c] = M!NoTask], executed \cup {running[c]}, destroyed, created)
    BY <1>2, <1>3, <2>1, ApartFinish
  <2> QED BY <1>1, <2>2
<1>9. InCalls'  BY <1>1, <1>5, <1>6, SMT DEF ManualInv, InCalls
<1>10. Shutting'  BY <1>1, <1>5 DEF ManualInv, Shutting
<1>11. M!E!Become({running[c]}, "executed")
  <2>1. \A t \in M!Tasks : t # running[c] =>
          ((\E d \in Callers : running'[d] = t) <=> (\E d \in Callers : running[d] = t))
    BY <1>5, SMT DEF M!Tasks, M!NoTask
  <2> QED BY <1>1, <2>1, ManualStatus DEF M!E!Become
<1>12. M!E!Finish(running[c])
  <2>1. running[c] \in M!E!InState("running")  BY <1>4, StatusNow DEF M!E!InState
  <2> QED BY <1>1, <1>11, <2>1 DEF M!E!Finish
<1> QED BY <1>4, <1>7, <1>8, <1>9, <1>10, <1>12 DEF ManualInv, M!E!Next

(* clear destroys the tasks in the queue, and so does shutdown().          *)
LEMMA ManualClear ==
  ASSUME ManualInv, NEW c \in Callers, M!Clear(c) \/ M!StoreAbort(c)
  PROVE  ManualInv' /\ [M!E!Next]_M!E!vars
<1>1. /\ destroyed' = destroyed \cup Range(m_tasks)
      /\ m_tasks' = <<>>
      /\ UNCHANGED <<m_atomic_abort, shut, call, running, created, executed>>
      /\ \/ pc[c] = "idle" /\ UNCHANGED <<m_abort, pc>>
         \/ pc[c] = "store_abort" /\ m_abort' = TRUE /\ pc' = [pc EXCEPT ![c] = "notify_abort"]
  BY DEF M!Clear, M!StoreAbort, M!Queued, Range, M!Goto, M!aborts
<1>2. /\ pc \in [Callers -> Stops] /\ m_tasks \in Seq(M!Tasks)
      /\ executed \subseteq M!Tasks /\ destroyed \subseteq M!Tasks /\ m_abort \in BOOLEAN
  BY ManualTypes
<1>3. Range(<<>>) = {} /\ Range(m_tasks) \subseteq M!Tasks  BY <1>2, SMT DEF Range
<1>4. M!TypeOK'
  <2>1. m_tasks' \in Seq(M!Tasks)  BY <1>1, SMT
  <2>2. pc' \in [Callers -> Stops]  BY <1>1, <1>2 DEF Stops
  <2>3. executed' \cup destroyed' \subseteq M!Tasks  BY <1>1, <1>2, <1>3
  <2>4. m_abort' \in BOOLEAN  BY <1>1, <1>2
  <2>5. {m_abort', m_atomic_abort', shut'} \subseteq BOOLEAN  BY <1>1, <2>4, ManualTypes
  <2> QED BY <1>1, <2>1, <2>2, <2>3, <2>5 DEF ManualInv, M!TypeOK, Stops
<1>5. Apart(m_tasks', running', executed', destroyed', created')
  <2>1. Apart(m_tasks, running, executed, destroyed, created)  BY DEF ManualInv
  <2>2. Apart(<<>>, running, executed, destroyed \cup Range(m_tasks), created)  BY <2>1, ApartClear
  <2> QED BY <1>1, <2>2
<1>6. /\ \A d \in Callers : pc'[d] \in {"run", "run_notify"} <=> pc[d] \in {"run", "run_notify"}
      /\ \A d \in Callers : pc'[d] \in {"store_abort", "notify_abort"} <=> pc[d] \in {"store_abort", "notify_abort"}
      /\ \A d \in Callers : pc'[d] = "notify_abort" => pc[d] = "notify_abort" \/ m_abort'
      /\ m_abort => m_abort'
  BY <1>1, <1>2
<1>7. InCalls'  BY <1>1, <1>6 DEF ManualInv, InCalls
<1>8. Shutting'  BY <1>1, <1>6 DEF ManualInv, Shutting
<1>9. [M!E!Next]_M!E!vars
  <2>0. Range(m_tasks') = {}  BY <1>1, <1>3
  <2>1. M!E!Become(Range(m_tasks), "destroyed")
    <3>1. \A t \in Range(m_tasks) : t \notin executed  BY DEF ManualInv, Apart
    <3> QED BY <1>1, <2>0, <3>1, ManualStatus DEF M!E!Become
  <2>2. CASE Range(m_tasks) = {}
    <3>1. M!status' = M!status  BY <1>1, <2>0, <2>2, ManualStatus
    <3> QED BY <1>1, <3>1 DEF M!E!vars
  <2>3. CASE Range(m_tasks) # {}
    <3>1. Range(m_tasks) \subseteq M!E!InState("queued")  BY <1>3, StatusNow DEF M!E!InState
    <3>2. M!E!Destroy(Range(m_tasks))  BY <1>1, <2>1, <2>3, <3>1 DEF M!E!Destroy
    <3> QED BY <1>3, <3>2 DEF M!E!Next
  <2> QED BY <2>2, <2>3
<1> QED BY <1>4, <1>5, <1>7, <1>8, <1>9 DEF ManualInv

(* One thread shuts the executor down, and when its shutdown() returns     *)
(* there is nothing left to destroy.                                       *)
LEMMA ManualShutdown ==
  ASSUME ManualInv, NEW c \in Callers, M!Shutdown(c) \/ M!NotifyAbort(c)
  PROVE  ManualInv' /\ [M!E!Next]_M!E!vars
<1>0. pc \in [Callers -> Stops] /\ shut \in BOOLEAN  BY ManualTypes
<1>1. UNCHANGED <<m_tasks, m_abort, call, running, created, executed, destroyed>>
  BY DEF M!Shutdown, M!NotifyAbort, M!history
<1>2. M!status' = M!status  BY <1>1, ManualStatus
<1>3. Apart(m_tasks', running', executed', destroyed', created')  BY <1>1 DEF ManualInv
<1>4. CASE M!Shutdown(c)
  <2>1. /\ ~m_atomic_abort /\ pc[c] = "idle" /\ pc' = [pc EXCEPT ![c] = "store_abort"]
        /\ m_atomic_abort' = TRUE /\ UNCHANGED shut
    BY <1>4 DEF M!Shutdown, M!Goto
  <2>2. pc' \in [Callers -> Stops] /\ pc'[c] = "store_abort" /\ \A d \in Callers \ {c} : pc'[d] = pc[d]
    BY <1>0, <2>1 DEF Stops
  <2>3. M!TypeOK'
    <3>1. {m_abort', m_atomic_abort', shut'} \subseteq BOOLEAN  BY <1>1, <2>1, ManualTypes
    <3> QED BY <1>1, <2>2, <3>1 DEF ManualInv, M!TypeOK, Stops
  <2>4. InCalls'  BY <1>1, <2>1, <2>2 DEF ManualInv, InCalls
  <2>5. Shutting'  BY <1>1, <2>1, <2>2 DEF ManualInv, Shutting
  <2>6. UNCHANGED M!E!vars  BY <1>2, <2>1 DEF M!E!vars
  <2> QED BY <1>3, <2>3, <2>4, <2>5, <2>6 DEF ManualInv
<1>5. CASE M!NotifyAbort(c)
  <2>1. /\ pc[c] = "notify_abort" /\ shut' = TRUE /\ UNCHANGED m_atomic_abort
        /\ pc' = [d \in Callers |-> IF d = c THEN "idle" ELSE IF pc[d] = "waiting" THEN "woken" ELSE pc[d]]
    BY <1>5 DEF M!NotifyAbort, M!WakeAll
  <2>2. /\ pc' \in [Callers -> Stops] /\ pc'[c] = "idle"
        /\ \A d \in Callers \ {c} : pc'[d] = pc[d] \/ (pc[d] = "waiting" /\ pc'[d] = "woken")
    BY <1>0, <2>1 DEF Stops
  <2>a. m_abort /\ m_atomic_abort /\ ~shut /\ m_tasks = <<>>  BY <2>1 DEF ManualInv, Shutting
  <2>3. M!TypeOK'
    <3>1. {m_abort', m_atomic_abort', shut'} \subseteq BOOLEAN  BY <1>1, <2>1, ManualTypes
    <3> QED BY <1>1, <2>2, <3>1 DEF ManualInv, M!TypeOK, Stops
  <2>4. InCalls'  BY <1>1, <2>1, <2>2 DEF ManualInv, InCalls
  <2>5. Shutting'  BY <1>1, <2>1, <2>2, <2>a DEF ManualInv, Shutting
  <2>6. M!E!Shutdown
    <3>1. Range(m_tasks) = {}  BY <2>a, SMT DEF Range
    <3>2. M!E!InState("queued") = {}  BY <3>1, ManualStatus DEF M!E!InState
    <3>3. M!E!Become({}, "destroyed")  BY <1>2, ManualStatus DEF M!E!Become
    <3> QED BY <2>1, <2>a, <3>2, <3>3 DEF M!E!Shutdown
  <2> QED BY <1>3, <2>3, <2>4, <2>5, <2>6 DEF ManualInv, M!E!Next
<1> QED BY <1>4, <1>5

(* A step in which no task moves changes the status of none.               *)
LEMMA QuietExecutor == ASSUME Quiet PROVE UNCHANGED M!E!vars
<1>1. UNCHANGED <<m_tasks, shut, running, executed, destroyed>>  BY DEF Quiet
<1>2. M!status' = M!status  BY <1>1, ManualStatus
<1> QED BY <1>1, <1>2 DEF M!E!vars

(* Every step of the manual executor keeps the invariant, and is a step of *)
(* an executor.                                                            *)
LEMMA ManualNext ==
  ASSUME ManualInv, [M!Next]_M!vars
  PROVE  ManualInv' /\ [M!E!Next]_M!E!vars
<1>1. CASE UNCHANGED M!vars
  <2>1. Quiet  BY <1>1, ManualTypes DEF M!vars, M!aborts, M!history, Quiet
  <2> QED BY <2>1, QuietInv, QuietExecutor
<1>2. ASSUME NEW c \in Callers, M!Enqueue(c) \/ M!Call(c) \/ M!Clear(c) \/ M!Shutdown(c) \/ M!Steps(c)
      PROVE  ManualInv' /\ [M!E!Next]_M!E!vars
  <2>1. CASE M!Enqueue(c)  BY <2>1, ManualEnqueue
  <2>2. CASE M!FinishTask(c)  BY <2>2, ManualFinish
  <2>3. CASE M!Clear(c) \/ M!StoreAbort(c)  BY <2>3, ManualClear
  <2>4. CASE M!Shutdown(c) \/ M!NotifyAbort(c)  BY <2>4, ManualShutdown
  <2>5. CASE \/ M!Notify(c) \/ M!Call(c) \/ M!Timeout(c) \/ M!WaitStep(c)
             \/ M!LoopStep(c) /\ (M!Return(c) \/ M!Suspend(c))
    <3>1. Quiet  BY <2>5, QuietSteps
    <3> QED BY <3>1, QuietInv, QuietExecutor
  <2>6. CASE M!LoopStep(c) /\ M!PopTask(c)  BY <2>6, ManualPop
  <2>7. M!LoopStep(c) => M!Return(c) \/ M!Suspend(c) \/ M!PopTask(c)  BY DEF M!LoopStep
  <2> QED BY <1>2, <2>1, <2>2, <2>3, <2>4, <2>5, <2>6, <2>7 DEF M!Steps
<1> QED BY <1>1, <1>2 DEF M!Next

(* A new manual executor has no tasks.                                     *)
LEMMA InitManual == Bounds /\ M!Init => ManualInv /\ M!E!Init
<1> SUFFICES ASSUME Bounds, M!Init PROVE ManualInv /\ M!E!Init  OBVIOUS
<1>0. MaxTasks \in Nat /\ Range(m_tasks) = {}  BY SMT DEF Bounds, M!Init, Range
<1>1. M!TypeOK
  <2>1. created \in 0 .. MaxTasks /\ m_tasks \in Seq(M!Tasks)  BY <1>0, SMT DEF M!Init
  <2>2. call \in [Callers -> M!Calls]  BY DEF M!Init, M!Calls
  <2>3. pc \in [Callers -> Stops] /\ running \in [Callers -> M!Tasks \cup {M!NoTask}]  BY DEF M!Init, Stops
  <2>4. executed \cup destroyed \subseteq M!Tasks  BY DEF M!Init
  <2>5. {m_abort, m_atomic_abort, shut} \subseteq BOOLEAN  BY DEF M!Init
  <2> QED BY <2>1, <2>2, <2>3, <2>4, <2>5 DEF M!TypeOK, Stops
<1>2. Apart(m_tasks, running, executed, destroyed, created)
  <2>1. DOMAIN m_tasks = {} /\ executed = {} /\ destroyed = {} /\ created = 0
        /\ \A c \in Callers : running[c] = M!NoTask
    BY SMT DEF M!Init
  <2>2. M!NoTask \in 0 .. created  BY <2>1, SMT DEF M!NoTask
  <2> QED BY <1>0, <2>1, <2>2 DEF Apart
<1>3. InCalls  BY DEF M!Init, InCalls
<1>4. Shutting  BY DEF M!Init, Shutting
<1>5. M!E!Init
  <2>1. \A c \in Callers : running[c] = M!NoTask  BY DEF M!Init
  <2>2. \A t \in M!Tasks : t # M!NoTask  BY SMT DEF M!Tasks, M!NoTask
  <2>3. executed = {} /\ destroyed = {} /\ shut = FALSE  BY DEF M!Init
  <2>4. M!status = [t \in M!Tasks |-> "new"]  BY <1>0, <2>1, <2>2, <2>3, ManualStatus
  <2> QED BY <2>3, <2>4 DEF M!E!Init
<1> QED BY <1>1, <1>2, <1>3, <1>4, <1>5 DEF ManualInv

(* In a runtime every variable of the manual executor has a value the code *)
(* can give it, and it is an executor: no task is lost, executed twice or  *)
(* started after its shutdown() has returned.                              *)
THEOREM ManualExecutor == M!Spec => []M!TypeOK /\ M!E!Spec
<1>1. M!Init => ManualInv /\ M!E!Init  BY InitManual, RuntimeAssumption DEF Bounds
<1>2. ManualInv /\ [M!Next]_M!vars => ManualInv' /\ [M!E!Next]_M!E!vars  BY ManualNext
<1>3. ManualInv => M!TypeOK  BY DEF ManualInv
<1> QED BY <1>1, <1>2, <1>3, PTL DEF M!Spec, M!E!Spec

-----------------------------------------------------------------------------
(* Every step of the runtime is a step of the thread executor or leaves it *)
(* alone, ...                                                              *)
LEMMA NextThreads == [Next]_vars => [T!Next]_T!vars
<1> SUFFICES ASSUME [Next]_vars PROVE [T!Next]_T!vars  OBVIOUS
<1>0. UNCHANGED thread_executor => UNCHANGED T!vars  BY DEF thread_executor, T!vars
<1>1. ASSUME NEW c \in Callers, CallerNext(c) PROVE [T!Next]_T!vars
  <2>1. CASE EnqueueThread(c)  BY <2>1 DEF EnqueueThread, T!Next
  <2>2. CASE EnqueueManual(c) \/ CallManual(c) \/ ClearOrShutManual(c)
    BY <1>0, <2>2 DEF EnqueueManual, CallManual, ClearOrShutManual
  <2>3. CASE ManualSteps(c) \/ MakeManualExecutor(c)  BY <1>0, <2>3 DEF ManualSteps, MakeManualExecutor
  <2> QED BY <1>1, <2>1, <2>2, <2>3 DEF CallerNext
<1>2. ASSUME NEW t \in T!Threads, ThreadNext(t) PROVE T!Next
  BY <1>2 DEF ThreadNext, ThreadSteps, FinishThreadTask, T!Next
<1>3. CASE FireTimer  BY <1>0, <1>3 DEF FireTimer, T!Next
<1>4. CASE RegisterExecutor \/ DestroyRuntime  BY <1>0, <1>4 DEF RegisterExecutor, DestroyRuntime
<1>5. CASE Destructor
  <2>1. CASE ShutDownTimerQueue \/ NextExecutor  BY <1>0, <2>1 DEF ShutDownTimerQueue, NextExecutor
  <2>2. CASE ShutDownExecutor \/ ShutdownSteps  BY <1>0, <2>2 DEF ShutDownExecutor, ShutdownSteps, T!Next
  <2> QED BY <1>5, <2>1, <2>2 DEF Destructor
<1>6. CASE UNCHANGED vars  BY <1>0, <1>6 DEF vars
<1> QED BY <1>1, <1>2, <1>3, <1>4, <1>5, <1>6 DEF Next

(* ... and so it is for the manual executor.                               *)
LEMMA NextManual == [Next]_vars => [M!Next]_M!vars
<1> SUFFICES ASSUME [Next]_vars PROVE [M!Next]_M!vars  OBVIOUS
<1>0. UNCHANGED manual_executor => UNCHANGED M!vars  BY DEF manual_executor, M!vars, M!aborts, M!history
<1>1. ASSUME NEW c \in Callers, CallerNext(c) PROVE [M!Next]_M!vars
  <2>1. CASE EnqueueThread(c) \/ MakeManualExecutor(c)  BY <1>0, <2>1 DEF EnqueueThread, MakeManualExecutor
  <2>2. CASE EnqueueManual(c) \/ CallManual(c) \/ ClearOrShutManual(c) \/ ManualSteps(c)
    BY <2>2 DEF EnqueueManual, CallManual, ClearOrShutManual, ManualSteps, M!Next
  <2> QED BY <1>1, <2>1, <2>2 DEF CallerNext
<1>2. ASSUME NEW t \in T!Threads, ThreadNext(t) PROVE UNCHANGED manual_executor
  BY <1>2 DEF ThreadNext, ThreadSteps, FinishThreadTask
<1>3. CASE FireTimer \/ RegisterExecutor \/ DestroyRuntime
  BY <1>0, <1>3 DEF FireTimer, RegisterExecutor, DestroyRuntime
<1>4. CASE Destructor
  <2>1. CASE ShutDownTimerQueue \/ NextExecutor \/ ShutdownSteps
    BY <1>0, <2>1 DEF ShutDownTimerQueue, NextExecutor, ShutdownSteps
  <2>2. CASE ShutDownExecutor
    <3>1. Main \in Callers  BY RuntimeAssumption, SMT DEF Main, Callers
    <3> QED BY <1>0, <2>2, <3>1 DEF ShutDownExecutor, M!Next
  <2> QED BY <1>4, <2>1, <2>2 DEF Destructor
<1>5. CASE UNCHANGED vars  BY <1>0, <1>5 DEF vars
<1> QED BY <1>0, <1>1, <1>2, <1>3, <1>4, <1>5 DEF Next

(* The runtime, its timers and its tasks use both executors as they are    *)
(* meant to be used.                                                       *)
THEOREM UsesExecutors == Spec => T!Spec /\ M!Spec
<1>1. Init => T!Init /\ M!Init  BY DEF Init
<1> QED BY <1>1, NextThreads, NextManual, PTL DEF Spec, T!Spec, M!Spec

(* When shutdown_all has shut down the thread executor, none of its        *)
(* threads is left, whatever else its tasks are doing to the runtime and   *)
(* however many they are.                                                  *)
THEOREM AllThreadsJoined == Spec => []ThreadsJoined
BY UsesExecutors, AllJoined, PTL DEF ThreadsJoined

-----------------------------------------------------------------------------
(* Executors are registered in order and while they can be used: a thread  *)
(* in make_manual_executor is the owner of the runtime, which has not      *)
(* begun to destroy it, or a task that the thread executor's shutdown()    *)
(* waits for.                                                              *)
Registering ==
  /\ m_executors \in {<<"thread">>, <<"thread", "manual">>, <<>>}
  /\ m_executors = <<>> <=> dpc = "destroyed"
  /\ maker \in Callers \cup {Nobody}
  /\ maker # Nobody => m_executors = <<"thread">> /\ IF maker = Main THEN dpc = "alive" ELSE tpc[maker] = "task"

(* Past the first of them, shutdown_all has shut the thread executor down. *)
Destroying ==
  /\ dpc \in {"alive", "timers", "shutdown_all", "destroyed"}
  /\ k \in Nat \ {0} /\ k <= Len(m_executors) + 1
  /\ dpc # "shutdown_all" => k = 1
  /\ k > 1 \/ dpc = "destroyed" => cpc = "shut"

RuntimeInv == Registering /\ Destroying /\ calls \in [Callers -> 0 .. MaxCalls]

(* The inductive invariant of the runtime.                                 *)
IInv == ThreadInv /\ RuntimeInv

(* A thread is a caller that does not own the runtime.                     *)
LEMMA Numbering ==
  /\ MaxThreads \in Nat /\ Main \in Callers /\ Nobody \notin Callers
  /\ \A c \in Callers : c # Main => c \in T!Threads
  /\ \A t \in T!Threads : t \in Callers /\ t # Main
BY RuntimeAssumption, SMT DEF Main, Nobody, Callers, T!Threads

(* A thread executor that is shut down stays so, and only the end of a     *)
(* task ends it.                                                           *)
LEMMA TasksGoOn ==
  ASSUME ThreadInv,
         T!Enqueue \/ T!Shutdown \/ T!ShutdownSteps \/ UNCHANGED thread_executor
           \/ \E t \in T!Threads : T!ThreadSteps(t)
  PROVE  /\ cpc = "shut" => cpc' = "shut"
         /\ \A u \in T!Threads : tpc[u] = "task" => tpc'[u] = "task"
<1>0. tpc \in [T!Threads -> {"new", "destroyed", "start", "task", "retire", "notify", "join", "ended"}]
  BY DEF ThreadInv, T!TypeOK
<1>1. CASE T!Enqueue
  <2>1. PICK n \in 1 .. MaxThreads - threads :
          tpc' = [t \in T!Threads |-> IF t \notin threads + 1 .. threads + n THEN tpc[t]
                                      ELSE IF t_abort THEN "destroyed" ELSE "start"]
    BY <1>1 DEF T!Enqueue
  <2>2. threads \in Nat /\ n \in Nat  BY RuntimeAssumption, SMT DEF ThreadInv, T!TypeOK
  <2>3. \A u \in T!Threads : u \in threads + 1 .. threads + n => tpc[u] = "new"
    BY <2>2, SMT DEF ThreadInv, WorkersListed
  <2>4. UNCHANGED cpc  BY <1>1 DEF T!Enqueue
  <2> QED BY <2>1, <2>3, <2>4
<1>2. CASE T!Shutdown \/ T!ShutdownSteps
  BY <1>2 DEF T!Shutdown, T!ShutdownSteps, T!WaitForWorkers, T!JoinLast
<1>3. CASE UNCHANGED thread_executor  BY <1>3 DEF thread_executor
<1>4. ASSUME NEW t \in T!Threads, T!ThreadSteps(t)
      PROVE  /\ cpc = "shut" => cpc' = "shut"
             /\ \A u \in T!Threads : tpc[u] = "task" => tpc'[u] = "task"
  <2>1. cpc = "shut" => cpc' = "shut"
    BY <1>4 DEF T!ThreadSteps, T!StartTask, T!RetireWorker, T!NotifyOne, T!JoinLastRetired
  <2>2. \E to : tpc[t] # "task" /\ tpc' = [tpc EXCEPT ![t] = to]
    BY <1>4 DEF T!ThreadSteps, T!StartTask, T!RetireWorker, T!NotifyOne, T!JoinLastRetired, T!Goto
  <2> QED BY <1>0, <2>1, <2>2
<1> QED BY <1>1, <1>2, <1>3, <1>4

(* What threads do to the executors does not touch the runtime: a task     *)
(* that ends is not in make_manual_executor.                               *)
LEMMA UsersInv ==
  ASSUME IInv, UNCHANGED <<m_executors, maker, dpc, k>>, calls' \in [Callers -> 0 .. MaxCalls],
         cpc = "shut" => cpc' = "shut",
         \A u \in T!Threads : tpc[u] = "task" /\ maker = u => tpc'[u] = "task"
  PROVE  RuntimeInv'
<1>1. Registering'  BY Numbering DEF IInv, RuntimeInv, Registering
<1>2. Destroying'  BY DEF IInv, RuntimeInv, Destroying
<1> QED BY <1>1, <1>2 DEF RuntimeInv

(* The bound on calls.                                                     *)
LEMMA CallsTypes ==
  ASSUME IInv
  PROVE  /\ UNCHANGED calls => calls' \in [Callers -> 0 .. MaxCalls]
         /\ \A c \in Callers : calls[c] < MaxCalls /\ calls' = [calls EXCEPT ![c] = @ + 1]
              => calls' \in [Callers -> 0 .. MaxCalls]
<1>1. calls \in [Callers -> 0 .. MaxCalls] /\ MaxCalls \in Nat  BY RuntimeAssumption DEF IInv, RuntimeInv
<1>2. \A c \in Callers : calls[c] < MaxCalls => calls[c] + 1 \in 0 .. MaxCalls  BY <1>1, SMT
<1> QED BY <1>1, <1>2

(* What register_executor makes of a list of one.                          *)
LEMMA AppendOne ==
  ASSUME NEW a, NEW b
  PROVE  Append(<<a>>, b) = <<a, b>>
<1>1. PICK s : s = <<a>>  OBVIOUS
<1>2. s \in Seq({a, b}) /\ Len(s) = 1 /\ s[1] = a  BY <1>1, SMT
<1>3. PICK r : r = Append(s, b)  OBVIOUS
<1>4. r \in Seq({a, b}) /\ Len(r) = 2 /\ r[1] = a /\ r[2] = b
  <2>0. b \in {a, b} /\ s \in Seq({a, b})  BY <1>2
  <2>1. r \in Seq({a, b})  BY <2>0, <1>3, SMT
  <2>2. Len(r) = Len(s) + 1  BY <2>0, <1>3, SMT
  <2>3. r[Len(s) + 1] = b  BY <2>0, <1>3, SMT
  <2>4. \A i \in 1 .. Len(s) : r[i] = s[i]  BY <1>2, <1>3, SMT
  <2>5. 1 \in 1 .. Len(s) /\ Len(s) + 1 = 2  BY <1>2, SMT
  <2> QED BY <1>2, <2>1, <2>2, <2>3, <2>4, <2>5
<1>5. PICK p : p = <<a, b>>  OBVIOUS
<1>6. p \in Seq({a, b}) /\ Len(p) = 2 /\ p[1] = a /\ p[2] = b  BY <1>5, SMT
<1>7. \A i \in 1 .. 2 : i = 1 \/ i = 2  BY SMT
<1>8. \A i \in 1 .. Len(r) : r[i] = p[i]  BY <1>4, <1>6, <1>7
<1>9. r = p  BY <1>4, <1>6, <1>8, SMT
<1> QED BY <1>1, <1>3, <1>5, <1>9

(* The destructor and registrations.                                       *)
LEMMA RuntimeSteps ==
  ASSUME IInv,
         \/ \E c \in Callers : MakeManualExecutor(c)
         \/ RegisterExecutor \/ DestroyRuntime \/ ShutDownTimerQueue \/ NextExecutor
  PROVE  RuntimeInv'
<1>0. Registering /\ Destroying /\ UNCHANGED <<tpc, cpc, calls>>
  BY DEF IInv, RuntimeInv, MakeManualExecutor, RegisterExecutor, DestroyRuntime, ShutDownTimerQueue,
     NextExecutor, thread_executor
<1>1. calls' \in [Callers -> 0 .. MaxCalls]  BY <1>0, CallsTypes
<1>2. /\ Len(<<"thread">>) = 1 /\ Len(<<"thread", "manual">>) = 2 /\ Len(<<>>) = 0
      /\ Append(<<"thread">>, "manual") = <<"thread", "manual">>
      /\ <<"thread", "manual">>[2] = "manual" /\ 2 \in DOMAIN <<"thread", "manual">>
      /\ <<"thread">> # <<>> /\ <<"thread", "manual">> # <<>>
  <2>1. Len(<<"thread">>) = 1 /\ Len(<<"thread", "manual">>) = 2 /\ Len(<<>>) = 0  OBVIOUS
  <2>2. Append(<<"thread">>, "manual") = <<"thread", "manual">>  BY AppendOne
  <2>3. <<"thread", "manual">>[2] = "manual" /\ 2 \in DOMAIN <<"thread", "manual">>  BY SMT
  <2>4. <<"thread">> # <<>> /\ <<"thread", "manual">> # <<>>  BY <2>1
  <2> QED BY <2>1, <2>2, <2>3, <2>4
<1>3. ASSUME NEW t \in T!Threads, tpc[t] = "task" PROVE cpc # "shut"
  BY <1>3 DEF IInv, ThreadInv, WorkersListed, Closing
<1>4. ASSUME NEW c \in Callers, MakeManualExecutor(c) PROVE RuntimeInv'
  <2>1. /\ Active(c) /\ ~Registered /\ maker = Nobody /\ maker' = c
        /\ UNCHANGED <<m_executors, dpc, k>>
    BY <1>4 DEF MakeManualExecutor
  <2>2. IF c = Main THEN dpc = "alive" ELSE tpc[c] = "task"  BY <2>1 DEF Active
  <2>3. dpc # "destroyed"  BY <2>2, <1>0, <1>3, Numbering DEF Destroying
  <2>4. m_executors = <<"thread">>
    <3>1. m_executors # <<"thread", "manual">>  BY <2>1, <1>2 DEF Registered
    <3> QED BY <1>0, <2>3, <3>1 DEF Registering
  <2>5. Registering'  BY <1>0, <2>1, <2>2, <2>4 DEF Registering
  <2>6. Destroying'  BY <1>0, <2>1 DEF Destroying
  <2> QED BY <1>1, <2>5, <2>6 DEF RuntimeInv
<1>5. CASE RegisterExecutor
  <2>1. /\ maker # Nobody /\ dpc # "shutdown_all" /\ m_executors' = Append(m_executors, "manual")
        /\ maker' = Nobody /\ UNCHANGED <<dpc, k>>
    BY <1>5 DEF RegisterExecutor
  <2>2. m_executors' = <<"thread", "manual">> /\ m_executors # <<>>  BY <1>0, <1>2, <2>1 DEF Registering
  <2>3. Registering'  BY <1>0, <1>2, <2>1, <2>2 DEF Registering
  <2>4. Destroying'  BY <1>0, <1>2, <2>1, <2>2, SMT DEF Destroying
  <2> QED BY <1>1, <2>3, <2>4 DEF RuntimeInv
<1>6. CASE DestroyRuntime \/ ShutDownTimerQueue
  <2>1. /\ dpc \in {"alive", "timers"} /\ dpc' \in {"timers", "shutdown_all"}
        /\ dpc = "alive" => maker # Main
        /\ UNCHANGED <<m_executors, maker, k>>
    BY <1>6 DEF DestroyRuntime, ShutDownTimerQueue, Active, Main
  <2>2. Registering'  BY <1>0, <2>1 DEF Registering
  <2>3. Destroying'  BY <1>0, <2>1 DEF Destroying
  <2> QED BY <1>1, <2>2, <2>3 DEF RuntimeInv
<1>7. CASE NextExecutor
  <2>0. dpc = "shutdown_all" /\ UNCHANGED maker  BY <1>7 DEF NextExecutor
  <2>1. CASE k <= Len(m_executors) /\ Returned /\ k' = k + 1 /\ UNCHANGED <<m_executors, dpc>>
    <3>1. cpc = "shut"
      <4>1. CASE k = 1
        <5>1. m_executors \in {<<"thread">>, <<"thread", "manual">>}  BY <1>0, <2>0 DEF Registering
        <5>2. m_executors[1] = "thread"  BY <5>1, SMT
        <5> QED BY <2>1, <4>1, <5>2 DEF Returned
      <4>2. CASE k # 1  BY <1>0, <4>2, SMT DEF Destroying
      <4> QED BY <4>1, <4>2
    <3>2. Len(m_executors) \in Nat
      <4>1. 0 \in Nat /\ 1 \in Nat /\ 2 \in Nat  BY SMT
      <4> QED BY <4>1, <1>0, <1>2 DEF Registering
    <3>3. Registering'  BY <1>0, <2>0, <2>1 DEF Registering
    <3>4. Destroying'  BY <1>0, <2>0, <2>1, <3>1, <3>2, SMT DEF Destroying
    <3> QED BY <1>1, <3>3, <3>4 DEF RuntimeInv
  <2>2. CASE k > Len(m_executors) /\ m_executors' = <<>> /\ k' = 1 /\ dpc' = "destroyed"
    <3>1. m_executors \in {<<"thread">>, <<"thread", "manual">>}  BY <1>0, <2>0 DEF Registering
    <3>2. k > 1
      <4>1. k \in Nat /\ Len(m_executors) \in {1, 2}  BY <3>1, <1>0, <1>2 DEF Destroying
      <4>2. \A n \in {1, 2} : k > n => k > 1  BY <4>1, SMT
      <4> QED BY <4>1, <4>2, <2>2
    <3>3. cpc = "shut"  BY <3>2, <1>0 DEF Destroying
    <3>4. maker = Nobody
      <4>1. maker # Nobody => maker \in T!Threads /\ tpc[maker] = "task"
        BY <1>0, <2>0, Numbering DEF Registering
      <4> QED BY <3>3, <4>1, <1>3
    <3>5. Registering'  BY <2>0, <2>2, <3>4 DEF Registering
    <3>6. Destroying'  BY <1>0, <1>2, <2>2, <3>3, SMT DEF Destroying
    <3> QED BY <1>1, <3>5, <3>6 DEF RuntimeInv
  <2> QED BY <1>7, <2>1, <2>2 DEF NextExecutor
<1> QED BY <1>4, <1>5, <1>6, <1>7

(* Every step of the runtime keeps the invariant.                          *)
LEMMA NextIInv == IInv /\ [Next]_vars => IInv'
<1> SUFFICES ASSUME IInv, [Next]_vars PROVE IInv'  OBVIOUS
<1>1. ThreadInv'  BY NextThreads, NextThreadInv DEF IInv
<1>2. ASSUME UNCHANGED runtime, calls' \in [Callers -> 0 .. MaxCalls],
             T!Enqueue \/ T!Shutdown \/ T!ShutdownSteps \/ UNCHANGED thread_executor
               \/ \E t \in T!Threads : T!ThreadSteps(t)
      PROVE  RuntimeInv'
  <2>1. UNCHANGED <<m_executors, maker, dpc, k>>  BY <1>2 DEF runtime
  <2>2. /\ cpc = "shut" => cpc' = "shut"
        /\ \A u \in T!Threads : tpc[u] = "task" => tpc'[u] = "task"
    BY <1>2, TasksGoOn DEF IInv
  <2> QED BY <1>2, <2>1, <2>2, UsersInv
<1>3. ASSUME NEW c \in Callers, CallerNext(c) PROVE RuntimeInv'
  <2>1. CASE CallManual(c)
    <3>1. UNCHANGED thread_executor /\ UNCHANGED runtime
          /\ calls[c] < MaxCalls /\ calls' = [calls EXCEPT ![c] = @ + 1]
      BY <2>1 DEF CallManual
    <3>2. calls' \in [Callers -> 0 .. MaxCalls]  BY <3>1, CallsTypes
    <3> QED BY <1>2, <3>1, <3>2
  <2>2. CASE EnqueueThread(c) \/ EnqueueManual(c) \/ ClearOrShutManual(c) \/ ManualSteps(c)
    <3>1. (T!Enqueue \/ UNCHANGED thread_executor) /\ UNCHANGED runtime /\ UNCHANGED calls
      BY <2>2 DEF EnqueueThread, EnqueueManual, ClearOrShutManual, ManualSteps
    <3> QED BY <1>2, <3>1, CallsTypes
  <2>3. CASE MakeManualExecutor(c)  BY <2>3, RuntimeSteps
  <2> QED BY <1>3, <2>1, <2>2, <2>3 DEF CallerNext
<1>4. ASSUME NEW t \in T!Threads, ThreadNext(t) PROVE RuntimeInv'
  <2>1. CASE ThreadSteps(t)
    <3>1. T!ThreadSteps(t) /\ UNCHANGED runtime /\ UNCHANGED calls  BY <2>1 DEF ThreadSteps
    <3> QED BY <1>2, <3>1, CallsTypes
  <2>2. CASE FinishThreadTask(t)
    <3>1. Active(t) /\ T!FinishTask(t) /\ UNCHANGED <<m_executors, maker, dpc, k, calls>>
      BY <2>2 DEF FinishThreadTask, runtime
    <3>2. maker # t /\ tpc' = [tpc EXCEPT ![t] = "retire"] /\ UNCHANGED cpc
      BY <3>1 DEF Active, T!FinishTask, T!Goto
    <3>3. tpc \in [T!Threads -> {"new", "destroyed", "start", "task", "retire", "notify", "join", "ended"}]
      BY DEF IInv, ThreadInv, T!TypeOK
    <3>4. \A u \in T!Threads : tpc[u] = "task" /\ maker = u => tpc'[u] = "task"  BY <3>2, <3>3
    <3>5. calls' \in [Callers -> 0 .. MaxCalls]  BY <3>1, CallsTypes
    <3> QED BY <3>1, <3>2, <3>4, <3>5, UsersInv
  <2> QED BY <1>4, <2>1, <2>2 DEF ThreadNext
<1>5. ASSUME FireTimer PROVE RuntimeInv'
  <2>1. /\ UNCHANGED <<m_executors, maker, dpc, k, calls>>
        /\ T!Enqueue \/ UNCHANGED thread_executor
    BY <1>5 DEF FireTimer
  <2>2. /\ cpc = "shut" => cpc' = "shut"
        /\ \A u \in T!Threads : tpc[u] = "task" => tpc'[u] = "task"
    BY <2>1, TasksGoOn DEF IInv
  <2>3. calls' \in [Callers -> 0 .. MaxCalls]  BY <2>1, CallsTypes
  <2> QED BY <2>1, <2>2, <2>3, UsersInv
<1>6. ASSUME RegisterExecutor \/ DestroyRuntime \/ ShutDownTimerQueue \/ NextExecutor PROVE RuntimeInv'
  BY <1>6, RuntimeSteps
<1>7. ASSUME ShutDownExecutor \/ ShutdownSteps PROVE RuntimeInv'
  <2>1. /\ T!Shutdown \/ T!ShutdownSteps \/ UNCHANGED thread_executor
        /\ UNCHANGED runtime /\ UNCHANGED calls
    BY <1>7 DEF ShutDownExecutor, ShutdownSteps
  <2> QED BY <1>2, <2>1, CallsTypes
<1>8. ASSUME UNCHANGED vars PROVE RuntimeInv'
  <2>1. UNCHANGED thread_executor /\ UNCHANGED runtime /\ UNCHANGED calls  BY <1>8 DEF vars
  <2> QED BY <1>2, <2>1, CallsTypes
<1>9. RuntimeInv'  BY <1>3, <1>4, <1>5, <1>6, <1>7, <1>8 DEF Next, Destructor
<1> QED BY <1>1, <1>9 DEF IInv

(* A new runtime has registered its thread executor and nothing else.      *)
LEMMA InitIInv == Init => IInv
<1> SUFFICES ASSUME Init PROVE IInv  OBVIOUS
<1>1. ThreadInv  BY InitThreadInv DEF Init
<1>2. Registering  BY DEF Init, Registering
<1>3. Destroying
  <2>1. Len(<<"thread">>) = 1  OBVIOUS
  <2> QED BY <2>1, SMT DEF Init, Destroying
<1>4. calls \in [Callers -> 0 .. MaxCalls]
  <2>1. 0 \in 0 .. MaxCalls  BY RuntimeAssumption, SMT
  <2> QED BY <2>1 DEF Init
<1> QED BY <1>1, <1>2, <1>3, <1>4 DEF IInv, RuntimeInv

(* The inductive invariant holds in every reachable state.                 *)
THEOREM Invariance == Spec => []IInv
BY InitIInv, NextIInv, PTL DEF Spec

-----------------------------------------------------------------------------
(* Both executors of a runtime do what every executor promises, whatever   *)
(* their tasks do to the other one while the runtime is destroyed: no task *)
(* is lost or executed twice, and when a shutdown() has returned nothing   *)
(* is queued, accepted or started any more.                                *)
THEOREM Refinement == Spec => ImplementsExecutor
BY UsesExecutors, ThreadExecutor, ManualExecutor, PTL DEF ImplementsExecutor

(* Every variable of the runtime and of its executors has a value the code *)
(* can give it; an executor is registered once, and none once shutdown_all *)
(* has emptied the list.                                                   *)
THEOREM TypeCorrect == Spec => []TypeOK
<1>1. IInv /\ M!TypeOK => TypeOK
  <2> SUFFICES ASSUME IInv, M!TypeOK PROVE TypeOK  OBVIOUS
  <2>1. T!TypeOK  BY DEF IInv, ThreadInv
  <2>2. k \in 1 .. 3
    <3>1. Len(<<"thread">>) = 1 /\ Len(<<"thread", "manual">>) = 2 /\ Len(<<>>) = 0  OBVIOUS
    <3>2. Len(m_executors) \in {0, 1, 2}  BY <3>1 DEF IInv, RuntimeInv, Registering
    <3>3. k \in Nat \ {0} /\ k <= Len(m_executors) + 1  BY DEF IInv, RuntimeInv, Destroying
    <3>4. CASE Len(m_executors) = 0  BY <3>3, <3>4, SMT
    <3>5. CASE Len(m_executors) = 1  BY <3>3, <3>5, SMT
    <3>6. CASE Len(m_executors) = 2  BY <3>3, <3>6, SMT
    <3> QED BY <3>2, <3>4, <3>5, <3>6
  <2> QED BY <2>1, <2>2 DEF IInv, RuntimeInv, Registering, Destroying, TypeOK
<1> QED BY <1>1, Invariance, UsesExecutors, ManualExecutor, PTL

-----------------------------------------------------------------------------
Stopping == {"store_abort", "notify_abort"}

(* Who uses the manual executor: the owner of the runtime, whose           *)
(* destructor only shuts it down, when its turn comes, and running tasks;  *)
(* nobody before it is registered.  While a shutdown() of it is under way  *)
(* somebody is in it, and shutdown_all leaves it behind only when it is    *)
(* shut.                                                                   *)
Using ==
  /\ \A t \in T!Threads : pc[t] # "idle" => tpc[t] = "task"
  /\ dpc # "alive" /\ pc[Main] # "idle" => dpc = "shutdown_all" /\ k = 2 /\ pc[Main] \in Stopping
  /\ m_executors = <<"thread">> => created = 0 /\ m_tasks = <<>> /\ \A c \in Callers : pc[c] = "idle"
  /\ m_atomic_abort => shut \/ \E c \in Callers : pc[c] \in Stopping
  /\ dpc = "shutdown_all" /\ k > 2 => shut
  /\ dpc = "destroyed" => shut \/ (created = 0 /\ m_tasks = <<>>)

(* A thread that is not in a call of the manual executor has no next       *)
(* statement there.                                                        *)
LEMMA IdleStays == ASSUME NEW c, pc[c] = "idle" PROVE ~M!Steps(c)
BY DEF M!Steps, M!Notify, M!LoopStep, M!FinishTask, M!WaitStep, M!Timeout, M!StoreAbort, M!NotifyAbort,
   M!Goto

(* What one thread's step in the manual executor does to it and to the     *)
(* others, which at most wake up.                                          *)
LEMMA ManualMoves ==
  ASSUME ManualInv, NEW c \in Callers,
         M!Enqueue(c) \/ M!Call(c) \/ M!Clear(c) \/ M!Shutdown(c) \/ M!Steps(c)
  PROVE  /\ \A d \in Callers \ {c} : pc'[d] = pc[d] \/ (pc[d] = "waiting" /\ pc'[d] = "woken")
         /\ shut => shut'
         /\ m_atomic_abort' => m_atomic_abort \/ pc'[c] = "store_abort"
         /\ pc[c] = "store_abort" => pc'[c] = "notify_abort"
         /\ pc[c] = "notify_abort" => pc'[c] = "idle" /\ shut'
<1>0. pc \in [Callers -> Stops]  BY ManualTypes
<1> USE DEF M!aborts, M!history
<1>1. CASE M!Enqueue(c) \/ M!Call(c) \/ M!Clear(c) \/ M!FinishTask(c) \/ M!Timeout(c)
  <2>1. \E to : pc[c] \notin Stopping /\ (pc' = pc \/ pc' = [pc EXCEPT ![c] = to])
    BY <1>1 DEF M!Enqueue, M!Call, M!Clear, M!FinishTask, M!Timeout, M!Goto, Stopping
  <2>2. UNCHANGED <<m_atomic_abort, shut>>
    BY <1>1 DEF M!Enqueue, M!Call, M!Clear, M!FinishTask, M!Timeout
  <2> QED BY <1>0, <2>1, <2>2 DEF Stopping
<1>2. CASE M!LoopStep(c) \/ M!WaitStep(c)
  <2>1. \E to : pc[c] \notin Stopping /\ pc' = [pc EXCEPT ![c] = to]
    BY <1>2 DEF M!LoopStep, M!WaitStep, M!Return, M!Suspend, M!PopTask, Stopping
  <2>2. UNCHANGED <<m_atomic_abort, shut>>  BY <1>2 DEF M!LoopStep, M!WaitStep
  <2> QED BY <1>0, <2>1, <2>2 DEF Stopping
<1>3. CASE M!Notify(c) \/ M!NotifyAbort(c)
  <2>1. \E to : pc' = [d \in Callers |-> IF d = c THEN to ELSE IF pc[d] = "waiting" THEN "woken" ELSE pc[d]]
    BY <1>3 DEF M!Notify, M!NotifyAbort, M!WakeAll
  <2>2. \A d \in Callers \ {c} : pc'[d] = pc[d] \/ (pc[d] = "waiting" /\ pc'[d] = "woken")  BY <2>1
  <2>3. CASE M!Notify(c)  BY <2>2, <2>3 DEF M!Notify
  <2>4. CASE M!NotifyAbort(c)
    <3>1. pc[c] = "notify_abort" /\ pc'[c] = "idle" /\ shut' = TRUE /\ UNCHANGED m_atomic_abort
      BY <2>4 DEF M!NotifyAbort, M!WakeAll
    <3> QED BY <2>2, <3>1
  <2> QED BY <1>3, <2>3, <2>4
<1>4. CASE M!Shutdown(c) \/ M!StoreAbort(c)
  <2>1. \/ pc[c] = "idle" /\ pc' = [pc EXCEPT ![c] = "store_abort"]
        \/ pc[c] = "store_abort" /\ pc' = [pc EXCEPT ![c] = "notify_abort"] /\ UNCHANGED m_atomic_abort
    BY <1>4 DEF M!Shutdown, M!StoreAbort, M!Goto
  <2>2. UNCHANGED shut  BY <1>4 DEF M!Shutdown, M!StoreAbort
  <2>3. CASE pc[c] = "idle" /\ pc' = [pc EXCEPT ![c] = "store_abort"]
    <3>1. pc'[c] = "store_abort" /\ \A d \in Callers \ {c} : pc'[d] = pc[d]  BY <1>0, <2>3
    <3> QED BY <2>2, <2>3, <3>1
  <2>4. CASE pc[c] = "store_abort" /\ pc' = [pc EXCEPT ![c] = "notify_abort"] /\ UNCHANGED m_atomic_abort
    <3>1. pc'[c] = "notify_abort" /\ \A d \in Callers \ {c} : pc'[d] = pc[d]  BY <1>0, <2>4
    <3> QED BY <2>2, <2>4, <3>1
  <2> QED BY <2>1, <2>3, <2>4
<1> QED BY <1>1, <1>2, <1>3, <1>4 DEF M!Steps

(* A step of a client of the manual executor keeps somebody in a shutdown() *)
(* that is under way.                                                      *)
LEMMA ShutterStays ==
  ASSUME ManualInv, Using, NEW c \in Callers,
         M!Enqueue(c) \/ M!Call(c) \/ M!Clear(c) \/ M!Shutdown(c) \/ M!Steps(c)
  PROVE  m_atomic_abort' => shut' \/ \E d \in Callers : pc'[d] \in Stopping
<1> SUFFICES ASSUME m_atomic_abort', ~shut' PROVE \E d \in Callers : pc'[d] \in Stopping  OBVIOUS
<1>1. CASE pc'[c] = "store_abort"  BY <1>1 DEF Stopping
<1>2. CASE m_atomic_abort
  <2>1. PICK d \in Callers : pc[d] \in Stopping  BY <1>2, ManualMoves DEF Using
  <2>2. CASE d = c  BY <2>1, <2>2, ManualMoves DEF Stopping
  <2>3. CASE d # c
    <3>1. pc'[d] = pc[d]  BY <2>1, <2>3, ManualMoves DEF Stopping
    <3> QED BY <2>1, <3>1
  <2> QED BY <2>2, <2>3
<1> QED BY <1>1, <1>2, ManualMoves

(* A thread of the application that uses a registered manual executor, ... *)
LEMMA ClientUses ==
  ASSUME IInv, ManualInv, Using, NEW c \in Callers, UNCHANGED <<thread_executor, runtime>>,
         \/ Active(c) /\ Registered /\ (M!Enqueue(c) \/ M!Call(c) \/ M!Clear(c) \/ M!Shutdown(c))
         \/ M!Steps(c)
  PROVE  Using'
<1>0. UNCHANGED <<tpc, cpc, m_executors, dpc, k>>  BY DEF thread_executor, runtime
<1>1. c = Main \/ (c \in T!Threads /\ tpc[c] = "task")
  <2>1. pc[c] # "idle" \/ (c # Main => tpc[c] = "task")  BY IdleStays DEF Active
  <2> QED BY <2>1, Numbering DEF Using
<1>2. m_executors # <<"thread">>
  <2>1. CASE Registered
    <3>1. \A j \in DOMAIN <<"thread">> : <<"thread">>[j] # "manual"  BY SMT
    <3> QED BY <2>1, <3>1 DEF Registered
  <2>2. CASE M!Steps(c)  BY <2>2, IdleStays DEF Using
  <2> QED BY <2>1, <2>2
<1>3. dpc # "destroyed"
  <2> SUFFICES ASSUME dpc = "destroyed" PROVE FALSE  OBVIOUS
  <2>1. c = Main
    <3>1. cpc = "shut"  BY DEF IInv, RuntimeInv, Destroying
    <3>2. \A t \in T!Threads : tpc[t] # "task"  BY <3>1 DEF IInv, ThreadInv, WorkersListed, Closing
    <3> QED BY <1>1, <3>2
  <2>2. pc[Main] = "idle"  BY DEF Using
  <2> QED BY <2>1, <2>2, IdleStays DEF Active
<1>4. \A t \in T!Threads : pc'[t] # "idle" => tpc'[t] = "task"
  <2> SUFFICES ASSUME NEW t \in T!Threads, pc'[t] # "idle" PROVE tpc[t] = "task"  BY <1>0
  <2>1. CASE t = c  BY <1>1, <2>1, Numbering
  <2>2. CASE t # c
    <3>1. pc[t] # "idle"  BY <2>2, ManualMoves, Numbering
    <3> QED BY <3>1 DEF Using
  <2> QED BY <2>1, <2>2
<1>5. ASSUME dpc # "alive", pc'[Main] # "idle" PROVE dpc = "shutdown_all" /\ k = 2 /\ pc'[Main] \in Stopping
  <2>1. CASE c = Main
    <3>1. M!Steps(Main)  BY <1>5, <2>1 DEF Active
    <3>2. pc[Main] # "idle"  BY <3>1, IdleStays
    <3>3. dpc = "shutdown_all" /\ k = 2 /\ pc[Main] \in Stopping  BY <1>5, <3>2 DEF Using
    <3>4. pc[Main] = "store_abort"  BY <1>5, <2>1, <3>3, ManualMoves DEF Stopping
    <3> QED BY <2>1, <3>3, <3>4, ManualMoves DEF Stopping
  <2>2. CASE c # Main
    <3>1. pc[Main] # "idle"  BY <1>5, <2>2, ManualMoves, Numbering
    <3>2. dpc = "shutdown_all" /\ k = 2 /\ pc[Main] \in Stopping  BY <1>5, <3>1 DEF Using
    <3>3. pc'[Main] = pc[Main]  BY <2>2, <3>2, ManualMoves, Numbering DEF Stopping
    <3> QED BY <3>2, <3>3
  <2> QED BY <2>1, <2>2
<1>6. m_atomic_abort' => shut' \/ \E d \in Callers : pc'[d] \in Stopping  BY ShutterStays
<1>7. dpc = "shutdown_all" /\ k > 2 => shut'  BY ManualMoves DEF Using
<1> QED BY <1>0, <1>2, <1>3, <1>4, <1>5, <1>6, <1>7 DEF Using

(* ... the call of its shutdown() in shutdown_all, ...                     *)
LEMMA DestructorUses ==
  ASSUME IInv, ManualInv, Using, UNCHANGED <<thread_executor, runtime>>,
         dpc = "shutdown_all", k <= Len(m_executors), m_executors[k] = "manual", M!Shutdown(Main)
  PROVE  Using'
<1>0. UNCHANGED <<tpc, cpc, m_executors, dpc, k>>  BY DEF thread_executor, runtime
<1>1. m_executors = <<"thread", "manual">> /\ k = 2
  <2>1. k \in Nat \ {0}  BY DEF IInv, RuntimeInv, Destroying
  <2>2. CASE m_executors = <<"thread">>
    <3>1. Len(<<"thread">>) = 1 /\ <<"thread">>[1] = "thread"  OBVIOUS
    <3>2. k = 1
      <4>1. k <= 1  BY <2>2, <3>1
      <4> QED BY <2>1, <4>1, SMT
    <3> QED BY <2>2, <3>1, <3>2
  <2>3. CASE m_executors = <<"thread", "manual">>
    <3>1. Len(<<"thread", "manual">>) = 2 /\ <<"thread", "manual">>[1] = "thread"  OBVIOUS
    <3>2. k # 1  BY <2>3, <3>1
    <3>3. k <= 2  BY <2>3, <3>1
    <3>4. k = 2  BY <2>1, <3>2, <3>3, SMT
    <3> QED BY <2>3, <3>4
  <2> QED BY <2>2, <2>3 DEF IInv, RuntimeInv, Registering
<1>2. m_executors # <<"thread">>
  <2>1. Len(<<"thread">>) = 1 /\ Len(<<"thread", "manual">>) = 2  OBVIOUS
  <2>2. 1 # 2  BY SMT
  <2> QED BY <1>1, <2>1, <2>2
<1>3. pc'[Main] = "store_abort"
  <2>1. pc \in [Callers -> Stops] /\ Main \in Callers  BY ManualTypes, Numbering
  <2> QED BY <2>1 DEF M!Shutdown, M!Goto
<1>4. \A t \in T!Threads : pc'[t] # "idle" => tpc'[t] = "task"
  <2> SUFFICES ASSUME NEW t \in T!Threads, pc'[t] # "idle" PROVE tpc[t] = "task"  BY <1>0
  <2>1. pc[t] # "idle"  BY ManualMoves, Numbering
  <2> QED BY <2>1 DEF Using
<1>5. m_atomic_abort' => shut' \/ \E d \in Callers : pc'[d] \in Stopping  BY ShutterStays, Numbering
<1>6. ~(k > 2)  BY <1>1, SMT
<1> QED BY <1>0, <1>1, <1>2, <1>3, <1>4, <1>5, <1>6 DEF Using, Stopping

(* ... and what is done to the thread executor, by tasks that do not end   *)
(* inside a call of the manual one.                                        *)
LEMMA ThreadsUse ==
  ASSUME Using, UNCHANGED <<manual_executor, m_executors, dpc, k>>,
         \A u \in T!Threads : tpc[u] = "task" /\ pc[u] # "idle" => tpc'[u] = "task"
  PROVE  Using'
<1>1. UNCHANGED <<pc, created, m_tasks, m_atomic_abort, shut, m_executors, dpc, k>>  BY DEF manual_executor
<1> QED BY <1>1 DEF Using

(* Registrations and the destructor's own steps.                           *)
LEMMA RuntimeUses ==
  ASSUME IInv, IInv', ManualInv, Using,
         \/ \E c \in Callers : MakeManualExecutor(c)
         \/ RegisterExecutor \/ DestroyRuntime \/ ShutDownTimerQueue \/ NextExecutor
  PROVE  Using'
<1>0. UNCHANGED <<tpc, pc, created, m_tasks, m_atomic_abort, shut>>
  BY DEF MakeManualExecutor, RegisterExecutor, DestroyRuntime, ShutDownTimerQueue, NextExecutor,
     thread_executor, manual_executor
<1>1. CASE \E c \in Callers : MakeManualExecutor(c)
  <2>1. UNCHANGED <<m_executors, dpc, k>>  BY <1>1 DEF MakeManualExecutor
  <2> QED BY <1>0, <2>1 DEF Using
<1>2. CASE RegisterExecutor
  <2>1. m_executors' # <<"thread">> /\ UNCHANGED <<dpc, k>>
    <3>1. m_executors = <<"thread">> /\ m_executors' = Append(m_executors, "manual") /\ UNCHANGED <<dpc, k>>
      BY <1>2 DEF RegisterExecutor, IInv, RuntimeInv, Registering
    <3>2. m_executors' = <<"thread", "manual">>  BY <3>1, AppendOne
    <3>3. Len(<<"thread">>) = 1 /\ Len(<<"thread", "manual">>) = 2  OBVIOUS
    <3>4. 1 # 2  BY SMT
    <3> QED BY <3>1, <3>2, <3>3, <3>4
  <2> QED BY <1>0, <2>1 DEF Using
<1>3. CASE DestroyRuntime \/ ShutDownTimerQueue
  <2>1. /\ pc[Main] = "idle" /\ dpc' \in {"timers", "shutdown_all"} /\ UNCHANGED <<m_executors, k>> /\ k = 1
    BY <1>3 DEF DestroyRuntime, ShutDownTimerQueue, Using, IInv, RuntimeInv, Destroying
  <2>2. ~(k > 2)  BY <2>1, SMT
  <2> QED BY <1>0, <2>1, <2>2 DEF Using
<1>4. CASE NextExecutor
  <2>0. dpc = "shutdown_all" /\ k \in Nat \ {0} /\ m_executors \in {<<"thread">>, <<"thread", "manual">>}
    BY <1>4 DEF NextExecutor, IInv, RuntimeInv, Registering, Destroying
  <2>00. /\ Len(<<"thread">>) = 1 /\ Len(<<"thread", "manual">>) = 2
         /\ <<"thread", "manual">>[2] = "manual" /\ 1 # 2 /\ "manual" # "thread" /\ <<"thread">> # <<>>
    <3>1. Len(<<"thread">>) = 1 /\ Len(<<"thread", "manual">>) = 2 /\ Len(<<>>) = 0  OBVIOUS
    <3>2. <<"thread", "manual">>[2] = "manual" /\ 1 # 2 /\ 1 # 0  BY SMT
    <3>3. <<"thread">> # <<>>  BY <3>1, <3>2
    <3> QED BY <3>1, <3>2, <3>3
  <2>1. CASE k <= Len(m_executors) /\ Returned /\ k' = k + 1 /\ UNCHANGED <<m_executors, dpc>>
    <3>1. CASE k = 2
      <4>1. m_executors[2] = "manual"
        <5>1. ~(2 <= 1)  BY SMT
        <5> QED BY <2>0, <2>00, <2>1, <3>1, <5>1
      <4>2. m_atomic_abort /\ pc[Main] = "idle"  BY <2>00, <2>1, <3>1, <4>1 DEF Returned
      <4>3. \A t \in T!Threads : pc[t] = "idle"
        <5>1. cpc = "shut"
          <6>1. k > 1  BY <3>1, SMT
          <6> QED BY <6>1 DEF IInv, RuntimeInv, Destroying
        <5>2. \A t \in T!Threads : tpc[t] # "task"  BY <5>1 DEF IInv, ThreadInv, WorkersListed, Closing
        <5> QED BY <5>2 DEF Using
      <4>4. shut  BY <4>2, <4>3, Numbering DEF Using, Stopping
      <4> QED BY <1>0, <2>1, <4>2, <4>4 DEF Using
    <3>2. CASE k # 2
      <4>1. pc[Main] = "idle"  BY <2>0, <3>2 DEF Using
      <4>2. k' > 2 => k > 2  BY <2>0, <2>1, <3>2, SMT
      <4> QED BY <1>0, <2>1, <4>1, <4>2 DEF Using
    <3> QED BY <3>1, <3>2
  <2>2. CASE k > Len(m_executors) /\ m_executors' = <<>> /\ k' = 1 /\ dpc' = "destroyed"
    <3>1. shut \/ (created = 0 /\ m_tasks = <<>>)
      <4>1. CASE m_executors = <<"thread">>  BY <4>1 DEF Using
      <4>2. CASE m_executors = <<"thread", "manual">>
        <5>1. k > 2  BY <2>00, <2>2, <4>2
        <5> QED BY <2>0, <5>1 DEF Using
      <4> QED BY <2>0, <4>1, <4>2
    <3>2. pc[Main] = "idle"
      <4> SUFFICES ASSUME pc[Main] # "idle" PROVE FALSE  OBVIOUS
      <4>1. k = 2  BY <2>0 DEF Using
      <4>2. m_executors = <<"thread">>
        <5>1. ~(2 > 2)  BY SMT
        <5> QED BY <2>0, <2>00, <2>2, <4>1, <5>1
      <4> QED BY <4>2, Numbering DEF Using
    <3> QED BY <1>0, <2>00, <2>2, <3>1, <3>2 DEF Using
  <2> QED BY <1>4, <2>1, <2>2 DEF NextExecutor
<1> QED BY <1>1, <1>2, <1>3, <1>4

(* Every step of the runtime keeps Using.                                  *)
LEMMA NextUsing == ASSUME IInv, IInv', ManualInv, Using, [Next]_vars PROVE Using'
<1>1. ASSUME UNCHANGED <<manual_executor, m_executors, dpc, k>>,
             T!Enqueue \/ T!Shutdown \/ T!ShutdownSteps \/ UNCHANGED thread_executor
               \/ \E t \in T!Threads : T!ThreadSteps(t)
      PROVE  Using'
  <2>1. \A u \in T!Threads : tpc[u] = "task" => tpc'[u] = "task"  BY <1>1, TasksGoOn DEF IInv
  <2> QED BY <1>1, <2>1, ThreadsUse
<1>2. ASSUME NEW c \in Callers, CallerNext(c) PROVE Using'
  <2>1. CASE EnqueueThread(c)
    <3>1. T!Enqueue /\ UNCHANGED <<manual_executor, m_executors, dpc, k>>  BY <2>1 DEF EnqueueThread, runtime
    <3> QED BY <3>1, <1>1
  <2>2. CASE EnqueueManual(c) \/ CallManual(c) \/ ClearOrShutManual(c) \/ ManualSteps(c)
    BY <2>2, ClientUses DEF EnqueueManual, CallManual, ClearOrShutManual, ManualSteps
  <2>3. CASE MakeManualExecutor(c)  BY <2>3, RuntimeUses
  <2> QED BY <1>2, <2>1, <2>2, <2>3 DEF CallerNext
<1>3. ASSUME NEW t \in T!Threads, ThreadNext(t) PROVE Using'
  <2>1. CASE ThreadSteps(t)
    <3>1. T!ThreadSteps(t) /\ UNCHANGED <<manual_executor, m_executors, dpc, k>>
      BY <2>1 DEF ThreadSteps, runtime
    <3> QED BY <3>1, <1>1
  <2>2. CASE FinishThreadTask(t)
    <3>1. pc[t] = "idle" /\ T!FinishTask(t) /\ UNCHANGED <<manual_executor, m_executors, dpc, k>>
      BY <2>2 DEF FinishThreadTask, runtime
    <3>2. tpc' = [tpc EXCEPT ![t] = "retire"]  BY <3>1 DEF T!FinishTask, T!Goto
    <3>3. tpc \in [T!Threads -> {"new", "destroyed", "start", "task", "retire", "notify", "join", "ended"}]
      BY DEF IInv, ThreadInv, T!TypeOK
    <3>4. \A u \in T!Threads : tpc[u] = "task" /\ pc[u] # "idle" => tpc'[u] = "task"  BY <3>1, <3>2, <3>3
    <3> QED BY <3>1, <3>4, ThreadsUse
  <2> QED BY <1>3, <2>1, <2>2 DEF ThreadNext
<1>4. ASSUME FireTimer PROVE Using'
  <2>1. UNCHANGED <<manual_executor, m_executors, dpc, k>> /\ (T!Enqueue \/ UNCHANGED thread_executor)
    BY <1>4 DEF FireTimer
  <2> QED BY <2>1, <1>1
<1>5. ASSUME ShutDownExecutor \/ ShutdownSteps PROVE Using'
  <2>1. CASE ShutDownExecutor /\ m_executors[k] = "manual" /\ M!Shutdown(Main) /\ UNCHANGED thread_executor
    BY <2>1, DestructorUses DEF ShutDownExecutor
  <2>2. CASE T!Shutdown /\ UNCHANGED <<manual_executor, runtime>>  BY <2>2, <1>1 DEF runtime
  <2>3. CASE ShutdownSteps
    <3>1. T!ShutdownSteps /\ UNCHANGED <<manual_executor, m_executors, dpc, k>>
      BY <2>3 DEF ShutdownSteps, runtime
    <3> QED BY <3>1, <1>1
  <2> QED BY <1>5, <2>1, <2>2, <2>3 DEF ShutDownExecutor
<1>6. ASSUME RegisterExecutor \/ DestroyRuntime \/ ShutDownTimerQueue \/ NextExecutor PROVE Using'
  BY <1>6, RuntimeUses
<1>7. ASSUME UNCHANGED vars PROVE Using'
  <2>1. UNCHANGED thread_executor /\ UNCHANGED <<manual_executor, m_executors, dpc, k>>
    BY <1>7 DEF vars, runtime
  <2> QED BY <2>1, <1>1
<1> QED BY <1>2, <1>3, <1>4, <1>5, <1>6, <1>7 DEF Next, Destructor

(* When the destructor of a runtime returns, all its threads have ended,   *)
(* nobody is in its manual executor or about to register it, and that one  *)
(* has been shut down if it ever had a task, for any number of threads,    *)
(* tasks and calls: shutdown_all holds m_lock while it shuts the executors *)
(* down in the order of their registration.                                *)
THEOREM NothingLeft == Spec => []QuiescentWhenDestroyed
<1>1. Init => IInv /\ ManualInv /\ Using
  <2> SUFFICES ASSUME Init PROVE IInv /\ ManualInv /\ Using  OBVIOUS
  <2>1. IInv  BY InitIInv
  <2>2. ManualInv  BY InitManual, RuntimeAssumption DEF Init, Bounds
  <2>3. Using  BY Numbering DEF Init, M!Init, Using
  <2> QED BY <2>1, <2>2, <2>3
<1>2. IInv /\ ManualInv /\ Using /\ [Next]_vars => (IInv /\ ManualInv /\ Using)'
  BY NextIInv, NextManual, ManualNext, NextUsing
<1>3. ASSUME IInv, ManualInv, Using PROVE QuiescentWhenDestroyed
  <2> SUFFICES ASSUME dpc = "destroyed"
               PROVE  /\ maker = Nobody
                      /\ \A t \in T!Threads : tpc[t] \in {"new", "destroyed", "ended"}
                      /\ \A c \in Callers : pc[c] = "idle"
                      /\ created > 0 => shut
                      /\ m_tasks = <<>>
    BY DEF QuiescentWhenDestroyed
  <2>1. maker = Nobody
    <3>1. Len(<<"thread">>) = 1 /\ Len(<<>>) = 0  OBVIOUS
    <3>2. 0 # 1  BY SMT
    <3> QED BY <1>3, <3>1, <3>2 DEF IInv, RuntimeInv, Registering
  <2>2. \A t \in T!Threads : tpc[t] \in {"new", "destroyed", "ended"}
    <3>1. cpc = "shut"  BY <1>3 DEF IInv, RuntimeInv, Destroying
    <3> QED BY <1>3, <3>1, AllEnded DEF IInv, T!ThreadsJoined
  <2>3. \A c \in Callers : pc[c] = "idle"  BY <1>3, <2>2, Numbering DEF Using
  <2>4. created = 0 => ~(created > 0)  BY SMT
  <2>5. shut => m_tasks = <<>>  BY <1>3 DEF ManualInv, Shutting
  <2> QED BY <1>3, <2>1, <2>2, <2>3, <2>4, <2>5 DEF Using
<1> QED BY <1>1, <1>2, <1>3, PTL DEF Spec
=============================================================================
