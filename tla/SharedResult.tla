---------------------------- MODULE SharedResult ----------------------------
(***************************************************************************)
(* shared_result: any number of consumers, holding copies, wait for, poll  *)
(* or co_await the outcome that one coroutine (make_shared_result, which   *)
(* awaits an ordinary result) publishes.  A suspended consumer's node is   *)
(* in its own frame, linked into m_awaiters.                               *)
(*                                                                         *)
(* A critical section of m_lock is one step, and so is a load of m_ready   *)
(* outside it.  A consumer ends when it has the outcome.                   *)
(***************************************************************************)
EXTENDS Sequences, Naturals, Functions

CONSTANTS Consumers, Values, Exceptions, NoOutcome

ASSUME OutcomesDistinct == NoOutcome \notin Values \cup Exceptions

VARIABLES
  m_ready, m_awaiters, m_producer,
  m_condition,      \* there is a condition variable
  awaiters,         \* complete_producer's local list
  ppc, cpc,         \* next statement of the producer and of each consumer
  op,               \* what a consumer has called
  reply, got        \* last status told to, and outcome got by, a consumer

consumer == <<cpc, op, reply, got>>
vars == <<m_ready, m_awaiters, m_producer, m_condition, awaiters, ppc, consumer>>

result_status(o) == IF o \in Values THEN "value"
                    ELSE IF o \in Exceptions THEN "exception" ELSE "idle"

Init ==
  /\ m_ready = FALSE
  /\ m_awaiters = <<>>
  /\ m_producer = NoOutcome
  /\ m_condition = FALSE
  /\ awaiters = <<>>
  /\ ppc = "running"
  /\ cpc = [c \in Consumers |-> "idle"]
  /\ op = [c \in Consumers |-> "none"]
  /\ reply = [c \in Consumers |-> "idle"]
  /\ got = [c \in Consumers |-> NoOutcome]

-----------------------------------------------------------------------------
(* The producer.                                                           *)

(* The awaited result is done: return_value or unhandled_exception.        *)
SetOutcome ==
  /\ ppc = "running"
  /\ m_producer' \in Values \cup Exceptions
  /\ ppc' = "complete"
  /\ UNCHANGED <<m_ready, m_awaiters, m_condition, awaiters, consumer>>

(* Mutant of CompleteProducer: blocked consumers are not notified.         *)
CompleteProducer_NoNotify ==
  /\ ppc = "complete"
  /\ awaiters' = m_awaiters
  /\ m_awaiters' = <<>>
  /\ m_ready' = TRUE
  /\ ppc' = "resume"
  /\ UNCHANGED <<m_producer, m_condition, consumer>>

(* Mutant of CompleteProducer: the list stays where it was.                *)
CompleteProducer_Copy ==
  /\ ppc = "complete"
  /\ awaiters' = m_awaiters
  /\ m_ready' = TRUE
  /\ cpc' = [c \in Consumers |-> IF cpc[c] = "blocked" THEN "woken" ELSE cpc[c]]
  /\ ppc' = "resume"
  /\ UNCHANGED <<m_awaiters, m_producer, m_condition, op, reply, got>>

(* The critical section of complete_producer.                              *)
CompleteProducer ==
  /\ ppc = "complete"
  /\ awaiters' = m_awaiters
  /\ m_awaiters' = <<>>
  /\ m_ready' = TRUE
  /\ cpc' = [c \in Consumers |-> IF m_condition /\ cpc[c] = "blocked" THEN "woken" ELSE cpc[c]]
  /\ ppc' = "resume"
  /\ UNCHANGED <<m_producer, m_condition, op, reply, got>>

(* Its loop; the node is gone once its coroutine has been resumed.         *)
ResumeAwaiter ==
  /\ ppc = "resume"
  /\ IF awaiters = <<>>
     THEN ppc' = "done" /\ UNCHANGED <<awaiters, cpc>>
     ELSE /\ awaiters' = Tail(awaiters)
          /\ cpc' = [cpc EXCEPT ![Head(awaiters)] = "return"]
          /\ UNCHANGED ppc
  /\ UNCHANGED <<m_ready, m_awaiters, m_producer, m_condition, op, reply, got>>

-----------------------------------------------------------------------------
(* A consumer.                                                             *)

Operations == {"status", "wait", "wait_for", "get", "await", "resolve"}

Tell(c, status) == reply' = [reply EXCEPT ![c] = status] /\ cpc' = [cpc EXCEPT ![c] = "idle"]

(* Mutant of Call: status() forgets m_ready.                               *)
Call_Unsynchronized(c) ==
  /\ cpc[c] = "idle"
  /\ \E o \in Operations :
       /\ op' = [op EXCEPT ![c] = o]
       /\ IF o = "status" THEN Tell(c, result_status(m_producer))
          ELSE cpc' = [cpc EXCEPT ![c] = IF m_ready THEN "return" ELSE "lock"] /\ UNCHANGED reply
  /\ UNCHANGED <<m_ready, m_awaiters, m_producer, m_condition, awaiters, ppc, got>>

(* Every operation first loads m_ready without the lock.                   *)
Call(c) ==
  /\ cpc[c] = "idle"
  /\ \E o \in Operations :
       /\ op' = [op EXCEPT ![c] = o]
       /\ IF o = "status" /\ ~m_ready THEN Tell(c, "idle")
          ELSE cpc' = [cpc EXCEPT ![c] = IF m_ready THEN "return" ELSE "lock"] /\ UNCHANGED reply
  /\ UNCHANGED <<m_ready, m_awaiters, m_producer, m_condition, awaiters, ppc, got>>

Enter(c) ==
  IF op[c] \in {"await", "resolve"}
  THEN /\ m_awaiters' = <<c>> \o m_awaiters
       /\ cpc' = [cpc EXCEPT ![c] = "suspended"]
       /\ UNCHANGED m_condition
  ELSE /\ m_condition' = TRUE
       /\ cpc' = [cpc EXCEPT ![c] = "blocked"]
       /\ UNCHANGED m_awaiters

(* Mutant of Lock: m_ready is not loaded again under the lock.             *)
Lock_NoRecheck(c) ==
  /\ cpc[c] = "lock"
  /\ Enter(c)
  /\ UNCHANGED <<m_ready, m_producer, awaiters, ppc, op, reply, got>>

Lock(c) ==
  /\ cpc[c] = "lock"
  /\ IF m_ready THEN cpc' = [cpc EXCEPT ![c] = "return"] /\ UNCHANGED <<m_awaiters, m_condition>>
     ELSE Enter(c)
  /\ UNCHANGED <<m_ready, m_producer, awaiters, ppc, op, reply, got>>

(* The wait ends by a notification or by a time-out, and with the lock     *)
(* taken again the predicate decides.                                      *)
Timeout(c) ==
  /\ cpc[c] = "blocked" /\ op[c] = "wait_for"
  /\ cpc' = [cpc EXCEPT ![c] = "woken"]
  /\ UNCHANGED <<m_ready, m_awaiters, m_producer, m_condition, awaiters, ppc, op, reply, got>>

Woken(c) ==
  /\ cpc[c] = "woken"
  /\ IF m_ready THEN cpc' = [cpc EXCEPT ![c] = "return"] /\ UNCHANGED reply
     ELSE Tell(c, "idle")
  /\ UNCHANGED <<m_ready, m_awaiters, m_producer, m_condition, awaiters, ppc, op, got>>

(* What an operation does with a result it has found ready.                *)
Return(c) ==
  /\ cpc[c] = "return"
  /\ \/ op[c] \in {"get", "await"} /\ got' = [got EXCEPT ![c] = m_producer]
        /\ cpc' = [cpc EXCEPT ![c] = "gone"] /\ UNCHANGED reply
     \/ op[c] \in {"status", "wait_for"} /\ Tell(c, result_status(m_producer)) /\ UNCHANGED got
     \/ op[c] \in {"wait", "resolve"} /\ cpc' = [cpc EXCEPT ![c] = "idle"] /\ UNCHANGED <<reply, got>>
  /\ UNCHANGED <<m_ready, m_awaiters, m_producer, m_condition, awaiters, ppc, op>>

-----------------------------------------------------------------------------
Complete == CompleteProducer \/ ResumeAwaiter

Consume(c) == Lock(c) \/ Woken(c) \/ Return(c)

Next == SetOutcome \/ Complete \/ \E c \in Consumers : Call(c) \/ Consume(c) \/ Timeout(c)

Spec == Init /\ [][Next]_vars

(* Threads are scheduled; the awaited result need never be produced, no    *)
(* consumer has to call anything, and no time-out has to come.             *)
FairSpec == Spec /\ WF_vars(Complete) /\ \A c \in Consumers : WF_vars(Consume(c))
-----------------------------------------------------------------------------
(* Every variable has a value the code can give it; m_ready is stored      *)
(* after the outcome, and nobody enters the list afterwards.               *)
TypeOK ==
  /\ m_ready \in BOOLEAN /\ m_condition \in BOOLEAN
  /\ m_awaiters \in Seq(Consumers)
  /\ awaiters \in Seq(Consumers)
  /\ m_producer \in Values \cup Exceptions \cup {NoOutcome}
  /\ ppc \in {"running", "complete", "resume", "done"}
  /\ cpc \in [Consumers -> {"idle", "lock", "blocked", "woken", "suspended", "return", "gone"}]
  /\ op \in [Consumers -> Operations \cup {"none"}]
  /\ reply \in [Consumers -> {"idle", "value", "exception"}]
  /\ got \in [Consumers -> Values \cup Exceptions \cup {NoOutcome}]
  /\ m_ready => m_producer # NoOutcome /\ m_awaiters = <<>>

(* The lists hold exactly the nodes of suspended consumers, each once: the *)
(* producer's loop follows no link into a frame that has gone.             *)
AwaitersSuspended ==
  LET links == m_awaiters \o awaiters
  IN /\ Range(links) = {c \in Consumers : cpc[c] = "suspended"}
     /\ IsInjective(links)

(* To each of its consumers a shared_result is a future: published once,   *)
(* by the store to m_ready, and the same for all.                          *)
F(c) == INSTANCE Future WITH outcome <- IF m_ready THEN m_producer ELSE NoOutcome,
                             reply <- reply[c], taken <- got[c], holding <- cpc[c] # "gone"

ImplementsFuture ==
  /\ \A c \in Consumers : F(c)!Init
  /\ [][\A c \in Consumers : F(c)!Next \/ UNCHANGED F(c)!vars]_vars

(* Once there is an outcome, whoever blocks or suspends comes back: no     *)
(* order of the two loads, the registration and the publication loses a    *)
(* consumer.                                                               *)
ConsumersReleased ==
  \A c \in Consumers :
    (ppc # "running" /\ cpc[c] \in {"lock", "blocked", "suspended"}) ~> cpc[c] \in {"idle", "gone"}
=============================================================================
