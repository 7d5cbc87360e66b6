------------------------- MODULE ResultStateProofs -------------------------
(***************************************************************************)
(* For every set of values and exceptions: the assertions of the code hold *)
(* in every interleaving, the state is freed exactly once and never under  *)
(* the consumer, the producer and the consumer do not race on the consumer *)
(* context, and the handshake implements a one-shot future.                *)
(***************************************************************************)
EXTENDS ResultState, TLAPS

(* A leaf is for Zenon unless it names another prover.                     *)
USE Zenon

Before == ppc \in Starting \cup {"complete", "exchange"}

(* What m_pc_state says while the producer has not exchanged it.           *)
StateWhileProducing ==
  /\ cpc \in {"in_promise", "bulk_submit", "ready", "wait_cas", "set_wait_for", "wait_for_cas", "clear",
              "set_await", "await_cas", "drop_exchange"} => m_pc_state = "idle"
  /\ cpc \in {"wait_load", "wait_block", "blocked"} => m_pc_state = "consumer_waiting"
  /\ cpc \in {"try_acquire", "rewind", "suspended"} => m_pc_state = "consumer_set"
  /\ cpc = "gone" => m_pc_state = "consumer_done"
  /\ cpc \notin {"joined", "await_resume"}

(* Where the consumer can be for each statement the producer has left.     *)
ConsumerWhileCompleting ==
  /\ cpc # "gone" => Done
  /\ ppc = "resume_consumer" =>
       \/ m_consumer = "await" /\ cpc = "suspended"
       \/ m_consumer = "wait_for" /\ cpc \in {"try_acquire", "rewind", "ready", "joined",
                                              "await_resume", "gone"}
  /\ ppc = "notify_one" => cpc \in {"wait_load", "wait_block", "blocked", "ready", "joined",
                                    "await_resume", "gone"}
  /\ ppc = "delete_self" => cpc = "gone"
  /\ ppc = "undefined" => cpc = "gone"
  /\ ppc = "done" => cpc # "suspended"

ContextMatches ==
  /\ cpc \in {"set_wait_for", "set_await", "in_promise", "bulk_submit"} => m_consumer = "idle"
  /\ cpc = "ready" /\ m_pc_state = "idle" => m_consumer = "idle"
  /\ cpc \in {"wait_for_cas", "try_acquire", "rewind", "clear"} => m_consumer = "wait_for"
  /\ cpc \in {"await_cas", "suspended"} => m_consumer = "await"

OutcomeMatches ==
  /\ ppc \in Starting => m_producer = NoOutcome
  /\ ppc \notin Starting /\ cpc # "gone" => m_producer # NoOutcome
  /\ wait_ctx = 1 => ~Before
  /\ cpc = "clear" => wait_ctx = 0
  /\ reply # "idle" => ~Before /\ cpc \in {"ready", "joined", "await_resume", "gone"}

(* The call whose statements the consumer executes.                        *)
CallMatches ==
  /\ cpc \in {"in_promise", "bulk_submit", "ready"} => op = "none"
  /\ cpc \in {"wait_cas", "wait_load", "wait_block", "blocked"} => op \in {"wait", "get"}
  /\ cpc \in {"set_wait_for", "wait_for_cas", "try_acquire", "rewind", "clear"} => op = "wait_for"
  /\ cpc \in {"set_await", "await_cas", "suspended", "await_resume"} => op \in {"co_await", "resolve"}

HandleMatches ==
  /\ ppc \in Starting \cup {"complete"} => ~m_done_handle
  /\ ppc \notin Starting \cup {"complete"} => (m_done_handle <=> coroutine)
  /\ cpc = "in_promise" => ~coroutine /\ ppc \in {"running", "complete", "exchange", "done"}

FreedMatches ==
  /\ freed \in {"no", IF coroutine THEN "destroy" ELSE "delete"}
  /\ freed # "no" <=> (cpc = "gone" /\ ~Before /\ ppc # "delete_self")

(* The inductive invariant.                                                *)
IInv ==
  /\ TypeOK
  /\ Before => StateWhileProducing
  /\ ~Before => ConsumerWhileCompleting
  /\ ContextMatches
  /\ OutcomeMatches
  /\ CallMatches
  /\ HandleMatches
  /\ FreedMatches
-----------------------------------------------------------------------------
(* A new state, with a running producer and a ready consumer, satisfies    *)
(* the inductive invariant.                                                *)
LEMMA InitIInv == Init => IInv
<1> SUFFICES ASSUME Init PROVE IInv  OBVIOUS
<1>1. TypeOK
  BY DEF Init, result_promise, initial_suspend, accumulating_awaitable, TypeOK, pc_states, Starting,
     Producing, Consuming, Calls
<1>2. Before /\ StateWhileProducing /\ ContextMatches /\ CallMatches
  BY DEF Init, result_promise, initial_suspend, accumulating_awaitable, Starting, Before, StateWhileProducing,
     ContextMatches, CallMatches
<1>3. OutcomeMatches /\ HandleMatches /\ FreedMatches
  BY SMT DEF Init, result_promise, initial_suspend, accumulating_awaitable, Starting, Before, OutcomeMatches,
     HandleMatches, FreedMatches
<1> QED BY <1>1, <1>2, <1>3 DEF IInv

(* Every step of the producer and of the consumer keeps it.                *)
LEMMA NextIInv == IInv /\ [Next]_vars => IInv'
<1> SUFFICES ASSUME IInv, [Next]_vars PROVE IInv'  OBVIOUS
<1> USE OutcomesDistinct DEF IInv, TypeOK, pc_states, Starting, Producing, Consuming, Calls, Before,
     StateWhileProducing, ConsumerWhileCompleting, ContextMatches, OutcomeMatches,
     CallMatches, HandleMatches, FreedMatches, Done, Outcomes, build, get, result_status, producerData, consumerData,
     stateData
<1>1. CASE SetOutcome  BY <1>1, SMT DEF SetOutcome
<1>2. CASE StoreDoneHandle  BY <1>2, SMT DEF StoreDoneHandle
<1>3. CASE ExchangeProducerDone  BY <1>3, SMT DEF ExchangeProducerDone, AfterExchange
<1>4. CASE ResumeConsumer  BY <1>4, SMT DEF ResumeConsumer
<1>5. CASE NotifyOne  BY <1>5, SMT DEF NotifyOne
<1>6. CASE ProducerDeletes  BY <1>6, SMT DEF ProducerDeletes, delete_self
<1>7. CASE AbandonPromise  BY <1>7, SMT DEF AbandonPromise, delete_self
<1>8. CASE GetResult  BY <1>8, SMT DEF GetResult
<1>9. CASE Status  BY <1>9, SMT DEF Status, Return
<1>10. CASE WaitForBegin  BY <1>10, SMT DEF WaitForBegin, Return, Return_status
<1>11. CASE Drop  BY <1>11, SMT DEF Drop, delete_self
<1>12. CASE WaitCas  BY <1>12, SMT DEF WaitCas, Waited
<1>13. CASE WaitLoad  BY <1>13, SMT DEF WaitLoad, Waited
<1>14. CASE WaitBlock  BY <1>14, SMT DEF WaitBlock
<1>15. CASE SetWaitForContext  BY <1>15, SMT DEF SetWaitForContext
<1>16. CASE WaitForCas  BY <1>16, SMT DEF WaitForCas, Return, Return_status
<1>17. CASE TryAcquire  BY <1>17, SMT DEF TryAcquire, Return, Return_status
<1>18. CASE Timeout  BY <1>18, SMT DEF Timeout
<1>19. CASE Rewind  BY <1>19, SMT DEF Rewind, Return, Return_status
<1>20. CASE ClearConsumer  BY <1>20, SMT DEF ClearConsumer, Return
<1>21. CASE SetAwaitHandle  BY <1>21, SMT DEF SetAwaitHandle
<1>22. CASE AwaitCas  BY <1>22, SMT DEF AwaitCas
<1>23. CASE Resolved  BY <1>23, SMT DEF Resolved
<1>24. CASE Join  BY <1>24, SMT DEF Join, delete_self
<1>25. CASE DropExchange  BY <1>25, SMT DEF DropExchange, delete_self
<1>26. ASSUME NEW call \in {"wait", "get"}, WaitBegin(call)
     PROVE  IInv'
  BY <1>26, SMT DEF WaitBegin, Waited
<1>27. ASSUME NEW call \in {"co_await", "resolve"}, AwaitBegin(call)
     PROVE  IInv'
  BY <1>27, SMT DEF AwaitBegin
<1>28. CASE ExecutePosted  BY <1>28, SMT DEF ExecutePosted
<1>29. CASE DestroyPosted  BY <1>29, SMT DEF DestroyPosted
<1>30. CASE Interrupted  BY <1>30, SMT DEF Interrupted
<1>31. CASE EnqueueAccumulated \/ ReturnResults  BY <1>31, SMT DEF EnqueueAccumulated, ReturnResults
<1>32. CASE UNCHANGED vars  BY <1>32, SMT DEF vars
<1> QED
  BY <1>1, <1>2, <1>3, <1>4, <1>5, <1>6, <1>7, <1>8, <1>9, <1>10, <1>11, <1>12, <1>13, <1>14, <1>15, <1>16,
     <1>17, <1>18, <1>19, <1>20, <1>21, <1>22, <1>23, <1>24, <1>25, <1>26, <1>27, <1>28, <1>29, <1>30, <1>31,
     <1>32 DEF Next, Producer, ConsumerCalls, ConsumerSteps, Terminated
-----------------------------------------------------------------------------
(* IInv holds in every reachable state of the handshake.                   *)
THEOREM Invariance == Spec => []IInv
BY InitIInv, NextIInv, PTL DEF Spec

(* The variables of result_state keep their types.                         *)
THEOREM TypeCorrect == Spec => []TypeOK
BY Invariance, PTL DEF IInv

(* No assertion of result_state, consumer_context or producer_context      *)
(* fails, in any interleaving of one producer and one consumer.            *)
THEOREM AssertionsNeverFail == Spec => []AssertionsHold
<1>1. IInv => AssertionsHold
  BY OutcomesDistinct, SMT DEF IInv, AssertionsHold, TypeOK, pc_states, Starting, Producing, Consuming,
     Before, Done, StateWhileProducing, ConsumerWhileCompleting, ContextMatches, OutcomeMatches
<1> QED BY <1>1, Invariance, PTL

(* The state is freed exactly once, the way its home requires, by the side *)
(* that leaves last.                                                       *)
THEOREM Freed == Spec => []FreedExactlyOnce
<1>1. IInv => FreedExactlyOnce
  BY DEF IInv, FreedExactlyOnce, TypeOK, Starting, Producing, Before, FreedMatches
<1> QED BY <1>1, Invariance, PTL

(* The producer never reads the consumer context while it is written.      *)
THEOREM NoContextRace == Spec => []ContextExclusive
<1>1. IInv => ContextExclusive  BY DEF IInv, ContextExclusive, Starting, Before, ConsumerWhileCompleting
<1> QED BY <1>1, Invariance, PTL

(* A call that blocks returns with the outcome, or as a wait_for that has  *)
(* timed out and left no trace, in every interleaving with the producer's  *)
(* exchange: result_state_base::wait, await, and wait_for's rewinding.     *)
THEOREM Answers == Spec => AnswersReady
<1>1. ASSUME IInv, [Next]_vars PROVE [op # "none" /\ cpc' = "ready" => Answered \/ TimedOut]_vars
  <2> SUFFICES ASSUME Next, op # "none", cpc' = "ready" PROVE Answered \/ TimedOut  BY <1>1
  <2> USE OutcomesDistinct, <1>1 DEF IInv, Before, CallMatches, Done, producerData, consumerData, stateData
  <2>1. cpc # "ready"  OBVIOUS
  <2>2. ~Producer
    BY <2>1 DEF Producer, EnqueueAccumulated, ExecutePosted, DestroyPosted, Interrupted, SetOutcome,
       StoreDoneHandle, ExchangeProducerDone, ResumeConsumer, NotifyOne, ProducerDeletes, AbandonPromise
  <2>3. ~ConsumerCalls
    BY <2>1 DEF ConsumerCalls, GetResult, ReturnResults, Status, WaitForBegin, Drop, WaitBegin, AwaitBegin
  <2>4. CASE WaitCas \/ WaitLoad \/ Resolved
    BY <2>4 DEF WaitCas, WaitLoad, Resolved, Waited, Answered, StateWhileProducing, ConsumerWhileCompleting,
       OutcomeMatches
  <2>5. CASE WaitForCas \/ TryAcquire \/ Rewind
    BY <2>5, SMT DEF WaitForCas, TryAcquire, Rewind, Return_status, Return, Answered, StateWhileProducing,
       ConsumerWhileCompleting, OutcomeMatches, TypeOK
  <2>6. CASE ClearConsumer
    BY <2>6 DEF ClearConsumer, Return, TimedOut, StateWhileProducing, ConsumerWhileCompleting,
       OutcomeMatches
  <2>7. CASE WaitBlock \/ SetWaitForContext \/ Timeout \/ SetAwaitHandle \/ AwaitCas \/ Join \/ DropExchange
    BY <2>7 DEF WaitBlock, SetWaitForContext, Timeout, SetAwaitHandle, AwaitCas, Join, DropExchange
  <2> QED BY <2>2, <2>3, <2>4, <2>5, <2>6, <2>7, <2>1 DEF Next, ConsumerSteps, Terminated, vars
<1> QED BY <1>1, Invariance, PTL DEF Spec, AnswersReady
-----------------------------------------------------------------------------
(* Every step of the handshake is a step of the future it implements, or   *)
(* invisible: the exchange publishes, a returning call reports, a join     *)
(* takes, and letting go of the result drops.                              *)
LEMMA StepRefines == IInv /\ [Next]_vars => [F!Next]_(F!vars)
<1> SUFFICES ASSUME IInv, [Next]_vars PROVE [F!Next]_(F!vars)  OBVIOUS
<1> USE OutcomesDistinct
    DEF IInv, TypeOK, Outcomes, Published, Starting, build, get, producerData, consumerData, stateData, F!vars
<1>0. CASE EnqueueAccumulated \/ ExecutePosted \/ DestroyPosted \/ Interrupted \/ SetOutcome
           \/ StoreDoneHandle
  BY <1>0 DEF EnqueueAccumulated, ExecutePosted, DestroyPosted, Interrupted, SetOutcome, StoreDoneHandle
<1>1. CASE ResumeConsumer \/ NotifyOne \/ ProducerDeletes
  BY <1>1 DEF ResumeConsumer, NotifyOne, ProducerDeletes, Before, ConsumerWhileCompleting
<1>2. CASE GetResult \/ ReturnResults \/ WaitCas \/ WaitLoad \/ WaitBlock \/ SetWaitForContext \/ Timeout
           \/ SetAwaitHandle \/ AwaitCas \/ Resolved
  BY <1>2 DEF GetResult, ReturnResults, WaitCas, WaitLoad, WaitBlock, Waited, SetWaitForContext, Timeout,
     SetAwaitHandle, AwaitCas, Resolved
<1>3. CASE ExchangeProducerDone
  BY <1>3 DEF ExchangeProducerDone, AfterExchange, F!Next, F!Publish, Before, OutcomeMatches
<1>4. CASE Status \/ WaitForBegin \/ WaitForCas \/ TryAcquire \/ Rewind
  BY <1>4 DEF Status, WaitForBegin, WaitForCas, TryAcquire, Rewind, Return, Return_status, result_status,
     Done, F!Next, F!Report, F!Kind, Before, StateWhileProducing, ConsumerWhileCompleting, OutcomeMatches
<1>5. CASE ClearConsumer  BY <1>5 DEF ClearConsumer, Return, F!Next, F!Report, OutcomeMatches
<1>6. CASE Join  BY <1>6 DEF Join, F!Next, F!Take, Before, StateWhileProducing, OutcomeMatches
<1>7. CASE Drop \/ DropExchange \/ AbandonPromise
  BY <1>7 DEF Drop, DropExchange, AbandonPromise, F!Next, F!Drop, OutcomeMatches
<1>8. ASSUME NEW call, WaitBegin(call) \/ AwaitBegin(call)
      PROVE  [F!Next]_(F!vars)
  BY <1>8 DEF WaitBegin, Waited, AwaitBegin
<1>9. CASE UNCHANGED vars  BY <1>9 DEF vars
<1> QED
  BY <1>0, <1>1, <1>2, <1>3, <1>4, <1>5, <1>6, <1>7, <1>8, <1>9 DEF Next, Producer, ConsumerCalls,
     ConsumerSteps, Terminated

(* result_state implements a one-shot future.                              *)
THEOREM Refinement == Spec => ImplementsFuture
<1>1. Init => F!Init
  BY DEF Init, result_promise, initial_suspend, accumulating_awaitable, F!Init, Published, Starting
<1> QED BY <1>1, StepRefines, Invariance, PTL DEF Spec, ImplementsFuture, F!Spec
=============================================================================
