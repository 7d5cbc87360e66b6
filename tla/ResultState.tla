---------------------------- MODULE ResultState ----------------------------
(***************************************************************************)
(* result_state<type>: the object a producer (a result_promise or a result *)
(* coroutine) and the consumer that holds the matching result share.  The  *)
(* two meet only in the atomic m_pc_state; whoever leaves last frees it.   *)
(*                                                                         *)
(* A step is one atomic access or one access to the data an atomic access  *)
(* guards.  ppc and cpc say which statement each side executes next.       *)
(***************************************************************************)
CONSTANTS Values,      \* what a producer can return
          Exceptions,  \* what a producer can throw
          BrokenTask,  \* errors::broken_task, set by a promise that dies
          NoOutcome    \* producer_context with m_status = idle

ASSUME OutcomesDistinct ==
  /\ Values \cap Exceptions = {}
  /\ BrokenTask \in Exceptions
  /\ NoOutcome \notin Values \cup Exceptions

VARIABLES
  m_pc_state,     \* the atomic the two sides meet in
  m_consumer,     \* consumer_context: what the producer must wake
  m_producer,     \* producer_context: the outcome
  m_done_handle,  \* handle of the finished coroutine, if there is one
  coroutine,      \* the producer is a coroutine, its frame holds the state
  wait_ctx,       \* count of the semaphore of the last wait_for
  notified,       \* m_pc_state.notify_one() reached the blocked consumer
  ppc, cpc,       \* next statement of the producer, of the consumer
  op,             \* the consumer's call in progress
  reply,          \* last status returned to the consumer
  got,            \* outcome returned by get() / await_resume()
  freed           \* how the state was deleted

vars == <<m_pc_state, m_consumer, m_producer, m_done_handle, coroutine, wait_ctx,
          notified, ppc, cpc, op, reply, got, freed>>

Outcomes == Values \cup Exceptions

result_status(o) == IF o \in Values THEN "value"
                    ELSE IF o \in Exceptions THEN "exception" ELSE "idle"

pc_states == {"idle", "consumer_set", "consumer_waiting", "consumer_done", "producer_done"}

(* Where a producer has no outcome yet.                                    *)
Starting == {"accumulated", "posted", "interrupted", "running"}

Producing == Starting \cup {"complete", "exchange", "resume_consumer", "notify_one",
                            "delete_self", "done", "undefined"}

Consuming == {"in_promise", "bulk_submit", "ready", "wait_cas", "wait_load", "wait_block", "blocked",
              "set_wait_for", "wait_for_cas", "try_acquire", "rewind", "clear",
              "set_await", "await_cas", "suspended", "await_resume", "joined",
              "drop_exchange", "gone"}

Calls == {"none", "wait", "get", "wait_for", "co_await", "resolve"}

(* A producer is a promise that still holds its result, a coroutine that   *)
(* runs at once or from a task it has been posted in, that of submit too,  *)
(* or one of bulk_submit, suspended until its task is enqueued.            *)
result_promise == ~coroutine /\ ppc = "running" /\ cpc = "in_promise"

initial_suspend == coroutine /\ ppc \in {"running", "posted"} /\ cpc = "ready"

accumulating_awaitable == coroutine /\ ppc = "accumulated" /\ cpc = "bulk_submit"

Init ==
  /\ m_pc_state = "idle"
  /\ m_consumer = "idle"
  /\ m_producer = NoOutcome
  /\ m_done_handle = FALSE
  /\ coroutine \in BOOLEAN
  /\ ppc \in Starting
  /\ cpc \in Consuming
  /\ result_promise \/ initial_suspend \/ accumulating_awaitable
  /\ wait_ctx = 0
  /\ notified = FALSE
  /\ op = "none"
  /\ reply = "idle"
  /\ got = NoOutcome
  /\ freed = "no"

-----------------------------------------------------------------------------
(* producer_context: build_result and build_exception, and get.            *)
build(outcomes) == m_producer' \in outcomes

get == m_producer

(* delete_self destroys the frame of a finished coroutine and deletes any  *)
(* other state.  A second deletion is recorded, not prevented.             *)
delete_self ==
  freed' = IF freed # "no" THEN "twice"
           ELSE IF m_done_handle THEN "destroy" ELSE "delete"

Done == m_pc_state = "producer_done"

Return(status) == cpc' = "ready" /\ op' = "none" /\ reply' = status

Return_status == Return(result_status(m_producer))

-----------------------------------------------------------------------------
(* The producer.                                                           *)

producerData == <<m_producer, m_done_handle, coroutine>>
consumerData == <<cpc, op, reply, got>>

(* bulk_submit enqueues the tasks as a span.  The executor accepts it, or  *)
(* throws; a thread pool may have taken part of it then.                   *)
EnqueueAccumulated ==
  /\ ppc = "accumulated"
  /\ cpc = "bulk_submit"
  /\ ppc' = "posted"
  /\ UNCHANGED <<m_pc_state, m_consumer, producerData, wait_ctx, notified, consumerData, freed>>

(* The executor executes the coroutine's task,                             *)
(* await_via_functor::operator(), ...                                      *)
ExecutePosted ==
  /\ ppc = "posted"
  /\ ppc' = "running"
  /\ UNCHANGED <<m_pc_state, m_consumer, producerData, wait_ctx, notified, consumerData, freed>>

(* ... or destroys it, ~await_via_functor; what is left of the span dies   *)
(* after the results of the bulk_submit that throws.                       *)
DestroyPosted ==
  /\ ppc = "posted" \/ (ppc = "accumulated" /\ cpc = "gone")
  /\ ppc' = "interrupted"
  /\ UNCHANGED <<m_pc_state, m_consumer, producerData, wait_ctx, notified, consumerData, freed>>

(* initial_scheduling_awaiter::await_resume throws, unhandled_exception    *)
(* catches.                                                                *)
Interrupted ==
  /\ ppc = "interrupted"
  /\ build({BrokenTask})
  /\ ppc' = "complete"
  /\ UNCHANGED <<m_pc_state, m_consumer, m_done_handle, coroutine, wait_ctx, notified,
                 consumerData, freed>>

(* result_promise::set_result, set_exception, set_from_function, the       *)
(* co_return or unhandled_exception of a result coroutine, and the broken  *)
(* task of a promise that dies after its result was retrieved.             *)
SetOutcome ==
  /\ ppc = "running"
  /\ \/ build(Outcomes \ {BrokenTask})
     \/ ~coroutine /\ cpc # "in_promise" /\ build({BrokenTask})
  /\ ppc' = "complete"
  /\ UNCHANGED <<m_pc_state, m_consumer, m_done_handle, coroutine, wait_ctx, notified,
                 consumerData, freed>>

(* complete_producer, m_done_handle = done_handle                          *)
StoreDoneHandle ==
  /\ ppc = "complete"
  /\ m_done_handle' = coroutine
  /\ ppc' = "exchange"
  /\ UNCHANGED <<m_pc_state, m_consumer, m_producer, coroutine, wait_ctx, notified,
                 consumerData, freed>>

(* Mutant of AfterExchange: nobody notifies the thread blocked in wait().  *)
AfterExchange_NoNotify(state_before) ==
  IF state_before = "consumer_set" THEN "resume_consumer"
  ELSE IF state_before = "consumer_done" THEN "delete_self" ELSE "done"

AfterExchange(state_before) ==
  IF state_before = "consumer_set" THEN "resume_consumer"
  ELSE IF state_before = "consumer_waiting" THEN "notify_one"
  ELSE IF state_before = "consumer_done" THEN "delete_self" ELSE "done"

ExchangeProducerDone ==
  /\ ppc = "exchange"
  /\ m_pc_state' = "producer_done"
  /\ ppc' = AfterExchange(m_pc_state)
  /\ UNCHANGED <<m_consumer, producerData, wait_ctx, notified, consumerData, freed>>

(* consumer_context::resume_consumer: resume the coroutine inline, or give *)
(* the semaphore a token.  Reading m_consumer once the consumer has freed  *)
(* the state is undefined: the stale context may still be there (waking it *)
(* reaches nobody, the consumer is gone), or the producer crashes.         *)
ResumeConsumer ==
  /\ ppc = "resume_consumer"
  /\ \/ /\ freed = "no"
        /\ ppc' = "done"
        /\ wait_ctx' = IF m_consumer = "wait_for" THEN 1 ELSE wait_ctx
        /\ cpc' = IF m_consumer = "await" THEN "await_resume" ELSE cpc
     \/ /\ freed # "no"
        /\ ppc' \in {"done", "undefined"}
        /\ UNCHANGED <<wait_ctx, cpc>>
  /\ UNCHANGED <<m_pc_state, m_consumer, producerData, notified, op, reply, got, freed>>

(* m_pc_state.notify_one() wakes the consumer if it blocks on the atomic   *)
(* and is lost otherwise; it uses the address of the atomic only.          *)
NotifyOne ==
  /\ ppc = "notify_one"
  /\ notified' = (cpc = "blocked")
  /\ ppc' = "done"
  /\ UNCHANGED <<m_pc_state, m_consumer, producerData, wait_ctx, consumerData, freed>>

ProducerDeletes ==
  /\ ppc = "delete_self"
  /\ delete_self
  /\ ppc' = "done"
  /\ UNCHANGED <<m_pc_state, m_consumer, producerData, wait_ctx, notified, consumerData>>

(* A promise destroyed, or assigned to, while it still holds both ends:    *)
(* both are released by one thread that nobody can race with, without an   *)
(* outcome being set (break_task_if_needed returns early).                 *)
AbandonPromise ==
  /\ ppc = "running"
  /\ cpc = "in_promise"
  /\ m_pc_state' = "producer_done"
  /\ delete_self
  /\ ppc' = "done"
  /\ cpc' = "gone"
  /\ UNCHANGED <<m_consumer, producerData, wait_ctx, notified, op, reply, got>>

Producer == EnqueueAccumulated \/ ExecutePosted \/ DestroyPosted \/ Interrupted \/ SetOutcome
            \/ StoreDoneHandle \/ ExchangeProducerDone \/ ResumeConsumer \/ NotifyOne
            \/ ProducerDeletes \/ AbandonPromise
-----------------------------------------------------------------------------
(* The consumer.  It calls one function of its result at a time.           *)

stateData == <<m_producer, m_done_handle, coroutine, notified, ppc>>

(* result_promise::get_result                                              *)
GetResult ==
  /\ cpc = "in_promise"
  /\ ppc = "running"
  /\ cpc' = "ready"
  /\ UNCHANGED <<m_pc_state, m_consumer, stateData, wait_ctx, op, reply, got, freed>>

(* bulk_submit returns the results.                                        *)
ReturnResults ==
  /\ cpc = "bulk_submit"
  /\ ppc # "accumulated"
  /\ cpc' = "ready"
  /\ UNCHANGED <<m_pc_state, m_consumer, stateData, wait_ctx, op, reply, got, freed>>

(* Mutant of Status: read producer_context without looking at m_pc_state.  *)
Status_Unsynchronized ==
  /\ cpc = "ready"
  /\ Return_status
  /\ UNCHANGED <<m_pc_state, m_consumer, stateData, wait_ctx, got, freed>>

Status ==
  /\ cpc = "ready"
  /\ Return(IF m_pc_state = "idle" THEN "idle" ELSE result_status(m_producer))
  /\ UNCHANGED <<m_pc_state, m_consumer, stateData, wait_ctx, got, freed>>

(* wait(), called by wait and by get, which then joins the state.          *)
Waited(call) == IF call = "get" THEN cpc' = "joined" /\ op' = call
                ELSE cpc' = "ready" /\ op' = "none"

WaitBegin(call) ==
  /\ cpc = "ready"
  /\ \/ Done /\ Waited(call)
     \/ ~Done /\ cpc' = "wait_cas" /\ op' = call
  /\ UNCHANGED <<m_pc_state, m_consumer, stateData, wait_ctx, reply, got, freed>>

WaitCas ==
  /\ cpc = "wait_cas"
  /\ \/ /\ m_pc_state = "idle"
        /\ m_pc_state' = "consumer_waiting"
        /\ cpc' = "wait_load"
        /\ UNCHANGED op
     \/ /\ m_pc_state # "idle"
        /\ Waited(op)
        /\ UNCHANGED m_pc_state
  /\ UNCHANGED <<m_consumer, stateData, wait_ctx, reply, got, freed>>

WaitLoad ==
  /\ cpc = "wait_load"
  /\ \/ Done /\ Waited(op)
     \/ ~Done /\ cpc' = "wait_block" /\ UNCHANGED op
  /\ UNCHANGED <<m_pc_state, m_consumer, stateData, wait_ctx, reply, got, freed>>

(* m_pc_state.wait(consumer_waiting) blocks only while the value is still  *)
(* that, and then until it is notified.                                    *)
WaitBlock ==
  /\ \/ /\ cpc = "wait_block"
        /\ cpc' = IF m_pc_state = "consumer_waiting" THEN "blocked" ELSE "wait_load"
     \/ /\ cpc = "blocked"
        /\ notified
        /\ cpc' = "wait_load"
  /\ UNCHANGED <<m_pc_state, m_consumer, stateData, wait_ctx, op, reply, got, freed>>

(* wait_for, and wait_until with a deadline that has not passed.  One      *)
(* whose deadline has passed is Status.                                    *)
WaitForBegin ==
  /\ cpc = "ready"
  /\ \/ Done /\ Return_status
     \/ ~Done /\ cpc' = "set_wait_for" /\ op' = "wait_for" /\ UNCHANGED reply
  /\ UNCHANGED <<m_pc_state, m_consumer, stateData, wait_ctx, got, freed>>

SetWaitForContext ==
  /\ cpc = "set_wait_for"
  /\ m_consumer' = "wait_for"
  /\ wait_ctx' = 0
  /\ cpc' = "wait_for_cas"
  /\ UNCHANGED <<m_pc_state, stateData, op, reply, got, freed>>

WaitForCas ==
  /\ cpc = "wait_for_cas"
  /\ \/ /\ m_pc_state = "idle"
        /\ m_pc_state' = "consumer_set"
        /\ cpc' = "try_acquire"
        /\ UNCHANGED <<op, reply>>
     \/ /\ m_pc_state # "idle"
        /\ Return_status
        /\ UNCHANGED m_pc_state
  /\ UNCHANGED <<m_consumer, stateData, wait_ctx, got, freed>>

TryAcquire ==
  /\ cpc = "try_acquire"
  /\ wait_ctx = 1
  /\ wait_ctx' = 0
  /\ Return_status
  /\ UNCHANGED <<m_pc_state, m_consumer, stateData, got, freed>>

Timeout ==
  /\ cpc = "try_acquire"
  /\ wait_ctx = 0
  /\ cpc' = "rewind"
  /\ UNCHANGED <<m_pc_state, m_consumer, stateData, wait_ctx, op, reply, got, freed>>

(* Mutant of Rewind: a store in place of the CAS.                          *)
Rewind_Store ==
  /\ cpc = "rewind"
  /\ m_pc_state' = "idle"
  /\ cpc' = "clear"
  /\ UNCHANGED <<m_consumer, stateData, wait_ctx, op, reply, got, freed>>

(* Mutant of Rewind: a wait that has timed out answers "idle" whatever the *)
(* CAS found.                                                              *)
Rewind_AnswersIdle ==
  /\ cpc = "rewind"
  /\ \/ /\ m_pc_state = "consumer_set"
        /\ m_pc_state' = "idle"
        /\ cpc' = "clear"
        /\ UNCHANGED <<op, reply>>
     \/ /\ m_pc_state # "consumer_set"
        /\ Return("idle")
        /\ UNCHANGED m_pc_state
  /\ UNCHANGED <<m_consumer, stateData, wait_ctx, got, freed>>

Rewind ==
  /\ cpc = "rewind"
  /\ \/ /\ m_pc_state = "consumer_set"
        /\ m_pc_state' = "idle"
        /\ cpc' = "clear"
        /\ UNCHANGED <<op, reply>>
     \/ /\ m_pc_state # "consumer_set"
        /\ Return_status
        /\ UNCHANGED m_pc_state
  /\ UNCHANGED <<m_consumer, stateData, wait_ctx, got, freed>>

(* Mutant of ClearConsumer: the context of the timed-out wait stays set.   *)
ClearConsumer_Forgotten ==
  /\ cpc = "clear"
  /\ Return("idle")
  /\ UNCHANGED <<m_pc_state, m_consumer, stateData, wait_ctx, got, freed>>

ClearConsumer ==
  /\ cpc = "clear"
  /\ m_consumer' = "idle"
  /\ Return("idle")
  /\ UNCHANGED <<m_pc_state, stateData, wait_ctx, got, freed>>
(* awaitable and resolve_awaitable, both through result_state_base::await, *)
(* which is also what when_all awaits each of its results with.            *)
AwaitBegin(call) ==
  /\ cpc = "ready"
  /\ op' = call
  /\ cpc' = IF Done THEN "await_resume" ELSE "set_await"
  /\ UNCHANGED <<m_pc_state, m_consumer, stateData, wait_ctx, reply, got, freed>>

SetAwaitHandle ==
  /\ cpc = "set_await"
  /\ m_consumer' = "await"
  /\ cpc' = "await_cas"
  /\ UNCHANGED <<m_pc_state, stateData, wait_ctx, op, reply, got, freed>>

AwaitCas ==
  /\ cpc = "await_cas"
  /\ \/ /\ m_pc_state = "idle"
        /\ m_pc_state' = "consumer_set"
        /\ cpc' = "suspended"
     \/ /\ m_pc_state # "idle"
        /\ cpc' = "await_resume"
        /\ UNCHANGED m_pc_state
  /\ UNCHANGED <<m_consumer, stateData, wait_ctx, op, reply, got, freed>>

(* resolve_awaitable::await_resume gives the result back to the caller.    *)
Resolved ==
  /\ cpc = "await_resume"
  /\ op = "resolve"
  /\ cpc' = "ready"
  /\ op' = "none"
  /\ UNCHANGED <<m_pc_state, m_consumer, stateData, wait_ctx, reply, got, freed>>

(* get() and awaitable::await_resume: take the outcome, or rethrow it, and *)
(* complete_joined_consumer.                                               *)
Join ==
  /\ cpc = "joined" \/ (cpc = "await_resume" /\ op = "co_await")
  /\ got' = get
  /\ delete_self
  /\ cpc' = "gone"
  /\ UNCHANGED <<m_pc_state, m_consumer, stateData, wait_ctx, op, reply>>

(* complete_consumer: the result is destroyed or assigned to, dies in a    *)
(* bulk_submit that throws, or with the promise that has set its outcome   *)
(* and from which it was never retrieved.                                  *)
Drop ==
  /\ cpc \in {"ready", "bulk_submit"} \/ (cpc = "in_promise" /\ ppc = "done")
  /\ \/ Done /\ delete_self /\ cpc' = "gone"
     \/ ~Done /\ cpc' = "drop_exchange" /\ UNCHANGED freed
  /\ UNCHANGED <<m_pc_state, m_consumer, stateData, wait_ctx, op, reply, got>>

(* Mutant of DropExchange: the exchanged value is not looked at.           *)
DropExchange_Blind ==
  /\ cpc = "drop_exchange"
  /\ m_pc_state' = "consumer_done"
  /\ cpc' = "gone"
  /\ UNCHANGED <<m_consumer, stateData, wait_ctx, op, reply, got, freed>>

DropExchange ==
  /\ cpc = "drop_exchange"
  /\ m_pc_state' = "consumer_done"
  /\ \/ Done /\ delete_self
     \/ ~Done /\ UNCHANGED freed
  /\ cpc' = "gone"
  /\ UNCHANGED <<m_consumer, stateData, wait_ctx, op, reply, got>>

(* The calls a consumer may make, and the steps of a call once made.       *)
ConsumerCalls ==
  \/ GetResult \/ ReturnResults \/ Status \/ WaitForBegin \/ Drop
  \/ \E call \in {"wait", "get"} : WaitBegin(call)
  \/ \E call \in {"co_await", "resolve"} : AwaitBegin(call)

ConsumerSteps ==
  \/ WaitCas \/ WaitLoad \/ WaitBlock
  \/ SetWaitForContext \/ WaitForCas \/ TryAcquire \/ Timeout \/ Rewind \/ ClearConsumer
  \/ SetAwaitHandle \/ AwaitCas \/ Resolved \/ Join \/ DropExchange

Terminated == ppc \in {"done", "undefined"} /\ cpc = "gone" /\ UNCHANGED vars

Next == Producer \/ ConsumerCalls \/ ConsumerSteps \/ Terminated

Spec == Init /\ [][Next]_vars

(* A producer that is interrupted or has begun to complete, and a consumer *)
(* inside a call, run on threads the operating system schedules.  Nothing  *)
(* makes an executor execute, a producer produce or a consumer call.       *)
Completing == Interrupted \/ StoreDoneHandle \/ ExchangeProducerDone \/ ResumeConsumer \/ NotifyOne
              \/ ProducerDeletes

FairSpec == Spec /\ WF_vars(Completing) /\ WF_vars(ConsumerSteps)

-----------------------------------------------------------------------------
(* Every variable has a value the code can give it.                        *)
TypeOK ==
  /\ m_pc_state \in pc_states
  /\ m_consumer \in {"idle", "await", "wait_for"}
  /\ m_producer \in Outcomes \cup {NoOutcome}
  /\ m_done_handle \in BOOLEAN
  /\ coroutine \in BOOLEAN
  /\ wait_ctx \in {0, 1}
  /\ notified \in BOOLEAN
  /\ ppc \in Producing
  /\ cpc \in Consuming
  /\ op \in Calls
  /\ reply \in {"idle", "value", "exception"}
  /\ got \in Outcomes \cup {NoOutcome}
  /\ freed \in {"no", "delete", "destroy", "twice"}

(* None of the assertions in result_state, consumer_context and            *)
(* producer_context can fail: whenever a side is about to execute one, the *)
(* interleavings with the other side have left what it asserts true.       *)
AssertionsHold ==
  /\ ppc \in Starting => m_producer = NoOutcome
  /\ ppc = "exchange" => ~Done
  /\ ppc = "resume_consumer" /\ m_consumer = "await" /\ freed = "no" => cpc = "suspended"
  /\ cpc \in {"ready", "bulk_submit"} => m_pc_state \in {"idle", "producer_done"}
  /\ cpc \in {"wait_cas", "wait_for_cas", "await_cas", "drop_exchange"}
       => m_pc_state \in {"idle", "producer_done"}
  /\ cpc \in {"set_wait_for", "set_await"} => m_consumer = "idle"
  /\ cpc = "rewind" => m_pc_state \in {"consumer_set", "producer_done"}
  /\ cpc = "try_acquire" /\ wait_ctx = 1 => Done
  /\ cpc \in {"joined", "await_resume"} => Done /\ m_producer # NoOutcome

(* What a blocking call may return with.                                   *)
Answered == /\ Done /\ m_producer # NoOutcome
            /\ op = "wait_for" => reply' = result_status(m_producer)

TimedOut == /\ op = "wait_for" /\ reply' = "idle"
            /\ m_consumer' = "idle" /\ wait_ctx' = 0
            /\ m_pc_state' = IF ppc \in Starting \cup {"complete", "exchange"} THEN "idle"
                             ELSE "producer_done"

(* A blocking call returns to a consumer that keeps its result only with   *)
(* the outcome there: wait and resolve after the producer's exchange,      *)
(* wait_for with the status of the outcome.  Or else a wait_for has timed  *)
(* out, and then it has undone everything: no context is left that the     *)
(* producer could wake, no token that a later wait_for could take for its  *)
(* own, and the next call finds the handshake as this one did.             *)
AnswersReady == [][op # "none" /\ cpc' = "ready" => Answered \/ TimedOut]_vars

(* The state is freed once, by the way that fits where it lives (destroy   *)
(* the frame of a coroutine, delete a promise's state), not before both    *)
(* sides are past their last atomic access, and it is not leaked when both *)
(* are gone.                                                               *)
FreedExactlyOnce ==
  /\ freed \in {"no", IF coroutine THEN "destroy" ELSE "delete"}
  /\ freed # "no" => /\ cpc = "gone"
                     /\ ppc \notin Starting \cup {"complete", "exchange", "delete_self"}
  /\ cpc = "gone" /\ ppc = "done" => freed # "no"

(* The producer never reads consumer_context while the consumer writes it: *)
(* the CAS back to idle in wait_for is what makes clear() safe.            *)
ContextExclusive ==
  ppc = "resume_consumer" => cpc \notin {"set_wait_for", "set_await", "clear"}

(* The handshake implements a one-shot future, published by the exchange   *)
(* in complete_producer.                                                   *)
Published == IF ppc \in Starting \cup {"complete", "exchange"} THEN NoOutcome ELSE m_producer

F == INSTANCE Future WITH outcome <- Published, taken <- got, holding <- (cpc # "gone")

ImplementsFuture == F!Spec

(* A consumer that waits, timed or not, or is suspended when its producer  *)
(* completes, or when the task that was to start it is destroyed, gets out *)
(* of the wait: no interleaving of the load, the CAS and the blocking wait *)
(* with the producer's exchange loses the wake-up.                         *)
WaiterReleased ==
  (/\ Done \/ ppc \in {"interrupted", "complete", "exchange"}
   /\ cpc \in {"wait_load", "wait_block", "blocked", "try_acquire", "suspended"})
    ~> cpc \in {"ready", "joined", "await_resume", "gone"}

(* "the consumer is protected": when the producer accesses the consumer    *)
(* context, the state that holds it has not been deleted.                  *)
ConsumerContextProtected == ppc = "resume_consumer" => freed = "no"
=============================================================================
