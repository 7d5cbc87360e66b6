----------------------------- MODULE WhenResult -----------------------------
(***************************************************************************)
(* when_any and when_all.  In when_any one coroutine registers the same    *)
(* when_any_context with every input result and suspends; the first result *)
(* to complete resumes it.  In when_all it awaits the results one by one.  *)
(* Both then move to the resume executor, which may refuse or destroy the  *)
(* continuation: the call throws, and its results are destroyed with it.   *)
(* The states are those of ResultState, seen by a coroutine that consumes  *)
(* several of them at once; when a call of when_any returns, the caller    *)
(* may pass the results that were not reported to another call.            *)
(***************************************************************************)
EXTENDS Naturals, Sequences

CONSTANTS N,          \* number of input results
          MaxCalls    \* how often the coroutine calls when_any or when_all

ASSUME BoundsAssumption == N \in Nat \ {0} /\ MaxCalls \in Nat \ {0}

Results == 1 .. N
Contexts == 1 .. MaxCalls
NoContext == 0
AwaitHandle == MaxCalls + 1   \* a consumer_context set by when_all

(* m_status holds the address of a result, or one of two addresses no      *)
(* result has: nullptr and -1.                                             *)
k_done_processing == 0
k_processing == N + 1

VARIABLES
  m_pc_state,   \* handshake of each result (ResultState)
  m_consumer,   \* what each consumer_context refers to
  m_status,     \* m_status of each when_any_context
  ppc,          \* next statement of each producer
  ctx, seen,    \* a producer's copy of the context, and of its m_status
  wpc,          \* next statement of the coroutine
  call, op,     \* the call in progress, which owns context number "call", and its kind
  input, i,     \* the results passed to it, and the position of its loops
  completed     \* completed_result() read by await_resume

producers == <<ppc, ctx, seen>>
coroutine == <<wpc, call, op, input, i, completed>>
vars == <<m_pc_state, m_consumer, m_status, producers, coroutine>>

Unfinished == {k_processing, k_done_processing}

Init ==
  /\ m_pc_state = [r \in Results |-> "idle"]
  /\ m_consumer = [r \in Results |-> NoContext]
  /\ m_status = [c \in Contexts |-> k_processing]
  /\ ppc = [r \in Results |-> "running"]
  /\ ctx = [r \in Results |-> NoContext]
  /\ seen = [r \in Results |-> k_processing]
  /\ \/ op = "any" /\ wpc = "check"
     \/ op = "all" /\ wpc = "await_load"
  /\ call = 1
  /\ input = [k \in Results |-> k]
  /\ i = 1
  /\ completed = 0

-----------------------------------------------------------------------------
(* when_all: the next result to await, or the resume executor.             *)
NextAwait == /\ wpc' = IF i < Len(input) THEN "await_load" ELSE "resume_on"
             /\ i' = i + 1

(* The producer of result r.                                               *)

Goto(r, from, to) == ppc[r] = from /\ ppc' = [ppc EXCEPT ![r] = to]

(* complete_producer                                                       *)
ExchangeProducerDone(r) ==
  /\ Goto(r, "running", IF m_pc_state[r] = "consumer_set" THEN "resume_consumer" ELSE "done")
  /\ m_pc_state' = [m_pc_state EXCEPT ![r] = "producer_done"]
  /\ UNCHANGED <<m_consumer, m_status, ctx, seen, coroutine>>

(* resume_consumer of a when_any_context copies the shared pointer to it;  *)
(* the state may have been freed meanwhile, see ResultState.               *)
ResumeConsumer(r) ==
  /\ m_consumer[r] # AwaitHandle
  /\ Goto(r, "resume_consumer",
          IF m_pc_state[r] = "consumer_done" THEN "undefined" ELSE "try_resume")
  /\ ctx' = [ctx EXCEPT ![r] = m_consumer[r]]
  /\ UNCHANGED <<m_pc_state, m_consumer, m_status, seen, coroutine>>

(* try_resume: the load of m_status, then one of its two CASes             *)
TryResumeLoad(r) ==
  /\ Goto(r, "try_resume", IF m_status[ctx[r]] \in Unfinished THEN "cas" ELSE "done")
  /\ seen' = [seen EXCEPT ![r] = m_status[ctx[r]]]
  /\ UNCHANGED <<m_pc_state, m_consumer, m_status, ctx, coroutine>>

(* Mutants of TryResumeCas: a store in place of the CAS; no second try     *)
(* when the processor finished between the load and the CAS.               *)
TryResumeCas_Store(r) ==
  /\ Goto(r, "cas", IF seen[r] = k_done_processing THEN "resume" ELSE "done")
  /\ m_status' = [m_status EXCEPT ![ctx[r]] = r]
  /\ UNCHANGED <<m_pc_state, m_consumer, ctx, seen, coroutine>>

TryResumeCas_NoRetry(r) ==
  /\ ppc[r] = "cas"
  /\ \/ /\ m_status[ctx[r]] = seen[r]
        /\ m_status' = [m_status EXCEPT ![ctx[r]] = r]
        /\ Goto(r, "cas", IF seen[r] = k_done_processing THEN "resume" ELSE "done")
     \/ /\ m_status[ctx[r]] # seen[r]
        /\ Goto(r, "cas", "done")
        /\ UNCHANGED m_status
  /\ UNCHANGED <<m_pc_state, m_consumer, ctx, seen, coroutine>>

TryResumeCas(r) ==
  /\ ppc[r] = "cas"
  /\ \/ /\ m_status[ctx[r]] = seen[r]
        /\ m_status' = [m_status EXCEPT ![ctx[r]] = r]
        /\ Goto(r, "cas", IF seen[r] = k_done_processing THEN "resume" ELSE "done")
     \/ /\ m_status[ctx[r]] # seen[r]
        /\ Goto(r, "cas", IF seen[r] = k_done_processing THEN "done" ELSE "try_resume")
        /\ UNCHANGED m_status
  /\ UNCHANGED <<m_pc_state, m_consumer, ctx, seen, coroutine>>

(* m_coro_handle()                                                         *)
ResumeCoroutine(r) ==
  /\ Goto(r, "resume", "done")
  /\ wpc' = "await_resume"
  /\ UNCHANGED <<m_pc_state, m_consumer, m_status, ctx, seen, call, op, input, i, completed>>

(* resume_consumer of a coroutine handle: when_all goes on                 *)
ResumeAwaiter(r) ==
  /\ m_consumer[r] = AwaitHandle
  /\ Goto(r, "resume_consumer", "done")
  /\ NextAwait
  /\ UNCHANGED <<m_pc_state, m_consumer, m_status, ctx, seen, call, op, input, completed>>

Producer(r) == ResumeAwaiter(r) \/ ExchangeProducerDone(r) \/ ResumeConsumer(r) \/ TryResumeLoad(r)
               \/ TryResumeCas(r) \/ ResumeCoroutine(r)

-----------------------------------------------------------------------------
(* The coroutine: await_suspend.                                           *)

Step(from, to) == wpc = from /\ wpc' = to

Result == input[i]

(* any_result_finished; past the last result, finish_processing            *)
AnyResultFinished ==
  /\ i <= Len(input)
  /\ Step("check", IF m_status[call] = k_processing THEN "load" ELSE "await_resume")
  /\ UNCHANGED <<m_pc_state, m_consumer, m_status, producers, call, op, input, i, completed>>

(* result_state_base::when_any                                             *)
WhenAnyLoad ==
  /\ Step("load", IF m_pc_state[Result] = "producer_done" THEN "resume_inline" ELSE "set")
  /\ UNCHANGED <<m_pc_state, m_consumer, m_status, producers, call, op, input, i, completed>>

SetWhenAnyContext ==
  /\ Step("set", "cas")
  /\ m_consumer' = [m_consumer EXCEPT ![Result] = call]
  /\ UNCHANGED <<m_pc_state, m_status, producers, call, op, input, i, completed>>

(* Whether or not the CAS succeeds, the state loaded before it is what is  *)
(* returned, and it is not producer_done: the loop goes on.                *)
WhenAnyCas ==
  /\ Step("cas", "check")
  /\ m_pc_state' = IF m_pc_state[Result] = "idle"
                   THEN [m_pc_state EXCEPT ![Result] = "consumer_set"] ELSE m_pc_state
  /\ i' = i + 1
  /\ UNCHANGED <<m_consumer, m_status, producers, call, op, input, completed>>

(* resume_inline                                                           *)
ResumeInlineLoad ==
  /\ Step("resume_inline", IF m_status[call] = k_processing THEN "inline_cas"
                           ELSE "await_resume")
  /\ UNCHANGED <<m_pc_state, m_consumer, m_status, producers, call, op, input, i, completed>>

(* Mutant of ResumeInlineCas: the "redundant" CAS is left out.             *)
ResumeInlineCas_Omitted ==
  /\ Step("inline_cas", "await_resume")
  /\ UNCHANGED <<m_pc_state, m_consumer, m_status, producers, call, op, input, i, completed>>

ResumeInlineCas ==
  /\ Step("inline_cas", "await_resume")
  /\ m_status' = IF m_status[call] = k_processing
                 THEN [m_status EXCEPT ![call] = Result] ELSE m_status
  /\ UNCHANGED <<m_pc_state, m_consumer, producers, call, op, input, i, completed>>

FinishProcessing ==
  /\ i = Len(input) + 1
  /\ \/ /\ m_status[call] = k_processing
        /\ m_status' = [m_status EXCEPT ![call] = k_done_processing]
        /\ Step("check", "suspended")
     \/ /\ m_status[call] # k_processing
        /\ Step("check", "await_resume")
        /\ UNCHANGED m_status
  /\ UNCHANGED <<m_pc_state, m_consumer, producers, call, op, input, i, completed>>

-----------------------------------------------------------------------------
(* The coroutine: await_resume.                                            *)

CompletedResult ==
  /\ Step("await_resume", "rewind_load")
  /\ completed' = m_status[call]
  /\ i' = 1
  /\ UNCHANGED <<m_pc_state, m_consumer, m_status, producers, call, op, input>>

(* The end of one iteration: the next result, or the resume executor.      *)
Rewound == /\ wpc' = IF i < Len(input) THEN "rewind_load" ELSE "resume_on"
           /\ i' = i + 1

(* try_rewind_consumer                                                     *)
RewindLoad ==
  /\ wpc = "rewind_load"
  /\ \/ m_pc_state[Result] = "consumer_set" /\ wpc' = "rewind_cas" /\ UNCHANGED i
     \/ m_pc_state[Result] # "consumer_set" /\ Rewound
  /\ UNCHANGED <<m_pc_state, m_consumer, m_status, producers, call, op, input, completed>>

(* Mutant of RewindCas: the state loaded before is trusted.                *)
RewindCas_Store ==
  /\ Step("rewind_cas", "clear")
  /\ m_pc_state' = [m_pc_state EXCEPT ![Result] = "idle"]
  /\ UNCHANGED <<m_consumer, m_status, producers, call, op, input, i, completed>>

RewindCas ==
  /\ wpc = "rewind_cas"
  /\ \/ /\ m_pc_state[Result] = "consumer_set"
        /\ m_pc_state' = [m_pc_state EXCEPT ![Result] = "idle"]
        /\ wpc' = "clear"
        /\ UNCHANGED i
     \/ /\ m_pc_state[Result] # "consumer_set"
        /\ Rewound
        /\ UNCHANGED m_pc_state
  /\ UNCHANGED <<m_consumer, m_status, producers, call, op, input, completed>>

(* Mutant of ClearConsumer: the rewound context keeps its pointer.         *)
ClearConsumer_Forgotten ==
  /\ wpc = "clear"
  /\ Rewound
  /\ UNCHANGED <<m_pc_state, m_consumer, m_status, producers, call, op, input, completed>>

ClearConsumer ==
  /\ wpc = "clear"
  /\ m_consumer' = [m_consumer EXCEPT ![Result] = NoContext]
  /\ Rewound
  /\ UNCHANGED <<m_pc_state, m_status, producers, call, op, input, completed>>

-----------------------------------------------------------------------------
(* The coroutine: when_all, result_state_base::await.                      *)

AwaitLoad ==
  /\ wpc = "await_load"
  /\ \/ m_pc_state[Result] = "producer_done" /\ NextAwait
     \/ m_pc_state[Result] # "producer_done" /\ wpc' = "await_set" /\ UNCHANGED i
  /\ UNCHANGED <<m_pc_state, m_consumer, m_status, producers, call, op, input, completed>>

SetAwaitHandle ==
  /\ Step("await_set", "await_cas")
  /\ m_consumer' = [m_consumer EXCEPT ![Result] = AwaitHandle]
  /\ UNCHANGED <<m_pc_state, m_status, producers, call, op, input, i, completed>>

(* Unlike when_any, await looks at the outcome of its CAS.                 *)
AwaitCas ==
  /\ wpc = "await_cas"
  /\ \/ /\ m_pc_state[Result] = "idle"
        /\ m_pc_state' = [m_pc_state EXCEPT ![Result] = "consumer_set"]
        /\ wpc' = "suspended"
        /\ UNCHANGED i
     \/ m_pc_state[Result] # "idle" /\ NextAwait /\ UNCHANGED m_pc_state
  /\ UNCHANGED <<m_consumer, m_status, producers, call, op, input, completed>>

-----------------------------------------------------------------------------
(* The coroutine: resume_on(resume_executor), and the end of the call.     *)

(* The continuation is posted, or refused and resumed with an interrupt.   *)
PostResume ==
  /\ wpc = "resume_on"
  /\ wpc' \in {"posted", "interrupted"}
  /\ UNCHANGED <<m_pc_state, m_consumer, m_status, producers, call, op, input, i, completed>>

(* It is executed or, when the executor is shut down, destroyed.           *)
Resumed ==
  /\ wpc = "posted"
  /\ wpc' \in {"returned", "interrupted"}
  /\ UNCHANGED <<m_pc_state, m_consumer, m_status, producers, call, op, input, i, completed>>

(* broken_task leaves the coroutine; its results die with its frame.       *)
BrokenTask ==
  /\ Step("interrupted", "drop")
  /\ i' = 1
  /\ UNCHANGED <<m_pc_state, m_consumer, m_status, producers, call, op, input, completed>>

(* complete_consumer, whose first load changes nothing else: the state is  *)
(* freed here, or left to the producer.                                    *)
DropResult ==
  /\ wpc = "drop"
  /\ m_pc_state' = [m_pc_state EXCEPT ![Result] = "consumer_done"]
  /\ wpc' = IF i < Len(input) THEN "drop" ELSE "dropped"
  /\ i' = i + 1
  /\ UNCHANGED <<m_consumer, m_status, producers, call, op, input, completed>>

(* The caller passes the results that when_any did not report to another   *)
(* call.                                                                   *)
CallAgain ==
  /\ wpc = "returned"
  /\ op = "any"
  /\ call < MaxCalls
  /\ Len(input) > 1
  /\ \/ op' = "any" /\ wpc' = "check"
     \/ op' = "all" /\ wpc' = "await_load"
  /\ call' = call + 1
  /\ \E j \in 1 .. Len(input) :
       /\ input[j] = completed
       /\ input' = [k \in 1 .. Len(input) - 1 |-> input[IF k < j THEN k ELSE k + 1]]
  /\ i' = 1
  /\ completed' = 0
  /\ UNCHANGED <<m_pc_state, m_consumer, m_status, producers>>

Coroutine == AnyResultFinished \/ WhenAnyLoad \/ SetWhenAnyContext \/ WhenAnyCas
             \/ ResumeInlineLoad \/ ResumeInlineCas \/ FinishProcessing
             \/ CompletedResult \/ RewindLoad \/ RewindCas \/ ClearConsumer
             \/ AwaitLoad \/ SetAwaitHandle \/ AwaitCas
             \/ PostResume \/ Resumed \/ BrokenTask \/ DropResult

Next == Coroutine \/ CallAgain \/ \E r \in Results : Producer(r)

Spec == Init /\ [][Next]_vars

(* The coroutine's thread, and a producer that has published its result,   *)
(* keep running, the resume executor executes or destroys what is posted;  *)
(* a task may never produce its result.                                    *)
FairSpec == /\ Spec
            /\ WF_vars(Coroutine)
            /\ \A r \in Results : WF_vars(ppc[r] # "running" /\ Producer(r))
-----------------------------------------------------------------------------
(* Every variable has a value the code can give it.                        *)
TypeOK ==
  /\ m_pc_state \in [Results -> {"idle", "consumer_set", "consumer_done", "producer_done"}]
  /\ m_consumer \in [Results -> Contexts \cup {NoContext, AwaitHandle}]
  /\ m_status \in [Contexts -> Results \cup Unfinished]
  /\ ppc \in [Results -> {"running", "resume_consumer", "try_resume", "cas", "resume", "done",
                         "undefined"}]
  /\ ctx \in [Results -> Contexts \cup {NoContext}]
  /\ seen \in [Results -> Results \cup Unfinished]
  /\ wpc \in {"check", "load", "set", "cas", "resume_inline", "inline_cas", "suspended",
               "await_resume", "rewind_load", "rewind_cas", "clear", "await_load", "await_set",
               "await_cas", "resume_on", "posted", "interrupted", "drop", "returned", "dropped"}
  /\ op \in {"any", "all"}
  /\ call \in Contexts
  /\ input \in Seq(Results)
  /\ i \in 1 .. N + 1
  /\ completed \in Results \cup {0}

(* Whoever lets the coroutine of when_any go on, a producer or the         *)
(* coroutine itself while it was registering, has stored a result of this  *)
(* call that is ready: await_resume finds neither of the two marks, from   *)
(* which it could compute no index, and no later producer overwrites what  *)
(* it has read while it rewinds the other results and until it returns.    *)
ResultFound ==
  op = "any" /\ wpc \in {"await_resume", "rewind_load", "rewind_cas", "clear", "resume_on", "posted",
                         "interrupted", "returned"} =>
    /\ \E j \in 1 .. Len(input) : input[j] = m_status[call]
    /\ m_pc_state[m_status[call]] = "producer_done"
    /\ wpc # "await_resume" => completed = m_status[call]

(* The coroutine is resumed only while it is suspended in this very call,  *)
(* and by one producer: a late completion never resumes a coroutine that   *)
(* is running, that another result resumed, or that has moved on to its    *)
(* next call; when_all is resumed by the result it awaits.                 *)
ResumedOnce ==
  \A r \in Results :
    /\ ppc[r] = "resume" => /\ wpc = "suspended"
                            /\ ctx[r] = call
                            /\ \A q \in Results \ {r} : ppc[q] # "resume"
    /\ ppc[r] = "resume_consumer" /\ m_consumer[r] = AwaitHandle => wpc = "suspended" /\ r = Result

(* The index when_any returns is that of a result of this call, and that   *)
(* result is ready; when_all returns when all are ready.  The results are  *)
(* given back, or destroyed after an interrupt, as they were got: none     *)
(* still refers to a consumer that is no longer waiting, so a later wait,  *)
(* await or when_any, and complete_consumer, find the handshake and the    *)
(* context their assertions ask for.                                       *)
ResultsReturned ==
  /\ wpc = "returned" => IF op = "any"
                         THEN \E j \in 1 .. Len(input) : /\ input[j] = completed
                                                         /\ m_pc_state[completed] = "producer_done"
                         ELSE \A j \in 1 .. Len(input) : m_pc_state[input[j]] = "producer_done"
  /\ wpc \in {"returned", "drop"} => \A r \in Results :
       /\ m_pc_state[r] # "consumer_set"
       /\ m_pc_state[r] = "idle" => m_consumer[r] = NoContext

(* A producer never reads consumer_context while the coroutine sets or     *)
(* clears it, and a context is only set over an empty one.                 *)
ContextExclusive ==
  /\ wpc \in {"set", "clear", "await_set"} => ppc[Result] # "resume_consumer"
  /\ wpc \in {"set", "await_set"} => m_consumer[Result] = NoContext

Finished == wpc \in {"returned", "dropped"}

(* A producer that finds the coroutine registered wakes it, if nobody else *)
(* did: the call it was registered for ends.  A call of when_all ends once *)
(* all its results are ready.                                              *)
CallsEnd ==
  /\ \A c \in Contexts :
       (\E r \in Results : ppc[r] \in {"try_resume", "cas", "resume"} /\ ctx[r] = c)
         ~> (Finished \/ call > c)
  /\ (op = "all" /\ \A j \in 1 .. Len(input) : m_pc_state[input[j]] = "producer_done") ~> Finished

(* "becomes ready when at least one input result is completed".            *)
WhenAnyCompletes ==
  \A r \in Results :
    (op = "any" /\ call = 1 /\ m_pc_state[r] = "producer_done") ~> (Finished \/ call > 1)
=============================================================================
