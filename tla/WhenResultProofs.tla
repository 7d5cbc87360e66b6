------------------------ MODULE WhenResultProofs -------------------------
(***************************************************************************)
(* The safety of when_any and when_all, for any number of results and of   *)
(* calls.                                                                  *)
(*                                                                         *)
(* The properties are not inductive.  What a late producer can do depends  *)
(* on the m_status of the context it has copied, so IInv says              *)
(* what m_status holds in each call, past, present or future (Statuses),   *)
(* and which contexts producers can have copied (ContextGiven); the rest   *)
(* ties each result's handshake to the position of the coroutine's loops.  *)
(***************************************************************************)
EXTENDS WhenResult, TLAPS

(* A leaf is for Zenon unless it names another prover.                     *)
USE Zenon

(* Where the coroutine is, in groups.                                      *)
Registering == {"check", "load", "set", "cas", "resume_inline", "inline_cas"}
Rewinding == {"rewind_load", "rewind_cas", "clear"}
Awaiting == {"await_load", "await_set", "await_cas"}
Dying == {"drop", "dropped"}
Leaving == {"resume_on", "posted", "interrupted", "returned"}

Inputs == {input[j] : j \in 1 .. Len(input)}

(* The loops run over distinct results, within bounds.                     *)
Loops ==
  /\ Len(input) \in 1 .. N
  /\ i \in 1 .. Len(input) + 1
  /\ \A j, k \in 1 .. Len(input) : input[j] = input[k] => j = k
  /\ wpc \in (Registering \ {"check"}) \cup Rewinding \cup Awaiting \cup {"drop"} => i <= Len(input)
  /\ wpc = "suspended" /\ op = "all" => i <= Len(input)
  /\ wpc \in Registering \cup Rewinding \cup {"await_resume"} => op = "any"
  /\ wpc \in Awaiting => op = "all"
  /\ wpc \in Leaving => i = Len(input) + 1

(* Context c has been set in r, by this call or by an earlier one.         *)
Given(c, r) == c \in Contexts /\ (c < call \/ (c = call /\ op = "any" /\ r \in Inputs))

Notifying(r) == ppc[r] \in {"try_resume", "cas", "resume"}

(* Producers refer to contexts of calls that were made; the one that is to *)
(* resume the coroutine has won the race of the call in progress.          *)
ContextGiven(r) ==
  /\ m_consumer[r] \in Contexts => Given(m_consumer[r], r)
  /\ m_consumer[r] = AwaitHandle => op = "all"
  /\ Notifying(r) => Given(ctx[r], r)
  /\ ppc[r] = "cas" => seen[r] \in Unfinished
  /\ ppc[r] = "resume" => ctx[r] = call /\ wpc = "suspended" /\ m_status[call] = r

(* The race of each call: over in earlier calls, not begun in later ones.  *)
Statuses ==
  /\ \A c \in Contexts : /\ c < call => m_status[c] \in Results
                         /\ c > call => m_status[c] = k_processing
  /\ m_status[call] \in (IF op = "all" THEN {k_processing}
                         ELSE IF wpc \in Registering THEN Inputs \cup {k_processing}
                         ELSE IF wpc = "suspended" THEN Inputs \cup {k_done_processing}
                         ELSE Inputs)
  /\ m_status[call] \in Results /\ wpc \notin Dying => m_pc_state[m_status[call]] = "producer_done"
  /\ op = "any" /\ wpc \in Rewinding \cup Leaving => completed = m_status[call]

(* The handshake of a result, its context and its producer.                *)
Handshake(r) ==
  /\ m_pc_state[r] \in {"idle", "consumer_set"} => ppc[r] = "running"
  /\ m_pc_state[r] = "producer_done" => ppc[r] # "running"
  /\ m_pc_state[r] = "consumer_done" => wpc \in Dying
  /\ m_pc_state[r] = "consumer_set" \/ ppc[r] = "resume_consumer" => m_consumer[r] # NoContext
  /\ m_pc_state[r] = "idle" /\ m_consumer[r] # NoContext
       => wpc \in {"cas", "clear", "await_cas"} /\ r = Result
  /\ ppc[r] = "resume_consumer" /\ m_consumer[r] = AwaitHandle => wpc = "suspended" /\ r = Result

(* A result is registered from its turn in the loop of await_suspend to    *)
(* its turn in that of await_resume, or while when_all awaits it.          *)
Registered(r) ==
  m_pc_state[r] = "consumer_set" =>
    \/ wpc \in Registering /\ \E j \in 1 .. Len(input) : j < i /\ r = input[j]
    \/ wpc \in {"suspended", "await_resume"} /\ op = "any" /\ r \in Inputs
    \/ wpc \in Rewinding /\ \E j \in 1 .. Len(input) : j >= i /\ r = input[j]
    \/ wpc = "suspended" /\ op = "all" /\ r = Result /\ m_consumer[r] = AwaitHandle

(* The result whose turn it is.                                            *)
AtResult ==
  /\ wpc \in {"set", "cas", "clear", "await_set", "await_cas"} =>
       m_pc_state[Result] # "consumer_set" /\ ppc[Result] \in {"running", "done"}
  /\ wpc \in {"set", "await_set"} => m_consumer[Result] = NoContext
  /\ wpc = "cas" => m_consumer[Result] = call
  /\ wpc = "await_cas" => m_consumer[Result] = AwaitHandle
  /\ wpc \in {"resume_inline", "inline_cas"} => m_pc_state[Result] = "producer_done"

(* The results when_all has awaited are ready.                             *)
Awaited ==
  op = "all" /\ wpc \notin Dying =>
    \A j \in 1 .. Len(input) : j < i => m_pc_state[input[j]] = "producer_done"

(* The inductive invariant.                                                *)
IInv == /\ TypeOK /\ Loops /\ Statuses /\ AtResult /\ Awaited
        /\ \A r \in Results : ContextGiven(r) /\ Handshake(r) /\ Registered(r)
-----------------------------------------------------------------------------

(* The marks that m_status and consumer_context use are no results and no  *)
(* contexts.                                                               *)
LEMMA Numbers ==
  /\ Contexts \subseteq Nat
  /\ k_processing \notin Results /\ k_done_processing \notin Results
  /\ k_processing # k_done_processing
  /\ NoContext \notin Contexts /\ AwaitHandle \notin Contexts /\ NoContext # AwaitHandle
BY BoundsAssumption, SMT DEF Results, Contexts, k_processing, k_done_processing, NoContext, AwaitHandle

(* What the loops over the results need to know of their positions.        *)
LEMMA InputFacts ==
  ASSUME TypeOK, Loops
  PROVE  /\ Len(input) \in Nat /\ i \in Nat /\ 1 \in 1 .. Len(input) /\ 1 \in 1 .. N + 1
         /\ Inputs \subseteq Results
         /\ \A j \in 1 .. Len(input) : input[j] \in Inputs /\ input[j] \in Results
         /\ i <= Len(input) =>
              /\ i \in 1 .. Len(input) /\ Result \in Inputs /\ Result \in Results
              /\ i + 1 \in 1 .. Len(input) + 1 /\ i + 1 \in 1 .. N + 1
              /\ i < Len(input) => i + 1 <= Len(input)
              /\ ~(i < Len(input)) => i + 1 = Len(input) + 1
              /\ \A j \in 1 .. Len(input) : /\ j < i + 1 <=> j < i \/ j = i
                                            /\ j >= i + 1 <=> j >= i /\ j # i
<1>1. Len(input) \in Nat /\ N \in Nat /\ i \in Nat /\ Len(input) <= N /\ 1 <= Len(input) /\ 1 <= i
  BY BoundsAssumption, SMT DEF TypeOK, Loops
<1>2. \A j \in 1 .. Len(input) : input[j] \in Results  BY SMT DEF TypeOK
<1> QED BY <1>1, <1>2, SMT DEF Inputs, Result

(* complete_producer keeps the invariant: a producer that goes on to       *)
(* resume_consumer found consumer_set, and so a context.                   *)
LEMMA ExchangeProducerDoneIInv ==
  ASSUME IInv, NEW r \in Results, ExchangeProducerDone(r)
  PROVE  IInv'
<1> USE DEF IInv, ExchangeProducerDone, Goto, coroutine, Registering, Rewinding, Awaiting, Dying,
            Leaving
<1>1. TypeOK'  BY DEF TypeOK
<1>2. Loops'  BY DEF Loops
<1>3. Statuses'  BY SMT DEF Statuses, Inputs, TypeOK
<1>4. AtResult' /\ Awaited'  BY SMT DEF AtResult, Awaited, Result, TypeOK
<1>5. ASSUME NEW q \in Results PROVE ContextGiven(q)'
  BY SMT DEF ContextGiven, Given, Notifying, Inputs, TypeOK
<1>6. ASSUME NEW q \in Results PROVE Handshake(q)'
  BY SMT DEF Handshake, Result, TypeOK, Loops, ContextGiven, Registered
<1>7. ASSUME NEW q \in Results PROVE Registered(q)'  BY DEF Registered, Inputs, Result, TypeOK
<1> QED BY <1>1, <1>2, <1>3, <1>4, <1>5, <1>6, <1>7

(* So does resume_consumer: the context it copies is one some call has     *)
(* set.                                                                    *)
LEMMA ResumeConsumerIInv == ASSUME IInv, NEW r \in Results, ResumeConsumer(r) PROVE IInv'
<1> USE DEF IInv, ResumeConsumer, Goto, coroutine, Registering, Rewinding, Awaiting, Dying, Leaving
<1>1. TypeOK'  BY SMT DEF TypeOK, ContextGiven, Given, Handshake
<1>2. Loops'  BY DEF Loops
<1>3. Statuses'  BY DEF Statuses, Inputs
<1>4. AtResult' /\ Awaited'  BY SMT DEF AtResult, Awaited, Result, TypeOK
<1>5. ASSUME NEW q \in Results PROVE ContextGiven(q)' /\ Handshake(q)' /\ Registered(q)'
  BY SMT DEF ContextGiven, Given, Notifying, Handshake, Registered, Inputs, Result, TypeOK
<1> QED BY <1>1, <1>2, <1>3, <1>4, <1>5

(* The load of try_resume keeps it: what it sees is unfinished, or the     *)
(* producer has nothing left to do.                                        *)
LEMMA TryResumeLoadIInv == ASSUME IInv, NEW r \in Results, TryResumeLoad(r) PROVE IInv'
<1> USE DEF IInv, TryResumeLoad, Goto, coroutine, Registering, Rewinding, Awaiting, Dying, Leaving
<1>1. TypeOK'  BY DEF TypeOK, ContextGiven, Given, Notifying
<1>2. Loops'  BY DEF Loops
<1>3. Statuses'  BY DEF Statuses, Inputs
<1>4. AtResult' /\ Awaited'  BY SMT DEF AtResult, Awaited, Result, TypeOK
<1>5. ASSUME NEW q \in Results PROVE ContextGiven(q)' /\ Handshake(q)' /\ Registered(q)'
  BY SMT DEF ContextGiven, Given, Notifying, Handshake, Registered, Inputs, Result, TypeOK, Unfinished
<1> QED BY <1>1, <1>2, <1>3, <1>4, <1>5

(* The CAS of try_resume keeps it: if it succeeds, its context is that of  *)
(* the call in progress, for all earlier ones hold a result, and nobody    *)
(* else is about to resume the coroutine.                                  *)
LEMMA TryResumeCasIInv == ASSUME IInv, NEW r \in Results, TryResumeCas(r) PROVE IInv'
<1> USE DEF IInv, Registering, Rewinding, Awaiting, Dying, Leaving
<1>1. ASSUME m_status[ctx[r]] = seen[r]
      PROVE  /\ ctx[r] = call /\ op = "any" /\ r \in Inputs
             /\ wpc \in Registering \cup {"suspended"}
             /\ seen[r] = k_done_processing => wpc = "suspended"
             /\ m_pc_state[r] = "producer_done"
             /\ \A q \in Results : ppc[q] # "resume"
  <2>1. ppc[r] = "cas" /\ seen[r] \in Unfinished /\ Given(ctx[r], r)
    BY DEF TryResumeCas, ContextGiven, Notifying
  <2>2. m_status[ctx[r]] \notin Results  BY <1>1, <2>1, Numbers DEF Unfinished
  <2>3. ctx[r] = call /\ op = "any" /\ r \in Inputs  BY <2>1, <2>2 DEF Given, Statuses
  <2>4. m_status[call] \notin Inputs  BY <2>2, <2>3, InputFacts
  <2>5. /\ wpc \in Registering \cup {"suspended"}
        /\ m_status[call] = k_done_processing => wpc = "suspended"
    BY <2>3, <2>4, Numbers DEF Statuses
  <2>6. m_pc_state[r] = "producer_done"  BY <2>1, <2>5 DEF TypeOK, Handshake, Registering, Dying
  <2>7. \A q \in Results : ppc[q] # "resume"  BY <2>2, <2>3 DEF ContextGiven
  <2> QED BY <1>1, <2>3, <2>5, <2>6, <2>7
<1>2. /\ ppc'[r] \in {"resume", "done", "try_resume"}
      /\ ppc'[r] = "resume" => /\ m_status[ctx[r]] = seen[r] /\ seen[r] = k_done_processing
                               /\ m_status'[ctx[r]] = r
      /\ \A q \in Results \ {r} : ppc'[q] = ppc[q]
      /\ \/ m_status[ctx[r]] = seen[r] /\ m_status' = [m_status EXCEPT ![ctx[r]] = r]
         \/ m_status' = m_status
  BY <1>1, SMT DEF TypeOK, TryResumeCas, Goto
<1>3. ppc[r] = "cas" /\ UNCHANGED <<m_pc_state, m_consumer, ctx, seen, coroutine>>  BY DEF TryResumeCas
<1>4. TypeOK'
  <2>1. m_status' \in [Contexts -> Results \cup Unfinished]  BY DEF TryResumeCas, Goto, TypeOK
  <2>2. ppc' \in [Results -> {"running", "resume_consumer", "try_resume", "cas", "resume", "done",
                             "undefined"}]
    BY DEF TryResumeCas, Goto, TypeOK
  <2> QED BY <2>1, <2>2 DEF TryResumeCas, Goto, TypeOK, coroutine
<1>5. Loops'  BY <1>3 DEF Loops, coroutine
<1>6. Statuses'  BY <1>1, <1>2, <1>3, Numbers, SMT DEF Statuses, Inputs, TypeOK, coroutine
<1>7. AtResult'  BY <1>2, <1>3, InputFacts DEF AtResult, Result, coroutine, Loops
<1>8. Awaited'  BY <1>3 DEF Awaited, coroutine
<1>9. ASSUME NEW q \in Results PROVE ContextGiven(q)'
  <2>1. Given(m_consumer[q], q)' = Given(m_consumer[q], q) /\ Given(ctx[q], q)' = Given(ctx[q], q)
    BY <1>3 DEF Given, Inputs, coroutine
  <2>2. Notifying(q)' => Notifying(q)  BY <1>2, <1>3 DEF Notifying
  <2>3. ppc'[q] = "cas" => ppc[q] = "cas"  BY <1>2
  <2>4. ASSUME ppc'[q] = "resume" PROVE ctx[q] = call /\ wpc = "suspended" /\ m_status'[call] = q
    <3>1. CASE q = r
      <4>1. m_status[ctx[r]] = seen[r] /\ seen[r] = k_done_processing  BY <1>2, <2>4, <3>1
      <4>2. ctx[r] = call /\ wpc = "suspended"  BY <1>1, <4>1
      <4> QED BY <1>2, <2>4, <3>1, <4>2
    <3>2. CASE q # r  BY <1>1, <1>2, <2>4, <3>2 DEF ContextGiven
    <3> QED BY <3>1, <3>2
  <2> QED BY <1>3, <2>1, <2>2, <2>3, <2>4 DEF ContextGiven, coroutine
<1>10. ASSUME NEW q \in Results PROVE Handshake(q)'  BY <1>2, <1>3 DEF Handshake, Result, coroutine
<1>11. ASSUME NEW q \in Results PROVE Registered(q)'  BY <1>3 DEF Registered, Inputs, Result, coroutine
<1> QED BY <1>4, <1>5, <1>6, <1>7, <1>8, <1>9, <1>10, <1>11

(* Resuming the coroutine keeps it: the producer is the one m_status       *)
(* names.                                                                  *)
LEMMA ResumeCoroutineIInv == ASSUME IInv, NEW r \in Results, ResumeCoroutine(r) PROVE IInv'
<1> USE DEF IInv, ResumeCoroutine, Goto, Registering, Rewinding, Awaiting, Dying, Leaving
<1>1. wpc = "suspended" /\ op = "any" /\ m_status[call] = r /\ call \in Nat
  BY Numbers, SMT DEF ContextGiven, Given, Notifying, TypeOK
<1>2. TypeOK'  BY DEF TypeOK
<1>3. Loops'  BY <1>1 DEF Loops
<1>4. Statuses'  BY <1>1, Numbers DEF Statuses, Inputs
<1>5. AtResult' /\ Awaited'  BY <1>1 DEF AtResult, Awaited, Result
<1>6. ASSUME NEW q \in Results PROVE ContextGiven(q)'
  BY <1>1, SMT DEF ContextGiven, Given, Notifying, Inputs, TypeOK
<1>7. ASSUME NEW q \in Results PROVE Handshake(q)' /\ Registered(q)'
  BY <1>1, SMT DEF Handshake, Registered, Inputs, Result, TypeOK, ContextGiven
<1> QED BY <1>2, <1>3, <1>4, <1>5, <1>6, <1>7

(* So does resuming when_all: the result it awaited is ready.              *)
LEMMA ResumeAwaiterIInv == ASSUME IInv, NEW r \in Results, ResumeAwaiter(r) PROVE IInv'
<1> USE DEF IInv, ResumeAwaiter, Goto, NextAwait, Registering, Rewinding, Awaiting, Dying, Leaving
<1>1. wpc = "suspended" /\ op = "all" /\ r = Result /\ i <= Len(input)  BY DEF ContextGiven, Handshake, Loops
<1>2. m_pc_state[r] = "producer_done" /\ \A q \in Results : ppc[q] # "resume"
  BY <1>1, Numbers, SMT DEF ContextGiven, Given, Notifying, Handshake, TypeOK
<1>3. TypeOK'  BY <1>1, InputFacts DEF TypeOK
<1>4. Loops'  BY <1>1, InputFacts DEF Loops
<1>5. Statuses'  BY <1>1 DEF Statuses, Inputs
<1>6. AtResult'  BY DEF AtResult, Result
<1>7. Awaited'  BY <1>1, <1>2, InputFacts DEF Awaited, Result
<1>8. ASSUME NEW q \in Results PROVE ContextGiven(q)'
  BY <1>1, <1>2 DEF ContextGiven, Given, Notifying, Inputs, TypeOK
<1>9. ASSUME NEW q \in Results PROVE Handshake(q)' /\ Registered(q)'
  BY <1>1, <1>2 DEF Handshake, Registered, Inputs, Result, TypeOK
<1> QED BY <1>3, <1>4, <1>5, <1>6, <1>7, <1>8, <1>9

(* any_result_finished keeps the invariant: a status that is not           *)
(* k_processing is a result of this call.                                  *)
LEMMA AnyResultFinishedIInv == ASSUME IInv, AnyResultFinished PROVE IInv'
<1> USE DEF IInv, AnyResultFinished, Step, producers, Registering, Rewinding, Awaiting, Dying,
            Leaving
<1>1. TypeOK'  BY DEF TypeOK
<1>2. Loops'  BY DEF Loops
<1>3. Statuses'  BY SMT DEF Statuses, Inputs, Loops
<1>4. AtResult' /\ Awaited'  BY DEF AtResult, Awaited, Result, Loops
<1>5. ASSUME NEW q \in Results PROVE ContextGiven(q)'  BY DEF ContextGiven, Given, Notifying, Inputs
<1>6. ASSUME NEW q \in Results PROVE Handshake(q)' /\ Registered(q)'
  BY DEF Handshake, Registered, Inputs, Result, Loops
<1> QED BY <1>1, <1>2, <1>3, <1>4, <1>5, <1>6

(* The load of result_state_base::when_any keeps it: a result that is not  *)
(* ready at its turn has no context yet.                                   *)
LEMMA WhenAnyLoadIInv == ASSUME IInv, WhenAnyLoad PROVE IInv'
<1> USE DEF IInv, WhenAnyLoad, Step, producers, Registering, Rewinding, Awaiting, Dying, Leaving
<1>1. TypeOK'  BY DEF TypeOK
<1>2. Loops'  BY DEF Loops
<1>3. Statuses'  BY DEF Statuses, Inputs
<1>4. AtResult'  BY InputFacts, SMT DEF AtResult, Result, Loops, TypeOK, Handshake, Registered
<1>5. Awaited'  BY DEF Awaited, Loops
<1>6. ASSUME NEW q \in Results PROVE ContextGiven(q)' /\ Handshake(q)' /\ Registered(q)'
  BY DEF ContextGiven, Given, Notifying, Handshake, Registered, Inputs, Result
<1> QED BY <1>1, <1>2, <1>3, <1>4, <1>5, <1>6

(* Setting the context keeps it: a producer that completes meanwhile does  *)
(* not find consumer_set, and does not look at the context.                *)
LEMMA SetWhenAnyContextIInv == ASSUME IInv, SetWhenAnyContext PROVE IInv'
<1> USE DEF IInv, SetWhenAnyContext, Step, producers, Registering, Rewinding, Awaiting, Dying,
            Leaving
<1>1. TypeOK'  BY DEF TypeOK
<1>2. Loops'  BY DEF Loops
<1>3. Statuses'  BY DEF Statuses, Inputs
<1>4. AtResult'  BY InputFacts DEF AtResult, Result, Loops, TypeOK
<1>5. Awaited'  BY DEF Awaited, Loops
<1>6. ASSUME NEW q \in Results PROVE ContextGiven(q)' /\ Handshake(q)' /\ Registered(q)'
  BY InputFacts, Numbers, SMT DEF ContextGiven, Given, Notifying, Handshake, Registered, Inputs, Result,
     Loops, TypeOK, AtResult
<1> QED BY <1>1, <1>2, <1>3, <1>4, <1>5, <1>6

(* The CAS that registers the coroutine keeps it, whether or not it        *)
(* succeeds.                                                               *)
LEMMA WhenAnyCasIInv == ASSUME IInv, WhenAnyCas PROVE IInv'
<1> USE DEF IInv, WhenAnyCas, Step, producers, Registering, Rewinding, Awaiting, Dying, Leaving
<1>1. TypeOK'
  <2>1. i' \in 1 .. N + 1  BY InputFacts DEF TypeOK, Loops
  <2>2. m_pc_state' \in [Results -> {"idle", "consumer_set", "consumer_done", "producer_done"}]  BY DEF TypeOK
  <2> QED BY <2>1, <2>2 DEF TypeOK
<1>2. Loops'  BY InputFacts DEF Loops
<1>3. Statuses'  BY SMT DEF Statuses, Inputs, TypeOK
<1>4. AtResult'  BY DEF AtResult, Result
<1>5. Awaited'  BY DEF Awaited, Loops
<1>6. ASSUME NEW q \in Results PROVE ContextGiven(q)'
  BY SMT DEF ContextGiven, Given, Notifying, Inputs, TypeOK
<1>7. ASSUME NEW q \in Results PROVE Handshake(q)'
  BY InputFacts, Numbers, SMT DEF Handshake, Result, Loops, TypeOK, AtResult
<1>8. ASSUME NEW q \in Results PROVE Registered(q)'
  BY InputFacts DEF Registered, Inputs, Result, Loops, TypeOK
<1> QED BY <1>1, <1>2, <1>3, <1>4, <1>5, <1>6, <1>7, <1>8

(* The load of resume_inline keeps it.                                     *)
LEMMA ResumeInlineLoadIInv == ASSUME IInv, ResumeInlineLoad PROVE IInv'
<1> USE DEF IInv, ResumeInlineLoad, Step, producers, Registering, Rewinding, Awaiting, Dying,
            Leaving
<1>1. TypeOK'  BY DEF TypeOK
<1>2. Loops'  BY DEF Loops
<1>3. Statuses'  BY SMT DEF Statuses, Inputs, Loops
<1>4. AtResult' /\ Awaited'  BY DEF AtResult, Awaited, Result, Loops
<1>5. ASSUME NEW q \in Results PROVE ContextGiven(q)'  BY DEF ContextGiven, Given, Notifying, Inputs
<1>6. ASSUME NEW q \in Results PROVE Handshake(q)' /\ Registered(q)'
  BY DEF Handshake, Registered, Inputs, Result, Loops
<1> QED BY <1>1, <1>2, <1>3, <1>4, <1>5, <1>6

(* So does its CAS: it names a result that is ready, or finds one there.   *)
LEMMA ResumeInlineCasIInv == ASSUME IInv, ResumeInlineCas PROVE IInv'
<1> USE DEF IInv, ResumeInlineCas, Step, producers, Registering, Rewinding, Awaiting, Dying, Leaving
<1>1. TypeOK'  BY InputFacts DEF TypeOK, Loops
<1>2. Loops'  BY DEF Loops
<1>3. Statuses'  BY InputFacts, Numbers, SMT DEF Statuses, Inputs, Loops, TypeOK, AtResult
<1>4. AtResult'  BY DEF AtResult, Result
<1>5. Awaited'  BY DEF Awaited, Loops
<1>6. ASSUME NEW q \in Results PROVE ContextGiven(q)'
  BY SMT DEF ContextGiven, Given, Notifying, Inputs, TypeOK
<1>7. ASSUME NEW q \in Results PROVE Handshake(q)' /\ Registered(q)'
  BY DEF Handshake, Registered, Inputs, Result, Loops
<1> QED BY <1>1, <1>2, <1>3, <1>4, <1>5, <1>6, <1>7

(* finish_processing keeps it: the coroutine is suspended only if no       *)
(* result has won.                                                         *)
LEMMA FinishProcessingIInv == ASSUME IInv, FinishProcessing PROVE IInv'
<1> USE DEF IInv, FinishProcessing, Step, producers, Registering, Rewinding, Awaiting, Dying,
            Leaving
<1>1. TypeOK'  BY DEF TypeOK, Unfinished
<1>2. Loops'  BY DEF Loops
<1>3. Statuses'  BY InputFacts, Numbers, SMT DEF Statuses, Inputs, Loops, TypeOK
<1>4. AtResult'  BY DEF AtResult, Result
<1>5. Awaited'  BY DEF Awaited, Loops
<1>6. ASSUME NEW q \in Results PROVE ContextGiven(q)'
  BY SMT DEF ContextGiven, Given, Notifying, Inputs, TypeOK
<1>7. ASSUME NEW q \in Results PROVE Handshake(q)' /\ Registered(q)'
  BY DEF Handshake, Registered, Inputs, Result, Loops
<1> QED BY <1>1, <1>2, <1>3, <1>4, <1>5, <1>6, <1>7


(* A step that changes nothing keeps the invariant.                        *)
LEMMA StutterIInv == ASSUME IInv, UNCHANGED vars PROVE IInv'
<1>0. UNCHANGED <<m_pc_state, m_consumer, m_status, ppc, ctx, seen, wpc, call, op, input, i,
                  completed>>
  BY DEF vars, producers, coroutine
<1>1. TypeOK'  BY <1>0 DEF IInv, TypeOK
<1>2. Loops'  BY <1>0 DEF IInv, Loops
<1>3. Statuses'  BY <1>0 DEF IInv, Statuses, Inputs
<1>4. AtResult' /\ Awaited'  BY <1>0 DEF IInv, AtResult, Awaited, Result
<1>5. ASSUME NEW r \in Results PROVE ContextGiven(r)' /\ Handshake(r)' /\ Registered(r)'
  <2>1. ContextGiven(r)'  BY <1>0 DEF IInv, ContextGiven, Given, Notifying, Inputs
  <2>2. Handshake(r)' /\ Registered(r)'  BY <1>0 DEF IInv, Handshake, Registered, Inputs, Result
  <2> QED BY <2>1, <2>2
<1> QED BY <1>1, <1>2, <1>3, <1>4, <1>5 DEF IInv

(* when_all's load of the state keeps the invariant: a result that is      *)
(* ready counts as awaited.                                                *)
LEMMA AwaitLoadIInv == ASSUME IInv, AwaitLoad PROVE IInv'
<1> USE DEF IInv, AwaitLoad, NextAwait, producers, Registering, Rewinding, Awaiting, Dying, Leaving
<1>1. TypeOK'  BY InputFacts DEF TypeOK, Loops
<1>2. Loops'  BY InputFacts DEF Loops
<1>3. Statuses'  BY DEF Statuses, Inputs, Loops
<1>4. AtResult'  BY InputFacts DEF AtResult, Result, Loops, TypeOK, Handshake, Registered
<1>5. Awaited'  BY InputFacts, SMT DEF Awaited, Loops, Result
<1>6. ASSUME NEW q \in Results PROVE ContextGiven(q)' /\ Handshake(q)' /\ Registered(q)'
  BY DEF ContextGiven, Given, Notifying, Handshake, Registered, Inputs, Result
<1> QED BY <1>1, <1>2, <1>3, <1>4, <1>5, <1>6

(* Setting the coroutine handle keeps it.                                  *)
LEMMA SetAwaitHandleIInv == ASSUME IInv, SetAwaitHandle PROVE IInv'
<1> USE DEF IInv, SetAwaitHandle, Step, producers, Registering, Rewinding, Awaiting, Dying, Leaving
<1>1. TypeOK'  BY DEF TypeOK
<1>2. Loops'  BY DEF Loops
<1>3. Statuses'  BY DEF Statuses, Inputs
<1>4. AtResult'  BY InputFacts DEF AtResult, Result, Loops, TypeOK
<1>5. Awaited'  BY DEF Awaited
<1>6. ASSUME NEW q \in Results PROVE ContextGiven(q)' /\ Handshake(q)' /\ Registered(q)'
  BY InputFacts, Numbers, SMT DEF ContextGiven, Given, Notifying, Handshake, Registered, Inputs, Result,
     Loops, TypeOK, AtResult
<1> QED BY <1>1, <1>2, <1>3, <1>4, <1>5, <1>6

(* So does the CAS of await: it suspends when_all with its handle          *)
(* registered, or finds the result ready.                                  *)
LEMMA AwaitCasIInv == ASSUME IInv, AwaitCas PROVE IInv'
<1> USE DEF IInv, AwaitCas, NextAwait, producers, Registering, Rewinding, Awaiting, Dying, Leaving
<1>1. TypeOK'
  <2>1. i' \in 1 .. N + 1  BY InputFacts DEF TypeOK, NextAwait, Loops, Awaiting
  <2>2. wpc' \in {"suspended", "await_load", "resume_on"}  BY DEF NextAwait
  <2>3. m_pc_state' \in [Results -> {"idle", "consumer_set", "consumer_done", "producer_done"}]  BY DEF TypeOK
  <2> QED BY <2>1, <2>2, <2>3 DEF TypeOK, producers
<1>2. Loops'  BY InputFacts DEF Loops
<1>3. Statuses'  BY DEF Statuses, Inputs, Loops, TypeOK
<1>4. AtResult'  BY DEF AtResult, Result
<1>5. Awaited'  BY InputFacts, SMT DEF Awaited, Loops, TypeOK, Handshake, AtResult, Result
<1>6. ASSUME NEW q \in Results PROVE ContextGiven(q)'
  BY SMT DEF ContextGiven, Given, Notifying, Inputs, TypeOK
<1>7. ASSUME NEW q \in Results PROVE Handshake(q)'
  BY InputFacts, Numbers, SMT DEF Handshake, Result, Loops, TypeOK, AtResult
<1>8. ASSUME NEW q \in Results PROVE Registered(q)'
  BY InputFacts, SMT DEF Registered, Inputs, Result, Loops, TypeOK, AtResult
<1> QED BY <1>1, <1>2, <1>3, <1>4, <1>5, <1>6, <1>7, <1>8

(* complete_consumer keeps the invariant: a result whose state it takes    *)
(* over has no registered consumer.                                        *)
LEMMA DropResultIInv == ASSUME IInv, DropResult PROVE IInv'
<1> USE DEF IInv, DropResult, producers, Registering, Rewinding, Awaiting, Dying, Leaving
<1>1. TypeOK'  BY InputFacts DEF TypeOK, Loops
<1>2. Loops'  BY InputFacts DEF Loops
<1>3. Statuses'  BY DEF Statuses, Inputs
<1>4. AtResult'  BY DEF AtResult, Result
<1>5. Awaited'  BY DEF Awaited
<1>6. ASSUME NEW q \in Results PROVE ContextGiven(q)'  BY DEF ContextGiven, Given, Notifying, Inputs
<1>7. ASSUME NEW q \in Results PROVE Handshake(q)' /\ Registered(q)'
  BY InputFacts DEF Handshake, Registered, Inputs, Result, Loops, TypeOK
<1> QED BY <1>1, <1>2, <1>3, <1>4, <1>5, <1>6, <1>7

(* completed_result keeps it: when the coroutine gets there m_status names *)
(* a result.                                                               *)
LEMMA CompletedResultIInv == ASSUME IInv, CompletedResult PROVE IInv'
<1> USE DEF IInv, CompletedResult, Step, producers, Registering, Rewinding, Awaiting, Dying, Leaving
<1>1. TypeOK'  BY InputFacts DEF TypeOK, Loops, Statuses
<1>2. Loops'  BY InputFacts, SMT DEF Loops
<1>3. Statuses'  BY DEF Statuses, Inputs, Loops
<1>4. AtResult'  BY DEF AtResult, Result
<1>5. Awaited'  BY DEF Awaited, Loops
<1>6. ASSUME NEW q \in Results PROVE ContextGiven(q)'  BY DEF ContextGiven, Given, Notifying, Inputs
<1>7. ASSUME NEW q \in Results PROVE Handshake(q)' /\ Registered(q)'
  BY InputFacts, SMT DEF Handshake, Registered, Inputs, Result, Loops
<1> QED BY <1>1, <1>2, <1>3, <1>4, <1>5, <1>6, <1>7

(* The load of try_rewind_consumer keeps it: a result that is not          *)
(* registered at its turn need not be rewound.                             *)
LEMMA RewindLoadIInv == ASSUME IInv, RewindLoad PROVE IInv'
<1> USE DEF IInv, RewindLoad, Rewound, producers, Registering, Rewinding, Awaiting, Dying, Leaving
<1>1. TypeOK'
  <2>1. i' \in 1 .. N + 1  BY InputFacts DEF TypeOK, Rewound, Loops, Rewinding
  <2>2. wpc' \in {"rewind_cas", "rewind_load", "resume_on"}  BY DEF Rewound
  <2> QED BY <2>1, <2>2 DEF TypeOK, producers
<1>2. Loops'  BY InputFacts DEF Loops
<1>3. Statuses'  BY DEF Statuses, Inputs, Loops
<1>4. AtResult'  BY DEF AtResult, Result
<1>5. Awaited'  BY DEF Awaited, Loops
<1>6. ASSUME NEW q \in Results PROVE ContextGiven(q)'  BY DEF ContextGiven, Given, Notifying, Inputs
<1>7. ASSUME NEW q \in Results PROVE Handshake(q)' /\ Registered(q)'
  BY InputFacts, SMT DEF Handshake, Registered, Inputs, Result, Loops
<1> QED BY <1>1, <1>2, <1>3, <1>4, <1>5, <1>6, <1>7

(* Its CAS keeps it, whether it wins or the producer was first.            *)
LEMMA RewindCasIInv == ASSUME IInv, RewindCas PROVE IInv'
<1> USE DEF IInv, RewindCas, Rewound, producers, Registering, Rewinding, Awaiting, Dying, Leaving
<1>1. TypeOK'
  <2>1. i' \in 1 .. N + 1  BY InputFacts DEF TypeOK, Rewound, Loops, Rewinding
  <2>2. wpc' \in {"clear", "rewind_load", "resume_on"}  BY DEF Rewound
  <2>3. m_pc_state' \in [Results -> {"idle", "consumer_set", "consumer_done", "producer_done"}]  BY DEF TypeOK
  <2> QED BY <2>1, <2>2, <2>3 DEF TypeOK, producers
<1>2. Loops'  BY InputFacts DEF Loops
<1>3. Statuses'  BY SMT DEF Statuses, Inputs, Loops, TypeOK
<1>4. AtResult'  BY InputFacts DEF AtResult, Result, Loops, TypeOK, Handshake
<1>5. Awaited'  BY DEF Awaited, Loops
<1>6. ASSUME NEW q \in Results PROVE ContextGiven(q)'  BY DEF ContextGiven, Given, Notifying, Inputs
<1>7. ASSUME NEW q \in Results PROVE Handshake(q)'  BY InputFacts, SMT DEF Handshake, Result, Loops, TypeOK
<1>8. ASSUME NEW q \in Results PROVE Registered(q)'
  BY InputFacts, SMT DEF Registered, Inputs, Result, Loops, TypeOK
<1> QED BY <1>1, <1>2, <1>3, <1>4, <1>5, <1>6, <1>7, <1>8

(* Clearing the rewound context keeps it.                                  *)
LEMMA ClearConsumerIInv == ASSUME IInv, ClearConsumer PROVE IInv'
<1> USE DEF IInv, ClearConsumer, Rewound, producers, Registering, Rewinding, Awaiting, Dying,
            Leaving
<1>1. TypeOK'  BY InputFacts DEF TypeOK, Loops
<1>2. Loops'  BY InputFacts DEF Loops
<1>3. Statuses'  BY DEF Statuses, Inputs, Loops
<1>4. AtResult'  BY DEF AtResult, Result
<1>5. Awaited'  BY DEF Awaited, Loops
<1>6. ASSUME NEW q \in Results PROVE ContextGiven(q)'
  BY Numbers, SMT DEF ContextGiven, Given, Notifying, Inputs, TypeOK
<1>7. ASSUME NEW q \in Results PROVE Handshake(q)'
  BY InputFacts, Numbers DEF Handshake, Result, Loops, TypeOK, AtResult
<1>8. ASSUME NEW q \in Results PROVE Registered(q)'
  BY InputFacts, SMT DEF Registered, Inputs, Result, Loops, TypeOK, AtResult
<1> QED BY <1>1, <1>2, <1>3, <1>4, <1>5, <1>6, <1>7, <1>8

(* Posting the continuation to the resume executor keeps the invariant.    *)
LEMMA PostResumeIInv == ASSUME IInv, PostResume PROVE IInv'
<1> USE DEF IInv, PostResume, producers, Registering, Rewinding, Awaiting, Dying, Leaving
<1>1. TypeOK'  BY DEF TypeOK
<1>2. Loops'  BY DEF Loops
<1>3. Statuses'  BY DEF Statuses, Inputs
<1>4. AtResult'  BY DEF AtResult, Result
<1>5. Awaited'  BY DEF Awaited
<1>6. ASSUME NEW q \in Results PROVE ContextGiven(q)' /\ Handshake(q)' /\ Registered(q)'
  BY DEF ContextGiven, Given, Notifying, Handshake, Registered, Inputs, Result
<1> QED BY <1>1, <1>2, <1>3, <1>4, <1>5, <1>6

(* So does executing the continuation, or destroying it,                   *)
LEMMA ResumedIInv == ASSUME IInv, Resumed PROVE IInv'
<1> USE DEF IInv, Resumed, producers, Registering, Rewinding, Awaiting, Dying, Leaving
<1>1. TypeOK'  BY DEF TypeOK
<1>2. Loops'  BY DEF Loops
<1>3. Statuses'  BY DEF Statuses, Inputs
<1>4. AtResult'  BY DEF AtResult, Result
<1>5. Awaited'  BY DEF Awaited
<1>6. ASSUME NEW q \in Results PROVE ContextGiven(q)' /\ Handshake(q)' /\ Registered(q)'
  BY DEF ContextGiven, Given, Notifying, Handshake, Registered, Inputs, Result
<1> QED BY <1>1, <1>2, <1>3, <1>4, <1>5, <1>6

(* and so does the exception that an interrupted call throws.              *)
LEMMA BrokenTaskIInv == ASSUME IInv, BrokenTask PROVE IInv'
<1> USE DEF IInv, BrokenTask, Step, producers, Registering, Rewinding, Awaiting, Dying, Leaving
<1>1. TypeOK'  BY InputFacts DEF TypeOK
<1>2. Loops'  BY InputFacts, SMT DEF Loops
<1>3. Statuses'  BY DEF Statuses, Inputs
<1>4. AtResult'  BY DEF AtResult, Result
<1>5. Awaited'  BY DEF Awaited
<1>6. ASSUME NEW q \in Results PROVE ContextGiven(q)' /\ Handshake(q)' /\ Registered(q)'
  BY DEF ContextGiven, Given, Notifying, Handshake, Registered, Inputs, Result
<1> QED BY <1>1, <1>2, <1>3, <1>4, <1>5, <1>6

(* A further call starts with results that are rewound, and with a context *)
(* of its own.                                                             *)
LEMMA CallAgainIInv == ASSUME IInv, CallAgain PROVE IInv'
<1> USE DEF IInv
<1>j. PICK j \in 1 .. Len(input) :
      input' = [k \in 1 .. Len(input) - 1 |-> input[IF k < j THEN k ELSE k + 1]]
  BY DEF CallAgain
<1>0. /\ wpc = "returned" /\ op = "any" /\ call < MaxCalls /\ Len(input) > 1
      /\ (op' = "any" /\ wpc' = "check") \/ (op' = "all" /\ wpc' = "await_load")
      /\ call' = call + 1 /\ i' = 1 /\ completed' = 0
      /\ UNCHANGED <<m_pc_state, m_consumer, m_status, ppc, ctx, seen>>
  BY DEF CallAgain, producers
<1>1. /\ input \in Seq(Results) /\ Len(input) \in Nat /\ Len(input) <= N /\ N \in Nat
      /\ Len(input) > 1
  BY <1>0, BoundsAssumption, SMT DEF TypeOK, Loops
<1>2. /\ input' \in Seq(Results)
      /\ Len(input') = Len(input) - 1
      /\ \A k \in 1 .. Len(input) - 1 : input'[k] = input[IF k < j THEN k ELSE k + 1]
  <2>1. \A k \in 1 .. Len(input) - 1 : input[IF k < j THEN k ELSE k + 1] \in Results  BY <1>1, SMT
  <2> QED BY <1>j, <1>1, <2>1, SMT
<1>3. \A k, l \in 1 .. Len(input') : input'[k] = input'[l] => k = l
  <2> SUFFICES ASSUME NEW k \in 1 .. Len(input) - 1, NEW l \in 1 .. Len(input) - 1,
                      input'[k] = input'[l]
               PROVE  k = l
    BY <1>2
  <2> DEFINE at(m) == IF m < j THEN m ELSE m + 1
  <2>1. at(k) \in 1 .. Len(input) /\ at(l) \in 1 .. Len(input)  BY <1>1, SMT
  <2>2. input[at(k)] = input[at(l)]  BY <1>2
  <2>3. at(k) = at(l)
    <3> HIDE DEF at
    <3> QED BY <2>1, <2>2 DEF Loops
  <2> QED BY <1>1, <2>3, SMT
<1>4. call \in Nat /\ call + 1 \in Contexts /\ call + 1 > call
  BY <1>0, BoundsAssumption, SMT DEF TypeOK, Contexts
<1>5. TypeOK'
  <2>1. 1 \in 1 .. N + 1  BY <1>1, SMT
  <2> QED BY <1>0, <1>2, <1>4, <2>1 DEF TypeOK
<1>6. Loops'
  <2>1. Len(input') \in Nat /\ 1 <= Len(input') /\ Len(input') <= N  BY <1>1, <1>2, SMT
  <2> QED BY <1>0, <1>1, <1>3, <2>1, SMT DEF Loops, Registering, Rewinding, Awaiting, Leaving
<1>7. Statuses'
  <2>1. m_status' = m_status /\ m_status[call + 1] = k_processing  BY <1>0, <1>4 DEF Statuses
  <2>2. m_status[call] \in Results  BY <1>0, InputFacts DEF Statuses, Registering
  <2>3. \A c \in Contexts : c < call + 1 <=> c < call \/ c = call  BY <1>0, <1>4, Numbers, SMT
  <2>4. \A c \in Contexts : c > call + 1 => c > call  BY <1>0, <1>4, Numbers, SMT
  <2> QED BY <1>0, <2>1, <2>2, <2>3, <2>4, Numbers DEF Statuses, Registering, Rewinding, Leaving
<1>8. AtResult' /\ Awaited'
  <2>1. \A k \in 1 .. Len(input') : ~(k < 1)  BY <1>1, <1>2, SMT
  <2> QED BY <1>0, <2>1 DEF AtResult, Awaited
<1>9. ASSUME NEW q \in Results PROVE ContextGiven(q)' /\ Handshake(q)' /\ Registered(q)'
  <2>1. m_pc_state[q] # "consumer_set" /\ m_pc_state[q] # "consumer_done" /\ ppc[q] # "resume"
    BY <1>0 DEF Registered, Handshake, ContextGiven, Registering, Rewinding, Dying
  <2>2. \A c \in Contexts : Given(c, q) => c < call + 1  BY <1>0, <1>4, Numbers, SMT DEF Given
  <2>3. ContextGiven(q)'  BY <1>0, <2>1, <2>2 DEF ContextGiven, Notifying, Given
  <2>4. Handshake(q)' /\ Registered(q)'  BY <1>0, <2>1 DEF Handshake, Registered, ContextGiven
  <2> QED BY <2>3, <2>4
<1> QED BY <1>5, <1>6, <1>7, <1>8, <1>9

(* Before the first call nothing is registered.                            *)
LEMMA InitIInv == Init => IInv
<1> SUFFICES ASSUME Init PROVE IInv  OBVIOUS
<1> USE DEF Init
<1>1. N \in Nat /\ 1 <= N /\ 1 \in Contexts  BY BoundsAssumption, SMT DEF Contexts
<1>2. input \in Seq(Results) /\ Len(input) = N /\ \A j \in 1 .. N : input[j] = j  BY <1>1, SMT DEF Results
<1>3. TypeOK  BY <1>1, <1>2, SMT DEF TypeOK, Unfinished
<1>4. Loops  BY <1>1, <1>2, SMT DEF Loops, Registering, Rewinding, Awaiting, Leaving
<1>5. Statuses
  <2>1. m_status[call] = k_processing  BY <1>1
  <2>2. \A c \in Contexts : ~(c < 1)  BY <1>1, SMT DEF Contexts
  <2> QED BY <2>1, <2>2, Numbers, SMT DEF Statuses, Registering, Rewinding, Leaving
<1>6. AtResult /\ Awaited  BY <1>1, <1>2, SMT DEF AtResult, Awaited
<1>7. ASSUME NEW r \in Results PROVE ContextGiven(r) /\ Handshake(r) /\ Registered(r)
  BY Numbers DEF ContextGiven, Notifying, Handshake, Registered
<1> QED BY <1>3, <1>4, <1>5, <1>6, <1>7 DEF IInv

(* Every step keeps the invariant.                                         *)
LEMMA NextIInv == IInv /\ [Next]_vars => IInv'
<1> SUFFICES ASSUME IInv, [Next]_vars PROVE IInv'  OBVIOUS
<1>1. CASE Coroutine
  BY <1>1, AnyResultFinishedIInv, WhenAnyLoadIInv, SetWhenAnyContextIInv, WhenAnyCasIInv,
     ResumeInlineLoadIInv, ResumeInlineCasIInv, FinishProcessingIInv, CompletedResultIInv, RewindLoadIInv,
     RewindCasIInv, ClearConsumerIInv, AwaitLoadIInv, SetAwaitHandleIInv, AwaitCasIInv, PostResumeIInv,
     ResumedIInv, BrokenTaskIInv, DropResultIInv DEF Coroutine
<1>2. CASE CallAgain  BY <1>2, CallAgainIInv
<1>3. ASSUME NEW r \in Results, Producer(r) PROVE IInv'
  BY <1>3, ExchangeProducerDoneIInv, ResumeConsumerIInv, TryResumeLoadIInv, TryResumeCasIInv,
     ResumeCoroutineIInv, ResumeAwaiterIInv DEF Producer
<1>4. CASE UNCHANGED vars  BY <1>4, StutterIInv
<1> QED BY <1>1, <1>2, <1>3, <1>4 DEF Next

-----------------------------------------------------------------------------
(* The invariant holds, for any number of results and of calls.            *)
THEOREM Invariance == Spec => []IInv
BY InitIInv, NextIInv, PTL DEF Spec

(* Every variable keeps its type.                                          *)
THEOREM TypeCorrect == Spec => []TypeOK
<1>1. IInv => TypeOK  BY DEF IInv
<1> QED BY <1>1, Invariance, PTL

(* await_resume of when_any always finds a ready result of its own call in *)
(* m_status, never k_processing or k_done_processing, and nothing is       *)
(* stored there afterwards: try_resume, resume_inline, finish_processing.  *)
THEOREM AwaitResumeFinds == Spec => []ResultFound
<1>1. ASSUME IInv PROVE ResultFound
  <2> SUFFICES ASSUME op = "any", wpc \in {"await_resume"} \cup Rewinding \cup Leaving
               PROVE  /\ \E j \in 1 .. Len(input) : input[j] = m_status[call]
                      /\ m_pc_state[m_status[call]] = "producer_done"
                      /\ wpc # "await_resume" => completed = m_status[call]
    BY DEF ResultFound, Rewinding, Leaving
  <2>1. m_status[call] \in Inputs  BY <1>1 DEF IInv, Statuses, Registering, Rewinding, Leaving
  <2>2. m_pc_state[m_status[call]] = "producer_done"
    BY <1>1, <2>1, InputFacts DEF IInv, Statuses, Rewinding, Leaving, Dying
  <2>3. wpc # "await_resume" => completed = m_status[call]  BY <1>1 DEF IInv, Statuses
  <2> QED BY <2>1, <2>2, <2>3 DEF Inputs
<1> QED BY <1>1, Invariance, PTL

(* However many results race and however many calls follow each other, the *)
(* coroutine is resumed only while it is suspended in the very call that   *)
(* registered it, and by one producer: try_resume and finish_processing.   *)
THEOREM ResumedByOne == Spec => []ResumedOnce
<1>1. IInv => ResumedOnce  BY SMT DEF IInv, ContextGiven, Handshake, ResumedOnce
<1> QED BY <1>1, Invariance, PTL

(* when_any returns the index of a ready result of its own, when_all when  *)
(* all are ready, and no result is given back or destroyed while it still  *)
(* refers to the coroutine: try_rewind_consumer.                           *)
THEOREM GivenBack == Spec => []ResultsReturned
<1>1. ASSUME IInv PROVE ResultsReturned
  <2>1. CASE wpc = "returned" /\ op = "any"
    <3>1. completed = m_status[call] /\ m_status[call] \in Inputs
      BY <1>1, <2>1 DEF IInv, Statuses, Registering, Leaving
    <3>2. m_pc_state[completed] = "producer_done"  BY <1>1, <2>1, <3>1, InputFacts DEF IInv, Statuses, Dying
    <3> QED
      BY <1>1, <2>1, <3>1, <3>2 DEF IInv, ResultsReturned, Inputs, Registered, Handshake, Registering,
         Rewinding
  <2>2. CASE wpc = "returned" /\ op = "all"
    <3>1. i = Len(input) + 1 /\ \A j \in 1 .. Len(input) : j < i
      BY <1>1, <2>2, InputFacts, SMT DEF IInv, Loops, Leaving
    <3> QED
      BY <1>1, <2>2, <3>1 DEF IInv, ResultsReturned, Awaited, Dying, Registered, Handshake, Registering,
         Rewinding
  <2>3. CASE wpc # "returned"
    BY <1>1, <2>3 DEF IInv, ResultsReturned, Registered, Handshake, Registering, Rewinding
  <2> QED BY <1>1, <2>1, <2>2, <2>3 DEF IInv, TypeOK
<1> QED BY <1>1, Invariance, PTL

(* consumer_context is set and cleared only while no producer reads it,    *)
(* and never set over a registration that is still there.                  *)
THEOREM NoContextRace == Spec => []ContextExclusive
<1>1. IInv => ContextExclusive  BY DEF IInv, AtResult, ContextExclusive
<1> QED BY <1>1, Invariance, PTL
=============================================================================
