------------------------- MODULE SharedResultProofs -------------------------
(***************************************************************************)
(* A shared_result is a future to each of its consumers, and its lists of  *)
(* awaiters hold exactly the suspended ones, for any set of consumers.     *)
(*                                                                         *)
(* Neither is inductive.  Positions ties m_ready and the outcome to where  *)
(* the producer is, and a consumer that is about to return to m_ready;     *)
(* ListedOnce says in which of the two lists the nodes are.                *)
(***************************************************************************)
EXTENDS SharedResult, SequenceTheorems, TLAPS

(* A leaf is for Zenon unless it names another prover.                     *)
USE Zenon

Suspended == {c \in Consumers : cpc[c] = "suspended"}

Lists(s) == Range(s) = Suspended /\ IsInjective(s)

Positions ==
  /\ ppc \in {"running", "complete"} => ~m_ready /\ awaiters = <<>>
  /\ ppc \in {"resume", "done"} => m_ready
  /\ ppc = "running" => m_producer = NoOutcome
  /\ ppc # "running" => m_producer \in Values \cup Exceptions
  /\ \A c \in Consumers : cpc[c] = "return" => m_ready

ListedOnce == IF m_ready THEN Lists(awaiters) ELSE Lists(m_awaiters)

(* The inductive invariant.                                                *)
IInv == TypeOK /\ Positions /\ ListedOnce

-----------------------------------------------------------------------------
(* Linking a node in front adds its consumer and keeps the rest: what      *)
(* Enter does to m_awaiters.                                               *)
LEMMA PrependLists ==
  ASSUME NEW S, NEW s \in Seq(S), NEW c \in S, c \notin Range(s), IsInjective(s)
  PROVE  /\ <<c>> \o s \in Seq(S)
         /\ Range(<<c>> \o s) = Range(s) \cup {c}
         /\ IsInjective(<<c>> \o s)
<1> DEFINE t == <<c>> \o s
<1>1. t \in Seq(S) /\ Len(t) = Len(s) + 1 /\ Len(s) \in Nat  BY SMT
<1>2. t[1] = c /\ \A i \in 1 .. Len(s) : t[i + 1] = s[i]  BY SMT
<1>3. DOMAIN s = 1 .. Len(s) /\ DOMAIN t = 1 .. Len(s) + 1  BY <1>1, SMT
<1> HIDE DEF t
<1>4. \A i \in DOMAIN t : i = 1 \/ (i - 1 \in DOMAIN s /\ t[i] = s[i - 1])  BY <1>1, <1>2, <1>3, SMT
<1>5. Range(t) = Range(s) \cup {c}
  <2>1. ASSUME NEW x \in Range(t) PROVE x \in Range(s) \cup {c}  BY <1>2, <1>4, SMT DEF Range
  <2>2. ASSUME NEW x \in Range(s) PROVE x \in Range(t)
    <3>1. PICK i \in DOMAIN s : x = s[i]  BY DEF Range
    <3>2. i + 1 \in DOMAIN t /\ t[i + 1] = x  BY <3>1, <1>1, <1>2, <1>3, SMT
    <3> QED BY <3>2 DEF Range
  <2>3. c \in Range(t)
    <3>1. 1 \in DOMAIN t  BY <1>1, <1>3, SMT
    <3> QED BY <3>1, <1>2 DEF Range
  <2> QED BY <2>1, <2>2, <2>3
<1>6. ASSUME NEW i \in DOMAIN t, NEW j \in DOMAIN t, t[i] = t[j] PROVE i = j
  <2>1. \A k \in DOMAIN s : s[k] # c  BY DEF Range
  <2>2. CASE i = 1 \/ j = 1  BY <2>1, <2>2, <1>2, <1>4, <1>6, SMT
  <2>3. CASE i # 1 /\ j # 1
    <3>1. i - 1 \in DOMAIN s /\ j - 1 \in DOMAIN s /\ s[i - 1] = s[j - 1]  BY <2>3, <1>4, <1>6
    <3>2. i - 1 = j - 1  BY <3>1 DEF IsInjective
    <3> QED BY <3>2, <1>1, <1>3, SMT
  <2> QED BY <2>2, <2>3
<1>7. IsInjective(t)  BY <1>6 DEF IsInjective
<1> QED BY <1>1, <1>5, <1>7 DEF t

(* Taking the first node out removes its consumer and keeps the rest: what *)
(* ResumeAwaiter does to its list.                                         *)
LEMMA TailLists ==
  ASSUME NEW S, NEW s \in Seq(S), s # <<>>, IsInjective(s)
  PROVE  /\ Tail(s) \in Seq(S)
         /\ Head(s) \in Range(s)
         /\ Range(Tail(s)) = Range(s) \ {Head(s)}
         /\ IsInjective(Tail(s))
<1> DEFINE t == Tail(s)
<1>1. t \in Seq(S) /\ Len(s) = Len(t) + 1 /\ Len(t) \in Nat  BY SMT
<1>2. Head(s) = s[1] /\ \A i \in 1 .. Len(t) : t[i] = s[i + 1]  BY SMT
<1>3. DOMAIN s = 1 .. Len(t) + 1 /\ DOMAIN t = 1 .. Len(t)  BY <1>1, SMT
<1> HIDE DEF t
<1>4. 1 \in DOMAIN s  BY <1>1, <1>3, SMT
<1>5. Head(s) \in Range(s)  BY <1>2, <1>4 DEF Range
<1>6. Range(t) = Range(s) \ {Head(s)}
  <2>1. ASSUME NEW x \in Range(t) PROVE x \in Range(s) /\ x # Head(s)
    <3>1. PICK i \in DOMAIN t : x = t[i]  BY DEF Range
    <3>2. i + 1 \in DOMAIN s /\ i + 1 # 1 /\ s[i + 1] = x  BY <3>1, <1>1, <1>2, <1>3, SMT
    <3>3. x \in Range(s)  BY <3>2 DEF Range
    <3>4. x # s[1]  BY <3>2, <1>4 DEF IsInjective
    <3> QED BY <3>3, <3>4, <1>2
  <2>2. ASSUME NEW x \in Range(s), x # Head(s) PROVE x \in Range(t)
    <3>1. PICK i \in DOMAIN s : x = s[i]  BY DEF Range
    <3>2. i # 1  BY <3>1, <2>2, <1>2
    <3>3. i - 1 \in DOMAIN t /\ t[i - 1] = x  BY <3>1, <3>2, <1>1, <1>2, <1>3, SMT
    <3> QED BY <3>3 DEF Range
  <2> QED BY <2>1, <2>2
<1>7. ASSUME NEW i \in DOMAIN t, NEW j \in DOMAIN t, t[i] = t[j] PROVE i = j
  <2>1. i + 1 \in DOMAIN s /\ j + 1 \in DOMAIN s /\ s[i + 1] = s[j + 1]  BY <1>7, <1>1, <1>2, <1>3, SMT
  <2>2. i + 1 = j + 1  BY <2>1 DEF IsInjective
  <2> QED BY <2>2, <1>1, <1>3, SMT
<1>8. IsInjective(t)  BY <1>7 DEF IsInjective
<1> QED BY <1>1, <1>5, <1>6, <1>8 DEF t

-----------------------------------------------------------------------------
(* A new shared_result is not ready and nobody waits for it.               *)
LEMMA InitIInv == Init => IInv
<1> SUFFICES ASSUME Init PROVE IInv  OBVIOUS
<1>0. <<>> \in Seq(Consumers)  BY EmptySeq
<1>1. TypeOK  BY <1>0 DEF Init, TypeOK
<1>2. Positions  BY DEF Init, Positions
<1>3. ListedOnce
  <2>1. Range(<<>>) = {} /\ IsInjective(<<>>)  BY SMT DEF Range, IsInjective
  <2>2. Suspended = {}  BY DEF Init, Suspended
  <2> QED BY <2>1, <2>2 DEF Init, ListedOnce, Lists
<1> QED BY <1>1, <1>2, <1>3 DEF IInv

(* A step that links and unlinks no node, and suspends and resumes nobody, *)
(* keeps the lists right.                                                  *)
LEMMA SameLists ==
  ASSUME ListedOnce, Suspended' = Suspended, UNCHANGED <<m_ready, m_awaiters, awaiters>>
  PROVE  ListedOnce'
BY DEF ListedOnce, Lists

(* The producer sets the outcome, publishes it and resumes the awaiters it *)
(* has taken over.                                                         *)
LEMMA ProducerIInv == IInv /\ (SetOutcome \/ CompleteProducer \/ ResumeAwaiter) => IInv'
<1> SUFFICES ASSUME IInv, SetOutcome \/ CompleteProducer \/ ResumeAwaiter PROVE IInv'  OBVIOUS
<1> USE DEF IInv
<1>1. CASE SetOutcome
  <2> USE <1>1 DEF SetOutcome, consumer
  <2>1. TypeOK'  BY DEF TypeOK, Positions
  <2>2. Positions'  BY DEF TypeOK, Positions
  <2>3. ListedOnce'  BY SameLists DEF Suspended
  <2> QED BY <2>1, <2>2, <2>3
<1>2. CASE CompleteProducer
  <2> USE <1>2 DEF CompleteProducer
  <2>0. ~m_ready  BY DEF Positions
  <2>1. TypeOK'
    <3>1. <<>> \in Seq(Consumers)  BY EmptySeq
    <3>2. cpc' \in [Consumers -> {"idle", "lock", "blocked", "woken", "suspended", "return", "gone"}]
      BY DEF TypeOK
    <3>3. m_producer # NoOutcome  BY OutcomesDistinct DEF Positions
    <3> QED BY <3>1, <3>2, <3>3 DEF TypeOK
  <2>2. Positions'  BY DEF TypeOK, Positions
  <2>3. Suspended' = Suspended  BY DEF TypeOK, Suspended
  <2>4. ListedOnce'  BY <2>0, <2>3 DEF ListedOnce, Lists
  <2> QED BY <2>1, <2>2, <2>4
<1>3. CASE ResumeAwaiter
  <2>0. m_ready /\ ppc = "resume"  BY <1>3 DEF ResumeAwaiter, Positions
  <2>1. CASE awaiters = <<>>
    <3>0. ppc' = "done" /\ UNCHANGED <<awaiters, cpc, m_ready, m_awaiters, m_producer, m_condition,
                                      op, reply, got>>
      BY <1>3, <2>1 DEF ResumeAwaiter
    <3>1. TypeOK'  BY <3>0 DEF TypeOK
    <3>2. Positions'  BY <2>0, <3>0 DEF TypeOK, Positions
    <3>3. ListedOnce'  BY <3>0, SameLists DEF Suspended
    <3> QED BY <3>1, <3>2, <3>3
  <2>2. CASE awaiters # <<>>
    <3> DEFINE first == Head(awaiters)
    <3>0. /\ awaiters' = Tail(awaiters)
          /\ cpc' = [cpc EXCEPT ![first] = "return"]
          /\ UNCHANGED <<ppc, m_ready, m_awaiters, m_producer, m_condition, op, reply, got>>
      BY <1>3, <2>2 DEF ResumeAwaiter
    <3>1. Lists(awaiters) /\ awaiters \in Seq(Consumers)  BY <2>0 DEF ListedOnce, TypeOK
    <3>2. /\ awaiters' \in Seq(Consumers)
          /\ first \in Suspended
          /\ Range(awaiters') = Suspended \ {first}
          /\ IsInjective(awaiters')
      BY <3>0, <3>1, <2>2, TailLists DEF Lists
    <3> HIDE DEF first
    <3>3. TypeOK'
      <4>1. cpc' \in [Consumers -> {"idle", "lock", "blocked", "woken", "suspended", "return", "gone"}]
        BY <3>0, <3>2 DEF TypeOK, Suspended
      <4> QED BY <4>1, <3>0, <3>2 DEF TypeOK
    <3>4. Positions'  BY <2>0, <3>0 DEF TypeOK, Positions
    <3>5. Suspended' = Suspended \ {first}  BY <3>0, <3>2 DEF TypeOK, Suspended
    <3>6. ListedOnce'  BY <2>0, <3>0, <3>2, <3>5 DEF ListedOnce, Lists
    <3> QED BY <3>3, <3>4, <3>6
  <2> QED BY <2>1, <2>2
<1> QED BY <1>1, <1>2, <1>3

(* A consumer that finds the result not ready under the lock enters the    *)
(* list or blocks.                                                         *)
LEMMA LockIInv ==
  ASSUME IInv, NEW c \in Consumers, Lock(c)
  PROVE  IInv'
<1> USE DEF IInv
<1>0. cpc[c] = "lock" /\ c \notin Suspended  BY DEF Lock, Suspended
<1>1. CASE m_ready
  <2>0. /\ cpc' = [cpc EXCEPT ![c] = "return"]
        /\ UNCHANGED <<m_awaiters, m_condition, m_ready, m_producer, awaiters, ppc, op, reply, got>>
    BY <1>1 DEF Lock
  <2>1. TypeOK'  BY <2>0 DEF TypeOK
  <2>2. Positions'  BY <1>1, <2>0 DEF TypeOK, Positions
  <2>3. ListedOnce'  BY <1>0, <2>0, SameLists DEF TypeOK, Suspended
  <2> QED BY <2>1, <2>2, <2>3
<1>2. CASE ~m_ready /\ op[c] \in {"await", "resolve"}
  <2>0. /\ m_awaiters' = <<c>> \o m_awaiters
        /\ cpc' = [cpc EXCEPT ![c] = "suspended"]
        /\ UNCHANGED <<m_condition, m_ready, m_producer, awaiters, ppc, op, reply, got>>
    BY <1>2 DEF Lock, Enter
  <2>1. Lists(m_awaiters) /\ m_awaiters \in Seq(Consumers)  BY <1>2 DEF ListedOnce, TypeOK
  <2>2. /\ m_awaiters' \in Seq(Consumers)
        /\ Range(m_awaiters') = Suspended \cup {c}
        /\ IsInjective(m_awaiters')
    BY <1>0, <2>0, <2>1, PrependLists, SMT DEF Lists
  <2>3. TypeOK'
    <3>1. cpc' \in [Consumers -> {"idle", "lock", "blocked", "woken", "suspended", "return", "gone"}]
      BY <2>0 DEF TypeOK
    <3> QED BY <3>1, <1>2, <2>0, <2>2 DEF TypeOK
  <2>4. Positions'  BY <2>0 DEF TypeOK, Positions
  <2>5. Suspended' = Suspended \cup {c}  BY <2>0 DEF TypeOK, Suspended
  <2>6. ListedOnce'  BY <1>2, <2>0, <2>2, <2>5 DEF ListedOnce, Lists
  <2> QED BY <2>3, <2>4, <2>6
<1>3. CASE ~m_ready /\ op[c] \notin {"await", "resolve"}
  <2>0. /\ m_condition' = TRUE
        /\ cpc' = [cpc EXCEPT ![c] = "blocked"]
        /\ UNCHANGED <<m_awaiters, m_ready, m_producer, awaiters, ppc, op, reply, got>>
    BY <1>3 DEF Lock, Enter
  <2>1. TypeOK'  BY <2>0 DEF TypeOK
  <2>2. Positions'  BY <2>0 DEF TypeOK, Positions
  <2>3. ListedOnce'  BY <1>0, <2>0, SameLists DEF TypeOK, Suspended
  <2> QED BY <2>1, <2>2, <2>3
<1> QED BY <1>1, <1>2, <1>3

(* The other steps of a consumer move only itself, and to "return" only    *)
(* when the result is ready.                                               *)
LEMMA ConsumerIInv ==
  ASSUME IInv, NEW c \in Consumers, Call(c) \/ Timeout(c) \/ Woken(c) \/ Return(c)
  PROVE  IInv'
<1> USE DEF IInv
<1>1. /\ UNCHANGED <<m_ready, m_awaiters, m_producer, m_condition, awaiters, ppc>>
      /\ cpc[c] # "suspended"
      /\ \E to \in {"idle", "lock", "woken", "return", "gone"} :
           cpc' = [cpc EXCEPT ![c] = to] /\ (to = "return" => m_ready)
  BY DEF Call, Timeout, Woken, Return, Tell
<1>2. TypeOK'
  <2>1. op' \in [Consumers -> Operations \cup {"none"}]  BY DEF Call, Timeout, Woken, Return, TypeOK
  <2>2. reply' \in [Consumers -> {"idle", "value", "exception"}]
    BY SMT DEF Call, Timeout, Woken, Return, Tell, result_status, TypeOK
  <2>3. got' \in [Consumers -> Values \cup Exceptions \cup {NoOutcome}]
    BY DEF Call, Timeout, Woken, Return, TypeOK
  <2>4. cpc' \in [Consumers -> {"idle", "lock", "blocked", "woken", "suspended", "return", "gone"}]
    BY <1>1 DEF TypeOK
  <2> QED BY <1>1, <2>1, <2>2, <2>3, <2>4 DEF TypeOK
<1>3. Positions'  BY <1>1 DEF TypeOK, Positions
<1>4. Suspended' = Suspended  BY <1>1 DEF TypeOK, Suspended
<1>5. ListedOnce'  BY <1>1, <1>4, SameLists
<1> QED BY <1>2, <1>3, <1>5

(* Every step keeps the invariant.                                         *)
LEMMA NextIInv == IInv /\ [Next]_vars => IInv'
<1> SUFFICES ASSUME IInv, [Next]_vars PROVE IInv'  OBVIOUS
<1>1. CASE SetOutcome \/ Complete  BY <1>1, ProducerIInv DEF Complete
<1>2. CASE \E c \in Consumers : Call(c) \/ Consume(c) \/ Timeout(c)
  BY <1>2, LockIInv, ConsumerIInv DEF Consume
<1>3. CASE UNCHANGED vars
  <2>1. TypeOK'  BY <1>3 DEF IInv, TypeOK, vars, consumer
  <2>2. Positions'  BY <1>3 DEF IInv, Positions, vars, consumer
  <2>3. ListedOnce'  BY <1>3, SameLists DEF IInv, Suspended, vars, consumer
  <2> QED BY <2>1, <2>2, <2>3 DEF IInv
<1> QED BY <1>1, <1>2, <1>3 DEF Next

(* The invariant holds in every state, for any consumers and outcomes.     *)
THEOREM Invariance == Spec => []IInv
BY InitIInv, NextIInv, PTL DEF Spec

(* Every variable has a value the code can give it: m_ready is stored      *)
(* after the outcome, and no consumer enters the list afterwards.          *)
THEOREM TypeCorrect == Spec => []TypeOK
<1>1. IInv => TypeOK  BY DEF IInv
<1> QED BY <1>1, Invariance, PTL

(* complete_producer's loop follows only links into frames of suspended    *)
(* coroutines, and resumes each once, however many there are.              *)
THEOREM ResumesOnlySuspended == Spec => []AwaitersSuspended
<1>1. IInv => AwaitersSuspended
  <2> SUFFICES ASSUME IInv PROVE AwaitersSuspended  OBVIOUS
  <2>1. CASE m_ready
    <3>1. m_awaiters \o awaiters = awaiters  BY <2>1, SMT DEF IInv, TypeOK
    <3> QED BY <2>1, <3>1 DEF IInv, ListedOnce, Lists, Suspended, AwaitersSuspended
  <2>2. CASE ~m_ready
    <3>1. awaiters = <<>>  BY <2>2 DEF IInv, TypeOK, Positions
    <3>2. m_awaiters \o awaiters = m_awaiters  BY <3>1, SMT DEF IInv, TypeOK
    <3> QED BY <2>2, <3>2 DEF IInv, ListedOnce, Lists, Suspended, AwaitersSuspended
  <2> QED BY <2>1, <2>2
<1> QED BY <1>1, Invariance, PTL

-----------------------------------------------------------------------------
(* To a consumer a step of the producer is a publication or nothing.       *)
LEMMA ProducerRefines ==
  ASSUME IInv, SetOutcome \/ CompleteProducer \/ ResumeAwaiter, NEW d \in Consumers
  PROVE  F(d)!Next \/ UNCHANGED F(d)!vars
<1> USE DEF IInv
<1>1. CASE SetOutcome
  <2>1. ~m_ready /\ UNCHANGED <<m_ready, cpc, reply, got>>  BY <1>1 DEF SetOutcome, consumer, Positions
  <2> QED BY <2>1 DEF F!vars
<1>2. CASE CompleteProducer
  <2>1. /\ ~m_ready /\ m_ready' /\ m_producer' = m_producer /\ m_producer \in Values \cup Exceptions
        /\ UNCHANGED <<reply, got>>
    BY <1>2 DEF CompleteProducer, Positions
  <2>2. (cpc'[d] # "gone") = (cpc[d] # "gone")  BY <1>2 DEF CompleteProducer, TypeOK
  <2>3. F(d)!Publish  BY <2>1, <2>2 DEF F!Publish
  <2> QED BY <2>3 DEF F!Next
<1>3. CASE ResumeAwaiter
  <2>1. UNCHANGED <<m_ready, m_producer, reply, got>>  BY <1>3 DEF ResumeAwaiter
  <2>2. (cpc'[d] # "gone") = (cpc[d] # "gone")
    <3>1. CASE awaiters = <<>>  BY <3>1, <1>3 DEF ResumeAwaiter
    <3>2. CASE awaiters # <<>>
      <4>1. Head(awaiters) \in Suspended
        BY <3>2, <1>3, TailLists, SMT DEF ResumeAwaiter, Positions, ListedOnce, Lists, TypeOK
      <4> QED BY <4>1, <3>2, <1>3 DEF ResumeAwaiter, Suspended, TypeOK
    <3> QED BY <3>1, <3>2
  <2> QED BY <2>1, <2>2 DEF F!vars
<1> QED BY <1>1, <1>2, <1>3

(* A step of one consumer is a report to it, or hands it the outcome, or   *)
(* is nothing; to the others it is nothing.                                *)
LEMMA ConsumerRefines ==
  ASSUME IInv, NEW c \in Consumers, Call(c) \/ Consume(c) \/ Timeout(c), NEW d \in Consumers
  PROVE  F(d)!Next \/ UNCHANGED F(d)!vars
<1> USE DEF IInv
<1>0. UNCHANGED <<m_ready, m_producer>>  BY DEF Call, Consume, Lock, Woken, Return, Timeout
<1>1. CASE d # c
  <2>1. cpc'[d] = cpc[d] /\ reply'[d] = reply[d] /\ got'[d] = got[d]
    <3>1. CASE Call(c)  BY <3>1, <1>1, SMT DEF Call, Tell, TypeOK
    <3>2. CASE Lock(c)  BY <3>2, <1>1 DEF Lock, Enter, TypeOK
    <3>3. CASE Woken(c)  BY <3>3, <1>1 DEF Woken, Tell, TypeOK
    <3>4. CASE Return(c)  BY <3>4, <1>1 DEF Return, Tell, TypeOK
    <3>5. CASE Timeout(c)  BY <3>5, <1>1 DEF Timeout, TypeOK
    <3> QED BY <3>1, <3>2, <3>3, <3>4, <3>5 DEF Consume
  <2> QED BY <1>0, <2>1 DEF F!vars
<1>2. CASE d = c
  <2>1. CASE cpc'[c] # "gone" /\ cpc[c] # "gone" /\ reply'[c] = reply[c] /\ got'[c] = got[c]
    BY <1>0, <1>2, <2>1 DEF F!vars
  <2>2. CASE /\ cpc'[c] # "gone" /\ cpc[c] # "gone" /\ got'[c] = got[c]
             /\ reply'[c] = IF m_ready THEN result_status(m_producer) ELSE "idle"
    <3>1. reply'[c] = F(c)!Kind(IF m_ready THEN m_producer ELSE NoOutcome)
      BY <2>2, OutcomesDistinct DEF result_status, F!Kind
    <3>2. F(c)!Report  BY <1>0, <2>2, <3>1 DEF F!Report
    <3> QED BY <1>2, <3>2 DEF F!Next
  <2>3. CASE /\ cpc[c] = "return" /\ cpc'[c] = "gone"
             /\ reply'[c] = reply[c] /\ got'[c] = m_producer
    <3>1. m_ready /\ m_producer # NoOutcome  BY <2>3 DEF Positions, TypeOK
    <3>2. F(c)!Take  BY <1>0, <2>3, <3>1 DEF F!Take
    <3> QED BY <1>2, <3>2 DEF F!Next
  <2>4. CASE Call(c)
    <3>1. PICK o \in Operations :
            IF o = "status" /\ ~m_ready THEN Tell(c, "idle")
            ELSE cpc' = [cpc EXCEPT ![c] = IF m_ready THEN "return" ELSE "lock"] /\ UNCHANGED reply
      BY <2>4 DEF Call
    <3>2. cpc[c] = "idle" /\ UNCHANGED got  BY <2>4 DEF Call
    <3>3. CASE o = "status" /\ ~m_ready  BY <3>1, <3>2, <3>3, <2>2 DEF Tell, TypeOK
    <3>4. CASE ~(o = "status" /\ ~m_ready)  BY <3>1, <3>2, <3>4, <2>1 DEF TypeOK
    <3> QED BY <3>3, <3>4
  <2>5. CASE Lock(c)  BY <2>5, <2>1 DEF Lock, Enter, TypeOK
  <2>6. CASE Timeout(c)  BY <2>6, <2>1 DEF Timeout, TypeOK
  <2>7. CASE Woken(c)
    <3>1. CASE m_ready  BY <2>7, <3>1, <2>1 DEF Woken, TypeOK
    <3>2. CASE ~m_ready  BY <2>7, <3>2, <2>2 DEF Woken, Tell, TypeOK
    <3> QED BY <3>1, <3>2
  <2>8. CASE Return(c)
    <3>1. CASE op[c] \in {"get", "await"}  BY <2>8, <3>1, <2>3 DEF Return, TypeOK
    <3>2. CASE op[c] \in {"status", "wait_for"}  BY <2>8, <3>2, <2>2 DEF Return, Tell, TypeOK, Positions
    <3>3. CASE op[c] \in {"wait", "resolve"}  BY <2>8, <3>3, <2>1 DEF Return, TypeOK
    <3> QED BY <2>8, <3>1, <3>2, <3>3 DEF Return
  <2> QED BY <2>4, <2>5, <2>6, <2>7, <2>8 DEF Consume
<1> QED BY <1>1, <1>2

(* A shared_result is, to each of any number of consumers, the one-shot    *)
(* future that a result is to its only one.                                *)
THEOREM Refinement == Spec => ImplementsFuture
<1>1. Init => \A c \in Consumers : F(c)!Init  BY DEF Init, F!Init
<1>2. IInv /\ [Next]_vars => [\A c \in Consumers : F(c)!Next \/ UNCHANGED F(c)!vars]_vars
  <2> SUFFICES ASSUME IInv, Next, NEW d \in Consumers
               PROVE  F(d)!Next \/ UNCHANGED F(d)!vars
    OBVIOUS
  <2>1. CASE SetOutcome \/ Complete  BY <2>1, ProducerRefines DEF Complete
  <2>2. CASE \E c \in Consumers : Call(c) \/ Consume(c) \/ Timeout(c)  BY <2>2, ConsumerRefines
  <2> QED BY <2>1, <2>2 DEF Next
<1> QED BY <1>1, <1>2, Invariance, PTL DEF Spec, ImplementsFuture
=============================================================================
