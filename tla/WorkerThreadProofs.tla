------------------------- MODULE WorkerThreadProofs -------------------------
(***************************************************************************)
(* worker_thread_executor executes tasks in order and is an executor, for  *)
(* any number of threads and tasks.                                        *)
(*                                                                         *)
(* That the executed tasks are in order is not inductive.  Order says how  *)
(* the order in which tasks entered is spread over what was executed, the  *)
(* task that runs and the two queues, which are swapped; for that a task   *)
(* must be in one place only (Places), and the positions of the threads    *)
(* say when shutdown() may clear the queues (Control).  Tokens bounds the  *)
(* semaphore.                                                              *)
(***************************************************************************)
EXTENDS WorkerThread, TLAPS

(* A leaf is for Zenon unless it names another prover.                     *)
USE Zenon

Public == Range(m_public_queue)
Private == Range(m_private_queue)
Executed == Range(ran)

(* Where the thread and the clients can be, and what their positions say.  *)
Control ==
  /\ wpc = "run" <=> running # NoTask
  /\ wpc = "none" => m_abort /\ m_private_queue = <<>>
  /\ m_abort => m_atomic_abort
  /\ shut => wpc = "none" /\ m_public_queue = <<>>
  /\ \A c \in Clients :
       pc[c] \in {"store_abort", "notify", "join"} =>
         /\ m_atomic_abort /\ ~shut
         /\ pc[c] = "store_abort" => ~m_abort
         /\ \A d \in Clients : pc[d] \in {"store_abort", "notify", "join"} => d = c

(* One token for each enqueue that found the queue empty, and one for shutdown().  *)
Told == shut \/ \E c \in Clients : pc[c] = "join"
Releasing == {c \in Clients : pc[c] = "release"}
Tokens == m_semaphore + Cardinality(Releasing) <= created + IF Told THEN 1 ELSE 0

(* A task is in one place, and only once.                                  *)
Places ==
  /\ Public \cup Private \cup Executed \cup destroyed \cup local \subseteq 1 .. created
  /\ running <= created
  /\ \A i, j \in DOMAIN m_private_queue : m_private_queue[i] = m_private_queue[j] => i = j
  /\ \A i, j \in DOMAIN m_public_queue : m_public_queue[i] = m_public_queue[j] => i = j
  /\ Private \cap Public = {}
  /\ Executed \cap (Private \cup Public) = {}
  /\ destroyed \cap (Private \cup Public) = {}
  /\ running \notin Private \cup Public \cup Executed \cup destroyed

Past(a) == a \in Executed \/ a = running

(* The order of execution is settled when a task enters a queue: before a  *)
(* task come all the earlier ones of its kind, in what is executed, then   *)
(* in the private queue, then in the public one, where no task of the      *)
(* executor's own ever is.                                                 *)
RunningInOrder ==
  \A a \in 1 .. running - 1 : (a \in local <=> running \in local) => a \in Executed

PrivateInOrder ==
  \A j \in DOMAIN m_private_queue : \A a \in 1 .. m_private_queue[j] - 1 :
    (a \in local <=> m_private_queue[j] \in local) =>
      Past(a) \/ \E k \in 1 .. j - 1 : m_private_queue[k] = a

PublicInOrder ==
  /\ Public \cap local = {}
  /\ \A j \in DOMAIN m_public_queue : \A a \in 1 .. m_public_queue[j] - 1 :
       a \notin local =>
         Past(a) \/ a \in Private \/ \E k \in 1 .. j - 1 : m_public_queue[k] = a

(* And none is missing: while the thread lives nothing happens to its own  *)
(* tasks, nor to those of others before shutdown() makes enqueue refuse.   *)
NoneMissing ==
  /\ wpc # "none" => \A a \in local : Past(a) \/ a \in Private
  /\ ~m_abort => \A a \in 1 .. created : a \in local \/ Past(a) \/ a \in Private \/ a \in Public

Order == RunningInOrder /\ PrivateInOrder /\ PublicInOrder /\ NoneMissing /\ ExecutedInOrder

(* The inductive invariant.                                                *)
IInv == TypeOK /\ Control /\ Tokens /\ Places /\ Order

-----------------------------------------------------------------------------
(* What a queue is after a span of new tasks has been put into it.         *)
LEMMA NewTasks ==
  ASSUME NEW q \in Seq(Tasks), created \in 0 .. MaxTasks, NEW n \in 1 .. MaxTasks - created
  PROVE  /\ q \o New(n) \in Seq(Tasks)
         /\ Len(q) \in Nat
         /\ DOMAIN q = 1 .. Len(q)
         /\ DOMAIN (q \o New(n)) = 1 .. Len(q) + n
         /\ \A i \in 1 .. Len(q) : (q \o New(n))[i] = q[i]
         /\ \A i \in Len(q) + 1 .. Len(q) + n : (q \o New(n))[i] = created + (i - Len(q))
         /\ Range(q \o New(n)) = Range(q) \cup (created + 1 .. created + n)
         /\ Range(New(n)) = created + 1 .. created + n
<1>0. MaxTasks \in Nat /\ created \in Nat /\ n \in Nat /\ created + n <= MaxTasks  BY WorkerAssumption, SMT
<1>1. New(n) \in Seq(Tasks) /\ Len(New(n)) = n /\ \A i \in 1 .. n : New(n)[i] = created + i
  BY <1>0, SMT DEF New, Tasks
<1>2. Range(New(n)) = created + 1 .. created + n
  <2>1. ASSUME NEW x \in created + 1 .. created + n PROVE x \in Range(New(n))
    <3>1. x - created \in 1 .. n /\ New(n)[x - created] = x  BY <1>0, <1>1, SMT
    <3>2. x - created \in DOMAIN New(n)  BY <3>1 DEF New
    <3> QED BY <3>1, <3>2 DEF Range
  <2>2. ASSUME NEW i \in DOMAIN New(n) PROVE New(n)[i] \in created + 1 .. created + n  BY <1>0, <1>1, SMT
  <2> QED BY <2>1, <2>2 DEF Range
<1>3. /\ q \o New(n) \in Seq(Tasks)
      /\ Len(q) \in Nat
      /\ DOMAIN q = 1 .. Len(q)
      /\ DOMAIN (q \o New(n)) = 1 .. Len(q) + n
  BY <1>1, SMT
<1>4. \A i \in 1 .. Len(q) : (q \o New(n))[i] = q[i]  BY <1>0, <1>1, SMT
<1>5. \A i \in Len(q) + 1 .. Len(q) + n : (q \o New(n))[i] = created + (i - Len(q))  BY <1>0, <1>1, <1>3, SMT
<1>6. Range(q \o New(n)) = Range(q) \cup (created + 1 .. created + n)
  <2>1. ASSUME NEW i \in DOMAIN (q \o New(n))
        PROVE  (q \o New(n))[i] \in Range(q) \cup (created + 1 .. created + n)
    BY <1>0, <1>3, <1>4, <1>5, SMT DEF Range
  <2>2. ASSUME NEW i \in DOMAIN q PROVE q[i] \in Range(q \o New(n))  BY <1>0, <1>3, <1>4, SMT DEF Range
  <2>3. ASSUME NEW x \in created + 1 .. created + n PROVE x \in Range(q \o New(n))
    <3>1. PICK i \in Len(q) + 1 .. Len(q) + n : created + (i - Len(q)) = x
      <4>1. /\ x - created + Len(q) \in Len(q) + 1 .. Len(q) + n
            /\ created + ((x - created + Len(q)) - Len(q)) = x
        BY <1>0, <1>3, SMT
      <4> QED BY <4>1
    <3>2. (q \o New(n))[i] = x  BY <1>5, <3>1
    <3>3. i \in DOMAIN (q \o New(n))  BY <1>0, <1>3, SMT
    <3> QED BY <3>2, <3>3 DEF Range
  <2> QED BY <2>1, <2>2, <2>3 DEF Range
<1> QED BY <1>2, <1>3, <1>4, <1>5, <1>6

(* r holds the n new tasks behind the tasks of q: each task is in it once   *)
(* if it was in q, and every smaller number that is in q or new is ahead    *)
(* of a new one.                                                            *)
Behind(q, r, n) ==
  /\ (\A i \in 1 .. Len(q) : q[i] \in 1 .. created) /\ (\A i, j \in 1 .. Len(q) : q[i] = q[j] => i = j)
       => \A i, j \in 1 .. Len(q) + n : r[i] = r[j] => i = j
  /\ \A j \in Len(q) + 1 .. Len(q) + n :
       /\ r[j] \in created + 1 .. created + n
       /\ \A a \in Range(q) : \E k \in 1 .. j - 1 : r[k] = a
       /\ \A a \in created + 1 .. r[j] - 1 : \E k \in 1 .. j - 1 : r[k] = a

(* New tasks are behind whatever has a smaller number, and there once.     *)
LEMMA NewOrder ==
  ASSUME NEW q \in Seq(Tasks), created \in 0 .. MaxTasks, NEW n \in 1 .. MaxTasks - created
  PROVE  Behind(q, q \o New(n), n)
<1> DEFINE r == q \o New(n)
<1> DEFINE l == Len(q)
<1>0. l \in Nat /\ created \in Nat /\ n \in Nat /\ DOMAIN q = 1 .. l  BY WorkerAssumption, SMT
<1>a. \A i \in 1 .. l : r[i] = q[i]  BY NewTasks
<1>b. \A i \in l + 1 .. l + n : r[i] = created + (i - l)  BY NewTasks
<1> HIDE DEF r, l
<1>1. ASSUME \A i \in 1 .. l : q[i] \in 1 .. created, \A i, j \in 1 .. l : q[i] = q[j] => i = j,
             NEW i \in 1 .. l + n, NEW j \in 1 .. l + n, r[i] = r[j]
      PROVE  i = j
  <2>1. CASE i \in 1 .. l /\ j \in 1 .. l  BY <1>1, <2>1, <1>a
  <2>2. CASE i \in 1 .. l /\ j \in l + 1 .. l + n
    <3>1. r[i] \in 1 .. created /\ r[j] = created + (j - l)  BY <1>1, <2>2, <1>a, <1>b
    <3> QED BY <3>1, <2>2, <1>1, <1>0, SMT
  <2>3. CASE j \in 1 .. l /\ i \in l + 1 .. l + n
    <3>1. r[j] \in 1 .. created /\ r[i] = created + (i - l)  BY <1>1, <2>3, <1>a, <1>b
    <3> QED BY <3>1, <2>3, <1>1, <1>0, SMT
  <2>4. CASE i \in l + 1 .. l + n /\ j \in l + 1 .. l + n
    <3>1. r[i] = created + (i - l) /\ r[j] = created + (j - l)  BY <2>4, <1>b
    <3> QED BY <3>1, <2>4, <1>1, <1>0, SMT
  <2> QED BY <2>1, <2>2, <2>3, <2>4, <1>0, SMT
<1>2. ASSUME NEW j \in l + 1 .. l + n
      PROVE  /\ r[j] \in created + 1 .. created + n
             /\ \A a \in Range(q) : \E k \in 1 .. j - 1 : r[k] = a
             /\ \A a \in created + 1 .. r[j] - 1 : \E k \in 1 .. j - 1 : r[k] = a
  <2>1. r[j] = created + (j - l)  BY <1>b
  <2>2. r[j] \in created + 1 .. created + n  BY <2>1, <1>0, SMT
  <2>3. ASSUME NEW a \in Range(q) PROVE \E k \in 1 .. j - 1 : r[k] = a
    <3>1. PICK k \in 1 .. l : q[k] = a  BY <1>0 DEF Range
    <3> QED BY <3>1, <1>0, <1>a, SMT
  <2>4. ASSUME NEW a \in created + 1 .. r[j] - 1 PROVE \E k \in 1 .. j - 1 : r[k] = a
    <3> DEFINE k == (a - created) + l
    <3>1. k \in l + 1 .. j - 1 /\ created + (k - l) = a  BY <2>1, <1>0, SMT
    <3> HIDE DEF k
    <3>2. k \in l + 1 .. l + n /\ k \in 1 .. j - 1  BY <3>1, <1>0, SMT
    <3>3. r[k] = a  BY <3>1, <3>2, <1>b
    <3> QED BY <3>2, <3>3
  <2> QED BY <2>2, <2>3, <2>4
<1>3. Behind(q, r, n)  BY <1>1, <1>2 DEF Behind, l
<1> QED BY <1>3 DEF r

(* What a queue is after its first task has been taken out.                *)
LEMMA FirstTask ==
  ASSUME NEW q \in Seq(Tasks), q # <<>>
  PROVE  /\ Tail(q) \in Seq(Tasks)
         /\ Len(q) \in Nat \ {0}
         /\ DOMAIN q = 1 .. Len(q)
         /\ DOMAIN Tail(q) = 1 .. Len(q) - 1
         /\ \A i \in 1 .. Len(q) - 1 : Tail(q)[i] = q[i + 1]
         /\ Head(q) = q[1] /\ Head(q) \in Tasks
         /\ Range(q) = {q[1]} \cup Range(Tail(q))
<1>1. /\ Tail(q) \in Seq(Tasks)
      /\ Len(q) \in Nat \ {0}
      /\ DOMAIN q = 1 .. Len(q)
      /\ DOMAIN Tail(q) = 1 .. Len(q) - 1
      /\ \A i \in 1 .. Len(q) - 1 : Tail(q)[i] = q[i + 1]
      /\ Head(q) = q[1] /\ Head(q) \in Tasks
  BY SMT
<1>2. ASSUME NEW i \in DOMAIN q PROVE q[i] \in {q[1]} \cup Range(Tail(q))
  <2>1. CASE i = 1  BY <2>1
  <2>2. CASE i # 1
    <3>1. i - 1 \in DOMAIN Tail(q) /\ Tail(q)[i - 1] = q[i]  BY <1>1, <2>2, SMT
    <3> QED BY <3>1 DEF Range
  <2> QED BY <2>1, <2>2
<1>3. ASSUME NEW i \in DOMAIN Tail(q) PROVE Tail(q)[i] \in Range(q)
  <2>1. i + 1 \in DOMAIN q /\ q[i + 1] = Tail(q)[i]  BY <1>1, SMT
  <2> QED BY <2>1 DEF Range
<1>4. q[1] \in Range(q)  BY <1>1, SMT DEF Range
<1>5. Range(q) = {q[1]} \cup Range(Tail(q))  BY <1>2, <1>3, <1>4 DEF Range
<1> QED BY <1>1, <1>5

(* Basic facts about numbers, for the leaves below.                        *)
LEMMA Numbers ==
  ASSUME IInv
  PROVE  /\ created \in Nat /\ MaxTasks \in Nat /\ created <= MaxTasks /\ running \in Nat
         /\ m_semaphore \in Nat
         /\ Tasks \subseteq Nat \ {0}
BY WorkerAssumption, SMT DEF IInv, TypeOK, Tasks, NoTask

(* What the counting of the threads in Releasing needs to know of finite   *)
(* sets; FiniteSets below derives it from the library.                     *)
Finiteness ==
  /\ Cardinality({}) = 0
  /\ \A S : IsFiniteSet(S) =>
       /\ Cardinality(S) \in Nat
       /\ \A R \in SUBSET S : IsFiniteSet(R)
       /\ \A x \in S : Cardinality(S \ {x}) = Cardinality(S) - 1
       /\ \A x : x \notin S => Cardinality(S \cup {x}) = Cardinality(S) + 1

LEMMA Counts ==
  ASSUME Finiteness
  PROVE  IsFiniteSet(Releasing) /\ Cardinality(Releasing) \in Nat
<1>1. IsFiniteSet(Clients) /\ Releasing \in SUBSET Clients  BY WorkerAssumption DEF Clients, Releasing
<1> QED BY <1>1 DEF Finiteness

(* One thread fewer, one more.                                             *)
LEMMA OneFewer ==
  ASSUME Finiteness, NEW S, IsFiniteSet(S), NEW x \in S
  PROVE  Cardinality(S \ {x}) = Cardinality(S) - 1 /\ Cardinality(S \ {x}) \in Nat
<1>1. S \ {x} \in SUBSET S  OBVIOUS
<1> QED BY <1>1 DEF Finiteness

LEMMA OneMore ==
  ASSUME Finiteness, NEW S, IsFiniteSet(S), NEW x
  PROVE  Cardinality(S \cup {x}) <= Cardinality(S) + 1 /\ Cardinality(S \cup {x}) \in Nat
<1>1. Cardinality(S) \in Nat  BY DEF Finiteness
<1>2. Cardinality(S \cup {x}) = Cardinality(S) \/ Cardinality(S \cup {x}) = Cardinality(S) + 1
  <2>1. CASE x \in S
    <3>1. S \cup {x} = S  BY <2>1
    <3> QED BY <3>1
  <2>2. CASE x \notin S  BY <2>2 DEF Finiteness
  <2> QED BY <2>1, <2>2
<1> QED BY <1>1, <1>2, SMT

(* The executor starts with empty queues.                                  *)
LEMMA InitIInv == ASSUME Finiteness, Init PROVE IInv
<1> USE DEF Init
<1>1. TypeOK
  <2>1. m_semaphore \in 0 .. MaxTasks + 1 /\ created \in 0 .. MaxTasks  BY WorkerAssumption, SMT
  <2>2. /\ m_private_queue \in Seq(Tasks)
        /\ m_public_queue \in Seq(Tasks)
        /\ ran \in Seq(Tasks)
    BY SMT
  <2>3. pc \in [Clients -> {"idle", "release", "store_abort", "notify", "join"}]  OBVIOUS
  <2> QED BY <2>1, <2>2, <2>3 DEF TypeOK, NoTask
<1>2. Control  BY DEF Control, NoTask
<1>3. Tokens
  <2>1. Releasing = {}  BY DEF Releasing
  <2>2. Cardinality(Releasing) = 0  BY <2>1 DEF Finiteness
  <2>3. ~Told  BY DEF Told
  <2> QED BY <2>2, <2>3, SMT DEF Tokens
<1>4. Places  BY SMT DEF Places, Public, Private, Executed, Range, NoTask
<1>5. Order
  BY SMT DEF Order, RunningInOrder, PrivateInOrder, PublicInOrder, NoneMissing, ExecutedInOrder, Past, Public,
     Private, Executed, Range, NoTask
<1> QED BY <1>1, <1>2, <1>3, <1>4, <1>5 DEF IInv

(* Nothing changes.                                                        *)
LEMMA StutterIInv == ASSUME IInv, UNCHANGED vars PROVE IInv'
<1> USE DEF IInv, vars, queues, aborts, history
<1>1. TypeOK'  BY DEF TypeOK
<1>2. Control'  BY DEF Control
<1>3. Tokens'  BY DEF Tokens, Releasing, Told
<1>4. Places'  BY DEF Places, Public, Private, Executed
<1>5. Order'
  BY SMT DEF Order, RunningInOrder, PrivateInOrder, PublicInOrder, NoneMissing, ExecutedInOrder, Past, Public,
     Private, Executed
<1> QED BY <1>1, <1>2, <1>3, <1>4, <1>5

(* The positions of the clients and what they tell each other.             *)
LEMMA SameOrder ==
  ASSUME Order, UNCHANGED <<m_private_queue, m_public_queue, running, created, local, ran>>,
         wpc' = "none" <=> wpc = "none", m_abort => m_abort'
  PROVE  Order'
BY SMT DEF Order, RunningInOrder, PrivateInOrder, PublicInOrder, NoneMissing, ExecutedInOrder, Past, Public,
   Private, Executed

LEMMA SamePlaces ==
  ASSUME Places, UNCHANGED <<m_private_queue, m_public_queue, running, created, local, ran, destroyed>>
  PROVE  Places'
BY DEF Places, Public, Private, Executed

(* One client fewer is about to release the semaphore.                     *)
LEMMA ReleaseIInv == ASSUME Finiteness, IInv, NEW c \in Clients, Release(c) PROVE IInv'
<1> USE DEF IInv, Release, Goto, ReleaseSemaphore, queues, aborts, history
<1>0. /\ created \in Nat /\ m_semaphore \in Nat /\ MaxTasks \in Nat
      /\ IsFiniteSet(Releasing) /\ Cardinality(Releasing) \in Nat
  BY Numbers, Counts
<1>1. Tokens' /\ m_semaphore' \in 0 .. MaxTasks + 1
  <2>1. Releasing' = Releasing \ {c} /\ c \in Releasing  BY DEF TypeOK, Releasing
  <2>2. Cardinality(Releasing') = Cardinality(Releasing) - 1
        /\ Cardinality(Releasing') \in Nat
    BY <2>1, <1>0, OneFewer
  <2>3. Told' <=> Told  BY DEF TypeOK, Told
  <2>4. m_semaphore' \in Nat /\ m_semaphore' <= m_semaphore + 1  BY <1>0, SMT
  <2>5. created' = created /\ created <= MaxTasks  BY SMT DEF TypeOK
  <2> QED BY <2>2, <2>3, <2>4, <2>5, <1>0, SMT DEF Tokens
<1>2. TypeOK'
  <2>1. pc' \in [Clients -> {"idle", "release", "store_abort", "notify", "join"}]  BY DEF TypeOK
  <2> QED BY <1>1, <2>1 DEF TypeOK
<1>3. Control'  BY DEF TypeOK, Control
<1>4. Places'  BY SamePlaces
<1>5. Order'  BY SameOrder
<1> QED BY <1>1, <1>2, <1>3, <1>4, <1>5

(* shutdown() is called, by the first thread to do so.                     *)
LEMMA ShutdownIInv == ASSUME IInv, NEW c \in Clients, Shutdown(c) PROVE IInv'
<1> USE DEF IInv, Shutdown, Goto, queues, aborts, history
<1>1. Tokens'
  <2>1. Releasing' = Releasing  BY DEF TypeOK, Releasing
  <2>2. Told' <=> Told  BY DEF TypeOK, Told
  <2> QED BY <2>1, <2>2 DEF Tokens
<1>2. TypeOK'
  <2>1. pc' \in [Clients -> {"idle", "release", "store_abort", "notify", "join"}]  BY DEF TypeOK
  <2> QED BY <2>1 DEF TypeOK
<1>3. Control'  BY DEF TypeOK, Control
<1>4. Places'  BY SamePlaces
<1>5. Order'  BY SameOrder
<1> QED BY <1>1, <1>2, <1>3, <1>4, <1>5

(* enqueue refuses from here on.                                           *)
LEMMA StoreAbortIInv == ASSUME IInv, NEW c \in Clients, StoreAbort(c) PROVE IInv'
<1> USE DEF IInv, StoreAbort, Goto, queues, aborts, history
<1>1. Tokens'
  <2>1. Releasing' = Releasing  BY DEF TypeOK, Releasing
  <2>2. Told' <=> Told  BY DEF TypeOK, Told
  <2> QED BY <2>1, <2>2 DEF Tokens
<1>2. TypeOK'
  <2>1. pc' \in [Clients -> {"idle", "release", "store_abort", "notify", "join"}]  BY DEF TypeOK
  <2> QED BY <2>1 DEF TypeOK
<1>3. Control'  BY DEF TypeOK, Control
<1>4. Places'  BY SamePlaces
<1>5. Order'  BY SameOrder
<1> QED BY <1>1, <1>2, <1>3, <1>4, <1>5

(* shutdown() releases the semaphore, once.                                *)
LEMMA NotifyAbortIInv == ASSUME Finiteness, IInv, NEW c \in Clients, NotifyAbort(c) PROVE IInv'
<1> USE DEF IInv, NotifyAbort, Goto, ReleaseSemaphore, queues, aborts, history
<1>0. /\ created \in Nat /\ m_semaphore \in Nat /\ MaxTasks \in Nat
      /\ Cardinality(Releasing) \in Nat
  BY Numbers, Counts
<1>1. Tokens' /\ m_semaphore' \in 0 .. MaxTasks + 1
  <2>1. Releasing' = Releasing  BY DEF TypeOK, Releasing
  <2>2. ~Told  BY DEF TypeOK, Told, Control
  <2>3. Told'  BY DEF TypeOK, Told
  <2>4. m_semaphore' \in Nat /\ m_semaphore' <= m_semaphore + 1  BY <1>0, SMT
  <2>5. created' = created /\ created <= MaxTasks  BY SMT DEF TypeOK
  <2> QED BY <2>1, <2>2, <2>3, <2>4, <2>5, <1>0, SMT DEF Tokens
<1>2. TypeOK'
  <2>1. pc' \in [Clients -> {"idle", "release", "store_abort", "notify", "join"}]  BY DEF TypeOK
  <2> QED BY <1>1, <2>1 DEF TypeOK
<1>3. Control'  BY DEF TypeOK, Control
<1>4. Places'  BY SamePlaces
<1>5. Order'  BY SameOrder
<1> QED BY <1>1, <1>2, <1>3, <1>4, <1>5

(* The thread has ended: what is left is destroyed.                        *)
LEMMA JoinIInv == ASSUME IInv, NEW c \in Clients, Join(c) PROVE IInv'
<1> USE DEF IInv, Join, Goto
<1>1. Tokens'
  <2>1. Releasing' = Releasing  BY DEF TypeOK, Releasing
  <2>2. Told' /\ Told  BY DEF TypeOK, Told
  <2> QED BY <2>1, <2>2 DEF Tokens
<1>2. TypeOK'
  <2>1. pc' \in [Clients -> {"idle", "release", "store_abort", "notify", "join"}]  BY DEF TypeOK
  <2>2. Range(m_private_queue) \cup Range(m_public_queue) \subseteq Tasks  BY SMT DEF TypeOK, Range
  <2> QED BY <2>1, <2>2, SMT DEF TypeOK
<1>3. Control'  BY DEF TypeOK, Control
<1>4. Places'
  <2>1. Private' = {} /\ Public' = {}  BY SMT DEF Private, Public, Range
  <2>2. running = NoTask  BY DEF Control
  <2>3. running \notin Private \cup Public \cup destroyed  BY DEF Places
  <2> QED BY <2>1, <2>2, <2>3, SMT DEF Places, Private, Public, Executed
<1>5. Order'
  <2>1. Private' = {} /\ Public' = {}  BY SMT DEF Private, Public, Range
  <2> QED
    BY <2>1, SMT DEF Order, RunningInOrder, PrivateInOrder, PublicInOrder, NoneMissing, ExecutedInOrder, Past,
       Executed, Control
<1> QED BY <1>1, <1>2, <1>3, <1>4, <1>5

(* The thread takes the whole public queue, its own being empty, or waits. *)
LEMMA DrainQueueIInv == ASSUME IInv, DrainQueue PROVE IInv'
<1> USE DEF IInv, DrainQueue, aborts, history
<1>0. m_private_queue = <<>>  BY DEF TypeOK
<1>1. Tokens'  BY DEF Tokens, Releasing, Told
<1>2. TypeOK'  BY <1>0 DEF TypeOK, queues
<1>3. Control'  BY <1>0 DEF Control, queues
<1>4. CASE UNCHANGED queues
  <2>1. Places'  BY <1>4, SamePlaces DEF queues
  <2>2. Order'
    BY <1>4, <1>0, SMT DEF queues, Order, RunningInOrder, PrivateInOrder, PublicInOrder, NoneMissing,
       ExecutedInOrder, Past, Public, Private, Executed
  <2> QED BY <1>1, <1>2, <1>3, <2>1, <2>2
<1>5. CASE ~m_abort /\ m_private_queue' = m_public_queue /\ m_public_queue' = m_private_queue
  <2>1. Private' = Public /\ Public' = Private /\ Executed' = Executed /\ Private = {}
    BY <1>5, <1>0, SMT DEF Private, Public, Executed, Range
  <2>2. Places'  BY <1>5, <1>0, <2>1, SMT DEF Places
  <2>3. RunningInOrder' /\ ExecutedInOrder'  BY <2>1, SMT DEF Order, RunningInOrder, ExecutedInOrder
  <2>4. PrivateInOrder'
    <3> SUFFICES ASSUME NEW j \in DOMAIN m_public_queue, NEW a \in 1 .. m_public_queue[j] - 1,
                        a \in local <=> m_public_queue[j] \in local
                 PROVE  Past(a) \/ \E k \in 1 .. j - 1 : m_public_queue[k] = a
      BY <1>5, <2>1, SMT DEF PrivateInOrder, Past
    <3>1. m_public_queue[j] \in Public  BY DEF Public, Range
    <3>2. a \notin local  BY <3>1 DEF Order, PublicInOrder
    <3> QED BY <3>2, <2>1 DEF Order, PublicInOrder
  <2>5. PublicInOrder'  BY <1>5, <1>0, <2>1, SMT DEF PublicInOrder
  <2>6. NoneMissing'  BY <2>1 DEF Order, NoneMissing, Past
  <2> QED BY <1>1, <1>2, <1>3, <2>2, <2>3, <2>4, <2>5, <2>6 DEF Order
<1> QED BY <1>4, <1>5

LEMMA AcquireIInv == ASSUME Finiteness, IInv, Acquire PROVE IInv'
<1> USE DEF IInv, Acquire, queues, aborts, history
<1>0. /\ created \in Nat /\ m_semaphore \in Nat /\ MaxTasks \in Nat
      /\ Cardinality(Releasing) \in Nat
  BY Numbers, Counts
<1>1. Tokens'
  <2>1. Releasing' = Releasing /\ (Told' <=> Told)  BY DEF Releasing, Told
  <2> QED BY <2>1, <1>0, SMT DEF Tokens
<1>2. TypeOK'  BY <1>0, SMT DEF TypeOK
<1>3. Control'  BY DEF Control
<1>4. Places'  BY SamePlaces
<1>5. Order'  BY SameOrder
<1> QED BY <1>1, <1>2, <1>3, <1>4, <1>5

(* The first task of the private queue is executed.                        *)
LEMMA PopTaskIInv == ASSUME IInv, PopTask PROVE IInv'
<1>0. /\ wpc = "loop"
      /\ UNCHANGED <<m_public_queue, m_semaphore, m_abort, m_atomic_abort, shut, pc, created, local,
                      ran, destroyed>>
  BY DEF PopTask, aborts, history
<1>1. CASE m_private_queue = <<>>
  <2>0. wpc' = "drain" /\ UNCHANGED <<m_private_queue, running>>  BY <1>1 DEF PopTask
  <2>1. Tokens'  BY <1>0, <2>0 DEF IInv, Tokens, Releasing, Told
  <2>2. TypeOK'  BY <1>0, <2>0, <1>1 DEF IInv, TypeOK
  <2>3. Control'  BY <1>0, <2>0 DEF IInv, Control
  <2>4. Places'  BY <1>0, <2>0, SamePlaces DEF IInv
  <2>5. Order'  BY <1>0, <2>0, SameOrder DEF IInv
  <2> QED BY <2>1, <2>2, <2>3, <2>4, <2>5 DEF IInv
<1>2. CASE m_private_queue # <<>>
  <2>0. /\ running' = Head(m_private_queue)
        /\ m_private_queue' = Tail(m_private_queue)
        /\ wpc' = "run"
    BY <1>2 DEF PopTask, m_private_atomic_abort
  <2>a. /\ m_private_queue' \in Seq(Tasks)
        /\ Len(m_private_queue) \in Nat \ {0}
        /\ DOMAIN m_private_queue = 1 .. Len(m_private_queue)
        /\ DOMAIN m_private_queue' = 1 .. Len(m_private_queue) - 1
        /\ \A i \in 1 .. Len(m_private_queue) - 1 : m_private_queue'[i] = m_private_queue[i + 1]
        /\ running' = m_private_queue[1] /\ running' \in Tasks
        /\ Private = {running'} \cup Private'
    BY <2>0, <1>2, FirstTask DEF IInv, TypeOK, Private
  <2>b. running = NoTask /\ created \in Nat /\ MaxTasks \in Nat /\ Tasks \subseteq Nat \ {0}
    BY <1>0, Numbers DEF IInv, Control
  <2>c. Public' = Public /\ Executed' = Executed  BY <1>0 DEF Public, Executed
  <2>1. Tokens'  BY <1>0 DEF IInv, Tokens, Releasing, Told
  <2>2. TypeOK'  BY <1>0, <2>0, <2>a DEF IInv, TypeOK
  <2>3. Control'  BY <1>0, <2>0, <2>a, <2>b DEF IInv, Control, NoTask
  <2>d. running' \notin Private'
    <3> SUFFICES ASSUME NEW i \in 1 .. Len(m_private_queue) - 1, m_private_queue'[i] = running'
                 PROVE  FALSE
      BY <2>a DEF Private, Range
    <3>1. i + 1 \in DOMAIN m_private_queue /\ i + 1 # 1 /\ m_private_queue[i + 1] = m_private_queue[1]
          /\ 1 \in DOMAIN m_private_queue
      BY <2>a, SMT
    <3> QED BY <3>1 DEF IInv, Places
  <2>e. \A i, j \in DOMAIN m_private_queue' : m_private_queue'[i] = m_private_queue'[j] => i = j
    <3> SUFFICES ASSUME NEW i \in 1 .. Len(m_private_queue) - 1, NEW j \in 1 .. Len(m_private_queue) - 1,
                        m_private_queue'[i] = m_private_queue'[j]
                 PROVE  i = j
      BY <2>a
    <3>1. /\ i + 1 \in DOMAIN m_private_queue /\ j + 1 \in DOMAIN m_private_queue
          /\ m_private_queue[i + 1] = m_private_queue[j + 1]
      BY <2>a, SMT
    <3>2. i + 1 = j + 1  BY <3>1 DEF IInv, Places
    <3> QED BY <3>2, SMT
  <2>4. Places'  BY <1>0, <2>a, <2>b, <2>c, <2>d, <2>e, SMT DEF IInv, Places
  <2>5. RunningInOrder'
    <3> SUFFICES ASSUME NEW a \in 1 .. m_private_queue[1] - 1,
                        a \in local <=> m_private_queue[1] \in local
                 PROVE  a \in Executed
      BY <1>0, <2>a, <2>c DEF RunningInOrder
    <3>1. Past(a) \/ \E k \in 1 .. 1 - 1 : m_private_queue[k] = a
      <4>1. \A n \in Nat \ {0} : 1 \in 1 .. n  BY SMT
      <4>2. 1 \in DOMAIN m_private_queue  BY <2>a, <4>1
      <4> QED BY <4>2 DEF IInv, Order, PrivateInOrder
    <3>2. a # NoTask  BY SMT DEF NoTask
    <3> QED BY <3>1, <3>2, <2>b, SMT DEF Past
  <2>6. PrivateInOrder'
    <3> SUFFICES ASSUME NEW j \in 1 .. Len(m_private_queue) - 1, NEW a \in 1 .. m_private_queue'[j] - 1,
                        a \in local <=> m_private_queue'[j] \in local
                 PROVE  a \in Executed \/ a = running' \/ \E k \in 1 .. j - 1 : m_private_queue'[k] = a
      BY <1>0, <2>a, <2>c DEF PrivateInOrder, Past
    <3>1. j + 1 \in DOMAIN m_private_queue /\ m_private_queue'[j] = m_private_queue[j + 1]  BY <2>a, SMT
    <3>2. Past(a) \/ \E k \in 1 .. (j + 1) - 1 : m_private_queue[k] = a
      BY <3>1 DEF IInv, Order, PrivateInOrder
    <3>3. a # NoTask  BY SMT DEF NoTask
    <3>4. CASE Past(a)  BY <3>3, <3>4, <2>b DEF Past
    <3>5. ASSUME NEW k \in 1 .. (j + 1) - 1, m_private_queue[k] = a, k # 1
          PROVE  \E i \in 1 .. j - 1 : m_private_queue'[i] = a
      <4>1. k - 1 \in 1 .. j - 1 /\ m_private_queue'[k - 1] = m_private_queue[k]  BY <3>5, <2>a, SMT
      <4> QED BY <4>1, <3>5
    <3> QED BY <3>2, <3>4, <3>5, <2>a
  <2>7. PublicInOrder'  BY <1>0, <2>a, <2>b, <2>c, SMT DEF IInv, Order, PublicInOrder, Past, NoTask
  <2>8. NoneMissing'
    <3>1. \A a : Past(a) \/ a \in Private => a = NoTask \/ Past(a)' \/ a \in Private'
      BY <2>a, <2>b, <2>c DEF Past
    <3>2. NoTask \notin local /\ NoTask \notin 1 .. created  BY <2>b, SMT DEF IInv, Places, NoTask
    <3> QED BY <1>0, <2>0, <2>c, <3>1, <3>2 DEF IInv, Order, NoneMissing
  <2>9. ExecutedInOrder'  BY <1>0, SMT DEF IInv, Order, ExecutedInOrder
  <2> QED BY <2>1, <2>2, <2>3, <2>4, <2>5, <2>6, <2>7, <2>8, <2>9 DEF IInv, Order
<1> QED BY <1>1, <1>2

(* The task returns.                                                       *)
LEMMA FinishTaskIInv == ASSUME IInv, FinishTask PROVE IInv'
<1>0. /\ wpc = "run" /\ wpc' = "loop"
      /\ ran' = Append(ran, running)
      /\ running' = NoTask
      /\ UNCHANGED <<m_private_queue, m_public_queue, m_semaphore, m_abort, m_atomic_abort, shut, pc,
                      created, local, destroyed>>
  BY DEF FinishTask, queues, aborts
<1>a. running \in Tasks /\ created \in Nat /\ Tasks \subseteq Nat \ {0} /\ ran \in Seq(Tasks)
  BY <1>0, Numbers DEF IInv, Control, TypeOK, NoTask
<1>b. /\ ran' \in Seq(Tasks)
      /\ Len(ran) \in Nat
      /\ DOMAIN ran = 1 .. Len(ran)
      /\ DOMAIN ran' = 1 .. Len(ran) + 1
      /\ \A i \in 1 .. Len(ran) : ran'[i] = ran[i]
      /\ ran'[Len(ran) + 1] = running
  BY <1>0, <1>a, SMT
<1>c. Executed' = Executed \cup {running}  BY <1>b, SMT DEF Executed, Range
<1>d. Private' = Private /\ Public' = Public /\ NoTask \notin 1 .. created
  BY <1>0, <1>a, SMT DEF Private, Public, NoTask
<1>1. Tokens'  BY <1>0 DEF IInv, Tokens, Releasing, Told
<1>2. TypeOK'  BY <1>0, <1>b DEF IInv, TypeOK
<1>3. Control'  BY <1>0 DEF IInv, Control
<1>4. Places'
  <2>1. running \in 1 .. created  BY <1>a, SMT DEF IInv, Places
  <2> QED BY <1>0, <1>a, <1>c, <1>d, <2>1, SMT DEF IInv, Places, NoTask
<1>5. \A a : a # NoTask => (Past(a)' <=> Past(a))  BY <1>0, <1>c DEF Past
<1>6. RunningInOrder'  BY <1>0, SMT DEF RunningInOrder, NoTask
<1>7. PrivateInOrder'  BY <1>0, <1>5, SMT DEF IInv, Order, PrivateInOrder, NoTask
<1>8. PublicInOrder'  BY <1>0, <1>5, <1>d, SMT DEF IInv, Order, PublicInOrder, NoTask
<1>9. NoneMissing'
  <2>1. NoTask \notin local  BY <1>d DEF IInv, Places
  <2> QED BY <1>0, <1>5, <1>d, <2>1 DEF IInv, Order, NoneMissing
<1>10. ExecutedInOrder'
  <2> SUFFICES ASSUME NEW b \in 1 .. Len(ran) + 1, NEW a \in 1 .. ran'[b] - 1,
                      a \in local <=> ran'[b] \in local
               PROVE  \E k \in 1 .. b - 1 : ran'[k] = a
    BY <1>0, <1>b, SMT DEF ExecutedInOrder
  <2>1. CASE b = Len(ran) + 1
    <3>1. a \in Executed  BY <2>1, <1>b DEF IInv, Order, RunningInOrder
    <3> QED BY <3>1, <2>1, <1>b, SMT DEF Executed, Range
  <2>2. CASE b \in 1 .. Len(ran)
    <3>1. \E k \in 1 .. b - 1 : ran[k] = a  BY <2>2, <1>b DEF IInv, Order, ExecutedInOrder
    <3> QED BY <3>1, <2>2, <1>b, SMT
  <2> QED BY <2>1, <2>2, <1>b, SMT
<1> QED BY <1>1, <1>2, <1>3, <1>4, <1>6, <1>7, <1>8, <1>9, <1>10 DEF IInv, Order

(* What is new has a higher number than whatever there is.                 *)
LEMMA NewNumbers ==
  ASSUME IInv, NEW n \in 1 .. MaxTasks - created
  PROVE  /\ created \in Nat /\ n \in Nat \ {0} /\ created + n \in 0 .. MaxTasks
         /\ created + 1 .. created + n \subseteq Tasks
         /\ \A x \in created + 1 .. created + n :
              /\ x \notin Public \cup Private \cup Executed \cup destroyed \cup local
              /\ x # running /\ x \in Nat /\ x > created
<1>1. created \in Nat /\ MaxTasks \in Nat /\ running \in Nat /\ running <= created
  BY Numbers DEF IInv, Places
<1>2. n \in Nat \ {0} /\ created + n \in 0 .. MaxTasks  BY <1>1, SMT
<1>3. created + 1 .. created + n \subseteq Tasks  BY <1>1, <1>2, SMT DEF Tasks
<1>4. \A x \in created + 1 .. created + n : x \notin 1 .. created /\ x # running /\ x \in Nat /\ x > created
  BY <1>1, <1>2, SMT
<1> QED BY <1>1, <1>2, <1>3, <1>4 DEF IInv, Places

(* Tasks of another thread enter the public queue; too late, they are      *)
(* destroyed.                                                              *)
LEMMA EnqueueForeignIInv == ASSUME Finiteness, IInv, NEW c \in Clients, EnqueueForeign(c) PROVE IInv'
<1>1. PICK n \in 1 .. MaxTasks - created :
       /\ created' = created + n
       /\ \/ /\ m_abort
             /\ destroyed' = destroyed \cup Range(New(n))
             /\ UNCHANGED <<m_public_queue, pc>>
          \/ /\ ~m_abort
             /\ m_public_queue' = m_public_queue \o New(n)
             /\ Goto(c, "idle", IF m_public_queue = <<>> THEN "release" ELSE "idle")
             /\ UNCHANGED destroyed
  BY DEF EnqueueForeign
<1>2. UNCHANGED <<m_private_queue, m_semaphore, m_abort, m_atomic_abort, shut, wpc, running, local, ran>>
  BY DEF EnqueueForeign, aborts
<1>0. /\ created + n \in 0 .. MaxTasks /\ n \in Nat \ {0} /\ created \in Nat
      /\ running \in Nat /\ running <= created /\ MaxTasks \in Nat
      /\ m_semaphore \in Nat /\ IsFiniteSet(Releasing) /\ Cardinality(Releasing) \in Nat
      /\ created + 1 .. created + n \subseteq Tasks
      /\ 1 .. created \cup (created + 1 .. created + n) = 1 .. created'
  <2>1. created \in Nat /\ MaxTasks \in Nat /\ running \in Nat /\ running <= created
    BY Numbers DEF IInv, Places
  <2>2. created + n \in 0 .. MaxTasks /\ n \in Nat \ {0}  BY <1>1, <2>1, SMT
  <2>3. m_semaphore \in Nat /\ IsFiniteSet(Releasing) /\ Cardinality(Releasing) \in Nat  BY Numbers, Counts
  <2>4. created + 1 .. created + n \subseteq Tasks  BY NewNumbers
  <2>5. 1 .. created \cup (created + 1 .. created + n) = 1 .. created'  BY <1>1, <2>1, <2>2, SMT
  <2> QED BY <2>1, <2>2, <2>3, <2>4, <2>5
<1>b. Private' = Private /\ Executed' = Executed  BY <1>2 DEF Private, Executed
<1>c. \A x \in created + 1 .. created + n :
        /\ x \notin Public \cup Private \cup Executed \cup destroyed \cup local
        /\ x # running
  BY NewNumbers
<1>3. CASE m_abort
  <2>0. /\ destroyed' = destroyed \cup (created + 1 .. created + n)
        /\ UNCHANGED <<m_public_queue, pc>>
    BY <1>3, <1>1, NewTasks DEF IInv, TypeOK
  <2>1. Tokens'
    <3>1. Releasing' = Releasing /\ (Told' <=> Told)  BY <2>0, <1>2 DEF Releasing, Told
    <3> QED BY <1>0, <1>1, <1>2, <3>1, SMT DEF IInv, Tokens
  <2>2. TypeOK'
    <3>1. local' \cup destroyed' \subseteq Tasks /\ created' \in 0 .. MaxTasks
      BY <1>0, <1>1, <1>2, <2>0 DEF IInv, TypeOK
    <3> QED BY <3>1, <1>2, <2>0 DEF IInv, TypeOK
  <2>3. Control'  BY <1>2, <2>0 DEF IInv, Control
  <2>4. Public' = Public  BY <2>0 DEF Public
  <2>5. Places'
    <3>1. running <= created'  BY <1>0, <1>1, SMT
    <3> QED BY <1>0, <1>2, <1>b, <1>c, <2>0, <2>4, <3>1 DEF IInv, Places
  <2>6. Order'
    BY <1>2, <1>3, <1>b, <2>0, <2>4, SMT DEF IInv, Order, RunningInOrder, PrivateInOrder, PublicInOrder,
       NoneMissing, ExecutedInOrder, Past
  <2> QED BY <2>1, <2>2, <2>3, <2>5, <2>6 DEF IInv
<1>4. CASE ~m_abort
  <2>0. /\ m_public_queue' = m_public_queue \o New(n)
        /\ Goto(c, "idle", IF m_public_queue = <<>> THEN "release" ELSE "idle")
        /\ UNCHANGED destroyed
    BY <1>4, <1>1
  <2>a. m_public_queue \in Seq(Tasks) /\ created \in 0 .. MaxTasks  BY DEF IInv, TypeOK
  <2>b. /\ m_public_queue' \in Seq(Tasks)
        /\ Len(m_public_queue) \in Nat
        /\ DOMAIN m_public_queue = 1 .. Len(m_public_queue)
        /\ DOMAIN m_public_queue' = 1 .. Len(m_public_queue) + n
        /\ \A i \in 1 .. Len(m_public_queue) : m_public_queue'[i] = m_public_queue[i]
        /\ \A i \in Len(m_public_queue) + 1 .. Len(m_public_queue) + n :
              m_public_queue'[i] = created + (i - Len(m_public_queue))
        /\ Public' = Public \cup (created + 1 .. created + n)
    BY <2>a, <2>0, NewTasks DEF Public
  <2>c. /\ (\A i \in 1 .. Len(m_public_queue) : m_public_queue[i] \in 1 .. created)
              /\ (\A i, j \in 1 .. Len(m_public_queue) : m_public_queue[i] = m_public_queue[j] => i = j)
            => \A i, j \in 1 .. Len(m_public_queue) + n : m_public_queue'[i] = m_public_queue'[j] => i = j
        /\ \A j \in Len(m_public_queue) + 1 .. Len(m_public_queue) + n :
             /\ \A a \in Public : \E k \in 1 .. j - 1 : m_public_queue'[k] = a
             /\ \A a \in created + 1 .. m_public_queue'[j] - 1 : \E k \in 1 .. j - 1 : m_public_queue'[k] = a
    <3>1. Behind(m_public_queue, m_public_queue \o New(n), n)  BY <2>a, NewOrder
    <3>2. Behind(m_public_queue, m_public_queue', n)  BY <3>1, <2>0
    <3> QED BY <3>2 DEF Behind, Public
  <2>1. Tokens'
    <3>1. Told' <=> Told  BY <2>0, <1>2 DEF IInv, TypeOK, Told, Goto
    <3>2. Releasing' = Releasing \/ Releasing' = Releasing \cup {c}  BY <2>0 DEF IInv, TypeOK, Releasing, Goto
    <3>3. /\ Cardinality(Releasing \cup {c}) <= Cardinality(Releasing) + 1
          /\ Cardinality(Releasing \cup {c}) \in Nat
      BY <1>0, OneMore
    <3>4. Cardinality(Releasing') <= Cardinality(Releasing) + 1 /\ Cardinality(Releasing') \in Nat
      <4>1. CASE Releasing' = Releasing  BY <4>1, <1>0, SMT
      <4>2. CASE Releasing' = Releasing \cup {c}  BY <4>2, <3>3
      <4> QED BY <3>2, <4>1, <4>2
    <3> QED BY <1>0, <1>1, <1>2, <3>1, <3>4, SMT DEF IInv, Tokens
  <2>2. TypeOK'
    <3>1. pc' \in [Clients -> {"idle", "release", "store_abort", "notify", "join"}]
      BY <2>0 DEF IInv, TypeOK, Goto
    <3> QED BY <1>0, <1>1, <1>2, <2>0, <2>b, <3>1 DEF IInv, TypeOK
  <2>3. Control'
    <3>1. wpc # "none" /\ ~shut  BY <1>4 DEF IInv, Control
    <3> QED BY <3>1, <1>2, <2>0 DEF IInv, TypeOK, Control, Goto
  <2>4. Places'
    <3>1. running <= created'  BY <1>0, <1>1, SMT
    <3>2. \A i \in 1 .. Len(m_public_queue) : m_public_queue[i] \in Public  BY <2>b DEF Public, Range
    <3>3. \A i, j \in DOMAIN m_public_queue' : m_public_queue'[i] = m_public_queue'[j] => i = j
      BY <2>b, <2>c, <3>2 DEF IInv, Places
    <3> QED BY <1>0, <1>2, <1>b, <1>c, <2>0, <2>b, <3>1, <3>3 DEF IInv, Places
  <2>5. RunningInOrder' /\ PrivateInOrder' /\ ExecutedInOrder'
    BY <1>2, <1>b, SMT DEF IInv, Order, RunningInOrder, PrivateInOrder, ExecutedInOrder, Past
  <2>6. PublicInOrder'
    <3>1. Public' \cap local' = {}  BY <1>2, <2>b, <1>c DEF IInv, Order, PublicInOrder
    <3>2. ASSUME NEW j \in DOMAIN m_public_queue', NEW a \in 1 .. m_public_queue'[j] - 1, a \notin local
          PROVE  Past(a) \/ a \in Private \/ \E k \in 1 .. j - 1 : m_public_queue'[k] = a
      <4>1. CASE j \in 1 .. Len(m_public_queue)
        <5>1. Past(a) \/ a \in Private \/ \E k \in 1 .. j - 1 : m_public_queue[k] = a
          BY <4>1, <3>2, <2>b DEF IInv, Order, PublicInOrder
        <5> QED BY <5>1, <4>1, <2>b, SMT
      <4>2. CASE j \in Len(m_public_queue) + 1 .. Len(m_public_queue) + n /\ a \in 1 .. created
        <5>1. Past(a) \/ a \in Private \/ a \in Public  BY <4>2, <3>2, <1>4 DEF IInv, Order, NoneMissing
        <5> QED BY <5>1, <4>2, <2>c
      <4>3. CASE j \in Len(m_public_queue) + 1 .. Len(m_public_queue) + n /\ a \notin 1 .. created
        <5>1. m_public_queue'[j] \in Nat  BY <4>3, <2>b, <1>0, SMT
        <5>2. a \in created + 1 .. m_public_queue'[j] - 1  BY <5>1, <4>3, <1>0, SMT
        <5> QED BY <5>2, <4>3, <2>c
      <4>4. j \in 1 .. Len(m_public_queue) \/ j \in Len(m_public_queue) + 1 .. Len(m_public_queue) + n
        BY <2>b, <1>0, SMT
      <4> QED BY <4>1, <4>2, <4>3, <4>4
    <3> QED BY <3>1, <3>2, <1>2, <1>b DEF PublicInOrder, Past
  <2>7. NoneMissing'  BY <1>0, <1>2, <1>b, <2>b DEF IInv, Order, NoneMissing, Past
  <2> QED BY <2>1, <2>2, <2>3, <2>4, <2>5, <2>6, <2>7 DEF IInv, Order
<1> QED BY <1>3, <1>4

(* Tasks of the task that runs enter the private queue, before what comes  *)
(* from the public one.                                                    *)
LEMMA EnqueueLocalIInv == ASSUME Finiteness, IInv, EnqueueLocal PROVE IInv'
<1>1. PICK n \in 1 .. MaxTasks - created :
        /\ created' = created + n
        /\ local' = local \cup Range(New(n))
        /\ m_private_queue' = m_private_queue \o New(n)
        /\ UNCHANGED destroyed
  BY DEF EnqueueLocal, m_private_atomic_abort
<1>2. wpc = "run" /\ UNCHANGED <<m_public_queue, m_semaphore, m_abort, m_atomic_abort, shut, wpc, pc,
                                running, ran>>
  BY DEF EnqueueLocal, aborts
<1>0. /\ created + n \in 0 .. MaxTasks /\ n \in Nat \ {0} /\ created \in Nat
      /\ running \in Nat /\ running <= created /\ MaxTasks \in Nat
      /\ created + 1 .. created + n \subseteq Tasks
  BY NewNumbers, Numbers DEF IInv, Places
<1>a. /\ m_private_queue' \in Seq(Tasks)
      /\ Len(m_private_queue) \in Nat
      /\ DOMAIN m_private_queue = 1 .. Len(m_private_queue)
      /\ DOMAIN m_private_queue' = 1 .. Len(m_private_queue) + n
      /\ \A i \in 1 .. Len(m_private_queue) : m_private_queue'[i] = m_private_queue[i]
      /\ \A i \in Len(m_private_queue) + 1 .. Len(m_private_queue) + n :
            m_private_queue'[i] = created + (i - Len(m_private_queue))
      /\ Private' = Private \cup (created + 1 .. created + n)
      /\ local' = local \cup (created + 1 .. created + n)
  <2>1. m_private_queue \in Seq(Tasks) /\ created \in 0 .. MaxTasks  BY DEF IInv, TypeOK
  <2> QED BY <2>1, <1>1, NewTasks DEF Private
<1>e. /\ (\A i \in 1 .. Len(m_private_queue) : m_private_queue[i] \in 1 .. created)
            /\ (\A i, j \in 1 .. Len(m_private_queue) : m_private_queue[i] = m_private_queue[j] => i = j)
          => \A i, j \in 1 .. Len(m_private_queue) + n : m_private_queue'[i] = m_private_queue'[j] => i = j
      /\ \A j \in Len(m_private_queue) + 1 .. Len(m_private_queue) + n :
           /\ m_private_queue'[j] \in created + 1 .. created + n
           /\ \A a \in Private : \E k \in 1 .. j - 1 : m_private_queue'[k] = a
           /\ \A a \in created + 1 .. m_private_queue'[j] - 1 : \E k \in 1 .. j - 1 : m_private_queue'[k] = a
  <2>1. m_private_queue \in Seq(Tasks) /\ created \in 0 .. MaxTasks  BY DEF IInv, TypeOK
  <2>2. Behind(m_private_queue, m_private_queue \o New(n), n)  BY <2>1, NewOrder
  <2>3. Behind(m_private_queue, m_private_queue', n)  BY <2>2, <1>1
  <2> QED BY <2>3 DEF Behind, Private
<1>b. Public' = Public /\ Executed' = Executed  BY <1>2 DEF Public, Executed
<1>c. \A x \in created + 1 .. created + n :
        /\ x \notin Public \cup Private \cup Executed \cup destroyed \cup local
        /\ x # running
  BY NewNumbers
<1>d. \A x \in 1 .. created : x \in local' <=> x \in local  BY <1>0, <1>a, SMT
<1>3. Tokens'
  <2>1. Releasing' = Releasing /\ (Told' <=> Told)  BY <1>2 DEF Releasing, Told
  <2>2. m_semaphore \in Nat /\ Cardinality(Releasing) \in Nat  BY Numbers, Counts
  <2> QED BY <1>0, <1>1, <1>2, <2>1, <2>2, SMT DEF IInv, Tokens
<1>4. TypeOK'
  <2>1. created' \in 0 .. MaxTasks /\ local' \cup destroyed' \subseteq Tasks
    BY <1>0, <1>1, <1>a DEF IInv, TypeOK
  <2> QED BY <1>2, <1>a, <2>1 DEF IInv, TypeOK
<1>5. Control'  BY <1>2 DEF IInv, Control
<1>6. Places'
  <2>1. 1 .. created \cup (created + 1 .. created + n) \subseteq 1 .. created' /\ running <= created'
    BY <1>0, <1>1, SMT
  <2>2. \A i, j \in DOMAIN m_private_queue' : m_private_queue'[i] = m_private_queue'[j] => i = j
    <3>1. \A i \in 1 .. Len(m_private_queue) : m_private_queue[i] \in Private  BY <1>a DEF Private, Range
    <3> QED BY <1>a, <1>e, <3>1 DEF IInv, Places
  <2>3. Private' = Private \cup (created + 1 .. created + n) /\ local' = local \cup (created + 1 .. created + n)
    BY <1>a
  <2>4. UNCHANGED <<m_public_queue, running, destroyed>>  BY <1>1, <1>2
  <2>5. /\ Public' \cup Private' \cup Executed' \cup destroyed' \cup local' \subseteq 1 .. created'
        /\ running' <= created'
    BY <1>b, <2>1, <2>3, <2>4 DEF IInv, Places
  <2>6. /\ Private' \cap Public' = {}
        /\ Executed' \cap (Private' \cup Public') = {}
        /\ destroyed' \cap (Private' \cup Public') = {}
        /\ running' \notin Private' \cup Public' \cup Executed' \cup destroyed'
    BY <1>b, <1>c, <2>3, <2>4 DEF IInv, Places
  <2> QED BY <2>2, <2>4, <2>5, <2>6 DEF IInv, Places
<1>7. RunningInOrder'
  <2>1. \A a \in 1 .. running - 1 : a \in 1 .. created  BY <1>0, SMT
  <2>2. running \in 1 .. created  BY <1>0, <1>2, SMT DEF IInv, Control, NoTask
  <2> QED BY <1>2, <1>b, <1>d, <2>1, <2>2 DEF IInv, Order, RunningInOrder
<1>8. ExecutedInOrder'
  <2>1. \A b \in DOMAIN ran : ran[b] \in 1 .. created  BY DEF IInv, Places, Executed, Range
  <2>2. \A b \in DOMAIN ran : \A a \in 1 .. ran[b] - 1 : a \in 1 .. created  BY <2>1, <1>0, SMT
  <2> QED BY <1>2, <1>d, <2>1, <2>2, SMT DEF IInv, Order, ExecutedInOrder
<1>9. PublicInOrder'
  <2>1. \A b \in DOMAIN m_public_queue : m_public_queue[b] \in 1 .. created
    BY DEF IInv, Places, Public, Range
  <2>2. \A b \in DOMAIN m_public_queue : \A a \in 1 .. m_public_queue[b] - 1 : a \in 1 .. created
    BY <2>1, <1>0, SMT
  <2> QED BY <1>2, <1>a, <1>b, <1>c, <1>d, <2>2, SMT DEF IInv, Order, PublicInOrder, Past
<1>10. NoneMissing'
  <2>1. \A a \in 1 .. created' : a \in 1 .. created \/ a \in created + 1 .. created + n  BY <1>0, <1>1, SMT
  <2> QED BY <2>1, <1>2, <1>a, <1>b DEF IInv, Order, NoneMissing, Past
<1>11. PrivateInOrder'
  <2> SUFFICES ASSUME NEW j \in 1 .. Len(m_private_queue) + n, NEW a \in 1 .. m_private_queue'[j] - 1,
                      a \in local' <=> m_private_queue'[j] \in local'
               PROVE  Past(a) \/ \E k \in 1 .. j - 1 : m_private_queue'[k] = a
    BY <1>2, <1>a, <1>b DEF PrivateInOrder, Past
  <2>1. CASE j \in 1 .. Len(m_private_queue)
    <3>1. m_private_queue[j] \in 1 .. created /\ a \in 1 .. created /\ m_private_queue'[j] = m_private_queue[j]
      BY <2>1, <1>0, <1>a, SMT DEF IInv, Places, Private, Range
    <3>2. Past(a) \/ \E k \in 1 .. j - 1 : m_private_queue[k] = a
      BY <2>1, <3>1, <1>a, <1>d DEF IInv, Order, PrivateInOrder
    <3> QED BY <3>2, <2>1, <1>a, SMT
  <2>2. CASE j \in Len(m_private_queue) + 1 .. Len(m_private_queue) + n
    <3>0. m_private_queue'[j] \in created + 1 .. created + n /\ a \in local'  BY <2>2, <1>a, <1>e
    <3>1. CASE a \in local
      <4>1. Past(a) \/ a \in Private  BY <3>1, <1>2 DEF IInv, Order, NoneMissing
      <4> QED BY <4>1, <2>2, <1>e
    <3>2. CASE a \notin local
      <4>1. a \in created + 1 .. m_private_queue'[j] - 1  BY <3>0, <3>2, <1>a, <1>0, SMT
      <4> QED BY <4>1, <2>2, <1>e
    <3> QED BY <3>1, <3>2
  <2> QED BY <2>1, <2>2, <1>0, <1>a, SMT
<1> QED BY <1>3, <1>4, <1>5, <1>6, <1>7, <1>8, <1>9, <1>10, <1>11 DEF IInv, Order

(* Every step keeps the invariant.                                         *)
LEMMA NextIInv == ASSUME Finiteness, IInv, [Next]_vars PROVE IInv'
<1>1. CASE UNCHANGED vars  BY <1>1, StutterIInv
<1>2. CASE WorkLoop  BY <1>2, DrainQueueIInv, AcquireIInv, PopTaskIInv, FinishTaskIInv DEF WorkLoop
<1>3. CASE EnqueueLocal  BY <1>3, EnqueueLocalIInv
<1>4. ASSUME NEW c \in Clients, ClientSteps(c) PROVE IInv'
  BY <1>4, ReleaseIInv, StoreAbortIInv, NotifyAbortIInv, JoinIInv DEF ClientSteps
<1>5. ASSUME NEW c \in Clients, EnqueueForeign(c) PROVE IInv'  BY <1>5, EnqueueForeignIInv
<1>6. ASSUME NEW c \in Clients, Shutdown(c) PROVE IInv'  BY <1>6, ShutdownIInv
<1> QED BY <1>1, <1>2, <1>3, <1>4, <1>5, <1>6 DEF Next, Clients

-----------------------------------------------------------------------------
(* What has become of a task, by the places where it can be.               *)
LEMMA StatusByPlace ==
  /\ status = [t \in Tasks |-> IF t = running THEN "running"
                              ELSE IF t \in Executed THEN "executed"
                              ELSE IF t \in destroyed THEN "destroyed"
                              ELSE IF t \in Private \cup Public THEN "queued"
                              ELSE "new"]
  /\ status' = [t \in Tasks |-> IF t = running' THEN "running"
                               ELSE IF t \in Executed' THEN "executed"
                               ELSE IF t \in destroyed' THEN "destroyed"
                               ELSE IF t \in Private' \cup Public' THEN "queued"
                               ELSE "new"]
BY DEF status, Executed, Private, Public

(* A step that moves no task between places is a stutter of the executor.  *)
LEMMA SameStatus ==
  ASSUME running' = running, Executed' = Executed, destroyed' = destroyed,
         Private' \cup Public' = Private \cup Public, shut' = shut
  PROVE  UNCHANGED E!vars
BY StatusByPlace DEF E!vars

(* enqueue on another thread accepts or refuses new tasks.                 *)
LEMMA EnqueueForeignExecutor ==
  ASSUME IInv, NEW c \in Clients, EnqueueForeign(c)
  PROVE  \E set \in SUBSET Tasks : E!Accept(set) \/ E!Refuse(set)
<1>1. PICK n \in 1 .. MaxTasks - created :
       \/ /\ m_abort
          /\ destroyed' = destroyed \cup Range(New(n))
          /\ UNCHANGED m_public_queue
       \/ /\ ~m_abort
          /\ m_public_queue' = m_public_queue \o New(n)
          /\ UNCHANGED destroyed
  BY DEF EnqueueForeign
<1> DEFINE set == created + 1 .. created + n
<1>2. UNCHANGED <<running, Executed, Private, shut>>  BY DEF EnqueueForeign, aborts, Executed, Private
<1>3. /\ set \subseteq Tasks
      /\ \A x \in set : x \notin Public \cup Private \cup Executed \cup destroyed \cup local /\ x # running
  BY NewNumbers
<1>4. set # {}
  <2>1. created + 1 \in set  BY NewNumbers, SMT
  <2> QED BY <2>1
<1>5. Range(New(n)) = set /\ Range(m_public_queue \o New(n)) = Public \cup set
  <2>1. m_public_queue \in Seq(Tasks) /\ created \in 0 .. MaxTasks  BY DEF IInv, TypeOK
  <2> QED BY <2>1, NewTasks DEF Public
<1> HIDE DEF set
<1>6. set \subseteq E!InState("new")  BY <1>3, StatusByPlace DEF E!InState
<1>7. CASE m_abort
  <2>1. destroyed' = destroyed \cup set /\ Public' = Public  BY <1>1, <1>5, <1>7 DEF Public
  <2>2. E!Become(set, "destroyed")  BY <1>2, <1>3, <2>1, StatusByPlace DEF E!Become
  <2>3. E!Refuse(set)  BY <1>2, <1>4, <1>6, <2>2 DEF E!Refuse
  <2> QED BY <2>3, <1>3
<1>8. CASE ~m_abort
  <2>1. destroyed' = destroyed /\ Public' = Public \cup set  BY <1>1, <1>5, <1>8 DEF Public
  <2>2. E!Become(set, "queued")  BY <1>2, <1>3, <2>1, StatusByPlace DEF E!Become
  <2>3. ~shut  BY <1>8 DEF IInv, Control
  <2>4. E!Accept(set)  BY <1>2, <1>4, <1>6, <2>2, <2>3 DEF E!Accept
  <2> QED BY <2>4, <1>3
<1> QED BY <1>7, <1>8

(* enqueue by a task of the executor's own accepts.                        *)
LEMMA EnqueueLocalExecutor ==
  ASSUME IInv, EnqueueLocal
  PROVE  \E set \in SUBSET Tasks : E!Accept(set)
<1>1. PICK n \in 1 .. MaxTasks - created : m_private_queue' = m_private_queue \o New(n)
  BY DEF EnqueueLocal, m_private_atomic_abort
<1> DEFINE set == created + 1 .. created + n
<1>2. UNCHANGED <<running, Executed, Public, shut, destroyed>> /\ wpc = "run"
  BY DEF EnqueueLocal, aborts, Executed, Public, m_private_atomic_abort
<1>3. /\ set \subseteq Tasks
      /\ \A x \in set : x \notin Public \cup Private \cup Executed \cup destroyed \cup local /\ x # running
  BY NewNumbers
<1>4. set # {}
  <2>1. created + 1 \in set  BY NewNumbers, SMT
  <2> QED BY <2>1
<1>5. Private' = Private \cup set
  <2>1. m_private_queue \in Seq(Tasks) /\ created \in 0 .. MaxTasks  BY DEF IInv, TypeOK
  <2> QED BY <2>1, <1>1, NewTasks DEF Private
<1> HIDE DEF set
<1>6. set \subseteq E!InState("new")  BY <1>3, StatusByPlace DEF E!InState
<1>7. E!Become(set, "queued")  BY <1>2, <1>3, <1>5, StatusByPlace DEF E!Become
<1>8. ~shut  BY <1>2 DEF IInv, Control
<1>9. E!Accept(set)  BY <1>2, <1>4, <1>6, <1>7, <1>8 DEF E!Accept
<1> QED BY <1>9, <1>3

(* Taking a task out of the private queue starts it: it was queued, and    *)
(* nobody has shut the executor down.                                      *)
LEMMA PopTaskExecutor ==
  ASSUME IInv, PopTask
  PROVE  UNCHANGED E!vars \/ \E task \in Tasks : E!Start(task)
<1>0. wpc = "loop" /\ UNCHANGED <<Public, Executed, destroyed, shut>>
  BY DEF PopTask, aborts, history, Public, Executed
<1>1. CASE m_private_queue = <<>>
  <2>1. Private' = Private /\ running' = running  BY <1>1 DEF PopTask, Private
  <2> QED BY <1>0, <2>1, SameStatus
<1>2. CASE m_private_queue # <<>>
  <2>0. running' = Head(m_private_queue) /\ m_private_queue' = Tail(m_private_queue)  BY <1>2 DEF PopTask
  <2>1. m_private_queue \in Seq(Tasks)  BY DEF IInv, TypeOK
  <2>2. /\ DOMAIN m_private_queue = 1 .. Len(m_private_queue)
        /\ DOMAIN m_private_queue' = 1 .. Len(m_private_queue) - 1
        /\ Len(m_private_queue) \in Nat \ {0}
        /\ \A i \in 1 .. Len(m_private_queue) - 1 : m_private_queue'[i] = m_private_queue[i + 1]
        /\ running' = m_private_queue[1] /\ running' \in Tasks
        /\ Private = {running'} \cup Private'
    BY <1>2, <2>0, <2>1, FirstTask DEF Private
  <2>3. running' \notin Private'
    <3>1. ASSUME NEW i \in 1 .. Len(m_private_queue) - 1, m_private_queue[i + 1] = m_private_queue[1]
          PROVE  FALSE
      <4>1. i + 1 \in DOMAIN m_private_queue /\ 1 \in DOMAIN m_private_queue /\ i + 1 # 1  BY <2>2, SMT
      <4> QED BY <4>1, <3>1 DEF IInv, Places
    <3> QED BY <2>2, <3>1, SMT DEF Private, Range
  <2>4. running = NoTask /\ NoTask \notin Tasks /\ ~shut  BY <1>0, SMT DEF IInv, Control, Tasks, NoTask
  <2>5. running' \notin Public \cup Executed \cup destroyed  BY <2>2 DEF IInv, Places
  <2>6. running' \in E!InState("queued")  BY <2>2, <2>4, <2>5, StatusByPlace DEF E!InState
  <2>7. E!Become({running'}, "running")  BY <1>0, <2>2, <2>3, <2>4, StatusByPlace DEF E!Become
  <2>8. E!Start(running')  BY <1>0, <2>4, <2>6, <2>7 DEF E!Start
  <2> QED BY <2>2, <2>8
<1> QED BY <1>1, <1>2

(* A task that returns has been executed.                                  *)
LEMMA FinishTaskExecutor ==
  ASSUME IInv, FinishTask
  PROVE  \E task \in Tasks : E!Finish(task)
<1>0. wpc = "run" /\ ran' = Append(ran, running) /\ running' = NoTask
      /\ UNCHANGED <<Private, Public, destroyed, shut>>
  BY DEF FinishTask, queues, aborts, Private, Public
<1>1. running \in Tasks /\ ran \in Seq(Tasks) /\ NoTask \notin Tasks
  BY <1>0, SMT DEF IInv, Control, TypeOK, NoTask, Tasks
<1>2. Executed' = Executed \cup {running}
  <2>1. /\ Len(ran) \in Nat
        /\ DOMAIN ran = 1 .. Len(ran)
        /\ DOMAIN ran' = 1 .. Len(ran) + 1
        /\ \A i \in 1 .. Len(ran) : ran'[i] = ran[i]
        /\ ran'[Len(ran) + 1] = running
    BY <1>0, <1>1, SMT
  <2> QED BY <2>1, SMT DEF Executed, Range
<1>3. running \in E!InState("running")  BY <1>1, StatusByPlace DEF E!InState
<1>4. E!Become({running}, "executed")  BY <1>0, <1>1, <1>2, StatusByPlace DEF E!Become
<1>5. E!Finish(running)  BY <1>0, <1>3, <1>4 DEF E!Finish
<1> QED BY <1>1, <1>5

(* Joining the thread, which has no task left in its hands, and clearing   *)
(* the queues destroys what was queued.                                    *)
LEMMA JoinExecutor ==
  ASSUME IInv, NEW c \in Clients, Join(c)
  PROVE  E!Shutdown
<1>0. /\ destroyed' = destroyed \cup Private \cup Public
      /\ Private' = {} /\ Public' = {}
      /\ shut' = TRUE
      /\ UNCHANGED <<running, Executed>>
  BY SMT DEF Join, Private, Public, Executed, Range
<1>1. ~shut /\ running = NoTask /\ NoTask \notin Tasks  BY SMT DEF Join, Goto, IInv, Control, NoTask, Tasks
<1>2. /\ Executed \cap (Private \cup Public) = {}
      /\ destroyed \cap (Private \cup Public) = {}
  BY DEF IInv, Places
<1>3. E!InState("queued") = {t \in Tasks : t \in Private \cup Public}
  BY <1>1, <1>2, StatusByPlace DEF E!InState
<1>4. E!Become(E!InState("queued"), "destroyed")  BY <1>0, <1>1, <1>2, <1>3, StatusByPlace DEF E!Become
<1> QED BY <1>0, <1>1, <1>4 DEF E!Shutdown

(* Swapping the queues, and waiting, moves no task for the user.           *)
LEMMA QuietSteps == ASSUME DrainQueue \/ Acquire PROVE UNCHANGED E!vars
<1>1. Private' \cup Public' = Private \cup Public  BY DEF DrainQueue, Acquire, queues, Private, Public
<1>2. UNCHANGED <<running, Executed, destroyed, shut>>  BY DEF DrainQueue, Acquire, aborts, history, Executed
<1> QED BY <1>1, <1>2, SameStatus

(* Neither does the semaphore, nor the beginning of shutdown().            *)
LEMMA QuietClients ==
  ASSUME NEW c \in Clients, Release(c) \/ Shutdown(c) \/ StoreAbort(c) \/ NotifyAbort(c)
  PROVE  UNCHANGED E!vars
<1>1. UNCHANGED <<m_private_queue, m_public_queue, running, ran, destroyed, shut>>
  BY DEF Release, Shutdown, StoreAbort, NotifyAbort, queues, aborts, history
<1>2. UNCHANGED <<running, Executed, destroyed, shut, Private, Public>>  BY <1>1 DEF Executed, Private, Public
<1> QED BY <1>2, SameStatus

(* Every step is a step of the abstract executor or a stutter.             *)
LEMMA NextExecutor == IInv /\ [Next]_vars => [E!Next]_E!vars
<1> SUFFICES ASSUME IInv, [Next]_vars PROVE [E!Next]_E!vars  OBVIOUS
<1>1. CASE UNCHANGED vars
  <2>1. UNCHANGED <<running, Executed, destroyed, shut, Private, Public>>
    BY <1>1 DEF vars, queues, aborts, history, Executed, Private, Public
  <2> QED BY <2>1, SameStatus
<1>2. CASE DrainQueue \/ Acquire  BY <1>2, QuietSteps
<1>3. CASE PopTask  BY <1>3, PopTaskExecutor DEF E!Next
<1>4. CASE FinishTask  BY <1>4, FinishTaskExecutor DEF E!Next
<1>5. CASE EnqueueLocal  BY <1>5, EnqueueLocalExecutor DEF E!Next
<1>6. ASSUME NEW c \in Clients, EnqueueForeign(c) PROVE [E!Next]_E!vars
  BY <1>6, EnqueueForeignExecutor DEF E!Next
<1>7. ASSUME NEW c \in Clients, Join(c) PROVE [E!Next]_E!vars  BY <1>7, JoinExecutor DEF E!Next
<1>8. ASSUME NEW c \in Clients, Release(c) \/ Shutdown(c) \/ StoreAbort(c) \/ NotifyAbort(c)
      PROVE  [E!Next]_E!vars
  BY <1>8, QuietClients
<1> QED BY <1>1, <1>2, <1>3, <1>4, <1>5, <1>6, <1>7, <1>8 DEF Next, WorkLoop, ClientSteps, Clients

-----------------------------------------------------------------------------
(* The theorems on finite sets come in here: they would burden every proof *)
(* above.                                                                  *)
F == INSTANCE FiniteSetTheorems

LEMMA FiniteSets == Finiteness
<1>1. \A S : IsFiniteSet(S) <=> F!IsFiniteSet(S)  BY DEF IsFiniteSet, F!IsFiniteSet
<1>2. \A S : Cardinality(S) = F!Cardinality(S)  BY DEF Cardinality, F!Cardinality
<1>3. Cardinality({}) = 0  BY <1>2, F!FS_EmptySet
<1>4. ASSUME NEW S, F!IsFiniteSet(S)
      PROVE  /\ F!Cardinality(S) \in Nat
             /\ \A R \in SUBSET S : F!IsFiniteSet(R)
             /\ \A x \in S : F!Cardinality(S \ {x}) = F!Cardinality(S) - 1
             /\ \A x : x \notin S => F!Cardinality(S \cup {x}) = F!Cardinality(S) + 1
  BY <1>4, F!FS_CardinalityType, F!FS_Subset, F!FS_RemoveElement, F!FS_AddElement
<1> QED BY <1>1, <1>2, <1>3, <1>4 DEF Finiteness

(* The invariant holds in every reachable state.                           *)
THEOREM Invariance == Spec => []IInv
<1>1. Init => IInv  BY FiniteSets, InitIInv
<1>2. IInv /\ [Next]_vars => IInv'  BY FiniteSets, NextIInv
<1> QED BY <1>1, <1>2, PTL DEF Spec

(* Every variable has a value the code can give it, for any number of      *)
(* threads and tasks; in particular the semaphore is released at most once *)
(* for every task, and once more by shutdown().                            *)
THEOREM TypeCorrect == Spec => []TypeOK
<1>1. IInv => TypeOK  BY DEF IInv
<1> QED BY <1>1, Invariance, PTL

(* worker_thread_executor executes the tasks of other threads in the order *)
(* in which enqueue accepted them, and its own in the order in which they  *)
(* were enqueued, however the two queues are swapped.                      *)
THEOREM InOrder == Spec => []ExecutedInOrder
<1>1. IInv => ExecutedInOrder  BY DEF IInv, Order
<1> QED BY <1>1, Invariance, PTL

(* worker_thread_executor is an executor: it executes a task it accepts at *)
(* most once or destroys it, and once shutdown() has returned nothing is   *)
(* queued, accepted or started, although shutdown() races with the thread  *)
(* and with enqueue.                                                       *)
THEOREM Refinement == Spec => ImplementsExecutor
<1>1. Init => E!Init  BY SMT DEF Init, E!Init, status, Range, Tasks, NoTask
<1>2. IInv /\ [Next]_vars => [E!Next]_E!vars  BY NextExecutor
<1> QED BY <1>1, <1>2, Invariance, PTL DEF Spec, ImplementsExecutor, E!Spec
=============================================================================
