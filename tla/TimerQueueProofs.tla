-------------------------- MODULE TimerQueueProofs --------------------------
(***************************************************************************)
(* The safety of the timer queue, for any timers, threads and due times.   *)
(*                                                                         *)
(* The properties are not inductive.  That a timer fires on time rests on  *)
(* its deadline, which moves at each fire() by at least the frequency      *)
(* (OnTime); that a one-shot timer fires once, on there being one          *)
(* reference to it that leads to a fire(): the call that adds it, its      *)
(* request, the worker's set or the timer the worker is firing (Places).   *)
(***************************************************************************)
EXTENDS TimerQueue, TLAPS

(* A leaf is for Zenon unless it names another prover.                     *)
USE Zenon

(* Thread c is about to queue the timer.                                   *)
Adds(c, t) == pc[c] = "add" /\ arg[c] = t

Types ==
  /\ TypeOK
  /\ posted \in [Timers -> Nat]
  /\ fires \in [Timers -> Nat]
  /\ due_at \in [Timers -> 0 .. Never]
  /\ \A t \in Timers : IF t \in Regular THEN m_frequency[t] \in Frequencies ELSE m_frequency[t] = 0
  /\ \A c \in Threads : pc[c] \in {"add", "remove"} => arg[c] \in Timers

(* m_idle lets a thread start a worker: there is none, and nothing to do;  *)
(* the worker has a timer in its hands only between extract and fire().    *)
Worker ==
  /\ m_idle => wpc = "none" /\ m_timers = {} /\ \A t \in Timers : ~Requested(t)
  /\ wpc = "none" /\ ~m_abort => m_idle
  /\ IF wpc \in {"fire", "terminated"} THEN firing \in Timers ELSE firing = NoTimer
  /\ wpc = "fire" => m_deadline[firing] <= now
  /\ now <= clock

(* A removal has been asked for by cancel().                               *)
Removals ==
  /\ \A c \in Threads : pc[c] = "remove" => m_cancelled[arg[c]]
  /\ \A k \in DOMAIN m_request_queue :
       m_request_queue[k].opt = "remove" => m_cancelled[m_request_queue[k].timer]

(* A timer is referenced in one place, and in none before it is made.      *)
Places ==
  \A t \in Timers :
    /\ \A c \in Threads : Adds(c, t) =>
         /\ due_at[t] # Never /\ ~Requested(t) /\ t \notin m_timers /\ firing # t
         /\ \A b \in Threads : Adds(b, t) => b = c
    /\ Requested(t) => due_at[t] # Never /\ t \notin m_timers /\ firing # t
    /\ t \in m_timers \/ firing = t => due_at[t] # Never
    /\ \A j, k \in DOMAIN m_request_queue :
         /\ m_request_queue[j] = [timer |-> t, opt |-> "add"]
         /\ m_request_queue[k] = [timer |-> t, opt |-> "add"]
         => j = k

(* What the deadline says of the fires so far.                             *)
OnTime ==
  \A t \in Timers :
    /\ due_at[t] = Never => fires[t] = 0
    /\ due_at[t] # Never /\ t \in Regular => due_at[t] + fires[t] <= m_deadline[t]
    /\ due_at[t] # Never /\ t \notin Regular =>
         \/ fires[t] = 0 /\ m_deadline[t] = due_at[t]
         \/ /\ fires[t] = 1 /\ due_at[t] <= clock
            /\ ~Requested(t) /\ t \notin m_timers /\ firing # t
            /\ \A c \in Threads : ~Adds(c, t)

(* The inductive invariant.                                                *)
IInv == Types /\ Worker /\ Removals /\ Places /\ OnTime /\ FiresOnTime
-----------------------------------------------------------------------------
Requests == [timer : Timers, opt : {"add", "remove"}]

(* A request goes to the end of the queue, the others keep their places.   *)
LEMMA Requesting ==
  ASSUME m_request_queue \in Seq(Requests), NEW t \in Timers, NEW opt \in {"add", "remove"},
         Request(t, opt)
  PROVE  /\ m_request_queue' \in Seq(Requests)
         /\ DOMAIN m_request_queue' = 1 .. Len(m_request_queue) + 1
         /\ DOMAIN m_request_queue = 1 .. Len(m_request_queue)
         /\ Len(m_request_queue) \in Nat
         /\ m_request_queue'[Len(m_request_queue) + 1] = [timer |-> t, opt |-> opt]
         /\ \A j \in DOMAIN m_request_queue : m_request_queue'[j] = m_request_queue[j]
         /\ \A u : Requested(u)' <=> Requested(u) \/ (u = t /\ opt = "add")
<1>1. [timer |-> t, opt |-> opt] \in Requests  BY DEF Requests
<1>2. /\ m_request_queue' \in Seq(Requests)
      /\ DOMAIN m_request_queue' = 1 .. Len(m_request_queue) + 1
      /\ DOMAIN m_request_queue = 1 .. Len(m_request_queue)
      /\ Len(m_request_queue) \in Nat
      /\ m_request_queue'[Len(m_request_queue) + 1] = [timer |-> t, opt |-> opt]
      /\ \A j \in DOMAIN m_request_queue : m_request_queue'[j] = m_request_queue[j]
  BY <1>1, SMT DEF Request
<1>3. ASSUME NEW j \in DOMAIN m_request_queue'
      PROVE  j \in DOMAIN m_request_queue \/ j = Len(m_request_queue) + 1
  BY <1>2, SMT
<1>4. Len(m_request_queue) + 1 \in DOMAIN m_request_queue'
      /\ DOMAIN m_request_queue \subseteq DOMAIN m_request_queue'
  BY <1>2, SMT
<1>5. ASSUME NEW u PROVE Requested(u)' <=> Requested(u) \/ (u = t /\ opt = "add")
  <2>1. [timer |-> t, opt |-> opt] = [timer |-> u, opt |-> "add"] <=> u = t /\ opt = "add"  OBVIOUS
  <2> QED BY <1>2, <1>3, <1>4, <2>1 DEF Requested
<1> QED BY <1>2, <1>5
(* An empty queue requests nothing.                                        *)
LEMMA NothingRequested ==
  ASSUME m_request_queue' = <<>>
  PROVE  /\ m_request_queue' \in Seq(Requests)
         /\ DOMAIN m_request_queue' = {}
         /\ \A t : ~Requested(t)'
<1>1. m_request_queue' \in Seq(Requests) /\ DOMAIN m_request_queue' = {}  BY SMT
<1> QED BY <1>1 DEF Requested

(* A queue starts without a timer, a worker or a request.                  *)
LEMMA InitIInv == Init => IInv
<1> SUFFICES ASSUME Init PROVE IInv  OBVIOUS
<1> USE TimerAssumption DEF Init
<1>1. Types
  <2>1. m_request_queue \in Seq([timer : Timers, opt : {"add", "remove"}])  BY SMT
  <2>2. MaxTime \in Nat /\ 0 \in 0 .. MaxTime /\ Never \in 0 .. Never /\ Never \in 0 .. MaxTime + 2
    BY SMT DEF Never
  <2>3. \A t \in Timers : posted[t] \in 0 .. fires[t]  BY SMT
  <2>4. /\ m_deadline \in [Timers -> 0 .. MaxTime + 2] /\ due_at \in [Timers -> 0 .. Never]
        /\ posted \in [Timers -> Nat] /\ fires \in [Timers -> Nat]
    BY <2>2
  <2>5. m_frequency \in [Timers -> Frequencies \cup {0}]  BY DEF Frequencies
  <2>6. \A t \in Timers :
          IF t \in Regular THEN m_frequency[t] \in Frequencies ELSE m_frequency[t] = 0
    BY DEF Frequencies
  <2> QED BY <2>1, <2>2, <2>3, <2>4, <2>5, <2>6 DEF Types, TypeOK
<1>2. Worker  BY SMT DEF Worker, Requested
<1>3. Removals  BY SMT DEF Removals
<1>4. Places  BY SMT DEF Places, Requested, Adds, Never
<1>5. OnTime  BY DEF OnTime, Requested, Adds
<1>6. FiresOnTime  BY SMT DEF FiresOnTime
<1> QED BY <1>1, <1>2, <1>3, <1>4, <1>5, <1>6 DEF IInv

(* make_timer sets the deadline of a timer nobody refers to yet.           *)
LEMMA MakeTimerIInv == ASSUME IInv, NEW c \in Callers, MakeTimer(c) PROVE IInv'
<1> USE TimerAssumption DEF IInv, worker, timer, outside, Threads
<1>1. PICK t \in Timers, due \in DueTimes :
        /\ due_at[t] = Never
        /\ clock + due <= MaxTime
        /\ arg' = [arg EXCEPT ![c] = t]
        /\ due_at' = [due_at EXCEPT ![t] = clock + due]
        /\ m_deadline' = [m_deadline EXCEPT ![t] = clock + due]
  BY DEF MakeTimer
<1>2. /\ pc[c] = "idle" /\ pc' = [pc EXCEPT ![c] = "add"]
      /\ UNCHANGED <<m_request_queue, m_abort, m_idle, m_worker, m_timers, now, firing, wpc, handle,
                     m_cancelled, m_frequency, fires, posted, executed, clock, executor_shut>>
  BY DEF MakeTimer, Goto
<1>3. clock + due \in 0 .. MaxTime /\ clock + due # Never
  <2>1. clock \in 0 .. MaxTime /\ due \in Nat  BY DEF Types, TypeOK
  <2> QED BY <1>1, <2>1, SMT DEF Never
<1>4. Types'
  <2>1. due_at' \in [Timers -> 0 .. Never] /\ m_deadline' \in [Timers -> 0 .. MaxTime + 2]
    <3>1. clock + due \in 0 .. Never /\ clock + due \in 0 .. MaxTime + 2  BY <1>3, SMT DEF Never
    <3> QED BY <1>1, <3>1 DEF Types, TypeOK
  <2>2. /\ pc' \in [Threads -> {"idle", "add", "remove", "notify", "notify_all", "join"}]
        /\ arg' \in [Threads -> Timers \cup {NoTimer}]
        /\ \A b \in Threads : pc'[b] \in {"add", "remove"} => arg'[b] \in Timers
    BY <1>1, <1>2 DEF Types, TypeOK
  <2> QED BY <1>2, <2>1, <2>2 DEF Types, TypeOK, Never
<1>5. firing # t /\ t \notin m_timers /\ ~Requested(t) /\ fires[t] = 0
      /\ \A b \in Threads : ~Adds(b, t)
  BY <1>1 DEF Places, OnTime
<1>6. Worker'  BY <1>1, <1>2, <1>5 DEF Types, TypeOK, Worker, Requested
<1>7. Removals'  BY <1>1, <1>2 DEF Types, TypeOK, Removals
<1>8. \A b \in Threads, u \in Timers : Adds(b, u)' <=> Adds(b, u) \/ (b = c /\ u = t)
  BY <1>1, <1>2 DEF Types, TypeOK, Adds
<1>9. \A u \in Timers : /\ Requested(u)' <=> Requested(u)
                        /\ due_at'[u] # Never <=> due_at[u] # Never \/ u = t
  BY <1>1, <1>2, <1>3 DEF Types, TypeOK, Requested
<1>10. Never' = Never  BY DEF Never
<1>11. Places'
  <2> SUFFICES ASSUME NEW u \in Timers
               PROVE  /\ \A b \in Threads : Adds(b, u)' =>
                           /\ due_at'[u] # Never /\ ~Requested(u) /\ u \notin m_timers /\ firing # u
                           /\ \A d \in Threads : Adds(d, u)' => d = b
                      /\ Requested(u) => due_at'[u] # Never /\ u \notin m_timers /\ firing # u
                      /\ u \in m_timers \/ firing = u => due_at'[u] # Never
    BY <1>2, <1>9, <1>10 DEF Places
  <2>1. CASE u = t  BY <1>5, <1>8, <1>9, <2>1
  <2>2. CASE u # t  BY <1>8, <1>9, <2>2 DEF Places
  <2> QED BY <2>1, <2>2
<1>12. \A u \in Timers : IF u = t THEN due_at'[u] = clock + due /\ m_deadline'[u] = clock + due
                         ELSE due_at'[u] = due_at[u] /\ m_deadline'[u] = m_deadline[u]
  BY <1>1 DEF Types, TypeOK
<1>13. OnTime'
  <2> SUFFICES ASSUME NEW u \in Timers
               PROVE  /\ due_at'[u] = Never => fires[u] = 0
                      /\ due_at'[u] # Never /\ u \in Regular => due_at'[u] + fires[u] <= m_deadline'[u]
                      /\ due_at'[u] # Never /\ u \notin Regular =>
                           \/ fires[u] = 0 /\ m_deadline'[u] = due_at'[u]
                           \/ /\ fires[u] = 1 /\ due_at'[u] <= clock
                              /\ ~Requested(u) /\ u \notin m_timers /\ firing # u
                              /\ \A b \in Threads : ~Adds(b, u)'
    BY <1>2, <1>9, <1>10 DEF OnTime
  <2>1. CASE u = t  BY <1>3, <1>5, <1>12, <2>1, SMT
  <2>2. CASE u # t  BY <1>8, <1>12, <2>2 DEF OnTime
  <2> QED BY <2>1, <2>2
<1>14. FiresOnTime'
  <2>1. fires'[t] = 0 /\ ~(0 > 0)  BY <1>2, <1>5, SMT
  <2> QED BY <1>2, <1>12, <2>1 DEF FiresOnTime
<1> QED BY <1>4, <1>6, <1>7, <1>11, <1>13, <1>14

(* add_timer queues a timer that no other thread queues, or drops it.      *)
LEMMA AddTimerIInv == ASSUME IInv, NEW c \in Callers, AddTimer(c) PROVE IInv'
<1> USE TimerAssumption DEF IInv, worker, timer, outside, Threads
<1>1. CASE m_abort
  <2> USE <1>1 DEF AddTimer, Goto
  <2>1. Types'  BY DEF Types, TypeOK
  <2>2. Worker'  BY SMT DEF Worker, Requested
  <2>3. Removals'  BY DEF Types, TypeOK, Removals
  <2>4. /\ \A b \in Threads, u \in Timers : Adds(b, u)' => Adds(b, u)
        /\ \A u : Requested(u)' <=> Requested(u)
    BY DEF Types, TypeOK, Adds, Requested
  <2>5. Places'  BY <2>4 DEF Places, Never
  <2>6. OnTime'  BY <2>4 DEF OnTime, Never
  <2>7. FiresOnTime'  BY DEF FiresOnTime
  <2> QED BY <2>1, <2>2, <2>3, <2>5, <2>6, <2>7
<1>2. CASE ~m_abort
  <2> DEFINE t == arg[c]
  <2> HIDE DEF t
  <2>1. /\ pc[c] = "add" /\ pc' = [pc EXCEPT ![c] = "notify"]
        /\ EnsureWorkerThread
        /\ Request(t, "add")
        /\ handle' = [handle EXCEPT ![t] = t \notin Delay]
        /\ UNCHANGED <<m_abort, m_timers, now, firing, arg, m_cancelled, m_frequency, m_deadline,
                       due_at, fires, posted, executed, clock, executor_shut>>
    BY <1>2 DEF AddTimer, Accept, Goto, t
  <2>2. t \in Timers /\ Adds(c, t)  BY <2>1 DEF Types, Adds, t
  <2>3. m_request_queue \in Seq(Requests)  BY DEF Types, TypeOK, Requests
  <2>4. /\ m_request_queue' \in Seq(Requests)
        /\ DOMAIN m_request_queue' = 1 .. Len(m_request_queue) + 1
        /\ DOMAIN m_request_queue = 1 .. Len(m_request_queue)
        /\ Len(m_request_queue) \in Nat
        /\ m_request_queue'[Len(m_request_queue) + 1] = [timer |-> t, opt |-> "add"]
        /\ \A j \in DOMAIN m_request_queue : m_request_queue'[j] = m_request_queue[j]
        /\ \A u : Requested(u)' <=> Requested(u) \/ u = t
    BY <2>1, <2>2, <2>3, Requesting
  <2>5. Types'
    <3>1. /\ m_request_queue' \in Seq([timer : Timers, opt : {"add", "remove"}])
          /\ handle' \in [Timers -> BOOLEAN]
          /\ pc' \in [Threads -> {"idle", "add", "remove", "notify", "notify_all", "join"}]
      BY <2>1, <2>4 DEF Types, TypeOK, Requests
    <3>2. \A b \in Threads : pc'[b] \in {"add", "remove"} => arg'[b] \in Timers  BY <2>1 DEF Types, TypeOK
    <3>3. {m_abort', m_idle', m_worker', executor_shut'} \subseteq BOOLEAN
          /\ wpc' \in {"none", "lock", "wait", "timed_out", "now", "loop", "fire", "terminated"}
      BY <2>1 DEF Types, TypeOK, EnsureWorkerThread
    <3> QED BY <2>1, <3>1, <3>2, <3>3 DEF Types, TypeOK, Never
  <2>6. Worker'  BY <2>1, <2>4 DEF Types, TypeOK, Worker, EnsureWorkerThread
  <2>7. Removals'
    <3>1. \A b \in Threads : pc'[b] = "remove" => pc[b] = "remove"  BY <2>1 DEF Types, TypeOK
    <3>2. ASSUME NEW k \in DOMAIN m_request_queue', m_request_queue'[k].opt = "remove"
          PROVE  m_cancelled[m_request_queue'[k].timer]
      BY <2>4, <3>2, SMT DEF Removals
    <3> QED BY <2>1, <3>1, <3>2 DEF Removals
  <2>8. \A b \in Threads, u \in Timers : Adds(b, u)' <=> Adds(b, u) /\ b # c  BY <2>1 DEF Types, TypeOK, Adds
  <2>9. \A b \in Threads : Adds(b, t) => b = c  BY <2>2 DEF Places
  <2>10. due_at[t] # Never /\ ~Requested(t) /\ t \notin m_timers /\ firing # t  BY <2>2 DEF Places
  <2>11. Never' = Never  BY DEF Never
  <2>12. Places'
    <3>1. ASSUME NEW u \in Timers,
                 NEW j \in DOMAIN m_request_queue', NEW k \in DOMAIN m_request_queue',
                 m_request_queue'[j] = [timer |-> u, opt |-> "add"],
                 m_request_queue'[k] = [timer |-> u, opt |-> "add"]
          PROVE  j = k
      <4>1. (j \in DOMAIN m_request_queue \/ j = Len(m_request_queue) + 1)
            /\ (k \in DOMAIN m_request_queue \/ k = Len(m_request_queue) + 1)
        BY <2>4, SMT
      <4>2. [timer |-> u, opt |-> "add"] = [timer |-> t, opt |-> "add"] => u = t  OBVIOUS
      <4>3. CASE u = t
        <5>1. \A i \in DOMAIN m_request_queue : m_request_queue'[i] # [timer |-> u, opt |-> "add"]
          BY <2>4, <2>10, <4>3 DEF Requested
        <5> QED BY <3>1, <4>1, <5>1
      <4>4. CASE u # t
        <5>1. j \in DOMAIN m_request_queue /\ k \in DOMAIN m_request_queue  BY <2>4, <3>1, <4>1, <4>2, <4>4
        <5> QED BY <2>4, <3>1, <5>1 DEF Places
      <4> QED BY <4>3, <4>4
    <3> SUFFICES ASSUME NEW u \in Timers
                 PROVE  /\ \A b \in Threads : Adds(b, u)' =>
                             /\ due_at[u] # Never /\ ~Requested(u)' /\ u \notin m_timers /\ firing # u
                             /\ \A d \in Threads : Adds(d, u)' => d = b
                        /\ Requested(u)' => due_at[u] # Never /\ u \notin m_timers /\ firing # u
                        /\ u \in m_timers \/ firing = u => due_at[u] # Never
      BY <2>1, <2>11, <3>1 DEF Places
    <3>2. CASE u = t  BY <2>8, <2>9, <2>10, <3>2
    <3>3. CASE u # t  BY <2>4, <2>8, <3>3 DEF Places
    <3> QED BY <3>2, <3>3
  <2>13. OnTime'
    <3>1. t \in Regular \/ fires[t] = 0  BY <2>2, <2>10 DEF OnTime
    <3> QED BY <2>1, <2>2, <2>4, <2>8, <2>10, <2>11, <3>1 DEF OnTime
  <2>14. FiresOnTime'  BY <2>1 DEF FiresOnTime
  <2> QED BY <2>5, <2>6, <2>7, <2>12, <2>13, <2>14
<1> QED BY <1>1, <1>2

(* cancel marks the timer before it asks for its removal.                  *)
LEMMA CancelIInv == ASSUME IInv, NEW c \in Callers, Cancel(c) PROVE IInv'
<1> USE TimerAssumption DEF IInv, Cancel, worker, timer, outside, Threads, Goto
<1>1. PICK t \in Timers : /\ arg' = [arg EXCEPT ![c] = t]
                          /\ handle' = [handle EXCEPT ![t] = FALSE]
                          /\ m_cancelled' = [m_cancelled EXCEPT ![t] = TRUE]
  OBVIOUS
<1>2. Types'  BY <1>1 DEF Types, TypeOK, Never
<1>3. Worker'  BY DEF Worker, Requested
<1>4. Removals'
  <2>1. \A u \in Timers : m_cancelled[u] => m_cancelled'[u]  BY <1>1 DEF Types, TypeOK
  <2>2. \A b \in Threads : pc'[b] = "remove" => m_cancelled'[arg'[b]]
    BY <1>1, <2>1 DEF Types, TypeOK, Removals
  <2>3. \A k \in DOMAIN m_request_queue : m_request_queue[k].timer \in Timers
    <3>1. m_request_queue \in Seq(Requests)  BY DEF Types, TypeOK, Requests
    <3>2. \A k \in DOMAIN m_request_queue : m_request_queue[k] \in Requests  BY <3>1, SMT
    <3> QED BY <3>2 DEF Requests
  <2> QED BY <2>1, <2>2, <2>3 DEF Removals
<1>5. /\ \A b \in Threads, u \in Timers : Adds(b, u)' => Adds(b, u)
      /\ \A u : Requested(u)' <=> Requested(u)
  BY <1>1 DEF Types, TypeOK, Adds, Requested
<1>6. Places'  BY <1>5 DEF Places, Never
<1>7. OnTime'  BY <1>5 DEF OnTime, Never
<1>8. FiresOnTime'  BY DEF FiresOnTime
<1> QED BY <1>2, <1>3, <1>4, <1>6, <1>7, <1>8

(* remove_internal_timer queues a removal that cancel() has asked for.     *)
LEMMA RemoveInternalTimerIInv ==
  ASSUME IInv, NEW c \in Callers, RemoveInternalTimer(c) PROVE IInv'
<1> USE TimerAssumption DEF IInv, worker, timer, outside, Threads
<1> DEFINE t == arg[c]
<1> HIDE DEF t
<1>1. /\ pc[c] = "remove" /\ pc' = [pc EXCEPT ![c] = "notify"]
      /\ Request(t, "remove")
      /\ UNCHANGED <<m_abort, m_idle, m_worker, m_timers, now, firing, wpc, arg, handle, m_cancelled,
                     m_frequency, m_deadline, due_at, fires, posted, executed, clock, executor_shut>>
  BY DEF RemoveInternalTimer, Goto, t
<1>2. t \in Timers /\ m_cancelled[t]  BY <1>1 DEF Types, Removals, t
<1>3. m_request_queue \in Seq(Requests)  BY DEF Types, TypeOK, Requests
<1>4. /\ m_request_queue' \in Seq(Requests)
      /\ DOMAIN m_request_queue' = 1 .. Len(m_request_queue) + 1
      /\ DOMAIN m_request_queue = 1 .. Len(m_request_queue)
      /\ Len(m_request_queue) \in Nat
      /\ m_request_queue'[Len(m_request_queue) + 1] = [timer |-> t, opt |-> "remove"]
      /\ \A j \in DOMAIN m_request_queue : m_request_queue'[j] = m_request_queue[j]
      /\ \A u : Requested(u)' <=> Requested(u)
  BY <1>1, <1>2, <1>3, Requesting
<1>5. Types'
  <2>1. /\ m_request_queue' \in Seq([timer : Timers, opt : {"add", "remove"}])
        /\ pc' \in [Threads -> {"idle", "add", "remove", "notify", "notify_all", "join"}]
    BY <1>1, <1>4 DEF Types, TypeOK, Requests
  <2>2. \A b \in Threads : pc'[b] \in {"add", "remove"} => arg'[b] \in Timers  BY <1>1 DEF Types, TypeOK
  <2> QED BY <1>1, <2>1, <2>2 DEF Types, TypeOK, Never
<1>6. Worker'  BY <1>1, <1>4 DEF Worker
<1>7. Removals'
  <2>1. \A b \in Threads : pc'[b] = "remove" => pc[b] = "remove"  BY <1>1 DEF Types, TypeOK
  <2>2. ASSUME NEW k \in DOMAIN m_request_queue', m_request_queue'[k].opt = "remove"
        PROVE  m_cancelled[m_request_queue'[k].timer]
    BY <1>2, <1>4, <2>2, SMT DEF Removals
  <2> QED BY <1>1, <2>1, <2>2 DEF Removals
<1>8. \A b \in Threads, u \in Timers : Adds(b, u)' <=> Adds(b, u)  BY <1>1 DEF Types, TypeOK, Adds
<1>9. Never' = Never  BY DEF Never
<1>10. Places'
  <2>1. ASSUME NEW u \in Timers,
               NEW k \in DOMAIN m_request_queue', m_request_queue'[k] = [timer |-> u, opt |-> "add"]
        PROVE  k \in DOMAIN m_request_queue /\ m_request_queue[k] = [timer |-> u, opt |-> "add"]
    <3>1. k \in DOMAIN m_request_queue \/ k = Len(m_request_queue) + 1  BY <1>4, SMT
    <3>2. [timer |-> u, opt |-> "add"] # [timer |-> t, opt |-> "remove"]  OBVIOUS
    <3> QED BY <1>4, <2>1, <3>1, <3>2
  <2> QED BY <1>1, <1>4, <1>8, <1>9, <2>1 DEF Places
<1>11. OnTime'  BY <1>1, <1>4, <1>8, <1>9 DEF OnTime
<1>12. FiresOnTime'  BY <1>1 DEF FiresOnTime
<1> QED BY <1>5, <1>6, <1>7, <1>10, <1>11, <1>12

(* What a thread does after its request: wake the worker.                 *)
LEMMA NotifyIInv == ASSUME IInv, NEW c \in Callers, Notify(c) PROVE IInv'
<1> USE DEF IInv, Notify, Goto, worker, timer, outside, Threads
<1>1. Types'  BY DEF Types, TypeOK, Never
<1>2. Worker'  BY DEF Worker, Requested
<1>3. Removals'  BY DEF Types, TypeOK, Removals
<1>4. Places'  BY SMT DEF Types, TypeOK, Places, Requested, Adds, Never
<1>5. OnTime'  BY DEF Types, TypeOK, OnTime, Requested, Adds, Never
<1>6. FiresOnTime'  BY DEF FiresOnTime
<1> QED BY <1>1, <1>2, <1>3, <1>4, <1>5, <1>6

(* A frequency, at least 1, keeps the deadline.                            *)
LEMMA SetFrequencyIInv == ASSUME IInv, NEW r \in Regular, SetFrequency(r) PROVE IInv'
<1> USE DEF IInv, SetFrequency, worker, timer, outside, Threads
<1>1. PICK f \in Frequencies : m_frequency' = [m_frequency EXCEPT ![r] = f]  OBVIOUS
<1>2. Types'
  <2>1. m_frequency' \in [Timers -> Frequencies \cup {0}]  BY <1>1 DEF Types, TypeOK, Timers
  <2>2. \A t \in Timers :
          IF t \in Regular THEN m_frequency'[t] \in Frequencies ELSE m_frequency'[t] = 0
    BY <1>1 DEF Types, TypeOK
  <2> QED BY <2>1, <2>2 DEF Types, TypeOK, Never
<1>3. Worker'  BY DEF Worker, Requested
<1>4. Removals'  BY DEF Removals
<1>5. Places'  BY SMT DEF Places, Requested, Adds, Never
<1>6. OnTime'  BY DEF OnTime, Requested, Adds, Never
<1>7. FiresOnTime'  BY DEF FiresOnTime
<1> QED BY <1>2, <1>3, <1>4, <1>5, <1>6, <1>7

(* process_request_queue puts into the set what was in it or requested,    *)
(* and leaves no request; a worker that is told to stop drops its timers.  *)
LEMMA TakeRequestsIInv ==
  ASSUME IInv, TakeRequests, wpc \in {"lock", "timed_out"},
         UNCHANGED <<m_abort, m_idle, m_worker, now, firing, pc, arg, timer, fires, outside>>
  PROVE  IInv'
<1> USE TimerAssumption DEF IInv, timer, outside, Threads
<1>1. firing = NoTimer /\ ~m_idle  BY DEF Worker
<1>2. \A b \in Threads, u \in Timers : Adds(b, u)' <=> Adds(b, u)  BY DEF Adds
<1>3. Never' = Never  BY DEF Never
<1>4. CASE m_abort
  <2>1. /\ wpc' = "none" /\ m_timers' = {} /\ m_request_queue' = m_request_queue
        /\ \A u : Requested(u)' <=> Requested(u)
    BY <1>4 DEF TakeRequests, Requested
  <2>2. Types'  BY <1>1, <2>1 DEF Types, TypeOK, Never
  <2>3. Worker'  BY <1>1, <1>4, <2>1 DEF Worker
  <2>4. Removals'  BY <2>1 DEF Removals
  <2>5. Places'  BY <1>2, <1>3, <2>1 DEF Places
  <2>6. OnTime'  BY <1>2, <1>3, <2>1 DEF OnTime
  <2>7. FiresOnTime'  BY DEF FiresOnTime
  <2> QED BY <2>2, <2>3, <2>4, <2>5, <2>6, <2>7
<1>5. CASE ~m_abort
  <2>1. /\ wpc' = "now" /\ m_request_queue' = <<>>
        /\ m_timers' = {t \in Timers : Contains(t, Len(m_request_queue) + 1)}
    BY <1>5 DEF TakeRequests
  <2>2. /\ m_request_queue' \in Seq(Requests)
        /\ DOMAIN m_request_queue' = {}
        /\ \A t : ~Requested(t)'
    BY <2>1, NothingRequested
  <2>3. m_timers' \subseteq Timers /\ \A t \in m_timers' : t \in m_timers \/ Requested(t)
    BY <2>1 DEF Contains, Requested
  <2>4. Types'  BY <1>1, <2>1, <2>2, <2>3 DEF Types, TypeOK, Requests, Never
  <2>5. Worker'  BY <1>1, <2>1 DEF Worker
  <2>6. Removals'  BY <2>2 DEF Removals
  <2>7. \A t \in Timers : NoTimer # t  OBVIOUS
  <2>8. Places'  BY <1>1, <1>2, <1>3, <2>2, <2>3, <2>7 DEF Places
  <2>9. OnTime'  BY <1>1, <1>2, <1>3, <2>2, <2>3, <2>7 DEF OnTime
  <2>10. FiresOnTime'  BY DEF FiresOnTime
  <2> QED BY <2>4, <2>5, <2>6, <2>8, <2>9, <2>10
<1> QED BY <1>4, <1>5

(* The wait begins, or there is something to do.                           *)
LEMMA WaitIInv == ASSUME IInv, Wait PROVE IInv'
<1>1. CASE Pred  BY <1>1, TakeRequestsIInv DEF Wait
<1>2. CASE ~Pred
  <2>1. /\ wpc = "lock" /\ wpc' = "wait"
        /\ UNCHANGED <<m_request_queue, m_timers, m_abort, m_idle, m_worker, now, firing, pc, arg,
                       timer, fires, outside>>
    BY <1>2 DEF Wait
  <2> USE <2>1 DEF IInv, timer, outside
  <2>2. Types'  BY DEF Types, TypeOK, Never
  <2>3. Worker'  BY DEF Worker, Requested
  <2>4. Removals'  BY DEF Removals
  <2>5. Places'  BY SMT DEF Places, Adds, Requested, Never
  <2>6. OnTime'  BY DEF OnTime, Adds, Requested, Never
  <2>7. FiresOnTime'  BY DEF FiresOnTime
  <2> QED BY <2>2, <2>3, <2>4, <2>5, <2>6, <2>7
<1> QED BY <1>1, <1>2

(* The wait is over; the predicate has still to be evaluated.              *)
LEMMA TimeoutIInv == ASSUME IInv, Timeout PROVE IInv'
<1> USE DEF IInv, Timeout, worker, timer, outside, Threads
<1>1. Types'  BY DEF Types, TypeOK, Never
<1>2. Worker'  BY DEF Worker, Requested
<1>3. Removals'  BY DEF Removals
<1>4. Places'  BY SMT DEF Places, Requested, Adds, Never
<1>5. OnTime'  BY DEF OnTime, Requested, Adds, Never
<1>6. FiresOnTime'  BY DEF FiresOnTime
<1> QED BY <1>1, <1>2, <1>3, <1>4, <1>5, <1>6

(* After a time-out the worker ends only if there is nothing to do.        *)
LEMMA TimedOutIInv == ASSUME IInv, TimedOut PROVE IInv'
<1>1. CASE ~(m_timers = {} /\ ~Pred)  BY <1>1, TakeRequestsIInv DEF TimedOut
<1>2. CASE m_timers = {} /\ ~Pred
  <2>1. /\ wpc = "timed_out" /\ wpc' = "none" /\ m_idle' = TRUE
        /\ UNCHANGED <<m_request_queue, m_timers, m_abort, m_worker, now, firing, pc, arg, timer,
                       fires, outside>>
    BY <1>2 DEF TimedOut
  <2>2. m_request_queue = <<>> /\ m_timers = {}  BY <1>2 DEF Pred
  <2> USE <2>1 DEF IInv, timer, outside
  <2>3. Types'  BY DEF Types, TypeOK, Never
  <2>4. m_request_queue' = <<>>  BY <2>2
  <2>5. Worker'  BY <2>2, <2>4, NothingRequested DEF Worker
  <2>6. Removals'  BY DEF Removals
  <2>7. Places'  BY SMT DEF Places, Adds, Requested, Never
  <2>8. OnTime'  BY DEF OnTime, Adds, Requested, Never
  <2>9. FiresOnTime'  BY DEF FiresOnTime
  <2> QED BY <2>3, <2>5, <2>6, <2>7, <2>8, <2>9
<1> QED BY <1>1, <1>2

(* process_timers reads the clock once.                                    *)
LEMMA ReadClockIInv == ASSUME IInv, ReadClock PROVE IInv'
<1> USE DEF IInv, ReadClock, worker, timer, outside, Threads
<1>1. Types'  BY DEF Types, TypeOK, Never
<1>2. Worker'  BY SMT DEF Types, TypeOK, Worker, Requested
<1>3. Removals'  BY DEF Removals
<1>4. Places'  BY SMT DEF Places, Requested, Adds, Never
<1>5. OnTime'  BY DEF OnTime, Requested, Adds, Never
<1>6. FiresOnTime'  BY DEF FiresOnTime
<1> QED BY <1>1, <1>2, <1>3, <1>4, <1>5, <1>6

(* A timer that process_timers takes out of the set has expired.           *)
LEMMA ExtractIInv == ASSUME IInv, Extract PROVE IInv'
<1> USE TimerAssumption DEF IInv, worker, timer, outside, Threads
<1>1. PICK t \in Closest : /\ m_deadline[t] <= now
                           /\ m_timers' = m_timers \ {t}
                           /\ firing' = IF m_cancelled[t] THEN NoTimer ELSE t
                           /\ wpc' = IF m_cancelled[t] THEN "loop" ELSE "fire"
  BY DEF Extract
<1>2. /\ wpc = "loop"
      /\ UNCHANGED <<m_request_queue, m_abort, m_idle, m_worker, now, pc, arg, handle, m_cancelled,
                     m_frequency, m_deadline, due_at, fires, posted, executed, clock, executor_shut>>
  BY DEF Extract
<1>3. t \in m_timers /\ t \in Timers /\ firing = NoTimer  BY <1>1, <1>2 DEF Closest, Types, TypeOK, Worker
<1>4. Types'  BY <1>1, <1>2, <1>3 DEF Types, TypeOK, Never
<1>5. Worker'  BY <1>1, <1>2, <1>3 DEF Worker, Requested
<1>6. Removals'  BY <1>2 DEF Removals
<1>7. /\ \A b \in Threads, u \in Timers : Adds(b, u)' <=> Adds(b, u)
      /\ \A u : Requested(u)' <=> Requested(u)
      /\ Never' = Never
  BY <1>2 DEF Adds, Requested, Never
<1>8. \A u \in Timers : u \in m_timers' \/ firing' = u => u \in m_timers  BY <1>1, <1>3
<1>9. Places'  BY <1>2, <1>7, <1>8 DEF Places
<1>10. OnTime'  BY <1>2, <1>7, <1>8 DEF OnTime
<1>11. FiresOnTime'  BY <1>2 DEF FiresOnTime
<1> QED BY <1>4, <1>5, <1>6, <1>9, <1>10, <1>11

(* fire() moves the deadline past the clock, which has passed it.          *)
LEMMA FireIInv == ASSUME IInv, Fire PROVE IInv'
<1> USE TimerAssumption DEF IInv, worker, timer, outside, Threads
<1>1. /\ wpc = "fire" /\ firing \in Timers /\ firing \notin m_timers
      /\ UNCHANGED <<m_request_queue, m_abort, m_idle, m_worker, now, pc, arg, handle, m_cancelled,
                     m_frequency, due_at, executed, clock, executor_shut>>
  BY DEF Fire, Worker, Types, TypeOK
<1>2. /\ \A b \in Threads, u \in Timers : Adds(b, u)' <=> Adds(b, u)
      /\ \A u : Requested(u)' <=> Requested(u)
      /\ Never' = Never
  BY <1>1 DEF Adds, Requested, Never
<1>3. CASE executor_shut
  <2>1. wpc' = "terminated" /\ UNCHANGED <<m_deadline, posted, fires, m_timers, firing>>  BY <1>3 DEF Fire
  <2>2. Types'  BY <1>1, <2>1 DEF Types, TypeOK, Never
  <2>3. Worker'  BY <1>1, <1>2, <2>1 DEF Worker
  <2>4. Removals'  BY <1>1 DEF Removals
  <2>5. Places'  BY <1>1, <1>2, <2>1 DEF Places
  <2>6. OnTime'  BY <1>1, <1>2, <2>1 DEF OnTime
  <2>7. FiresOnTime'  BY <1>1, <2>1 DEF FiresOnTime
  <2> QED BY <2>2, <2>3, <2>4, <2>5, <2>6, <2>7
<1>4. CASE ~executor_shut
  <2> DEFINE t == firing
  <2> HIDE DEF t
  <2>1. /\ m_deadline' = [m_deadline EXCEPT ![t] = clock + m_frequency[t]]
        /\ posted' = [posted EXCEPT ![t] = @ + 1]
        /\ fires' = [fires EXCEPT ![t] = @ + 1]
        /\ m_timers' = IF t \in Regular THEN m_timers \cup {t} ELSE m_timers
        /\ firing' = NoTimer
        /\ wpc' = "loop"
    BY <1>4 DEF Fire, Reinsert, t
  <2>2. t \in Timers /\ t \notin m_timers /\ firing = t  BY <1>1 DEF t
  <2>3. /\ clock \in 0 .. MaxTime /\ m_frequency[t] \in 0 .. 2
        /\ t \in Regular => m_frequency[t] >= 1
    BY <2>2, SMT DEF Types, TypeOK, Frequencies
  <2>4. clock + m_frequency[t] \in 0 .. MaxTime + 2  BY <2>3, SMT
  <2>5. Types'
    <3>1. m_deadline' \in [Timers -> 0 .. MaxTime + 2]  BY <2>1, <2>2, <2>4 DEF Types, TypeOK
    <3>2. posted \in [Timers -> Nat] /\ fires \in [Timers -> Nat] /\ \A u \in Timers : posted[u] \in 0 .. fires[u]
      BY DEF Types, TypeOK
    <3>3. /\ posted' \in [Timers -> Nat] /\ fires' \in [Timers -> Nat]
          /\ \A u \in Timers : posted'[u] \in 0 .. fires'[u]
      BY <2>1, <2>2, <3>2, SMT
    <3>4. m_timers' \subseteq Timers /\ firing' \in (Timers \cup {NoTimer}) \ m_timers'
      BY <2>1, <2>2 DEF Types, TypeOK
    <3> QED BY <1>1, <2>1, <3>1, <3>3, <3>4 DEF Types, TypeOK, Never
  <2>6. Worker'  BY <1>1, <2>1 DEF Worker
  <2>7. Removals'  BY <1>1 DEF Removals
  <2>8. due_at[t] # Never /\ ~Requested(t) /\ \A c \in Threads : ~Adds(c, t)  BY <2>2 DEF Places
  <2>9. Places'
    <3>1. \A u \in Timers : NoTimer # u  OBVIOUS
    <3> QED BY <1>1, <1>2, <2>1, <2>2, <2>8, <3>1 DEF Places
  <2>10. m_deadline[t] <= clock /\ m_deadline[t] \in Nat /\ due_at[t] \in Nat /\ fires[t] \in Nat
    BY <1>1, <2>2, SMT DEF Worker, Types, TypeOK
  <2>11. /\ \A u \in Timers : u # t => /\ fires'[u] = fires[u] /\ m_deadline'[u] = m_deadline[u]
                                       /\ u \in m_timers' <=> u \in m_timers
                                       /\ firing # u /\ firing' # u
         /\ fires'[t] = fires[t] + 1 /\ m_deadline'[t] = clock + m_frequency[t]
         /\ firing' # t
         /\ t \in Regular <=> t \in m_timers'
    BY <2>1, <2>2 DEF Types, TypeOK
  <2>12. IF t \in Regular THEN due_at[t] + fires[t] <= m_deadline[t]
                          ELSE fires[t] = 0 /\ m_deadline[t] = due_at[t]
    BY <2>2, <2>8 DEF OnTime
  <2>13. OnTime'
    <3> SUFFICES ASSUME NEW u \in Timers
                 PROVE  /\ due_at[u] = Never => fires'[u] = 0
                        /\ due_at[u] # Never /\ u \in Regular => due_at[u] + fires'[u] <= m_deadline'[u]
                        /\ due_at[u] # Never /\ u \notin Regular =>
                             \/ fires'[u] = 0 /\ m_deadline'[u] = due_at[u]
                             \/ /\ fires'[u] = 1 /\ due_at[u] <= clock
                                /\ ~Requested(u) /\ u \notin m_timers' /\ firing' # u
                                /\ \A c \in Threads : ~Adds(c, u)
      BY <1>1, <1>2 DEF OnTime
    <3>1. CASE u # t  BY <2>11, <3>1 DEF OnTime
    <3>2. CASE u = t
      <4>1. due_at[t] # Never /\ t \in Regular => due_at[t] + fires'[t] <= m_deadline'[t]
        BY <2>3, <2>10, <2>11, <2>12, SMT
      <4>2. t \notin Regular => fires'[t] = 1 /\ due_at[t] <= clock  BY <2>10, <2>11, <2>12, SMT
      <4> QED BY <2>8, <2>11, <3>2, <4>1, <4>2
    <3> QED BY <3>1, <3>2
  <2>14. FiresOnTime'
    <3> SUFFICES ASSUME NEW u \in Timers, fires'[u] > 0
                 PROVE  fires'[u] <= IF u \in Regular THEN 1 + clock - due_at[u]
                                     ELSE IF due_at[u] <= clock THEN 1 ELSE 0
      BY <1>1 DEF FiresOnTime
    <3>1. CASE u # t  BY <2>11, <3>1 DEF FiresOnTime
    <3>2. CASE u = t  BY <2>3, <2>10, <2>11, <2>12, <3>2, SMT
    <3> QED BY <3>1, <3>2
  <2> QED BY <2>5, <2>6, <2>7, <2>9, <2>13, <2>14
<1> QED BY <1>3, <1>4

(* No timer in the set has expired.                                        *)
LEMMA ProcessingDoneIInv == ASSUME IInv, ProcessingDone PROVE IInv'
<1> USE DEF IInv, ProcessingDone, worker, timer, outside, Threads
<1>1. Types'
  <2>1. now' \in 0 .. MaxTime  BY TimerAssumption, SMT
  <2> QED BY <2>1 DEF Types, TypeOK, Never
<1>2. Worker'
  <2>1. now' <= clock  BY SMT DEF Types, TypeOK
  <2> QED BY <2>1 DEF Worker, Requested
<1>3. Removals'  BY DEF Removals
<1>4. Places'  BY SMT DEF Places, Requested, Adds, Never
<1>5. OnTime'  BY DEF OnTime, Requested, Adds, Never
<1>6. FiresOnTime'  BY DEF FiresOnTime
<1> QED BY <1>1, <1>2, <1>3, <1>4, <1>5, <1>6

(* A task leaves the executor.                                             *)
LEMMA ExecuteIInv == ASSUME IInv, NEW u \in Timers, Execute(u) PROVE IInv'
<1> USE DEF IInv, Execute, worker, timer
<1>1. Types'
  <2>1. posted' \in [Timers -> Nat] /\ \A t \in Timers : posted'[t] \in 0 .. fires[t]
    <3>1. posted[u] \in Nat /\ posted[u] - 1 \in Nat /\ posted[u] - 1 <= posted[u]  BY SMT DEF Types
    <3>2. posted' \in [Timers -> Nat]  BY <3>1, SMT DEF Types
    <3>3. \A t \in Timers : posted'[t] = IF t = u THEN posted[u] - 1 ELSE posted[t]  BY DEF Types
    <3>4. \A t \in Timers : fires[t] \in Nat /\ posted[t] \in 0 .. fires[t]  BY SMT DEF Types, TypeOK
    <3> QED BY <3>1, <3>2, <3>3, <3>4, SMT
  <2>2. executed' \in [Timers -> BOOLEAN]  BY DEF Types, TypeOK
  <2> QED BY <2>1, <2>2 DEF Types, TypeOK, Never
<1>2. Worker'  BY DEF Worker, Requested
<1>3. Removals'  BY DEF Removals
<1>4. Places'  BY SMT DEF Places, Requested, Adds, Never
<1>5. OnTime'  BY DEF OnTime, Requested, Adds, Never
<1>6. FiresOnTime'  BY DEF FiresOnTime
<1> QED BY <1>1, <1>2, <1>3, <1>4, <1>5, <1>6

(* The executor is shut down and drops its tasks.                          *)
LEMMA ShutDownExecutorIInv == ASSUME IInv, ShutDownExecutor PROVE IInv'
<1> USE DEF IInv, ShutDownExecutor, worker, timer, outside, Threads
<1>1. Types'  BY SMT DEF Types, TypeOK, Never
<1>2. Worker'  BY DEF Worker, Requested
<1>3. Removals'  BY DEF Removals
<1>4. Places'  BY SMT DEF Places, Requested, Adds, Never
<1>5. OnTime'  BY DEF OnTime, Requested, Adds, Never
<1>6. FiresOnTime'  BY DEF FiresOnTime
<1> QED BY <1>1, <1>2, <1>3, <1>4, <1>5, <1>6

(* shutdown empties the request queue if there is or was a worker.         *)
LEMMA ShutdownIInv == ASSUME IInv, Shutdown PROVE IInv'
<1> USE DEF IInv, worker, timer, outside, Threads
<1>1. /\ m_abort'
      /\ UNCHANGED <<m_idle, m_worker, m_timers, now, firing, wpc, arg, handle, m_cancelled, m_frequency,
                     m_deadline, due_at, fires, posted, executed, clock, executor_shut>>
  BY DEF Shutdown
<1>2. \/ pc[Closer] = "idle" /\ pc' = [pc EXCEPT ![Closer] = "notify_all"]
      \/ pc' = pc
  BY DEF Shutdown, Goto
<1>3. /\ m_request_queue' \in Seq([timer : Timers, opt : {"add", "remove"}])
      /\ m_request_queue' = m_request_queue \/ DOMAIN m_request_queue' = {}
  BY NothingRequested DEF Shutdown, Types, TypeOK, Requests
<1>4. /\ \A b \in Threads, u \in Timers : Adds(b, u)' => Adds(b, u)
      /\ \A b \in Threads : pc'[b] \in {"add", "remove"} => pc'[b] = pc[b]
      /\ pc' \in [Threads -> {"idle", "add", "remove", "notify", "notify_all", "join"}]
  BY <1>1, <1>2 DEF Adds, Types, TypeOK
<1>5. (\A u : Requested(u)' => Requested(u)) /\ Never' = Never  BY <1>3 DEF Requested, Never
<1>6. m_abort' \in BOOLEAN  BY DEF Shutdown
<1>7. Types'  BY <1>1, <1>3, <1>4, <1>5, <1>6 DEF Types, TypeOK
<1>8. Worker'  BY <1>1, <1>5 DEF Worker
<1>9. Removals'  BY <1>1, <1>3, <1>4 DEF Removals
<1>10. Places'  BY <1>1, <1>3, <1>4, <1>5 DEF Places
<1>11. OnTime'  BY <1>1, <1>4, <1>5 DEF OnTime
<1>12. FiresOnTime'  BY <1>1 DEF FiresOnTime
<1> QED BY <1>7, <1>8, <1>9, <1>10, <1>11, <1>12

(* The worker is woken to stop.                                            *)
LEMMA NotifyAllIInv == ASSUME IInv, NotifyAll PROVE IInv'
<1> USE DEF IInv, NotifyAll, Goto, worker, timer, outside, Threads
<1>1. Types'  BY DEF Types, TypeOK, Never
<1>2. Worker'  BY DEF Worker, Requested
<1>3. Removals'  BY DEF Types, TypeOK, Removals
<1>4. Places'  BY SMT DEF Types, TypeOK, Places, Requested, Adds, Never
<1>5. OnTime'  BY SMT DEF Types, TypeOK, OnTime, Requested, Adds, Never
<1>6. FiresOnTime'  BY DEF FiresOnTime
<1> QED BY <1>1, <1>2, <1>3, <1>4, <1>5, <1>6

(* The worker has ended.                                                   *)
LEMMA JoinIInv == ASSUME IInv, Join PROVE IInv'
<1> USE DEF IInv, Join, Goto, worker, timer, outside, Threads
<1>1. Types'  BY DEF Types, TypeOK, Never
<1>2. Worker'  BY DEF Worker, Requested
<1>3. Removals'  BY DEF Types, TypeOK, Removals
<1>4. Places'  BY SMT DEF Types, TypeOK, Places, Requested, Adds, Never
<1>5. OnTime'  BY SMT DEF Types, TypeOK, OnTime, Requested, Adds, Never
<1>6. FiresOnTime'  BY DEF FiresOnTime
<1> QED BY <1>1, <1>2, <1>3, <1>4, <1>5, <1>6

(* Time passes.                                                            *)
LEMMA TickIInv == ASSUME IInv, Tick PROVE IInv'
<1> USE DEF IInv, Tick, worker, timer, outside, Threads
<1>1. Types'
  <2>1. clock' \in 0 .. MaxTime  BY TimerAssumption, SMT DEF Types, TypeOK
  <2> QED BY <2>1 DEF Types, TypeOK, Never
<1>2. Worker'  BY SMT DEF Types, TypeOK, Worker, Requested
<1>3. Removals'  BY DEF Removals
<1>4. Places'  BY SMT DEF Places, Requested, Adds, Never
<1>5. OnTime'  BY SMT DEF Types, TypeOK, OnTime, Requested, Adds, Never
<1>6. FiresOnTime'
  <2>1. \A t \in Timers : fires[t] \in Nat /\ due_at[t] \in Nat
    BY TimerAssumption, SMT DEF Types, TypeOK, Never
  <2>2. clock \in Nat /\ clock' = clock + 1  BY SMT DEF Types, TypeOK
  <2>3. fires' = fires /\ due_at' = due_at  BY SMT
  <2> QED BY <2>1, <2>2, <2>3, SMT DEF FiresOnTime
<1> QED BY <1>1, <1>2, <1>3, <1>4, <1>5, <1>6

(* Every step keeps the invariant.                                         *)
LEMMA NextIInv == IInv /\ [Next]_vars => IInv'
<1> SUFFICES ASSUME IInv, [Next]_vars PROVE IInv'  OBVIOUS
<1>1. CASE UNCHANGED vars
  <2> USE <1>1 DEF vars, IInv, worker, timer, outside
  <2>1. Types'  BY DEF Types, TypeOK, Never
  <2>2. Worker'  BY DEF Worker, Requested
  <2>3. Removals'  BY DEF Removals
  <2>4. Places'  BY SMT DEF Places, Requested, Adds, Never
  <2>5. OnTime'  BY DEF OnTime, Requested, Adds, Never
  <2>6. FiresOnTime'  BY DEF FiresOnTime
  <2> QED BY <2>1, <2>2, <2>3, <2>4, <2>5, <2>6
<1>2. CASE WorkLoop
  BY <1>2, WaitIInv, TimeoutIInv, TimedOutIInv, ReadClockIInv, ExtractIInv, FireIInv, ProcessingDoneIInv,
     Zenon DEF WorkLoop
<1>3. CASE \E c \in Callers : MakeTimer(c) \/ Cancel(c) \/ CallerSteps(c)
  BY <1>3, MakeTimerIInv, CancelIInv, AddTimerIInv, RemoveInternalTimerIInv, NotifyIInv DEF CallerSteps
<1>4. CASE \E t \in Regular : SetFrequency(t)  BY <1>4, SetFrequencyIInv
<1>5. CASE \E t \in Timers : Execute(t)  BY <1>5, ExecuteIInv
<1>6. CASE ShutDownExecutor \/ Shutdown \/ NotifyAll \/ Join \/ Tick
  BY <1>6, ShutDownExecutorIInv, ShutdownIInv, NotifyAllIInv, JoinIInv, TickIInv
<1> QED BY <1>1, <1>2, <1>3, <1>4, <1>5, <1>6 DEF Next

-----------------------------------------------------------------------------
(* The inductive invariant holds in every reachable state.                 *)
THEOREM Invariance == Spec => []IInv
BY InitIInv, NextIInv, PTL DEF Spec

(* Every variable has a value the code can give it; the timer whose        *)
(* deadline fire() changes is not in the set, which is ordered by it.      *)
THEOREM TypeCorrect == Spec => []TypeOK
<1>1. IInv => TypeOK  BY DEF IInv, Types
<1> QED BY <1>1, Invariance, PTL

(* The assertions of process_request_queue never fail: a timer is added to *)
(* the set once, and what is removed without being there was cancelled.    *)
THEOREM AssertionsNeverFail == Spec => []AssertionsHold
<1>1. IInv => AssertionsHold
  <2> SUFFICES ASSUME IInv PROVE AssertionsHold  OBVIOUS
  <2> SUFFICES ASSUME NEW k \in DOMAIN m_request_queue
               PROVE  IF m_request_queue[k].opt = "add" THEN ~Contains(m_request_queue[k].timer, k)
                      ELSE m_cancelled[m_request_queue[k].timer]
    BY DEF AssertionsHold
  <2> DEFINE t == m_request_queue[k].timer
  <2>1. m_request_queue[k] \in Requests /\ t \in Timers /\ k \in Nat
    <3>1. m_request_queue \in Seq(Requests)  BY DEF IInv, Types, TypeOK, Requests
    <3>2. m_request_queue[k] \in Requests /\ k \in Nat  BY <3>1, SMT
    <3> QED BY <3>2 DEF Requests
  <2>2. CASE m_request_queue[k].opt = "add"
    <3>1. m_request_queue[k] = [timer |-> t, opt |-> "add"]  BY <2>1, <2>2 DEF Requests
    <3>2. Requested(t)  BY <3>1 DEF Requested
    <3>3. t \notin m_timers  BY <2>1, <3>2 DEF IInv, Places
    <3>4. \A i \in DOMAIN m_request_queue : m_request_queue[i] = [timer |-> t, opt |-> "add"] => i = k
      BY <2>1, <3>1 DEF IInv, Places
    <3>5. ~(k < k)  BY <2>1, SMT
    <3> QED BY <2>2, <3>3, <3>4, <3>5 DEF Contains
  <2>3. CASE m_request_queue[k].opt = "remove"  BY <2>3 DEF IInv, Removals
  <2> QED BY <2>1, <2>2, <2>3 DEF Requests
<1> QED BY <1>1, Invariance, PTL

(* A timer in the set or about to enter it has a worker that looks after   *)
(* it, whenever the worker has ended and been started again.               *)
THEOREM LookedAfter == Spec => []WorkerPresent
<1>1. IInv => WorkerPresent  BY DEF IInv, Worker, WorkerPresent
<1> QED BY <1>1, Invariance, PTL

(* No timer is fired before it is due, one-shot timers and delays are      *)
(* fired once, regular timers no more often than their frequency allows.   *)
THEOREM Punctual == Spec => []FiresOnTime
<1>1. IInv => FiresOnTime  BY DEF IInv
<1> QED BY <1>1, Invariance, PTL
=============================================================================
