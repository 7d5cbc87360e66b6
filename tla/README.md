# A TLA+ model of concurrencpp

concurrencpp is a C++20 library of coroutines: results that carry an outcome
from a producer to a consumer, executors that run tasks, timers, and a lock and
a condition variable for coroutines. What is hard in it is not the data but the
meeting of threads: two atomics, a semaphore and a mutex at a time, in orders no
test chooses. These modules model that part, at the grain of one atomic access
or one critical section per step. Paths below are relative to the repository.

## The parts and how they interact

| Part | Source | Here |
|---|---|---|
| result state: promise, result coroutine, `submit`, `bulk_submit`, `result<T>` | `include/concurrencpp/results/impl/result_state.h`, `source/results/impl/result_state.cpp`, `consumer_context`, `producer_context` | `ResultState`, `ResultStateProofs` |
| what a result promises | (the same, seen from outside) | `Future` |
| `when_any`, `when_all`, their resume executor | `results/when_result.h`, `results/resume_on.h`, `consumer_context.cpp` | `WhenResult`, `WhenResultProofs` |
| `shared_result` | `results/impl/shared_result_state.{h,cpp}` | `SharedResult`, `SharedResultProofs` |
| thread pool | `executors/thread_pool_executor.{h,cpp}` | `ThreadPool` |
| worker thread | `executors/worker_thread_executor.{h,cpp}` | `WorkerThread`, `WorkerThreadProofs` |
| what an executor promises | `executors/executor.h` | `Executor` |
| timer queue, timers, delay objects | `timers/` | `TimerQueue`, `TimerQueueProofs` |
| `async_lock` | `threads/async_lock.{h,cpp}` | `AsyncLock` |
| `async_condition_variable`, `resume_on` | `threads/async_condition_variable.{h,cpp}`, `results/resume_on.h` | `AsyncConditionVariable` (composes it with the lock), `AsyncConditionVariableProofs` |
| manual executor | `executors/manual_executor.{h,cpp}` | `ManualExecutor` (proofs in `RuntimeProofs`) |
| thread executor | `executors/thread_executor.{h,cpp}` | `ThreadExecutor` (proofs in `RuntimeProofs`) |
| runtime | `runtime/runtime.{h,cpp}` | `Runtime` (composes the two above), `RuntimeProofs` |
| inline executor, lazy result, generator, task, bind, errors, thread names | | not modelled: sequential, or without state |

A result coroutine or promise completes a *result state*; the consumer waits,
polls or suspends on it. `when_any` is one consumer of several states;
`shared_result` is a coroutine that consumes one state and publishes the outcome
to many. `submit` makes the coroutine an executor's task. A suspended consumer is resumed by the completing thread, or through
an *executor*: `resume_on`, timers and the lock post continuations as tasks, and
a task an executor destroys without running interrupts its coroutine. The
*runtime* owns the timer queue and the executors and shuts them down in that
order. Two compositions are modules of their own, with their parts as instances: the
condition variable, which releases and retakes an async lock, and the runtime with a
thread executor and a manual executor whose tasks use each other's executor.

## Modules and code

In every module variables named `m_...` are the members of that name, `pc`, `ppc`,
`cpc`, `wpc`, `lpc`, `upc` say which statement a thread or coroutine executes next,
and variables at the end of the list (`created`, `ran`, `got`, `freed`, `fires`, ...)
record history for the properties. `X_Y` is a variant of the action `X` with a
plausible mistake in it; none is part of a specification.

* `ResultState`: setting the outcome or abandoning the promise, the exchange of
  `complete_producer` and what follows it, and the consumer's `wait`, `wait_for`,
  `get`, `co_await`, `resolve`, `status` and destruction, split at each atomic access.
  Freeing the state is recorded in `freed`; a producer that reads the context
  afterwards may find it intact or end in the position `undefined`. A run starts with
  any of the producers: a promise, a coroutine that runs at once, one that an executor
  holds as a task and executes or destroys, and one of a `bulk_submit`, which is first
  collected (`accumulated`) and enqueued with the others, or destroyed if that throws.
* `WhenResult`: the loop of `when_any`'s `await_suspend` over the results, `resume_inline`,
  the producers' `try_resume` loop on `m_status`, `await_resume` with the rewinding;
  `when_all`'s awaits one after the other; `resume_on`, whose executor runs, destroys or
  refuses the continuation; the end of the results after an interrupt, and further
  calls on the results that are left.
* `SharedResult`: `complete_producer` and its loop over the awaiters, and the
  double-checked `m_ready` of the consumers.
* `ThreadPool`: the enqueue paths (local, idle worker, round robin, span),
  `idle_worker_set` with its flags and its counter as separate steps, `drain_queue`,
  `balance_work`, `wait_for_task` with the time-out, starting a thread, `shutdown`.
* `WorkerThread`: the two queues, the semaphore, `shutdown`.
* `ThreadExecutor`: `enqueue` of one task or a span, the retirement in which each thread
  leaves itself in `m_last_retired` and joins the one it found there, `shutdown`, which
  keeps `m_lock` while it joins the last one.
* `ManualExecutor`: `enqueue`, the `loop` and `wait_for_tasks` families with and without a
  limit, `clear`, `shutdown`; one condition variable for all the waiters.
* `Runtime`: registration under `m_lock`, the destructor (timer queue, then
  `shutdown_all` over the executors in their order, with the lock held), the owner's
  thread and the executors' tasks calling both executors, a timer that posts. The
  timer queue's `shutdown`, which joins its thread, is one step here.
* `TimerQueue`: requests, the worker's loop with its idle exit, firing, `cancel`,
  `set_frequency`, delay objects, `shutdown`, an executor that may be shut down. The
  worker takes a whole batch of requests under the lock; `Contains` says of each timer
  whether the loop over the batch leaves it in the set.
* `AsyncLock`: `lock`, `try_lock`, `unlock` with inline resumption, and the path
  where the resume executor refuses or destroys the continuation.
  `AsyncConditionVariable` gives the coroutines a program and adds who runs on top
  of whom, since `unlock()` and `notify_*()` resume inline, mutexes held included.

`std::binary_semaphore` may be released past its maximum by this code, which the
standard leaves undefined: the count then becomes 1 or goes up, both are explored.

## What the runs check

* `result_state`: `AssertionsHold` (the code's assertions), `FreedExactlyOnce`,
  `ContextExclusive` (no race on `m_consumer`), `AnswersReady` (a blocking call returns
  with the outcome, or as a `wait_for` that has undone all it did), `ImplementsFuture`
  (refinement of `Future`), `WaiterReleased` (no lost wake-up).
* `when_result`: `ResultFound` (`await_resume` finds a ready result of this call in
  `m_status`, never one of the two marks, and it stays there until the call returns),
  `ResumedOnce` (only while suspended in this very call, by one producer),
  `ResultsReturned` (the reported result is ready, all are given back or destroyed as
  they were got), `ContextExclusive`, `CallsEnd`.
* `shared_result`: `AwaitersSuspended`, `ImplementsFuture` (for each consumer),
  `ConsumersReleased`.
* `thread_pool`: `AssertionsHold`, `TasksConserved`, `IdleWorkersCounted` (with one
  thread per worker), `ImplementsExecutor`, `TasksPickedUp`, `ShutdownReturns`.
* `worker_thread`: `ExecutedInOrder`, `ImplementsExecutor`, `TasksLeaveQueue`.
* `async_condition_variable`: `MutualExclusion`, `HandOff`, `AwaitersSuspended`,
  `ConsumersServed`; the check for deadlock is on.
* `timer_queue`: `AssertionsHold`, `WorkerPresent`, `FiresOnTime`, `TimersServed` (expired timers fire,
  cancelled ones are in the end forgotten), `DelaysResume`.
* `runtime`: `QuiescentWhenDestroyed` (when the destructor returns, no thread, no call
  and no task is left, also when a task registers the manual executor while the runtime
  is being destroyed), `ThreadsJoined`, `ImplementsExecutor` (for both executors),
  `CallsReturn`.

`shared_result`, `thread_pool`, `async_condition_variable` and `timer_queue` check
`TypeOK` besides, which in these modules says more than types: that `m_ready` comes after
the outcome, that a thread hands over one batch, not empty, to each worker it has chosen
and none to itself, that no consumer takes an item that is not there, that a timer being
fired is not in the ordered set. In the other modules `TypeOK` is proved, and no run is
spent on it.

Each of these properties is violated by at least one of the `X_Y` variants.

Three of them are weaker than one would wish, because the code is.
`AssertionsHold` of the pool does not claim line 349 of
`thread_pool_executor.cpp` (a worker that waits has no private task) for a worker
whose `m_atomic_abort` is set: `shutdown` stores `m_atomic_abort` (463) before
`m_abort` (467), and in between a thread can exit with private tasks and another be
started for the same worker. `TasksPickedUp` accepts that the worker's thread ends;
`EnqueuedTaskLeavesQueue`, without that, does not hold (below). `CallsReturn` claims that
the runtime's destructor returns unless a task of the thread executor is blocked for
good: in a `wait_for_tasks` without limit on a manual executor, which is shut down
only after the thread executor has joined that very task; or in
`make_manual_executor`, whose `m_lock` `shutdown_all` holds. The runs `runtime`,
`when_result`, `shared_result`, `thread_pool`, `worker_thread` and `timer_queue` do not check for
deadlock: their systems may stop, with everything shut down or with consumers that
wait for a result nobody produces.

### Disagreements with the documentation

| Run | Property | What TLC shows |
|---|---|---|
| `result_state_lifetime` | `ConsumerContextProtected` | a `wait_for` whose rewind fails returns while the producer has yet to read `m_consumer`; the consumer can free the state first (`result_state.h:118`) |
| `when_any_completes` | `WhenAnyCompletes` | a result that completes between the load and the CAS in `result_state_base::when_any` is neither registered nor reported, and the coroutine can stay suspended (`result_state.cpp:77`) |
| `thread_pool_stranded` | `EnqueuedTaskLeavesQueue` | a task pushed between a worker's time-out and its lock stays in a queue without a thread (`thread_pool_executor.cpp:296`) |
| `thread_pool_shutdown` | `ExitsGracefully` | a worker donates to one that has been shut down, and the exception leaves the thread's function (`thread_pool_executor.cpp:231`) |

One more, which the model of the worker thread has and no run singles out:
`m_private_atomic_abort` is read by the executor's own tasks when they enqueue
(`worker_thread_executor.cpp:80`) and is never set, so they go on enqueueing after
`shutdown` was called, and the thread ends only when it finds its queue empty.
`README.md:256` says that `shutdown` "Makes subsequent calls to enqueue, post, submit,
bulk_post and bulk_submit to throw concurrencpp::errors::runtime_shutdown exception".
`ImplementsExecutor` does not depend on it: every such task is executed or destroyed,
and none is executed after `shutdown` has returned.

### Bounds

* `result_state`: two values, two exceptions; a state has one producer and one
  consumer by construction, and calls are not bounded.
* `when_result`: three results and up to three calls, so that one producer can win, one
  be late, and one stay pending into the next call, of either kind.
* `shared_result`: three consumers (list of more than one, and one arriving late).
* `thread_pool`: two workers and three tasks: enough for a donation, a worker that
  keeps a share, a span over all workers and a restart of a thread. With two workers
  the search for idle workers has one candidate other than the searcher.
* `worker_thread`: two enqueuers, one closer, four tasks.
* `async_condition_variable`: two producers, two consumers.
* `timer_queue`: one caller, one regular timer, one delay object, a clock up to 2.
  A due time of 1 fits a first and a second firing of the regular timer. One-shot
  timers have the same actions as delay objects, but cancelling one is not exercised
  by this run: the set `Oneshot` is empty. Two callers pass too, but take long.
* `runtime`: two threads and two tasks of the manual executor, of which the owner and
  the first thread loop and wait, once each, with a count of at most 2: a thread can
  retire while the other waits, and a waiter be overtaken by another one.

### Fairness

Weak fairness of each thread inside a call or a work loop: the operating system
schedules it, and a blocked step is enabled only when what it waits for is there.
Tasks that run return. Nothing is assumed of calls that a user makes, of a producer
that computes its outcome, or of idle time-outs. The timer queue also assumes that
time passes and that an executor runs what it accepted; `WhenResult` that the resume
executor executes or destroys it, and `Runtime` that a task returns when none of its
calls blocks. No strong fairness is used.

## What is proved

TLAPS checks the following for every value of the constants.

* `ResultStateProofs`: type correctness, `AssertionsHold`, `FreedExactlyOnce`,
  `ContextExclusive`, `AnswersReady`, and that the handshake implements `Future`. None of
  them is inductive. `IInv` adds, for each position of the consumer, the value `m_pc_state`
  has while the producer has not exchanged it (`StateWhileProducing`), and, once it
  has, where the consumer can be for each position of the producer
  (`ConsumerWhileCompleting`); the rest ties the context, the outcome, the coroutine
  handle, `freed` and the call in progress (`CallMatches`) to those positions. The refinement maps the exchange to
  publication, a returning call to a report, a join to taking the outcome. Assumed:
  `OutcomesDistinct` (values, exceptions and the "none" mark are distinct).
* `WhenResultProofs`: type correctness, `ResultFound`, `ResumedOnce`, `ResultsReturned` and
  `ContextExclusive`, for any number of results and of calls (`BoundsAssumption`: at least
  one of each). A producer
  that is late holds a context of an earlier call, so `Statuses` says what `m_status` is
  in every call: a result in those that are over, `k_processing` in those to come. Hence
  the CAS of `try_resume` can only succeed on the call in progress. `ContextGiven` says
  which contexts producers can hold, `Handshake` and `Registered` from which turn of the
  first loop to which turn of the second a result refers to the coroutine, `AtResult` and
  `Awaited` what holds at the current turn and before it.
* `SharedResultProofs`: type correctness (`m_ready` is stored after the outcome, and nobody
  enters the list afterwards), `AwaitersSuspended` and the refinement of `Future`, for any
  set of consumers, from the same assumption. `Positions` ties `m_ready` and the outcome to
  the producer's position, and a consumer about to return to `m_ready`; `ListedOnce` says
  that one of the two lists, `m_awaiters` before `m_ready` and the producer's own after
  it, holds exactly the suspended consumers, each once. Two lemmas say what linking a
  node in front and taking the first one do to such a list.
* `WorkerThreadProofs`: type correctness, `ExecutedInOrder` and the refinement of
  `Executor`, for any number of threads and tasks. That tasks are executed in order is
  settled long before, when they enter a queue, so `Order` states it of every place: before
  the task in execution, before each task of the private queue and before each one of the
  public queue come all the earlier tasks of its kind, and none is missing while the
  thread lives. `Places` says that a task is in one place and only once; `Control` which
  positions of `shutdown` and of the thread exclude each other, so that the two `clear`s
  cannot meet a running task; `Tokens` bounds the semaphore by the releases. The lemmas say what
  `push_back`, a span, `pop_front` and the swap of the queues do to such queues. Assumed:
  `WorkerAssumption` (finitely many threads and tasks).
* `AsyncConditionVariableProofs`, first of the lock by itself (`LockInvariance`, over the
  instance `L`): `MutualExclusion`, `HandOff` and `AwaitersSuspended`, for any set of
  coroutines. Their conjunction with the type invariant is inductive: who resumes whom
  depends on the queue holding exactly the suspended coroutines. Then of the composition:
  it implements the lock's specification, for any producers and consumers, and so
  inherits `MutualExclusion` and `HandOff`. Its own `TypeOK` includes that no consumer
  takes an item that is not there, and its `AwaitersSuspended` is about all the queues: the lock's,
  the condition variable's, and what each `notify_all` in progress has swapped out of it. `IInv` adds to the lock's
  invariant `Hold` (these queues hold exactly the coroutines that await, each once),
  `Positions` (where a coroutine can be in its program for each position in `lock_impl`)
  and `Counted` (an item for each producer that has passed its insertion at most).
  Assumed: `CoroutinesAssumption` (finitely many producers; the mark for "nobody" is no
  coroutine).
* `RuntimeProofs`, first of the thread executor by itself (over the instance `T`): when
  `shutdown` returns every thread has ended (`AllJoined`), and it implements `Executor`.
  `shutdown` joins only one thread, so the invariant follows the chain of joins: `Chained`
  says that the threads retired before a thread are those retired before the one it
  joins, and that one; `EndInOrder` that a thread ends after all of them;
  `WorkersListed` and `Closing` tie the list and the positions of `shutdown` to the threads.
  Then of the manual executor by itself (over the instance `M`): type correctness and the
  refinement of `Executor`, for any number of threads that enqueue, loop, wait, clear and
  shut down at once. `Apart` says that the queue, the tasks in execution, the executed and
  the destroyed ones are disjoint and hold each task once, `InCalls` that a thread executes
  a task only inside a `loop` whose count is not used up, `Shutting` that one thread shuts
  down and nothing enters the queue behind its back. Then of the composition: every step of the runtime, of its timer and of its tasks is a
  step of the thread executor's specification or leaves it alone, and likewise for the
  manual executor (`UsesExecutors`). So `ThreadsJoined` holds in the runtime, and both
  executors keep the contract of `Executor` there (`ImplementsExecutor`), whatever tasks,
  timers and destructor do. Type correctness needs `Registering` and `Destroying` besides:
  whoever is in `make_manual_executor` keeps `shutdown_all` from having been through the
  list. `QuiescentWhenDestroyed` needs to know who can be in a call of the manual executor
  (`Using`): the owner, and tasks that are running, none of which is left once the thread
  executor is shut; a `shutdown` under way has somebody in it, so `shutdown_all`, which does
  not wait for a `shutdown` it has not called itself, finds it over all the same. Assumed:
  `RuntimeAssumption` (the bounds are natural numbers).
* `TimerQueueProofs`: type correctness, `AssertionsHold`, `WorkerPresent` and `FiresOnTime`,
  for any timers, threads and due times. `Worker` says that `m_idle` means no worker, no
  timer and no request; `Places` that a timer is referred to in one place only (the call
  that adds it, its request, the set, or the worker's hands) and in none before it is
  made; `OnTime` that the deadline of a regular timer has moved on by at least one unit
  for each firing, and that a one-shot timer that has fired is nowhere any more;
  `Removals` that only a cancelled timer is removed. Assumed: `TimerAssumption` (times are
  natural numbers; the mark for "no timer" is no timer).

Only model-checked:

* every liveness property: fairness and ENABLED are beyond the prover;
* the safety of `ThreadPool` (`TypeOK`, `AssertionsHold`, `TasksConserved`, `IdleWorkersCounted`,
  `ImplementsExecutor`). `TasksConserved` counts the tasks over all the queues joined together, whose
  length and contents the prover cannot follow for any number of workers without
  induction; the others need an invariant over some thirty positions of each worker that
  has not been worked out.

The leaves that cite `SMT` and speak of sequences deserve care when they are changed:
the translation of `Len` and `Seq` in this version of the prover is not guarded by its
argument being a sequence, and from a term that is none it can derive a contradiction.
These leaves have been checked a second time with Z3 by itself, with the axioms restricted
to sequences.

No module here declares a recursive operator.

## What is not modelled

* Memory orders: the model is sequentially consistent; `relaxed` and `acquire`/`release`
  are not told apart. Allocation failures. A process that ends because an exception
  left a thread is a final state.
* Executors: two pools whose tasks enqueue to each other (`this_worker` is thread-local
  and not tied to a pool); shutting an executor down from one of its own tasks; a task
  of a manual executor that calls its `loop`; a thread that cannot be created, after
  which `thread_executor` has an empty entry in `m_workers`; an executor that refuses the
  initial post of a coroutine (`promises.h:59`), where what the exception does depends on
  the compiler; `post` and `bulk_post`, which wrap callables and call `enqueue`.
* `manual_executor.cpp:209` compares the number of tasks with 1 and so answers false for
  two tasks, which `README.md:485` does not say: the answers of these calls are not
  state of the model.
* Runtime: the inline executor, the thread pools and worker threads are not part of the
  composition; the first has no threads, the others are shown to keep the contract of
  `Executor` by themselves.
* Timers: a timer that outlives its queue; what a coroutine does when `shutdown` destroys
  its delay with `m_lock` held. A removal requested after the worker has gone idle
  (`timer_queue.cpp:162`) is modelled, but no property is about the timer's state being
  kept alive by that request until the next worker or the shutdown.
* The checks of arguments of `when_any`, `when_all` and the others, which throw before
  anything changes; the inline executor, lazy results, generators, tasks, thread names
  and utilities, which are sequential or without state.

What would come next: two pools and shutdown from inside in `ThreadPool`, one-shot timers
in the timer run, a run that singles out `README.md:256` for the worker thread, and a
proof of `IdleWorkersCounted` of `ThreadPool`.
