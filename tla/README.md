# Beekeeper in TLA+

This directory specifies the worker pool of this repository, model-checks the
specifications with TLC and proves some of their properties with TLAPS.

    tlc -config HiveInUse.cfg MCHive        # one of the runs of section 3
    tlapm HiveProofs.tla                    # one of the proof modules of section 4

Throughout, "the hive" is the pool: a `Hive` handle and its clones, the state
they share (`Shared`) and the worker threads. Source paths are relative to
`src/src/hive` unless they say otherwise.

## 1. The system

### Components

| component | state | operations | where it is hard |
|---|---|---|---|
| hive handles (`hive.rs`) | sender of the task channel, reference to `Shared` | submit (apply, swarm, map and scan families), join, suspend, resume (and resubmit), grow, use_all_cores, clone, drop, try_into_husk, take_stored | clones used by several threads at once, while one of them is dropped or turned into a husk |
| shared state (`shared.rs`) | task counter, index counter, panics, referrers, poisoned and suspended flags, task receiver, two gates, stored outcomes, configuration | prepare a task, next_task, finish_task, has_work, poison, drain, take outcomes | every field has its own atomic or lock; functions read several, one after the other |
| worker threads and sentinels (`hive.rs`) | the task in hand | take a task, apply the worker, deliver the outcome, finish; on a panic, start a replacement | panics in the middle of a task, from a destructor |
| task counter (`counter.rs`) | one 64-bit word | increment_left, decrement_right, transfer | overflow and borrow between the halves |
| join gate (`gate.rs`, PhasedGate) | mutex, condition variable, phase | wait_while, notify_all | lost wakeups; a condition that flips back |
| resume gate (`gate.rs`, Gate) | mutex, condition variable | wait_while, notify_all | a suspension racing a notification |
| retry (`delay.rs`, feature) | delay queue, time of the next retry | queue_retry, next_task | time, width of the backoff, a retry after shutdown, a flag read without its lock |
| ordered iterator (`outcome/iter.rs`) | indices still to return, buffer, what is left of the limit | next, and the adapters | outcomes that arrive out of order, never, or belong to others |
| outcome channels (`../channel.rs`) | std or another mpsc channel | try_send_msg | the receiver may be gone |
| outcomes and their store (`outcome/*.rs`) | map from indices to outcomes, shared by the hive, owned by a husk or a batch | queries, removal, consumption of a batch | workers that add outcomes and clients that remove them meanwhile; kinds whose predicates overlap |
| husk (`husk.rs`) | what is left of a hive | rebuild, resubmit what is unprocessed | inputs that live through several hives |
| configuration (`config.rs`, `builder.rs`, `../atomic.rs`) | optional cells, global defaults | set, into_sync, into_unsync | a cell used in the wrong form; defaults that change meanwhile |
| core affinity (`cores.rs`, feature) | list of the machine's cores | refresh, union, get | threads that look up cores while the list grows |
| bees (`../bee`, `../util.rs`) | none of their own | create, apply, is_cancelled | implemented by users; may fail, panic, catch a panic or give their input back |

### How they interact

A submitter raises the queued counter, reserves indices, reads the poisoned
flag once and sends tasks into an mpsc channel. A worker passes the resume
gate, reads the poisoned flag, takes the receiver's mutex and receives with a
timeout; with a task in hand it moves one from the queued to the active
counter, applies the worker and sends the outcome to the task's channel or
stores it. `finish_task` lowers the active counter, evaluates `has_work` and
notifies the join gate if there is none. A thread that unwinds runs its
sentinel's destructor, which calls `finish_task` and starts another thread; a
thread that leaves its loop runs the same destructor. The last handle to go
poisons the hive and drains the channel; `try_into_husk` joins, drops the
sender, waits for all threads to go and takes the state apart.

In the retry build a task whose worker asks for it goes into a delay queue, from
which `next_task` serves before it looks at the channel. An input that is given
back because the hive is suspended is stored; resuming may submit it again. A
client of an ordered call reads its outcomes through the iterator and collects
them into a batch. A hive is built from a Builder, which was filled from the
global defaults, and its husk can be made a Builder again.

What makes each part correct is listed, with the line where it can go wrong,
under "hazards" in PROJECT.json; the properties below are aimed at that list.

## 2. The modules

| module | what it is |
|---|---|
| `DualCounter` | the pair of counters and what each operation does to it, wrap-around included |
| `CounterPair` | the counter as callers see it: atomic operations on a pair |
| `PackedCounter` | the counter as built: one word, `fetch_add`, `fetch_sub`, and the verdict from the previous value. Implements `CounterPair` |
| `PhasedGate` | the steps of `PhasedGate::wait_while` and `notify_all`; the condition is a parameter of the step that evaluates it |
| `JoinGate` | PhasedGate with the callers of `Shared`, work reduced to one bit |
| `ResumeGate` | `Gate` with `set_suspended` |
| `Await` | what the resume gate promises: pass in one step while not suspended. `ResumeGate` implements it, `Hive` uses it |
| `Hive` | handles, shared state, worker threads and sentinels. Uses `DualCounter` for the counter and an instance of `PhasedGate` for the join gate |
| `RetryHive` | what the retry build changes in `Hive`: delay queue, `next_retry`, backoff, drain |
| `TaskPool` | what a pool promises about a task |
| `HivePool` | the refinement mapping from `Hive` to `TaskPool`, which `RetryHive` uses too |
| `Outcomes` | the kinds of outcomes, what each kind of worker makes of a task, and what may be asked of an outcome |
| `OutcomeStore` | a map of outcomes: queries, removal, and the methods that consume a batch |
| `InputLife` | what a hive promises about an input that may be cancelled |
| `Resubmit` | suspension, cancelled inputs, resubmission, removal from the store and rebuilding. Uses `ResumeGate` step by step |
| `OutcomeIterator` | the channel and the ordered iterator |
| `MapCall` | a call of the map, swarm or scan family from submission to what is made of its batch. Uses `OutcomeIterator` and `OutcomeStore` |
| `Cells` | `AtomicOption` and what can be done to it in each form |
| `Config` | the settings, the methods of Builder, the conversions of a configuration |
| `Cores` | the machine's list of cores and the lists of indices |
| `Threads` | defaults, builder, hive and husk, enlarging the pool, starting and pinning threads. Uses `Config` and `Cores` |
| `MC*` | instances for TLC |
| `*Proofs` | theorems |

Composition: `Hive` EXTENDS `DualCounter` and instantiates `PhasedGate` with
its handles as the threads; `RetryHive` EXTENDS `Hive` (by `HivePool`);
`Resubmit` EXTENDS `ResumeGate` and `OutcomeStore`; `MapCall` EXTENDS
`OutcomeIterator` and `OutcomeStore`; `Threads` EXTENDS `Config` and `Cores`.
`PackedCounter` justifies using the pair, and the refinement of `Await`,
checked in `Resubmit` and proved, the one step `PassResumeGate`.

### Correspondence of `Hive` with the code

A step is one access to shared state. Sequences of accesses are one step only
where nobody else can see the state in between: raising the queued counter and
reserving indices (their readers are different functions), clearing the
suspended flag and notifying the resume gate (that is `ResumeGate`), a send
under the outcome store's lock.

| variable | code |
|---|---|
| `counter` | `num_tasks`, a pair: left queued, right active |
| `numPanics`, `nextIndex`, `poisoned`, `suspended`, `referrers` | the fields of `Shared` with these names |
| `queue`, `rxLock` | the task channel and the mutex around its receiver |
| `dest`, `rxOpen` | a task's `outcome_tx` (none, a client's channel, or the private one of `apply`); whether the client still has its receiver |
| `outcomes`, `sent`, `taken`, `lost` | stored outcomes; outcomes sent to a channel; what `take_stored` returned; tasks dropped without an outcome |
| `pc`, `why`, `task`, `batch` | where a thread or a handle's call is, why it called `finish_task` or joins, what it has in hand |
| `at`, `saved`, `phase`, `mutex` | the join gate |
| `owed`, `late`, `suspends` | history variables that properties need; no guard but the bound on suspensions reads them |

| function | actions |
|---|---|
| `send_one`, `send_batch` | `Submit`, `Admit`, then `Send` or `Refuse` per task; `ApplyReturns` for `apply` |
| `Hive::spawn` (the loop) | `Boot`, the actions of `next_task`, `Complete`, `Cancel`/`ReturnInput` or `Panic`, then `FinishTask` and what follows |
| `next_task` | `PassResumeGate`, `Poll`, `LockReceiver`, `Receive`, `RecvTimeout` or `RecvDisconnected`, `TransferTask` |
| `finish_task`, `no_work_notify_all` | `FinishTask`, `HasWorkStep`, `Notify` |
| `has_work` | `ReadPoisoned`, `ReadCounts`, `ReadSuspended` |
| `Sentinel::drop` | `FinishTask` with `why` = "panic" or "exit", then `Respawn` |
| `poison`, `drain_tasks_into_unprocessed` | `Poison`, `Drain` |
| `join` | `Join`, `HasWorkStep`, `JoinStep` |
| `suspend`, `resume`, `take_stored`, `grow`, `clone` | `Suspend`, `Resume`, `TakeStored`, `Grow`, `Clone` |
| `Hive::drop` | `Drop`, `DropLast`, `Poison`, `Drain` |
| `try_into_husk` | `TryIntoHusk`, (join), `DropSender`, `Extract`; `ReturnNone` when there are other handles |

Data is abstracted: a task is its index, an input or output has no value, and
the ways `Worker::apply` can end are three: an outcome (success, failure or a
caught panic alike), the input given back because the hive is suspended, and a
panic that unwinds. A panic during unwinding aborts the process: nothing
happens any more (`Aborted`).

### Correspondence of the other modules

`RetryHive` has the variables and actions of `Hive` and adds those below. Times
are relative to the present: an entry of the queue says how long until it is
available, `Tick` lowers all of them, and 0 is a time that has come.

| code | actions and variables |
|---|---|
| `RetryQueue` (`delay.rs`), its lock, `next_retry` | `retryQueue`, `retryLock`, `nextRetry` |
| `next_task` | `RetryPoll`, `ReadNextRetry`, then `PopNothing` or `PopRetry` with `UpdateAfterPop`, or the steps of `Hive`; `RetryTransferTask` |
| `Hive::execute` | `Retry`, `RetryPanics` (the checked power fails), otherwise as in `Hive` |
| `queue_retry`, `update_next_retry` | `QueueRetry`, `UpdateAfterPush`; `UpdateNextRetry` |
| `drain_tasks_into_unprocessed` | `LockOutcomes`, `DrainChannel`, `DrainRetries`, which hold the lock of the outcomes to the end |
| `try_into_husk` | `RetryExtract` |

`Resubmit` follows single inputs: an outcome records the input it is `of`, so
that a task and its resubmission can be told apart from two tasks. The gate is
taken step by step; the receiver and the counters are not looked at. A call of
a client that is under way is in `call`, with the tasks it has yet to send in
`holds` and the indices it has yet to remove in `todo`.

| code | actions |
|---|---|
| the loop of a worker | `Enter`, `PassGate`, `Receive` or `RecvTimeout`, `Complete`, or `IsCancelled` and some time later `Cancel` |
| `suspend`; `resume`, `resume_store`, `resume_send` | `Suspend`; `Resume`, `OpenGate`, then `TakeUnprocessed` and a `SendNext` per task |
| `take_stored`; `remove_all_unprocessed`, `remove_all_successes` | `TakeStored`; `RemoveAll` and a `RemoveNext` per index |
| `try_into_husk` and `into_hive_swarm_unprocessed_*` | `Rebuild` |

`MapCall` is one call and its client. The modes are the families: "ordered"
reads through `OutcomeIterator`, "unordered" takes as many outcomes as it sent,
"filtered" is an adapter of `iter.rs` over a channel that others use too,
"stored" has no channel. The adapters are what the iterator is turned into:
outcomes, results or outputs.

| code | actions |
|---|---|
| `map*`, `swarm*`, `scan*`, `try_scan*` | `SendNext`, `SentAll`, `ScanFails` |
| a worker of `bee/stock`, `send_or_store_outcome` | `EndTask`, with `Result` of `Outcomes` and `DeliverTo` |
| `OutcomeIterator::next`; `take`, `select_*` | `NextOrdered`; `NextUnordered` |
| the receiver and the iterator go out of scope | `DropReceiver`, after `ScanFails`, a panic of the adapter, `Abandon` or the end of the iterator |
| what is made of an `OutcomeBatch` | `Consume`, with the operators of `OutcomeStore` |

`Threads` keeps the settings as in the code, each a `Cell` in its unsync or
sync form (`Cells`, `Config`), and the list of cores (`Cores`). Thread name and
stack size are cells like the affinity.

| code | actions |
|---|---|
| the global defaults (`config.rs`) | `SetNumThreadsDefault`, `SetRetryDefaults`, `ResetDefaults` |
| the methods of `Builder` | `NumThreads`, `BuilderMaxRetries`, `BuilderRetryFactor`, `DefaultNumThreads`, `DefaultRetrySettings`, `NoRetries`, `ThreadAffinity` |
| `Hive::new`, `grow`, `use_all_cores` and their forms with affinity | `Build`, `Grow`, `UseAllCores`, `AddCoreAffinity`, a `BroodNext` per thread, `Brooded` |
| `spawn`, `init_thread`, `Sentinel::drop` | `Spawn`, `GetCoreAffinity` and `InitThread`, `Panic` |
| `can_retry`, `queue_retry`, `get_core_affinity`, `new`: what a setting comes to | `RetriesOf`, `FactorOf`, `AffinityOf`, `ThreadsOf` |
| `try_into_husk`, `Husk::as_builder` | `Close`, `Leave`, `AsBuilder` |
| `cores::refresh` | `Refresh`; `ChangeMachine` is the machine |

A factor is an optional value to the end: `queue_retry` computes the multiplier
for every factor that is set, a zero among them, and panics when it overflows
(`shared.rs:432-441`). A Builder keeps a zero as no factor; the global defaults
keep it. In `RetryHive` the factor is therefore a set of at most one number. A
thread that panics counts as unpinned when its replacement is started, a little
before the operating system has ended it.

### External code

External code is modelled by what this code relies on: std's mpsc channel is a
FIFO queue that knows when its last sender is gone; a mutex is held by one
thread; `Condvar::wait` gives up its mutex and sleeps in one step
(parking_lot's wakes only when notified); a panic while unwinding aborts the
process. The atomics of the counter are sequentially consistent in the code
(`counter.rs:4-11`). The flags use weaker orderings; the models take every
access as sequentially consistent, so effects of weaker memory are not covered.

## 3. The runs

| run | distinct states | what it shows |
|---|---|---|
| `PackedCounter` | 597 | a word of 3 + 2 bits and all amounts: as long as every operation returned Ok the halves are the true counts (`NoSilentCorruption`), and the word does what the pair does, errors included (`ImplementsPair`) |
| `JoinGate` | 87 455 | three joiners, two finishers, work that arrives twice: no lost wakeup, phases in order, every join returns |
| `Resubmit` | 285 383 | two clients suspend, resume, resubmit, take, remove and rebuild against each other: every input in exactly one place, and none due for ever; `remove_all_*` panics only if another client interfered; the resume gate loses no wakeup and implements `Await`; inputs implement `InputLife` |
| `HiveInUse` | 1 299 218 | one handle submits, suspends and resumes, a clone joins, a task panics: counters exact, at most one late task per worker, join waits for what it was called for |
| `HiveLeave` | 607 955 | two handles leave in every order while threads may fail to start: poisoned only at the end, nothing left in the channel, a husk is complete; the hive implements `TaskPool` |
| `HiveWholeLife` | 789 258 | a hive that grows past what its active counter can count, so that it may break down in use: no task duplicated or lost, panicked threads replaced |
| `HiveLife` | 77 658 | progress without suspension: tasks resolve, calls return, dropping the hive ends its threads |
| `RetryHive` | 246 116 | tasks that ask for one and two retries, up to the limit and past the width of the multiplier, while the hive is dropped or made a husk: `next_retry` never hides an available task, counters exact, every retry resolves unless it was queued after the drain; the hive implements `TaskPool`, in which a task is retried a bounded number of times |
| `MapCall` | 317 179 | calls of every family with workers that fail, unwind, catch or are cancelled, in every order of arrival: returned in order, none lost unless the receiver is dropped early, none swallowed by what consumes the batch, and the call ends unless a worker unwound |
| `Threads` | 1 793 559 | two clients configure, build, enlarge, dismantle and rebuild a hive while defaults and cores change: every thread index is brooded once, every setting that was asked for is as it was asked for, no core is used twice |

Every property was also checked against a plausible mistake in the code it is
about (the operators marked "Mutant" in the modules, paired with their
properties in PROJECT.json), and TLC finds the mistake.

### Bounds

* Hive runs: two workers, at most two handles, two or three tasks, one panic,
  one suspension. The protocols are between a submitter, a joiner and workers
  that either have or lack a task; two workers give a busy and an idle one, two
  tasks one queued behind another, two handles a joiner beside a submitter or
  two handles that leave against each other. Counters of three bits hold every
  reachable count and still wrap below zero in reach of the exit path.
* `HiveWholeLife` has a third task, no suspension (`HiveInUse` and `HiveLeave`
  cover it) and an active counter of one bit: two threads stand for more than
  the 2^16 - 1 that the code can count, a transfer can overflow, and the hive
  is poisoned while it is in use. A handle then finds it poisoned and its tasks
  are refused (`Refuse`), which happens in no other way: two tasks occupy both
  threads and the third is refused.
* `RetryHive`: one task asks for two retries and one for one, the limit is two
  and the multiplier has one bit, so that the second retry of a task is one the
  power overflows for. Two workers are enough for one to read `next_retry`
  while the other pops or pushes.
* `Resubmit`: two workers, two clients, two inputs, two suspensions: an input
  can be cancelled and resubmitted twice while another client does the same.
* `MapCall`: three inputs whose order is neither that of the indices nor its
  reverse, one foreign task, and a kind of worker that may fail or unwind, one
  that catches, one that always succeeds.
* `Threads`: two clients, three threads, two cores and a list that names one
  core that is not there, two changes of settings or defaults, one change of
  the machine, one thread that cannot be started. Clients ask for numbers of 1
  and the defaults are set to 0, so that each kind of setting can be told from
  its default (2, 3 and 1) and from a zero; the factor, whose default is 1 as
  well, only from a zero.

### Deadlock, symmetry, fairness

Deadlock is checked, except in `HiveLeave` (the husk of a suspended hive waits
for its threads for ever), in `Resubmit` and `Threads` (the number of calls is
bounded and clients may stop). A hive in which nothing is under way may rest
(`Rest` in `Hive`): nobody has to call anything.

Workers are interchangeable, and so are handles with the same operations and
the clients of `Threads`. The runs with symmetry check no liveness.

Fairness: the operating system schedules every thread (weak fairness of each
worker's and each client's next step), `Worker::apply` returns, and the calls
under way go on. No client is required to start a call, and no worker to look
at the suspended flag. In the retry build time goes on (`Tick`). In the gates
a thread that wants a mutex that stays free gets it; a mutex that others keep
taking is not promised, and not needed, because each of the others gets out.
In `MapCall` the client keeps calling `next`, every task ends, and senders are
dropped with their owners.

### Statements of the repository that do not hold

Two runs end in a counterexample.

* `HiveAbort`. The sentinel calls `finish_task` even when its thread leaves
  the loop without a task (`hive.rs:733`, from `sentinel.cancel()` at
  `hive.rs:77`). After the hive is dropped an idle thread therefore takes away
  the count of a task that still executes. If that task panics, the `expect`
  in `finish_task` fails during unwinding and the process aborts. The test
  `test_should_not_panic_on_drop_if_subtasks_panic_after_drop`
  (`mod.rs:380`) is about just this situation; it keeps all its threads busy.
  Without a panic the exit only ends the thread with a panic of its own, or
  makes the active counter wrap, after which the next `transfer` of another
  thread reports an overflow and drops its task.
* `HiveStalePhase`. The join gate loads the phase after it evaluated the
  condition (`gate.rs:49`). A second join, called for new tasks, can load the
  phase just before a sleeper of the first moves it on, and returns although
  its tasks are queued. This needs two handles that join; with one,
  `JoinKeepsItsPromise` holds (`HiveInUse`).

Two more have a small instance of `MCHive` (`SPECIFICATION Spec`,
`CHECK_DEADLOCK FALSE`, one worker, `MaxBatch`, `MaxSuspends` and `NumThreads`
1, no panic, counters of three bits, `Destinations` {"store"}) that shows the
counterexample.

* Dropping a suspended hive poisons it but leaves its threads in the resume
  gate (`shared.rs:200`), although "all the worker threads are terminated
  automatically" (`mod.rs:84`): `DropTerminatesWorkers` with one handle that
  submits, suspends, resumes and drops. For the same reason `try_into_husk` on
  a suspended hive spins for ever.
* Suspending does not notify the join gate (`shared.rs:219`): a join that waits
  for queued tasks keeps waiting, although it waits for them "unless the
  suspended flag has been set" (`shared.rs:170`), and returns at once if called
  after the suspension: `JoinEnds` with two tasks and the handles of `InUse`.

Three statements about what a call or a builder does are kept as definitions
beside the properties of their modules. Each has a short counterexample
in the instance of a run, with the definition in place of the run's own
properties.

* `UnprocessedAreDropped` (`MapCall.cfg`, `INVARIANT`).
  `ok_or_unwrap_errors(true)` is documented to discard unprocessed inputs
  (`outcome/store.rs:239-240`). When nothing failed it calls `unwrap`, which
  asserts that nothing is unprocessed, and panics. When something failed, it
  does what it says. `NoErrorSwallowed` allows this call either: to panic for
  unprocessed inputs, or to return the successes without them.
* `UnspecifiedIsDefault` (`Threads.cfg`, `INVARIANT`). The documentation of
  `max_retries` and `retry_factor` (`builder.rs:469-470`, `517-518`) says that a
  default is used if they are not specified. That is so for a `Builder` made by
  `default`; one made by `new` is empty, and `can_retry` takes a limit that is
  not set for none (`shared.rs:408`). `SettingsAsAsked` speaks of what was asked
  for only: of the number of threads, which `new` documents to be none, and of
  each other setting once it has been set.
* `CoresAreAdded` (`Threads.cfg`, `PROPERTY`). `use_all_cores_with_affinity`
  says that it attempts to pin each thread (`hive.rs:776-777`). On a hive that
  was built without affinity `add_core_affinity` has no effect, because a sync
  cell that is not set cannot be updated, and no thread is pinned. The same
  holds of `grow_with_affinity`.

Others were met while reading, and are in the models as the code has them:

* `OutcomeIterator` never ends once an index is missing, because the index
  stays in place (`outcome/iter.rs:65`), although lines 32-33 promise an end; a
  client that collects, such as `util::try_map`, then never returns. `CallEnds`
  and `BatchComplete` except calls in which a worker unwound.
* When `try_scan` fails, `?` drops the receiver (`hive.rs:397`), and with it the
  outcomes that have arrived; those of the tasks that are still under way are
  stored in the hive. The same goes for a call whose adapter panics and for a
  client that drops an iterator before its end. `DropReceiver` says so, and
  `OutcomesConserved` allows this loss and no other.
* `resume_store` and `resume_send` submit what is in the store when they look:
  an input cancelled a moment later stays there until the next call
  (`TakeUnprocessed`; `ImplementsInputLife` shows that it is not lost).
* A thread that cannot be started by `grow`, `use_all_cores` or a sentinel is
  not reported and its index is not brooded again. `EveryIndexOnce` counts the
  attempts and `PoolKeepsItsSize` is proved for `SpawnMayFail = FALSE`: neither
  says that the pool gets the threads it counts. Only `new` reports the error,
  and drops the hive (`Brooded`).
* `set_suspended` is documented to start no new threads while suspended;
  `spawn` does not look at the flag.
* In the retry build a task queued for a retry after the drain is returned by
  nobody; `RetriesResolve` excepts exactly these.

## 4. The proofs

Every theorem is for all values of the constants: any number of threads,
handles, tasks, inputs, cores and clients, any width of the counters. They rest
on the named assumptions of the modules (disjoint sets of processes, a finite
set of workers, fewer tasks than the queued counter can hold, affinity lists
without repetitions) and on the hypotheses that some theorems name:

* `Few`: there are fewer workers than the active counter has values. The code's
  half has 16 bits and nothing enforces it, but no process has 65 536 threads;
  `HiveWholeLife` shows a hive with more break down.
* `OneJoiner`: at most one handle calls `join` or `try_into_husk`.
  `HiveStalePhase` shows that the promise of `join` fails without it.
* `SpawnMayFail = FALSE`: the operating system refuses no thread. The sentinel
  ignores the error otherwise.

Affinity lists without repetitions are an assumption on clients: `From` of
`Cores` (`cores.rs:178`) keeps an index that is given twice, and a hive built
with such a list has two threads on one core, as it was asked for. The other
ways to make a list (`all`, `first`, `union`) repeat nothing.

| module | theorem | property |
|---|---|---|
| `HiveProofs` | `TypeCorrect`, `OneLateTask`, `ReceiversExclude` | types; `AtMostOneLateTask`; one receiver |
| | `TasksConserved`, `CountersStayExact` | `TaskConservation`, `CountersExact` |
| | `PoolSizeKept` (`SpawnMayFail = FALSE`) | `PoolKeepsItsSize` |
| `HiveEndProofs` | `NoTaskStranded`, `PoolImplemented` | `NothingStranded`, `ImplementsTaskPool` |
| | `OnlyPoisonedAtTheEnd`, `HuskComplete` (`Few`) | `PoisonedOnlyAtTheEnd`, `HuskIsComplete` |
| | `JoinPromiseKept` (`Few`, `OneJoiner`) | `JoinKeepsItsPromise` |
| `RetryHiveProofs` | `RetriesAreNotPassedOver` | `NextRetryCoversQueue` |
| | `RetryCountersStayExact`, `RetryPoolImplemented` (`Few`) | `RetryCountersExact`, `RetryImplementsTaskPool` |
| `PackedCounterProofs` | `CorruptionIsReported`, `PairImplemented` | `NoSilentCorruption`, `ImplementsPair` |
| `JoinGateProofs` | `TypeCorrect`, `MutualExclusion`, `NoWakeupIsLost`, `PhasesAreCurrent` | types, the mutex, `NoLostWakeup`, `PhaseIsCurrent` |
| `ResubmitProofs` | `NoWakeupIsLostInHive`, `GateImplementsAwait` | `NoLostWakeup`, `ImplementsAwait` |
| | `InputsStayConserved`, `RemovalsStayUndisturbed`, `ImplementsLife` | `InputsConserved`, `RemovalUndisturbed`, `ImplementsInputLife` |
| `MapCallProofs` | `ReturnedInOrder`, `OutcomesStayConserved`, `MissingNeverArrived` | `InOrder`, `OutcomesConserved`, `MissingIsMissing` |
| | `BatchesAreComplete`, `ErrorsAreNotSwallowed` | `BatchComplete`, `NoErrorSwallowed` |
| `ThreadsProofs` | `IndicesOnce`, `SettingsKept`, `CoresApart` | `EveryIndexOnce`, `SettingsAsAsked`, `DistinctCores` |

### The hive

`HiveProofs` begins with the invariant the others build on,

    IInv == TypeOK /\ Holding /\ ReceiverOwner /\ LateTasks

`TypeOK` is not inductive: a worker that transfers or panics records its task,
which must be one (`Holding`: at these labels it has a task, and a handle that
sends has a batch). `AtMostOneLateTask` is not inductive either: a worker past
the resume gate must not have accepted a task since the suspension
(`LateTasks`); the gate is what re-establishes it, because a worker that
returns to it stays there. `ReceiverOwner` ties the lock to the label.

It goes on with

    Conserved == Placed /\ Exclusive /\ NoRepeats /\ HandsEmpty
    CountInv  == Departures /\ (~ShutDown => Counted)

`TaskConservation` counts the places of a task, and no step can be followed by
counting: `Placed` (a task is somewhere exactly if it was prepared) and
`Exclusive` (one place excludes every other) say the same without
cardinalities. Taking the head of the channel or of a batch takes a task away
only because no sequence repeats one (`NoRepeats`), and a worker that receives,
or a client that submits, overwrites nothing only because its hands were empty
(`HandsEmpty`). There is one lemma for each way a step can move tasks; the case
of an action names its way. `CountersExact` is `Counted` but for the panics
that are under way; it holds only up to the shutdown, because the sentinel of a
thread that leaves decrements a counter that does not count it, so that
`Departures` has to say who leaves, drains and refuses, and when. The values of
the counters then follow from how each step changes the sets they stand for,
and from the assumption that they do not overflow.

`HiveEndProofs` is about the end of a hive,

    EndInv == JoinPlaces /\ Referred /\ SamePhase /\ HuskAlone
    FewInv == NotEarly /\ Calm /\ Owed

`Referred` says that the number of referrers is that of the handles in use and
that the last of them is closing the hive or has closed it; hence
`NothingStranded`, and hence that `try_into_husk`, once it has seen no other
handle, stays alone. With `Few` no transfer fails while the counters are exact,
so that nothing poisons the hive before the end (`NotEarly`) and no task of a
hive that was never suspended becomes Unprocessed (`Calm`). `Owed` carries the
promise of `join` from the call through the three reads of `has_work`: a task
that waited or was executed when `join` was called has been resolved by the
time the flag is read, or the join goes back to sleep. It needs `SamePhase`, that
the phase a join has saved is only moved on by others that join. The refinement
`PoolImplemented` maps every action to a step of `TaskPool` or to a stutter, by
the places of the tasks it moves. It needs no `Few`: a transfer
that fails is the pool's `BreakDown`, or `Lose` after it is closed.

### The retry build

`RetryHiveProofs` cannot use the invariants of `Hive`: the retry build has more
labels, a task may be in the delay queue, and the receiver is also locked by
who drains. Its own is

    RInv == RetryTypes /\ HandsKnown /\ RetryLocated /\ RetryOwner
              /\ Sorted /\ Covered /\ Attempted

`NextRetryCoversQueue` says nothing while the lock of the queue is held.
`Covered` says it of every entry, and whom it may except then: all of them after
a pop, and after a push the entry that was pushed. `UpdateAfterPush`
finds that entry by its task, so no task may be in the queue twice. That is
conservation of tasks (`RetryLocated`, the argument of `HiveProofs` with one
more place). The worker that pushed still has the task in its variable, although it is the queue's
already: `Hands` is what it really holds. After a pop, `next_retry` is that of
the head, which covers the rest because the queue is in order of time
(`Sorted`; `IsOrdered` compares neighbours, and the proof needs any two).
`Attempted` says that who queues a retry has counted it, without which the
power in `queue_retry` has no meaning.

`RetryCountersExact` is proved as in the hive,

    RetryCountInv == RetryDepartures /\ (~ShutDown => RetryCounted)

`queue_retry` counts its task as queued while the worker is still counted as
active; `Work` and `Crew` are the sets the counters stand for, and a task in
this state is in the first and its worker in the second. Only this order keeps
a join from returning between the two steps.

`RetryPoolImplemented` has a case for each kind of step: a step of a worker
starts a task, ends it, puts it back (`Retry`, the pool's `PutBack`) or is a
stutter, and pops and pushes are stutters, because a task that is put aside
waits as one in the channel does. A handle accepts, closes or gives back.

Both need `Few`, and not for the proof's sake. A transfer that overflows drops
its task and returns an error. The default build poisons the hive then, and the
pool calls that `BreakDown`; `next_task` of this build has no such line
(`shared.rs:482`), so that the hive stays open with counters that are off and a
task that is lost.

### The counter and the gates

`PackedCounterProofs` is arithmetic: the halves of a word are a quotient and a
remainder, which are unique (`SmallMultiple`), so that an addition or a
subtraction that reports no error leaves carry and borrow at home and changes
one half by the amount. `CounterInv` says that the word is one and that its
halves are the counts until an error was returned.

`JoinGateProofs`: the conjunction of `TypeOK`, `MutexOwner`, `NoLostWakeup` and
`PhaseIsCurrent` is inductive. A sleeper's condition was true when it gave up the
mutex, only `FinishLast` makes it false, and the finisher that does so stays
under way until it notifies or work has arrived.

### Inputs over several hives

`ResubmitProofs` first proves `ResumeGate` on its own, then that every step of
`Resubmit` is a step of the gate or leaves it alone. The invariant of the
inputs is

    Held   == Typed /\ InHand /\ OneHolder
    Places == TasksDiffer /\ StoreHolds /\ Apart /\ Accounted

`OneHolder` says that a task is in one pair of hands or in the channel, `Places`
that inputs and indices of different tasks and outcomes differ and that the
index of a task that is due is free in the store, which is why no outcome is
overwritten. `Accounted` is the other half: an input that was submitted is
somewhere. With both, the sum in `InputsConserved` is exactly one. Every action
has one of four shapes: nothing moves, tasks are entered, tasks end, outcomes
leave; the shapes preserve `Places`, and the same shapes are the steps of
`InputLife`. `RemovalUndisturbed` follows because an index a client has yet to
remove is in the store unless another client took outcomes since it began
(`intruded`).

### Calls and their batches

`MapCallProofs`: `FlowInv` says that every index, or its outcome, is in exactly
one place (`OnePlace`) and that what has arrived is in the channel, with the
client or dropped with the receiver (`Arrivals`), so that no step of the
iterator can drop or double one; the order is that of what it has yet to
return. `Receiving` says that a receiver is only dropped by a call that is over,
and that a call that collected everything left nothing of its own behind. `GiveUpInv` ties the iterator's
limit to its buffer (`Counted`): on a channel of its own it has taken, when it
gives up, all there ever will be. `BatchInv` says what the batch holds while
and after it is collected (`Gathered`, `Settled`); with it, `NoErrorSwallowed`
is a statement about each method that consumes a batch.

### Threads and settings

`ThreadsProofs` has two invariants,

    IInv   == Typed /\ SettingsAsAsked /\ Adjustable /\ AtWork /\ Reserved
    PinInv == PinTyped /\ AtRest /\ Placed

What `grow` broods follows from the number of threads it reads, which is the
number asked for only because the settings are, so `EveryIndexOnce` and
`SettingsAsAsked` are proved together. `EveryIndexOnce` says nothing of the
indices a call has reserved and not yet brooded: `Reserved` says that every
index below the number of threads is brooded once or on the list of exactly one
client, and `AtWork` that only clients in the middle of a call have a list.
`Adjustable` is why an atomic operation on the number of threads, or on an
affinity that was asked for, cannot fail: while there is a hive the cell is in
its sync form, and holds a value.
`DistinctCores` compares threads that looked for their cores at different
times. `Placed` says that the affinity and the list of cores as they are now put
each thread on the core it was given or pinned to then, which stays so because
`refresh` and `union` only append and because the affinity of a hive, unlike
that of a Builder, is never replaced; and one pair of lists puts no two
threads on the same core, because neither repeats an entry.

### What is only model-checked

* Liveness, because fairness is out of the prover's reach: `JoinReturns`,
  `TasksResolve`, `CallsReturn`, `DropTerminatesWorkers`,
  `ResumeReleases`, `InputsSettle`, `RetriesResolve`, `OutcomesReachConsumer`
  and `CallEnds`.

Every other property that a passing run checks is stated by a theorem. Those
that need `Few` say nothing of a hive with more threads; of such a hive
`TasksConserved`, `CountersStayExact`, `NoTaskStranded` and `PoolImplemented`
still hold.

## 5. Not modelled

Every safety property, action property and refinement of the runs is proved;
liveness is not, and stays with TLC.

Left out:

* the scoped hive, which no build includes;
* the crossbeam, flume and loole backends of `channel.rs`, which promise the
  same as std's, and `try_recv_msg`, which only tests call;
* the operators `|` and `-` of `Cores` and its iterators, which work on a list
  that a client owns; the names and stack sizes of threads beyond their being
  settings; what the operating system does with a pinned thread;
* `AtomicInt` operations that nothing in the crate calls;
* formatting, comparing and boxing (`panic.rs`, `boxed.rs`, `Debug`, `Eq`);
* spurious wakeups, because parking_lot has none; the loops of both gates would
  absorb them;
* the orderings of the atomics.

Two counters are bounded by assumption, not by code: fewer tasks than the
queued half of the word counts (2^48; `prepare_task` panics beyond), and no
wrap-around of indices, phases and referrers (64 bits).
