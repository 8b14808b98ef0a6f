------------------------------- MODULE RetryHive -------------------------------
(***************************************************************************)
(* The hive of the `retry` build: a task whose worker asks for it is put   *)
(* into a queue ordered by the time it may be tried again, next to the     *)
(* channel, and next_task looks there first.  next_retry, which tells      *)
(* whether looking is worth while, is written under the queue's lock and   *)
(* read without it.  Everything else is module Hive.                       *)
(*                                                                         *)
(* Times are relative to now: how long until a task is available, and 0    *)
(* once it is.                                                             *)
(***************************************************************************)
EXTENDS HivePool, SequencesExt

CONSTANTS
  Asks,          \* bound: how often the worker asks for a retry of each task
  MaxRetries,    \* max_retries, 0 when it is not set
  RetryFactor,   \* retry_factor in ticks, as a set: empty when it is not set
  PowBits,       \* width of the multiplier 2^(attempt - 1)
  MaxDelay       \* the longest delay a Duration can hold

ASSUME RetryAssumption ==
  /\ Asks \in [Tasks -> Nat]
  /\ MaxRetries \in Nat
  /\ RetryFactor \subseteq Nat /\ \A f, g \in RetryFactor : f = g
  /\ PowBits \in Nat \ {0} /\ MaxDelay \in Nat

Never == -1      \* next_retry is None

VARIABLES
  attempt,       \* of each task
  retryQueue,    \* the tasks waiting, the first available first
  retryLock,     \* the mutex around retryQueue
  nextRetry,     \* the time in next_retry
  outcomesLock   \* the mutex around outcomes, held through drain_tasks

delayVars == <<attempt, retryQueue, retryLock, nextRetry>>
retryVars == <<delayVars, outcomesLock>>

RetryInit ==
  /\ Init
  /\ attempt = [t \in Tasks |-> 0]
  /\ retryQueue = <<>> /\ retryLock = NoOne /\ nextRetry = Never
  /\ outcomesLock = NoOne

Entry == [task : Tasks, in : 0 .. MaxDelay]
Retrying == {retryQueue[i].task : i \in DOMAIN retryQueue}
IsAvailable(e) == e.in = 0

\* Instant::now() moves on while somebody waits for it.
Tick ==
  /\ nextRetry > 0 \/ \E i \in DOMAIN retryQueue : ~IsAvailable(retryQueue[i])
  /\ retryQueue' = [i \in DOMAIN retryQueue |->
                      [retryQueue[i] EXCEPT !.in = IF @ > 0 THEN @ - 1 ELSE 0]]
  /\ nextRetry' = IF nextRetry > 0 THEN nextRetry - 1 ELSE nextRetry
  /\ UNCHANGED <<vars, attempt, retryLock, outcomesLock>>

\* update_next_retry: an earlier time replaces a later one, None clears it.
UpdateNextRetry(until) ==
  nextRetry' = IF until = Never \/ nextRetry = Never \/ until < nextRetry
               THEN until ELSE nextRetry

-----------------------------------------------------------------------------
(***************************************************************************)
(* Shared::next_task.                                                      *)
(***************************************************************************)
RetryPoll(w) ==
  /\ \/ ~poisoned /\ Move(w, "poll", "next_retry")
     \/ poisoned /\ Poll(w)
  /\ UNCHANGED retryVars

\* Read without the lock of the queue.
ReadNextRetry(w) ==
  /\ Move(w, "next_retry", IF nextRetry = 0 THEN "pop" ELSE "lock")
  /\ UNCHANGED retryVars

\* Somebody else may have taken what was available.
PopNothing(w) ==
  /\ retryLock = NoOne
  /\ retryQueue # <<>> => ~IsAvailable(Head(retryQueue))
  /\ Move(w, "pop", "lock")
  /\ UNCHANGED retryVars

PopRetry(w) ==
  /\ pc[w] = "pop" /\ retryLock = NoOne
  /\ retryQueue # <<>> /\ IsAvailable(Head(retryQueue))
  /\ task' = [task EXCEPT ![w] = Head(retryQueue).task]
  /\ retryQueue' = Tail(retryQueue)
  /\ retryLock' = w
  /\ Goto(w, "popped")
  /\ late' = IF suspended THEN [late EXCEPT ![w] = @ + 1] ELSE late
  /\ UNCHANGED <<counter, numPanics, taskVars, flagVars, channelVars, outcomeVars,
                 lost, why, batch, joinVars, suspends, attempt, nextRetry,
                 outcomesLock>>

\* Mutant: next_retry is cleared although there are more tasks.
UpdateAfterPopClears(w) ==
  /\ UpdateNextRetry(Never)
  /\ retryLock' = NoOne
  /\ Move(w, "popped", "transfer")
  /\ UNCHANGED <<attempt, retryQueue, outcomesLock>>

UpdateAfterPop(w) ==
  /\ UpdateNextRetry(IF retryQueue = <<>> THEN Never ELSE Head(retryQueue).in)
  /\ retryLock' = NoOne
  /\ Move(w, "popped", "transfer")
  /\ UNCHANGED <<attempt, retryQueue, outcomesLock>>

\* A transfer that fails ends the thread; this build does not poison the hive.
RetryTransferTask(w) ==
  /\ \/ ~TransferFails(counter, 1) /\ TransferTask(w)
     \/ /\ TransferFails(counter, 1) /\ pc[w] = "transfer"
        /\ counter' = Transfer(counter, 1)
        /\ lost' = lost \cup {task[w]}
        /\ task' = [task EXCEPT ![w] = NoTask]
        /\ Exit(w)
        /\ UNCHANGED <<numPanics, taskVars, flagVars, channelVars, outcomeVars,
                       batch, joinVars, ghostVars>>
  /\ UNCHANGED retryVars

-----------------------------------------------------------------------------
(***************************************************************************)
(* Hive::execute and Shared::queue_retry.                                  *)
(***************************************************************************)
CanRetry(t) == attempt[t] < Asks[t] /\ attempt[t] < MaxRetries

\* With a factor, 2^(attempt - 1) is computed with a check; the product saturates.
Factor == IF RetryFactor = {} THEN 0 ELSE CHOOSE f \in RetryFactor : TRUE
Overflows(n) == RetryFactor # {} /\ n - 1 >= PowBits
Delay(n) ==
  IF Factor = 0 \/ Factor * 2 ^ (n - 1) <= MaxDelay THEN Factor * 2 ^ (n - 1) ELSE MaxDelay

\* The worker returned Retryable.  Otherwise the outcome of the task is
\* whatever it returned: MaxRetriesAttempted is among what Complete delivers.
Retry(w) ==
  /\ Move(w, "apply", "requeue")
  /\ CanRetry(task[w]) /\ ~Overflows(attempt[task[w]] + 1)
  /\ attempt' = [attempt EXCEPT ![task[w]] = @ + 1]
  /\ UNCHANGED <<retryQueue, retryLock, nextRetry, outcomesLock>>

\* The checked power is unwrapped: the thread panics, and the task is dropped
\* with its context.
RetryPanics(w) ==
  /\ pc[w] = "apply"
  /\ CanRetry(task[w]) /\ Overflows(attempt[task[w]] + 1)
  /\ lost' = lost \cup {task[w]}
  /\ EndTask(w, "panic")
  /\ UNCHANGED <<counter, numPanics, taskVars, flagVars, channelVars,
                 outcomeVars, batch, joinVars, ghostVars, retryVars>>

IsOrdered(q) == \A i \in 1 .. Len(q) - 1 : q[i].in <= q[i + 1].in

\* Mutant: the queued counter is not raised.
QueueRetryUncounted(w) ==
  /\ pc[w] = "requeue" /\ retryLock = NoOne
  /\ \E i \in 1 .. Len(retryQueue) + 1 :
       LET q == InsertAt(retryQueue, i, [task |-> task[w], in |-> Delay(attempt[task[w]])])
       IN IsOrdered(q) /\ retryQueue' = q
  /\ retryLock' = w
  /\ Goto(w, "requeued")
  /\ UNCHANGED <<counter, numPanics, taskVars, flagVars, channelVars, outcomeVars,
                 lost, why, task, batch, joinVars, ghostVars, attempt, nextRetry,
                 outcomesLock>>

\* Under the lock: the queued counter, the push, ...
QueueRetry(w) ==
  /\ pc[w] = "requeue" /\ retryLock = NoOne
  /\ counter' = IncrementLeft(counter, 1)
  /\ \E i \in 1 .. Len(retryQueue) + 1 :
       LET q == InsertAt(retryQueue, i, [task |-> task[w], in |-> Delay(attempt[task[w]])])
       IN IsOrdered(q) /\ retryQueue' = q
  /\ retryLock' = w
  /\ Goto(w, "requeued")
  /\ UNCHANGED <<numPanics, taskVars, flagVars, channelVars, outcomeVars, lost,
                 why, task, batch, joinVars, ghostVars, attempt, nextRetry,
                 outcomesLock>>

\* Mutant: the task is queued and its outcome is delivered all the same.
UpdateAfterPushDelivers(w) ==
  /\ pc[w] = "requeued"
  /\ \E i \in DOMAIN retryQueue :
       retryQueue[i].task = task[w] /\ UpdateNextRetry(retryQueue[i].in)
  /\ retryLock' = NoOne
  /\ Deliver({task[w]}, "processed")
  /\ EndTask(w, "task")
  /\ UNCHANGED <<counter, numPanics, taskVars, flagVars, channelVars, lost, batch,
                 joinVars, ghostVars, attempt, retryQueue, outcomesLock>>

\* ... and next_retry.  The time went on since the push, but no time passes
\* between the push and the value it returned.
UpdateAfterPush(w) ==
  /\ pc[w] = "requeued"
  /\ \E i \in DOMAIN retryQueue :
       retryQueue[i].task = task[w] /\ UpdateNextRetry(retryQueue[i].in)
  /\ retryLock' = NoOne
  /\ EndTask(w, "task")
  /\ UNCHANGED <<counter, numPanics, taskVars, flagVars, channelVars, outcomeVars,
                 lost, batch, joinVars, ghostVars, attempt, retryQueue, outcomesLock>>

-----------------------------------------------------------------------------
(***************************************************************************)
(* drain_tasks_into_unprocessed: outcomes, channel and retry queue are     *)
(* locked one after the other, and nobody stores an outcome meanwhile.     *)
(***************************************************************************)
LockOutcomes(p) ==
  /\ pc[p] = "drain" /\ outcomesLock = NoOne
  /\ outcomesLock' = p
  /\ Goto(p, "drain_channel")
  /\ UNCHANGED <<restVars, delayVars>>

DrainChannel(p) ==
  /\ pc[p] = "drain_channel" /\ rxLock = NoOne
  /\ Deliver(Range(queue), "unprocessed")
  /\ queue' = <<>> /\ rxLock' = p
  /\ Goto(p, "drain_retries")
  /\ UNCHANGED <<counter, numPanics, taskVars, flagVars, lost, why, holdVars,
                 joinVars, ghostVars, retryVars>>

\* Only the last handle that is dropped poisons the hive in this build.
DrainRetries(p) ==
  /\ pc[p] = "drain_retries" /\ retryLock = NoOne
  /\ Deliver(Retrying, "unprocessed")
  /\ retryQueue' = <<>>
  /\ rxLock' = NoOne /\ outcomesLock' = NoOne
  /\ Goto(p, "gone")
  /\ UNCHANGED <<counter, numPanics, taskVars, flagVars, queue, lost, why, holdVars,
                 joinVars, ghostVars, attempt, retryLock, nextRetry>>

\* try_into_husk of Shared empties both queues.
RetryExtract(h) ==
  /\ pc[h] = "spin"
  /\ \A p \in Processes \ {h} : ~HoldsShared(p)
  /\ Deliver(Range(queue) \cup Retrying, "unprocessed")
  /\ queue' = <<>> /\ retryQueue' = <<>>
  /\ Goto(h, "husk")
  /\ UNCHANGED <<counter, numPanics, taskVars, flagVars, rxLock, lost, why,
                 holdVars, joinVars, ghostVars, attempt, retryLock, nextRetry,
                 outcomesLock>>

-----------------------------------------------------------------------------
\* An outcome that is stored waits for the lock.
MayDeliver(w) == outcomesLock = NoOne \/ \A t \in Held(w) : ToChannel(t)

Inherited(w) ==
  /\ \/ Boot(w) \/ PassResumeGate(w) \/ LockReceiver(w) \/ Receive(w)
     \/ RecvTimeout(w) \/ RecvDisconnected(w)
     \/ MayDeliver(w) /\ Complete(w)
     \/ Cancel(w)
     \/ MayDeliver(w) /\ ReturnInput(w)
     \/ Panic(w) \/ FinishTask(w) \/ HasWorkStep(w) \/ Notify(w) \/ Respawn(w)
  /\ UNCHANGED retryVars

RetryWorkerStep(w) ==
  /\ ~Aborted
  /\ \/ Inherited(w)
     \/ RetryPoll(w) \/ ReadNextRetry(w) \/ PopNothing(w) \/ PopRetry(w)
     \/ UpdateAfterPop(w) \/ RetryTransferTask(w)
     \/ Retry(w) \/ RetryPanics(w) \/ QueueRetry(w) \/ UpdateAfterPush(w)

RetryContinueCall(h) ==
  /\ ~Aborted
  /\ \/ /\ \/ Admit(h) \/ Send(h) \/ ApplyReturns(h)
           \/ HasWorkStep(h) \/ JoinStep(h)
           \/ ReturnNone(h) \/ DropLast(h) \/ Poison(h) \/ DropSender(h)
        /\ UNCHANGED retryVars
     \/ LockOutcomes(h) \/ DrainChannel(h) \/ DrainRetries(h) \/ RetryExtract(h)

\* No call begins during a drain, since only the last handle that goes drains.
RetryStartCall(h) == StartCall(h) /\ UNCHANGED retryVars

RetryRest == Rest /\ UNCHANGED retryVars

RetryNext ==
  \/ Tick
  \/ \E w \in Workers : RetryWorkerStep(w)
  \/ \E h \in Handles : RetryContinueCall(h) \/ RetryStartCall(h)
  \/ RetryRest

retryHiveVars == <<vars, retryVars>>

\* As for the hive, and the clock does not stop.
RetryFairness ==
  /\ WF_retryHiveVars(Tick)
  /\ \A w \in Workers : WF_retryHiveVars(RetryWorkerStep(w))
  /\ \A h \in Handles : WF_retryHiveVars(RetryContinueCall(h))

RetrySpec == RetryInit /\ [][RetryNext]_retryHiveVars /\ RetryFairness

-----------------------------------------------------------------------------

(***************************************************************************)
(* Whenever the lock of the retry queue is free, next_retry is not later   *)
(* than the first task of the queue: a worker that reads it without the    *)
(* lock may look in vain, but it never passes over a task that is          *)
(* available and that was queued before it looked.                         *)
(***************************************************************************)
NextRetryCoversQueue ==
  retryLock = NoOne /\ retryQueue # <<>> =>
    nextRetry # Never /\ nextRetry <= Head(retryQueue).in

Popped == {task[w] : w \in {v \in Workers : pc[v] = "popped"}}
Requeueing == {w \in Workers : pc[w] \in {"requeue", "requeued"}}

(***************************************************************************)
(* Until the hive is shut down the counters are exact: a task put aside    *)
(* counts as queued before its worker stops counting as active, so that no *)
(* join sees the hive without work in between.                             *)
(***************************************************************************)
RetryCountersExact ==
  ~ShutDown =>
    /\ counter.left = Cardinality(Waiting \cup Retrying \cup Popped)
    /\ counter.right = Cardinality(Active \cup Requeueing)

(***************************************************************************)
(* A task that is tried again goes back to waiting, at most MaxRetries     *)
(* times; in every other respect the retry build promises what the default *)
(* build does.                                                             *)
(***************************************************************************)
RetryPool == INSTANCE TaskPool WITH
  Capacity <- Cardinality(Workers),
  status <- Status,
  retries <- attempt,
  open <- ~ShutDown
RetryImplementsTaskPool == RetryPool!Spec

(***************************************************************************)
(* In the end every task that was prepared is resolved, however often it   *)
(* was tried: no retry is forgotten, unless it was queued after the hive   *)
(* was dropped and drained.                                                *)
(***************************************************************************)
RetriesResolve ==
  <>[](Aborted \/ Prepared \ (IF Abandoned THEN Retrying ELSE {}) \subseteq Resolved)
===============================================================================
