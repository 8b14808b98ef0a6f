--------------------------------- MODULE Hive ---------------------------------
(***************************************************************************)
(* The worker pool of src/hive: the handles a client holds (Hive), the     *)
(* state they share with the worker threads (Shared), the threads          *)
(* themselves and the sentinel that replaces a thread that panics.  Default *)
(* build: neither retries nor core affinity.                               *)
(*                                                                         *)
(* A step is one access to shared state: one atomic operation, one channel *)
(* operation, one critical section.  Where a function reads several        *)
(* atomics one after the other (has_work reads three), every read is a     *)
(* step of its own.                                                        *)
(*                                                                         *)
(* External to the repository: std::sync::mpsc (a FIFO queue, and a        *)
(* receiver that learns when the last sender is gone), mutexes, threads,   *)
(* and Worker::apply, which returns, panics, or gives the input back when  *)
(* it sees the hive suspended.                                             *)
(***************************************************************************)
EXTENDS DualCounter, Sequences, FiniteSets, Functions

CONSTANTS
  Workers,        \* worker threads, by the slot (thread index) they run in
  Handles,        \* clones of the Hive, each used by one client thread
  NoOne,          \* the owner of a free lock
  NumThreads,     \* threads the hive is built with
  MaxTasks,       \* bound: tasks submitted
  MaxBatch,       \* bound: tasks in one batch
  MaxPanics,      \* bound: tasks whose execution panics
  MaxSuspends,    \* bound: calls of suspend
  Destinations,   \* where clients ask for outcomes, among AllDestinations
  SpawnMayFail,   \* whether the operating system may refuse a thread
  Ops             \* the operations each handle uses, among AllOps

AllDestinations == {"store", "send", "apply"}

AllOps == {"submit", "join", "suspend", "resume", "clone", "drop", "husk",
           "grow", "take", "hang_up"}

ASSUME HiveAssumption ==
  /\ Workers \cap Handles = {}
  /\ NoOne \notin Workers \cup Handles
  /\ IsFiniteSet(Workers)
  /\ NumThreads \in 0 .. Cardinality(Workers)
  /\ MaxTasks \in Nat /\ MaxTasks < LMod
  /\ MaxBatch \in Nat /\ MaxPanics \in Nat /\ MaxSuspends \in Nat
  /\ Destinations \subseteq AllDestinations
  /\ SpawnMayFail \in BOOLEAN
  /\ Ops \in [Handles -> SUBSET AllOps]

Processes == Workers \cup Handles
Tasks == 0 .. MaxTasks - 1      \* a task is its index
NoTask == -1
Kinds == {"none", "processed", "unprocessed"}

VARIABLES
  counter,     \* num_tasks: (queued, active)
  numPanics,   \* num_panics
  nextIndex,   \* next_task_index
  dest,        \* the outcome_tx of each task: the store, a client's channel,
               \* or the private channel of a call of apply
  poisoned, suspended, referrers,
  rxOpen,      \* the client still has the receiver of its channel
  queue,       \* the channel of tasks
  rxLock,      \* the mutex around its receiver
  outcomes,    \* the outcomes kept in the hive, by index
  sent,        \* the outcomes sent to a channel
  taken,       \* the stored outcomes the client has taken
  lost,        \* tasks dropped without an outcome
  pc,          \* where each process is
  why,         \* worker: why it calls finish_task; handle: why it joins
  task,        \* worker: the task it holds; handle: the one apply waits for
  batch,       \* tasks a handle has prepared and not yet sent
  at, saved, phase, mutex,   \* join_gate
  owed,        \* history: what a join was called to wait for
  late,        \* history: tasks a worker accepted since the suspension
  suspends     \* history: number of suspensions

taskVars == <<nextIndex, dest>>
flagVars == <<poisoned, suspended, referrers, rxOpen>>
channelVars == <<queue, rxLock>>
outcomeVars == <<outcomes, sent, taken>>
holdVars == <<task, batch>>
joinVars == <<at, saved, phase, mutex, owed>>
ghostVars == <<late, suspends>>

restVars == <<counter, numPanics, taskVars, flagVars, channelVars, outcomeVars,
              lost, why, holdVars, joinVars, ghostVars>>
vars == <<pc, restVars>>

JoinGate == INSTANCE PhasedGate WITH Threads <- Handles

WorkerPoints == {"absent", "boot", "gate", "poll", "lock", "recv", "transfer",
  "apply", "cancelled", "finish", "has_work", "counts", "flag", "notify",
  "respawn", "poison", "drain", "dead", "aborted"}

HandlePoints == {"absent", "idle", "admit", "send", "refuse", "await",
  "has_work", "counts", "flag", "join", "refused", "dropping", "poison",
  "drain", "gone", "hang_up", "spin", "husk"}

Goto(p, label) == pc' = [pc EXCEPT ![p] = label]
Move(p, from, to) == pc[p] = from /\ Goto(p, to) /\ UNCHANGED restVars

\* A handle owns a sender of the task channel until it is dropped or turned
\* into a husk; a receiver that finds the channel empty and no sender left
\* knows that it is disconnected.
HoldsSender(h) == pc[h] \notin {"absent", "gone", "spin", "husk"}
Connected == \E h \in Handles : HoldsSender(h)

\* The strong count of the Arc around Shared.
HoldsShared(p) == pc[p] \notin {"absent", "gone", "dead", "husk"}

Resolved == {t \in Tasks : outcomes[t] # "none" \/ sent[t] # "none"
                           \/ taken[t] # "none" \/ t \in lost}
Prepared == 0 .. nextIndex - 1
Executing == {task[w] : w \in {v \in Workers : pc[v] \in {"apply", "cancelled"}}}

Nothing == [active |-> {}, queued |-> {}]

Init ==
  /\ counter = Zero /\ numPanics = 0 /\ nextIndex = 0
  /\ dest = [t \in Tasks |-> "store"]
  /\ poisoned = FALSE /\ suspended = FALSE /\ referrers = 1 /\ rxOpen = TRUE
  /\ queue = <<>> /\ rxLock = NoOne
  /\ outcomes = [t \in Tasks |-> "none"] /\ sent = [t \in Tasks |-> "none"]
  /\ taken = [t \in Tasks |-> "none"] /\ lost = {}
  /\ \E first \in Handles, started \in SUBSET Workers :
       /\ Cardinality(started) = NumThreads
       /\ pc = [p \in Processes |-> IF p = first THEN "idle"
                                    ELSE IF p \in started THEN "boot"
                                    ELSE "absent"]
  /\ why = [p \in Processes |-> "none"]
  /\ task = [p \in Processes |-> NoTask]
  /\ batch = [h \in Handles |-> <<>>]
  /\ JoinGate!Init
  /\ owed = [h \in Handles |-> Nothing]
  /\ late = [w \in Workers |-> 0] /\ suspends = 0

-----------------------------------------------------------------------------
(***************************************************************************)
(* Outcomes.                                                               *)
(***************************************************************************)
ToChannel(t) == dest[t] = "apply" \/ (dest[t] = "send" /\ rxOpen)

\* The outcomes of the tasks in S, all of kind k: each is sent, or stored if
\* it has no sender or nobody has the receiver any more.
Deliver(S, k) ==
  /\ sent' = [t \in Tasks |-> IF t \in S /\ ToChannel(t) THEN k ELSE sent[t]]
  /\ outcomes' = [t \in Tasks |-> IF t \in S /\ ~ToChannel(t) THEN k ELSE outcomes[t]]
  /\ UNCHANGED taken

(***************************************************************************)
(* Worker threads: Hive::spawn and Shared::next_task.                      *)
(***************************************************************************)
\* init_thread, Sentinel::new and create_worker.
Boot(w) == Move(w, "boot", "gate")

\* Mutant: the resume gate is not consulted.
PassResumeGateAlways(w) == Move(w, "gate", "poll")

\* resume_gate.wait_while(is_suspended).
PassResumeGate(w) == ~suspended /\ Move(w, "gate", "poll")

\* next_task fails, the loop ends and sentinel.cancel() drops the sentinel,
\* whose Drop calls finish_task.
Exit(w) == Goto(w, "finish") /\ why' = [why EXCEPT ![w] = "exit"]

Poll(w) ==
  \/ ~poisoned /\ Move(w, "poll", "lock")
  \/ /\ poisoned /\ pc[w] = "poll"
     /\ Exit(w)
     /\ UNCHANGED <<counter, numPanics, taskVars, flagVars, channelVars,
                    outcomeVars, lost, holdVars, joinVars, ghostVars>>

LockReceiver(w) ==
  /\ pc[w] = "lock"
  /\ rxLock = NoOne
  /\ rxLock' = w
  /\ Goto(w, "recv")
  /\ UNCHANGED <<counter, numPanics, taskVars, flagVars, queue, outcomeVars,
                 lost, why, holdVars, joinVars, ghostVars>>

Receive(w) ==
  /\ pc[w] = "recv"
  /\ queue # <<>>
  /\ task' = [task EXCEPT ![w] = Head(queue)]
  /\ queue' = Tail(queue)
  /\ rxLock' = NoOne
  /\ Goto(w, "transfer")
  /\ late' = IF suspended THEN [late EXCEPT ![w] = @ + 1] ELSE late
  /\ UNCHANGED <<counter, numPanics, taskVars, flagVars, outcomeVars, lost,
                 why, batch, joinVars, suspends>>

\* Mutants: the receiver's lock is not given back.
RecvTimeoutKeepsLock(w) ==
  /\ queue = <<>> /\ Connected
  /\ Move(w, "recv", "gate")

RecvDisconnectedKeepsLock(w) ==
  /\ pc[w] = "recv"
  /\ queue = <<>> /\ ~Connected
  /\ Exit(w)
  /\ UNCHANGED <<counter, numPanics, taskVars, flagVars, channelVars,
                 outcomeVars, lost, holdVars, joinVars, ghostVars>>

RecvTimeout(w) ==
  /\ pc[w] = "recv"
  /\ queue = <<>> /\ Connected
  /\ rxLock' = NoOne
  /\ Goto(w, "gate")
  /\ UNCHANGED <<counter, numPanics, taskVars, flagVars, queue, outcomeVars,
                 lost, why, holdVars, joinVars, ghostVars>>

RecvDisconnected(w) ==
  /\ pc[w] = "recv"
  /\ queue = <<>> /\ ~Connected
  /\ rxLock' = NoOne
  /\ Exit(w)
  /\ UNCHANGED <<counter, numPanics, taskVars, flagVars, queue, outcomeVars,
                 lost, holdVars, joinVars, ghostVars>>

\* num_tasks.transfer(1).  If it fails, the task is dropped and the hive
\* poisoned.
TransferTask(w) ==
  /\ pc[w] = "transfer"
  /\ counter' = Transfer(counter, 1)
  /\ \/ /\ ~TransferFails(counter, 1)
        /\ Goto(w, "apply")
        /\ UNCHANGED <<task, lost>>
     \/ /\ TransferFails(counter, 1)
        /\ Goto(w, "poison")
        /\ lost' = lost \cup {task[w]}
        /\ task' = [task EXCEPT ![w] = NoTask]
  /\ UNCHANGED <<numPanics, taskVars, flagVars, channelVars, outcomeVars, why,
                 batch, joinVars, ghostVars>>

(***************************************************************************)
(* Hive::execute: Worker::apply, then send_or_store_outcome.               *)
(***************************************************************************)
\* Mutant: finish_task is not called for a task that panics.
EndTaskUnlessPanic(w, reason) ==
  /\ task' = [task EXCEPT ![w] = NoTask]
  /\ why' = [why EXCEPT ![w] = reason]
  /\ Goto(w, IF reason = "panic" THEN "respawn" ELSE "finish")

\* After the task: the loop calls finish_task, or the sentinel does while
\* the thread unwinds.
EndTask(w, reason) ==
  /\ task' = [task EXCEPT ![w] = NoTask]
  /\ why' = [why EXCEPT ![w] = reason]
  /\ Goto(w, "finish")

Complete(w) ==
  /\ pc[w] = "apply"
  /\ Deliver({task[w]}, "processed")
  /\ EndTask(w, "task")
  /\ UNCHANGED <<counter, numPanics, taskVars, flagVars, channelVars, lost,
                 batch, joinVars, ghostVars>>

\* The worker sees Context::is_cancelled and gives up; by the time the input
\* is delivered the hive may have been resumed.
Cancel(w) == suspended /\ Move(w, "apply", "cancelled")

ReturnInput(w) ==
  /\ pc[w] = "cancelled"
  /\ Deliver({task[w]}, "unprocessed")
  /\ EndTask(w, "task")
  /\ UNCHANGED <<counter, numPanics, taskVars, flagVars, channelVars, lost,
                 batch, joinVars, ghostVars>>

\* Mutant: a task that panics is put back into the channel.
PanicAndRequeue(w) ==
  /\ pc[w] = "apply"
  /\ Cardinality(lost) < MaxPanics
  /\ queue' = Append(queue, task[w])
  /\ EndTask(w, "panic")
  /\ UNCHANGED <<counter, numPanics, taskVars, flagVars, rxLock, outcomeVars,
                 lost, batch, joinVars, ghostVars>>

Panic(w) ==
  /\ pc[w] = "apply"
  /\ Cardinality(lost) < MaxPanics
  /\ lost' = lost \cup {task[w]}
  /\ EndTask(w, "panic")
  /\ UNCHANGED <<counter, numPanics, taskVars, flagVars, channelVars,
                 outcomeVars, batch, joinVars, ghostVars>>

(***************************************************************************)
(* Shared::finish_task, called by the loop ("task"), by the sentinel of a  *)
(* thread that unwinds ("panic") and by the sentinel of a thread that      *)
(* leaves the loop ("exit").  The two counters it changes are read by      *)
(* different callers, in one step here; has_work and the notification are  *)
(* the steps that follow.  Its expect panics on an underflow: the loop     *)
(* then unwinds into the sentinel, a sentinel that is not unwinding ends   *)
(* the thread, and one that is unwinding aborts the program.               *)
(***************************************************************************)
\* The program ends, and everything stays as it is.
Abort(w) == Goto(w, "aborted")
Aborted == \E p \in Processes : pc[p] = "aborted"

FinishTask(w) ==
  /\ pc[w] = "finish"
  /\ counter' = DecrementRight(counter, 1)
  /\ \/ /\ ~RightUnderflows(counter, 1)
        /\ numPanics' = IF why[w] = "panic" THEN numPanics + 1 ELSE numPanics
        /\ Goto(w, "has_work")
        /\ UNCHANGED why
     \/ /\ RightUnderflows(counter, 1)
        /\ UNCHANGED numPanics
        /\ \/ /\ why[w] = "task"
              /\ why' = [why EXCEPT ![w] = "panic"]
              /\ UNCHANGED pc
           \/ /\ why[w] = "exit"
              /\ Goto(w, "dead")
              /\ UNCHANGED why
           \/ /\ why[w] = "panic"
              /\ Abort(w)
              /\ UNCHANGED why
  /\ UNCHANGED <<taskVars, flagVars, channelVars, outcomeVars, lost, holdVars,
                 joinVars, ghostVars>>

\* Mutant: a thread that panicked is not replaced.
AfterFinishGone(w) == IF why[w] = "task" THEN "gate" ELSE "dead"

\* Where the thread goes when finish_task returns.
AfterFinish(w) == CASE why[w] = "task" -> "gate"
                    [] why[w] = "panic" -> "respawn"
                    [] OTHER -> "dead"

\* Mutant: nobody is notified.
NotifyNobody(w) == Move(w, "notify", AfterFinish(w))

\* no_work_notify_all, when has_work was false.
Notify(w) ==
  /\ pc[w] = "notify"
  /\ JoinGate!NotifyAll
  /\ Goto(w, AfterFinish(w))
  /\ UNCHANGED <<counter, numPanics, taskVars, flagVars, channelVars,
                 outcomeVars, lost, why, holdVars, owed, ghostVars>>

\* Hive::spawn: refuses on a poisoned hive, and may fail.
Spawned(w) ==
  \/ ~poisoned /\ Goto(w, "boot")
  \/ (poisoned \/ SpawnMayFail) /\ Goto(w, "dead")

\* The sentinel's Drop starts a thread in its place.
Respawn(w) ==
  /\ pc[w] = "respawn"
  /\ Spawned(w)
  /\ UNCHANGED restVars

(***************************************************************************)
(* Shared::has_work, evaluated by a worker that finished a task and by a   *)
(* handle that joins: three reads.                                         *)
(***************************************************************************)
\* Where a handle goes once wait_on_done returns.
AfterJoin(h) == IF why[h] = "husk" THEN "hang_up" ELSE "idle"

\* The gate made a step; the handle follows it.
FollowGate(h) ==
  /\ Goto(h, CASE at'[h] = "out" -> AfterJoin(h)
               [] at'[h] = "test" -> "has_work"
               [] OTHER -> "join")
  /\ owed' = IF at'[h] = "out" THEN [owed EXCEPT ![h] = Nothing] ELSE owed

Concludes(p, work) ==
  \/ /\ p \in Workers
     /\ Goto(p, IF work THEN AfterFinish(p) ELSE "notify")
     /\ UNCHANGED joinVars
  \/ /\ p \in Handles
     /\ JoinGate!Evaluate(p, work)
     /\ FollowGate(p)

unreadVars == <<counter, numPanics, taskVars, flagVars, channelVars,
                outcomeVars, lost, why, holdVars, ghostVars>>

ReadPoisoned(p) ==
  \/ ~poisoned /\ Move(p, "has_work", "counts")
  \/ poisoned /\ pc[p] = "has_work" /\ Concludes(p, FALSE) /\ UNCHANGED unreadVars

\* Mutant: tasks that are executing are not counted as work.
ReadCountsQueued(p) ==
  /\ pc[p] = "counts"
  /\ \/ counter.left = 0 /\ Concludes(p, FALSE)
     \/ counter.left > 0 /\ Goto(p, "flag") /\ UNCHANGED joinVars
  /\ UNCHANGED unreadVars

ReadCounts(p) ==
  /\ pc[p] = "counts"
  /\ \/ counter.right > 0 /\ Concludes(p, TRUE)
     \/ counter.right = 0 /\ counter.left = 0 /\ Concludes(p, FALSE)
     \/ /\ counter.right = 0 /\ counter.left > 0
        /\ Goto(p, "flag")
        /\ UNCHANGED joinVars
  /\ UNCHANGED unreadVars

ReadSuspended(p) ==
  /\ pc[p] = "flag"
  /\ Concludes(p, ~suspended)
  /\ UNCHANGED unreadVars

(***************************************************************************)
(* Shared::poison: the flag, then drain_tasks_into_unprocessed under the   *)
(* receiver's lock.  Called by the last handle that is dropped and by a    *)
(* worker whose transfer failed.                                           *)
(***************************************************************************)
Poison(p) ==
  /\ pc[p] = "poison"
  /\ poisoned' = TRUE
  /\ Goto(p, "drain")
  /\ UNCHANGED <<counter, numPanics, taskVars, suspended, referrers, rxOpen,
                 channelVars, outcomeVars, lost, why, holdVars, joinVars,
                 ghostVars>>

\* Mutant: one task is taken out of the channel, not all of them.
DrainOne(p) ==
  /\ pc[p] = "drain"
  /\ rxLock = NoOne
  /\ Deliver(IF queue = <<>> THEN {} ELSE {Head(queue)}, "unprocessed")
  /\ queue' = IF queue = <<>> THEN queue ELSE Tail(queue)
  /\ \/ p \in Workers /\ Exit(p)
     \/ p \in Handles /\ Goto(p, "gone") /\ UNCHANGED why
  /\ UNCHANGED <<counter, numPanics, taskVars, flagVars, rxLock, lost, holdVars,
                 joinVars, ghostVars>>

Drain(p) ==
  /\ pc[p] = "drain"
  /\ rxLock = NoOne
  /\ Deliver(Range(queue), "unprocessed")
  /\ queue' = <<>>
  /\ \/ p \in Workers /\ Exit(p)
     \/ p \in Handles /\ Goto(p, "gone") /\ UNCHANGED why
  /\ UNCHANGED <<counter, numPanics, taskVars, flagVars, rxLock, lost, holdVars,
                 joinVars, ghostVars>>

-----------------------------------------------------------------------------
(***************************************************************************)
(* Handles: submitting tasks (send_one, send_batch).                       *)
(***************************************************************************)
Calls(h, op) == pc[h] = "idle" /\ op \in Ops[h]

\* prepare_task, prepare_batch: the queued counter, then the indices.  Only
\* other submitters read next_task_index and only the rest reads the counter,
\* so the two atomic operations are one step.
Submit(h, n, d) ==
  /\ Calls(h, "submit")
  /\ nextIndex + n <= MaxTasks
  /\ d = "apply" => n = 1
  /\ counter' = IncrementLeft(counter, n)
  /\ nextIndex' = nextIndex + n
  /\ batch' = [batch EXCEPT ![h] = [i \in 1 .. n |-> nextIndex + i - 1]]
  /\ dest' = [t \in Tasks |-> IF t \in nextIndex .. nextIndex + n - 1
                              THEN d ELSE dest[t]]
  /\ Goto(h, "admit")
  /\ UNCHANGED <<numPanics, flagVars, channelVars, outcomeVars, lost, why, task,
                 joinVars, ghostVars>>

\* is_poisoned is read once, for a batch as well.
Admit(h) ==
  /\ Move(h, "admit", IF poisoned THEN "refuse" ELSE "send")

\* One task of the batch is dealt with; after the last, apply waits for the
\* outcome and everything else returns.
NextOfBatch(h) ==
  /\ batch' = [batch EXCEPT ![h] = Tail(@)]
  /\ LET t == Head(batch[h]) IN
       IF Tail(batch[h]) # <<>> THEN UNCHANGED <<pc, task>>
       ELSE IF dest[t] = "apply"
            THEN Goto(h, "await") /\ task' = [task EXCEPT ![h] = t]
            ELSE Goto(h, "idle") /\ UNCHANGED task

Send(h) ==
  /\ pc[h] = "send"
  /\ queue' = Append(queue, Head(batch[h]))
  /\ NextOfBatch(h)
  /\ UNCHANGED <<counter, numPanics, taskVars, flagVars, rxLock, outcomeVars,
                 lost, why, joinVars, ghostVars>>

\* Mutant: a task that was refused still goes into the channel.
RefuseAndSend(h) ==
  /\ pc[h] = "refuse"
  /\ Deliver({Head(batch[h])}, "unprocessed")
  /\ queue' = Append(queue, Head(batch[h]))
  /\ NextOfBatch(h)
  /\ UNCHANGED <<counter, numPanics, taskVars, flagVars, rxLock, lost, why,
                 joinVars, ghostVars>>

Refuse(h) ==
  /\ pc[h] = "refuse"
  /\ Deliver({Head(batch[h])}, "unprocessed")
  /\ NextOfBatch(h)
  /\ UNCHANGED <<counter, numPanics, taskVars, flagVars, channelVars, lost, why,
                 joinVars, ghostVars>>

\* rx.recv() of apply: the outcome, or Missing when the task was dropped.
ApplyReturns(h) ==
  /\ pc[h] = "await"
  /\ sent[task[h]] # "none" \/ task[h] \in lost
  /\ task' = [task EXCEPT ![h] = NoTask]
  /\ Goto(h, "idle")
  /\ UNCHANGED <<counter, numPanics, taskVars, flagVars, channelVars,
                 outcomeVars, lost, why, batch, joinVars, ghostVars>>

(***************************************************************************)
(* Handles: join, suspend, resume, and what the client does with outcomes. *)
(***************************************************************************)
\* What a handle that calls join is to wait for, by the documentation of join.
WaitsFor(h) ==
  IF "join" \in Ops[h]
  THEN [active |-> Executing,
        queued |-> IF suspended THEN {} ELSE Prepared \ Resolved]
  ELSE Nothing

\* wait_on_done, for join and for try_into_husk.
StartJoin(h, reason) ==
  /\ JoinGate!Arrive(h)
  /\ why' = [why EXCEPT ![h] = reason]
  /\ owed' = [owed EXCEPT ![h] = WaitsFor(h)]
  /\ Goto(h, "has_work")
  /\ UNCHANGED <<counter, numPanics, taskVars, flagVars, channelVars,
                 outcomeVars, lost, holdVars, ghostVars>>

Join(h) == Calls(h, "join") /\ StartJoin(h, "join")

JoinStep(h) ==
  /\ pc[h] = "join"
  /\ JoinGate!Load(h) \/ JoinGate!Lock(h) \/ JoinGate!Leave(h)
  /\ FollowGate(h)
  /\ UNCHANGED unreadVars

\* A join under way need not wait for queued tasks any longer.
Suspend(h) ==
  /\ Calls(h, "suspend")
  /\ ~suspended /\ suspends < MaxSuspends
  /\ suspended' = TRUE
  /\ suspends' = suspends + 1
  /\ late' = [w \in Workers |-> 0]
  /\ owed' = [g \in Handles |-> [active |-> owed[g].active, queued |-> {}]]
  /\ UNCHANGED <<pc, counter, numPanics, taskVars, poisoned, referrers, rxOpen,
                 channelVars, outcomeVars, lost, why, holdVars, at, saved,
                 phase, mutex>>

\* Clears the flag and opens the resume gate.
Resume(h) ==
  /\ Calls(h, "resume")
  /\ suspended
  /\ suspended' = FALSE
  /\ UNCHANGED <<pc, counter, numPanics, taskVars, poisoned, referrers, rxOpen,
                 channelVars, outcomeVars, lost, why, holdVars, joinVars,
                 ghostVars>>

TakeStored(h) ==
  /\ Calls(h, "take")
  /\ \E t \in Tasks : outcomes[t] # "none"
  /\ taken' = [t \in Tasks |-> IF outcomes[t] # "none" THEN outcomes[t] ELSE taken[t]]
  /\ outcomes' = [t \in Tasks |-> "none"]
  /\ UNCHANGED <<pc, counter, numPanics, taskVars, flagVars, channelVars, sent,
                 lost, why, holdVars, joinVars, ghostVars>>

\* The client drops the receiver of its outcome channel.
HangUp(h) ==
  /\ Calls(h, "hang_up")
  /\ rxOpen
  /\ rxOpen' = FALSE
  /\ UNCHANGED <<pc, counter, numPanics, taskVars, poisoned, suspended,
                 referrers, channelVars, outcomeVars, lost, why, holdVars,
                 joinVars, ghostVars>>

(***************************************************************************)
(* Handles: growing the pool, cloning, dropping, and try_into_husk.        *)
(***************************************************************************)
Grow(h, w) ==
  /\ Calls(h, "grow")
  /\ pc[w] = "absent"
  /\ Spawned(w)
  /\ UNCHANGED restVars

Clone(h, g) ==
  /\ Calls(h, "clone")
  /\ pc[g] = "absent"
  /\ referrers' = referrers + 1
  /\ Goto(g, "idle")
  /\ UNCHANGED <<counter, numPanics, taskVars, poisoned, suspended, rxOpen,
                 channelVars, outcomeVars, lost, why, holdVars, joinVars,
                 ghostVars>>

\* Hive::drop subtracts, then reads the number of referrers ...
ReleaseReferrer(h) ==
  /\ referrers' = referrers - 1
  /\ Goto(h, "dropping")
  /\ UNCHANGED <<counter, numPanics, taskVars, poisoned, suspended, rxOpen,
                 channelVars, outcomeVars, lost, why, holdVars, joinVars,
                 ghostVars>>

Drop(h) == Calls(h, "drop") /\ ReleaseReferrer(h)

\* Mutant: the test for the last handle is off by one.
DropLastButOne(h) == Move(h, "dropping", IF referrers <= 1 THEN "poison" ELSE "gone")

\* ... and the last handle poisons the hive.
DropLast(h) == Move(h, "dropping", IF referrers = 0 THEN "poison" ELSE "gone")

\* try_into_husk: returns None, dropping the handle, if there are others;
\* otherwise it joins, ...
TryIntoHusk(h) ==
  /\ Calls(h, "husk")
  /\ \/ referrers > 1 /\ Goto(h, "refused") /\ UNCHANGED restVars
     \/ referrers <= 1 /\ StartJoin(h, "husk")

ReturnNone(h) == pc[h] = "refused" /\ ReleaseReferrer(h)

\* ... drops the sender, ...
DropSender(h) == Move(h, "hang_up", "spin")

\* Mutant: does not wait for the other references to go.
ExtractAtOnce(h) ==
  /\ pc[h] = "spin"
  /\ Deliver(Range(queue), "unprocessed")
  /\ queue' = <<>>
  /\ Goto(h, "husk")
  /\ UNCHANGED <<counter, numPanics, taskVars, flagVars, rxLock, lost, why,
                 holdVars, joinVars, ghostVars>>

\* ... spins until nobody else has a reference, and takes what is left.
Extract(h) ==
  /\ pc[h] = "spin"
  /\ \A p \in Processes \ {h} : ~HoldsShared(p)
  /\ Deliver(Range(queue), "unprocessed")
  /\ queue' = <<>>
  /\ Goto(h, "husk")
  /\ UNCHANGED <<counter, numPanics, taskVars, flagVars, rxLock, lost, why,
                 holdVars, joinVars, ghostVars>>

-----------------------------------------------------------------------------
HasWorkStep(p) == ReadPoisoned(p) \/ ReadCounts(p) \/ ReadSuspended(p)

NextTask(w) ==
  \/ PassResumeGate(w) \/ Poll(w) \/ LockReceiver(w) \/ Receive(w)
  \/ RecvTimeout(w) \/ RecvDisconnected(w) \/ TransferTask(w)

WorkerStep(w) ==
  /\ ~Aborted
  /\ \/ Boot(w) \/ NextTask(w)
     \/ Complete(w) \/ Cancel(w) \/ ReturnInput(w) \/ Panic(w)
     \/ FinishTask(w) \/ HasWorkStep(w) \/ Notify(w) \/ Respawn(w)
     \/ Poison(w) \/ Drain(w)

\* What a handle does on its own once an operation was called.
ContinueCall(h) ==
  /\ ~Aborted
  /\ \/ Admit(h) \/ Send(h) \/ Refuse(h) \/ ApplyReturns(h)
     \/ HasWorkStep(h) \/ JoinStep(h)
     \/ ReturnNone(h) \/ DropLast(h) \/ Poison(h) \/ Drain(h)
     \/ DropSender(h) \/ Extract(h)

StartCall(h) ==
  /\ ~Aborted
  /\ \/ \E n \in 1 .. MaxBatch, d \in Destinations : Submit(h, n, d)
     \/ Join(h) \/ Suspend(h) \/ Resume(h) \/ TakeStored(h) \/ HangUp(h)
     \/ \E w \in Workers : Grow(h, w)
     \/ \E g \in Handles : Clone(h, g)
     \/ Drop(h) \/ TryIntoHusk(h)

\* A handle is in no call.
AtEase == {"absent", "idle", "gone", "husk"}

\* Nothing is under way: every call returned, and no worker can move; or the
\* program has ended.
AtRest ==
  \/ Aborted
  \/ /\ \A h \in Handles : pc[h] \in AtEase
     /\ \A w \in Workers : \/ pc[w] \in {"absent", "dead"}
                           \/ pc[w] = "gate" /\ suspended

Rest == AtRest /\ UNCHANGED vars

Next ==
  \/ \E w \in Workers : WorkerStep(w)
  \/ \E h \in Handles : ContinueCall(h) \/ StartCall(h)
  \/ Rest

\* Threads are scheduled, calls under way go on, and Worker::apply returns.
\* Nobody has to call anything.
Fairness ==
  /\ \A w \in Workers : WF_vars(WorkerStep(w))
  /\ \A h \in Handles : WF_vars(ContinueCall(h))

Safe == Init /\ [][Next]_vars
Spec == Safe /\ Fairness

-----------------------------------------------------------------------------
SharedTypes ==
  /\ counter \in Pair /\ numPanics \in Nat /\ nextIndex \in 0 .. MaxTasks
  /\ dest \in [Tasks -> AllDestinations]
  /\ poisoned \in BOOLEAN /\ suspended \in BOOLEAN
  /\ referrers \in Int /\ rxOpen \in BOOLEAN
  /\ queue \in Seq(Tasks) /\ rxLock \in Workers \cup {NoOne}
  /\ outcomes \in [Tasks -> Kinds] /\ sent \in [Tasks -> Kinds]
  /\ taken \in [Tasks -> Kinds] /\ lost \in SUBSET Tasks

ControlTypes ==
  /\ pc \in [Processes -> WorkerPoints \cup HandlePoints]
  /\ \A w \in Workers : pc[w] \in WorkerPoints
  /\ \A h \in Handles : pc[h] \in HandlePoints
  /\ why \in [Processes -> {"none", "task", "panic", "exit", "join", "husk"}]
  /\ task \in [Processes -> Tasks \cup {NoTask}]
  /\ batch \in [Handles -> Seq(Tasks)]

JoinTypes ==
  /\ at \in [Handles -> JoinGate!Points] /\ saved \in [Handles -> Nat]
  /\ phase \in Nat /\ mutex \in Handles \cup {NoOne}
  /\ owed \in [Handles -> [active : SUBSET Tasks, queued : SUBSET Tasks]]

HistoryTypes == late \in [Workers -> Nat] /\ suspends \in Nat

(***************************************************************************)
(* Type invariant.                                                         *)
(***************************************************************************)
TypeOK == SharedTypes /\ ControlTypes /\ JoinTypes /\ HistoryTypes

\* A transfer failed, and its worker is about to poison the hive.
BrokenDown == \E w \in Workers : pc[w] = "poison"
ShutDown == poisoned \/ BrokenDown \/ ~Connected

Stored == {t \in Tasks : outcomes[t] # "none"}
Sent == {t \in Tasks : sent[t] # "none"}
Taken == {t \in Tasks : taken[t] # "none"}
Held(w) == {task[w]} \ {NoTask}

Places(t) ==
  {<<"batch", h>> : h \in {g \in Handles : t \in Range(batch[g])}}
    \cup {<<"queue", i>> : i \in {j \in DOMAIN queue : queue[j] = t}}
    \cup {<<"worker", w>> : w \in {v \in Workers : t \in Held(v)}}
    \cup {<<"stored", x>> : x \in {t} \cap Stored}
    \cup {<<"sent", x>> : x \in {t} \cap Sent}
    \cup {<<"taken", x>> : x \in {t} \cap Taken}
    \cup {<<"lost", x>> : x \in {t} \cap lost}

(***************************************************************************)
(* Every task that was prepared is in exactly one place: with the handle   *)
(* that is submitting it, in the channel, with a worker, among the stored, *)
(* sent or taken outcomes, or dropped by a panic.  No interleaving of      *)
(* submitters, workers, suspensions, panics, poisoning and draining        *)
(* duplicates a task or makes one vanish unrecorded.                       *)
(***************************************************************************)
TaskConservation ==
  \A t \in Tasks : Cardinality(Places(t)) = IF t \in Prepared THEN 1 ELSE 0

\* Tasks the queued counter stands for: prepared, and not yet moved to the
\* active counter by the worker that received them.
Waiting ==
  {t \in Tasks : \/ \E h \in Handles : t \in Range(batch[h])
                \/ t \in Range(queue)
                \/ \E w \in Workers : pc[w] = "transfer" /\ task[w] = t}

\* Workers the active counter stands for: from the transfer to the decrement.
Active ==
  {w \in Workers : \/ pc[w] \in {"apply", "cancelled"}
                   \/ pc[w] = "finish" /\ why[w] # "exit"}

(***************************************************************************)
(* Until the hive is shut down the two counters are exact, although they   *)
(* are changed before a task is sent, after it is received and after its   *)
(* outcome is delivered, by different threads.  has_work, join and the     *)
(* expect in finish_task rest on this.  num_panics counts the tasks that   *)
(* were lost, but for those whose thread is still unwinding: a panic never *)
(* loses more than the one task, and a task is lost in no other way.       *)
(***************************************************************************)
CountersExact ==
  ~ShutDown =>
    /\ counter.left = Cardinality(Waiting)
    /\ counter.right = Cardinality(Active)
    /\ Cardinality(lost) = numPanics +
         Cardinality({w \in Workers : pc[w] = "finish" /\ why[w] = "panic"})

(***************************************************************************)
(* While clients use the hive its threads do not go away: a thread that    *)
(* panics is replaced, and no thread leaves its loop.                      *)
(***************************************************************************)
PoolKeepsItsSize == \A w \in Workers : pc[w] = "dead" => ShutDown

(***************************************************************************)
(* A hive is only poisoned once its last handle is dropped or taken apart  *)
(* into a husk, however clones, drops and refused husks interleave: no     *)
(* handle that is still in use finds its hive poisoned.                    *)
(***************************************************************************)
PoisonedOnlyAtTheEnd ==
  poisoned =>
    \A h \in Handles : pc[h] \in {"absent", "dropping", "poison", "drain", "gone",
                                 "spin", "husk"}

(***************************************************************************)
(* Once every handle is gone no task is left in the channel: what the      *)
(* workers had not received was given back as Unprocessed.                 *)
(***************************************************************************)
NothingStranded ==
  (\A h \in Handles : pc[h] \in {"absent", "gone"}) => poisoned /\ queue = <<>>

(***************************************************************************)
(* A husk is complete: no thread still uses the shared state, every task   *)
(* ever submitted has its outcome (or was lost to a panic), and, since     *)
(* try_into_husk joins first, none is Unprocessed if the hive was never    *)
(* suspended.                                                              *)
(***************************************************************************)
HuskIsComplete ==
  \A h \in Handles : pc[h] = "husk" =>
    /\ \A p \in Processes \ {h} : pc[p] \in {"absent", "dead", "gone"}
    /\ Prepared \subseteq Resolved
    /\ suspends = 0 => \A t \in Tasks : "unprocessed" \notin
                                         {outcomes[t], sent[t], taken[t]}

(***************************************************************************)
(* "There is a window of time after the suspended flag is set within       *)
(* which a worker thread may still accept a new task": one task each, and  *)
(* no second one until the hive is resumed.                                *)
(***************************************************************************)
AtMostOneLateTask == \A w \in Workers : late[w] <= 1

(***************************************************************************)
(* When join (or the join inside try_into_husk) returns, the tasks it was  *)
(* called to wait for have an outcome or were lost to a panic: those that  *)
(* were executing at the call, and those that were queued unless the hive  *)
(* was suspended before or during the call.                                *)
(***************************************************************************)
Returning(h) == at[h] # "out" /\ at'[h] = "out"
JoinKeepsItsPromise ==
  [][\A h \in Handles : Returning(h) =>
       owed[h].active \cup owed[h].queued \subseteq Resolved]_vars

(***************************************************************************)
(* Every task that was prepared is eventually resolved, unless the program *)
(* is aborted first.                                                       *)
(***************************************************************************)
TasksResolve == \A t \in Tasks : t \in Prepared ~> t \in Resolved \/ Aborted

(***************************************************************************)
(* Every call a client makes returns: map and swarm, apply (with Missing   *)
(* when the task panicked), join, drop and try_into_husk, in a hive that   *)
(* is not suspended, unless the program is aborted first.                  *)
(***************************************************************************)
CallsReturn == \A h \in Handles : pc[h] \notin AtEase ~> pc[h] \in AtEase \/ Aborted

(***************************************************************************)
(* A call of join returns, whatever others submit meanwhile, if nobody     *)
(* suspends the hive while it waits.                                       *)
(***************************************************************************)
JoinEnds == \A h \in Handles : at[h] # "out" ~> at[h] = "out" \/ Aborted

(***************************************************************************)
(* Dropping the last handle terminates all worker threads, or the program. *)
(***************************************************************************)
Abandoned == \A h \in Handles : pc[h] \in {"absent", "gone"}
DropTerminatesWorkers ==
  Abandoned ~> Aborted \/ \A w \in Workers : pc[w] \in {"absent", "dead"}
-----------------------------------------------------------------------------
(***************************************************************************)
(* Statements of the repository that the code does not live up to.         *)
(***************************************************************************)
(***************************************************************************)
(* A task that panics after the hive was dropped does not bring the        *)
(* program down.                                                           *)
(***************************************************************************)
NeverAborts == \A p \in Processes : pc[p] # "aborted"
===============================================================================
