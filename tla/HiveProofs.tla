------------------------------ MODULE HiveProofs ------------------------------
(***************************************************************************)
(* Proofs about Hive, for any number of workers and handles, tasks,        *)
(* batches, panics and suspensions, any widths of the counters, and any    *)
(* assignment of operations to the handles: first the types and the        *)
(* threads between the resume gate and the channel, then where the tasks   *)
(* are, then the counters.                                                 *)
(*                                                                         *)
(* The type invariant is not inductive by itself: TransferTask and Panic   *)
(* give up the task their worker holds, and Send and Refuse take the head  *)
(* of a batch. Holding says that there is one. The other two parts of the  *)
(* inductive invariant are about the threads between the resume gate and   *)
(* the channel: the receiver's lock excludes them from each other, and a   *)
(* worker on that way has not accepted a task since the hive was           *)
(* suspended.                                                              *)
(***************************************************************************)
EXTENDS Hive, SequenceTheorems, FiniteSetTheorems, TLAPS

\* A worker that received a task has it until it calls finish_task, and a
\* handle between prepare_batch and its last send has a task to send.
Holding ==
  /\ \A w \in Workers : pc[w] \in {"transfer", "apply", "cancelled"} => task[w] \in Tasks
  /\ \A h \in Handles : pc[h] \in {"admit", "send", "refuse"} => batch[h] # <<>>

\* Who is in recv_timeout has the lock, and nobody else has it.
ReceiverOwner ==
  \A w \in Workers : /\ pc[w] = "recv" => rxLock = w
                     /\ rxLock = w => pc[w] = "recv"

\* A worker that passed the resume gate before the hive was suspended has
\* accepted no task since.
LateTasks ==
  \A w \in Workers :
    /\ late[w] <= 1
    /\ suspended /\ pc[w] \in {"poll", "lock", "recv"} => late[w] = 0

IInv == TypeOK /\ Holding /\ ReceiverOwner /\ LateTasks

USE CounterAssumption, HiveAssumption

-----------------------------------------------------------------------------
(***************************************************************************)
(* The counters stay pairs of numbers below their widths.                  *)
(***************************************************************************)
LEMMA ModRange ==
  ASSUME NEW a \in Int, NEW m \in Nat \ {0}
  PROVE  a % m \in 0 .. m - 1
OBVIOUS

\* increment_left keeps both halves in range, with its carry.
LEMMA IncrementLeftType ==
  ASSUME NEW c \in Pair, NEW n \in 0 .. LMod - 1
  PROVE  IncrementLeft(c, n) \in Pair
BY ModRange DEF Pair, IncrementLeft, LeftOverflows

\* decrement_right does, wrapping below zero.
LEMMA DecrementRightType ==
  ASSUME NEW c \in Pair
  PROVE  DecrementRight(c, 1) \in Pair
BY ModRange DEF Pair, DecrementRight

\* transfer does, with its borrow.
LEMMA TransferType ==
  ASSUME NEW c \in Pair
  PROVE  Transfer(c, 1) \in Pair
<1>1. c.left \in 0 .. LMod - 1 /\ c.right \in 0 .. RMod - 1
  BY DEF Pair
<1>2. /\ (c.right + 1) % RMod \in 0 .. RMod - 1
      /\ (c.right + 1 - 1) % RMod \in 0 .. RMod - 1
  <2>1. c.right + 1 \in Int /\ c.right + 1 - 1 \in Int
    BY <1>1
  <2>2. RMod \in Nat \ {0}
    OBVIOUS
  <2> HIDE CounterAssumption, HiveAssumption
  <2> QED BY <2>1, <2>2, ModRange
<1>3. ~LeftUnderflows(c, 1) => c.left - 1 \in 0 .. LMod - 1
  BY <1>1 DEF LeftUnderflows
<1>4. LeftUnderflows(c, 1) => c.left + LMod - 1 \in 0 .. LMod - 1
  BY <1>1 DEF LeftUnderflows
<1> QED BY <1>2, <1>3, <1>4 DEF Pair, Transfer

-----------------------------------------------------------------------------
(***************************************************************************)
(* What the shared parts of the actions do to the types and the labels.    *)
(***************************************************************************)
\* send_or_store keeps the types of the places an outcome can be in.
LEMMA DeliverTypes ==
  ASSUME SharedTypes, NEW S, NEW k \in Kinds, Deliver(S, k)
  PROVE  /\ outcomes' \in [Tasks -> Kinds] /\ sent' \in [Tasks -> Kinds]
         /\ taken' \in [Tasks -> Kinds]
BY DEF SharedTypes, Deliver

\* finish_task returns into the loop, into the sentinel, or to the end.
LEMMA AfterFinishLabels ==
  ASSUME NEW w \in Workers
  PROVE  AfterFinish(w) \in {"gate", "respawn", "dead"}
BY DEF AfterFinish

\* The head of a batch is a task; dealing with it leaves the handle where it
\* is as long as there is another.
LEMMA NextOfBatchTypes ==
  ASSUME ControlTypes, NEW h \in Handles, batch[h] # <<>>, NextOfBatch(h)
  PROVE  /\ Head(batch[h]) \in Tasks
         /\ batch' \in [Handles -> Seq(Tasks)]
         /\ \A g \in Handles \ {h} : batch'[g] = batch[g]
         /\ \/ batch'[h] # <<>> /\ UNCHANGED <<pc, task>>
            \/ /\ \E l \in {"await", "idle"} : Goto(h, l)
               /\ task' \in {task, [task EXCEPT ![h] = Head(batch[h])]}
<1>1. batch[h] \in Seq(Tasks)
  BY DEF ControlTypes
<1>2. /\ Head(batch[h]) \in Tasks
      /\ Tail(batch[h]) \in Seq(Tasks)
  BY <1>1, HeadTailProperties
<1>3. /\ batch' \in [Handles -> Seq(Tasks)]
      /\ batch'[h] = Tail(batch[h])
      /\ \A g \in Handles \ {h} : batch'[g] = batch[g]
  BY <1>2 DEF ControlTypes, NextOfBatch
<1> QED BY <1>2, <1>3 DEF NextOfBatch

JoinLabels == {"idle", "hang_up", "has_work", "join"}
FinishLabels == {"gate", "respawn", "dead", "notify"}

\* A step of the join gate keeps its types, and the handle that makes it
\* follows.
LEMMA GateStepTypes ==
  ASSUME JoinTypes, NEW h \in Handles, FollowGate(h),
         \/ \E b \in BOOLEAN : JoinGate!Evaluate(h, b)
         \/ JoinGate!Load(h) \/ JoinGate!Lock(h) \/ JoinGate!Leave(h)
  PROVE  JoinTypes' /\ \E l \in JoinLabels : Goto(h, l)
<1> USE DEF JoinTypes, JoinGate!Move, JoinGate!Points
<1>1. owed' \in [Handles -> [active : SUBSET Tasks, queued : SUBSET Tasks]]
  BY DEF FollowGate, Nothing
<1>2. \E l \in JoinLabels : Goto(h, l)
  BY DEF FollowGate, AfterJoin, JoinLabels
<1>3. ASSUME NEW b \in BOOLEAN, JoinGate!Evaluate(h, b) PROVE JoinTypes'
  BY <1>1, <1>3 DEF JoinGate!Evaluate
<1>4. CASE JoinGate!Load(h)
  BY <1>1, <1>2, <1>4 DEF JoinGate!Load
<1>5. CASE JoinGate!Lock(h)
  BY <1>1, <1>2, <1>5 DEF JoinGate!Lock
<1>6. CASE JoinGate!Leave(h)
  BY <1>1, <1>2, <1>6 DEF JoinGate!Leave
<1> QED BY <1>2, <1>3, <1>4, <1>5, <1>6

\* has_work is answered: a worker notifies or goes on, a handle follows the
\* join gate.
LEMMA ConcludesTypes ==
  ASSUME JoinTypes, NEW p \in Processes, NEW b \in BOOLEAN, Concludes(p, b)
  PROVE  /\ JoinTypes'
         /\ \/ p \in Workers /\ \E l \in FinishLabels : Goto(p, l)
            \/ p \in Handles /\ \E l \in JoinLabels : Goto(p, l)
<1> USE DEF FinishLabels
<1>1. CASE /\ p \in Workers
           /\ Goto(p, IF b THEN AfterFinish(p) ELSE "notify")
           /\ UNCHANGED joinVars
  BY <1>1, AfterFinishLabels DEF joinVars, JoinTypes
<1>2. CASE p \in Handles /\ JoinGate!Evaluate(p, b) /\ FollowGate(p)
  BY <1>2, GateStepTypes
<1> QED BY <1>1, <1>2 DEF Concludes

-----------------------------------------------------------------------------
(***************************************************************************)
(* Types: has_work, which workers and handles share.                       *)
(***************************************************************************)
LEMMA HasWorkStepTypes ==
  ASSUME TypeOK, NEW p \in Processes, HasWorkStep(p)
  PROVE  TypeOK'
<1> USE DEF TypeOK, SharedTypes, ControlTypes, HistoryTypes, Processes, Goto,
            WorkerPoints, HandlePoints, taskVars, flagVars, channelVars,
            outcomeVars, holdVars, ghostVars, unreadVars
<1>1. ASSUME NEW b \in BOOLEAN, Concludes(p, b), UNCHANGED unreadVars PROVE TypeOK'
  <2>1. JoinTypes'
    BY <1>1, ConcludesTypes
  <2>2. CASE p \in Workers
    <3>1. \E l \in FinishLabels : Goto(p, l)
      BY <1>1, <2>2, ConcludesTypes
    <3> QED BY <1>1, <2>1, <2>2, <3>1 DEF FinishLabels
  <2>3. CASE p \in Handles
    <3>1. \E l \in JoinLabels : Goto(p, l)
      BY <1>1, <2>3, ConcludesTypes
    <3> QED BY <1>1, <2>1, <2>3, <3>1 DEF JoinLabels
  <2> QED BY <2>2, <2>3
<1>2. ASSUME NEW l \in {"counts", "flag"}, Goto(p, l), UNCHANGED joinVars,
             UNCHANGED unreadVars
      PROVE  TypeOK'
  BY <1>2 DEF joinVars, JoinTypes
<1>3. CASE ReadPoisoned(p)
  BY <1>1, <1>2, <1>3 DEF ReadPoisoned, Move, restVars
<1>4. CASE ReadCounts(p)
  BY <1>1, <1>2, <1>4 DEF ReadCounts
<1>5. CASE ReadSuspended(p)
  BY <1>1, <1>2, <1>5 DEF ReadSuspended
<1> QED BY <1>3, <1>4, <1>5 DEF HasWorkStep

(***************************************************************************)
(* Types: a worker.                                                        *)
(***************************************************************************)
LEMMA WorkerStepTypes ==
  ASSUME TypeOK, Holding, NEW w \in Workers, WorkerStep(w)
  PROVE  TypeOK'
<1> USE DEF TypeOK, SharedTypes, ControlTypes, HistoryTypes, Processes,
            Goto, Move, WorkerPoints, HandlePoints, restVars, taskVars,
            flagVars, channelVars, outcomeVars, holdVars, joinVars, ghostVars
<1>1. CASE Boot(w) \/ PassResumeGate(w) \/ Cancel(w)
  <2>1. UNCHANGED restVars /\ \E l \in {"gate", "poll", "cancelled"} : Goto(w, l)
    BY <1>1 DEF Boot, PassResumeGate, Cancel
  <2> QED BY <2>1 DEF JoinTypes
<1>2. CASE Poll(w)
  <2>1. CASE Move(w, "poll", "lock")
    BY <2>1 DEF JoinTypes
  <2>2. CASE Exit(w) /\ UNCHANGED <<counter, numPanics, taskVars, flagVars,
               channelVars, outcomeVars, lost, holdVars, joinVars, ghostVars>>
    BY <2>2 DEF Exit, JoinTypes
  <2> QED BY <1>2, <2>1, <2>2 DEF Poll
<1>3. CASE LockReceiver(w)
  BY <1>3 DEF LockReceiver, JoinTypes
<1>4. CASE Receive(w)
  <2>1. Head(queue) \in Tasks /\ Tail(queue) \in Seq(Tasks)
    BY <1>4, HeadTailProperties DEF Receive
  <2>2. /\ task' \in [Processes -> Tasks \cup {NoTask}]
        /\ queue' \in Seq(Tasks)
    BY <1>4, <2>1 DEF Receive
  <2>3. late' \in [Workers -> Nat]
    BY <1>4 DEF Receive
  <2>4. ControlTypes'
    BY <1>4, <2>2 DEF Receive
  <2> QED BY <1>4, <2>2, <2>3, <2>4 DEF Receive, JoinTypes
<1>5. CASE RecvTimeout(w)
  BY <1>5 DEF RecvTimeout, JoinTypes
<1>6. CASE RecvDisconnected(w)
  BY <1>6 DEF RecvDisconnected, Exit, JoinTypes
<1>7. CASE TransferTask(w)
  <2>1. counter' \in Pair
    BY <1>7, TransferType DEF TransferTask
  <2>2. task[w] \in Tasks
    BY <1>7 DEF TransferTask, Holding
  <2>3. lost' \in SUBSET Tasks /\ task' \in [Processes -> Tasks \cup {NoTask}]
    BY <1>7, <2>2 DEF TransferTask
  <2>4. \E l \in {"apply", "poison"} : Goto(w, l)
    BY <1>7 DEF TransferTask
  <2> QED BY <1>7, <2>1, <2>3, <2>4 DEF TransferTask, JoinTypes
<1>8. CASE Complete(w)
  <2>1. /\ outcomes' \in [Tasks -> Kinds] /\ sent' \in [Tasks -> Kinds]
        /\ taken' \in [Tasks -> Kinds]
    BY <1>8, DeliverTypes DEF Complete, Kinds
  <2> QED BY <1>8, <2>1 DEF Complete, EndTask, JoinTypes
<1>9. CASE ReturnInput(w)
  <2>1. /\ outcomes' \in [Tasks -> Kinds] /\ sent' \in [Tasks -> Kinds]
        /\ taken' \in [Tasks -> Kinds]
    BY <1>9, DeliverTypes DEF ReturnInput, Kinds
  <2> QED BY <1>9, <2>1 DEF ReturnInput, EndTask, JoinTypes
<1>10. CASE Panic(w)
  <2>1. task[w] \in Tasks
    BY <1>10 DEF Panic, Holding
  <2> QED BY <1>10, <2>1 DEF Panic, EndTask, JoinTypes
<1>11. CASE FinishTask(w)
  <2>1. counter' \in Pair
    BY <1>11, DecrementRightType DEF FinishTask
  <2>2. numPanics' \in Nat
    BY <1>11 DEF FinishTask
  <2>3. pc' = pc \/ \E l \in {"has_work", "dead", "aborted"} : Goto(w, l)
    BY <1>11 DEF FinishTask, Abort
  <2>4. why' = why \/ why' = [why EXCEPT ![w] = "panic"]
    BY <1>11 DEF FinishTask
  <2>5. /\ pc' \in [Processes -> WorkerPoints \cup HandlePoints]
        /\ \A v \in Workers : pc'[v] \in WorkerPoints
        /\ \A h \in Handles : pc'[h] \in HandlePoints
    <3>1. CASE pc' = pc
      BY <3>1
    <3>2. CASE \E l \in {"has_work", "dead", "aborted"} : Goto(w, l)
      BY <3>2
    <3> QED BY <2>3, <3>1, <3>2
  <2>6. UNCHANGED <<taskVars, flagVars, channelVars, outcomeVars, lost, holdVars,
                    joinVars, ghostVars>>
    BY <1>11 DEF FinishTask
  <2>7. ControlTypes'
    BY <2>4, <2>5, <2>6
  <2> QED BY <2>1, <2>2, <2>6, <2>7 DEF JoinTypes
<1>12. CASE HasWorkStep(w)
  BY <1>12, HasWorkStepTypes
<1>13. CASE Notify(w)
  <2>1. \E l \in {"gate", "respawn", "dead"} : Goto(w, l)
    BY <1>13, AfterFinishLabels DEF Notify
  <2> QED BY <1>13, <2>1 DEF Notify, JoinGate!NotifyAll, JoinGate!Points, JoinTypes
<1>14. CASE Respawn(w)
  <2>1. \E l \in {"boot", "dead"} : Goto(w, l)
    BY <1>14 DEF Respawn, Spawned
  <2> QED BY <1>14, <2>1 DEF Respawn, JoinTypes
<1>15. CASE Poison(w)
  BY <1>15 DEF Poison, JoinTypes
<1>16. CASE Drain(w)
  <2>1. /\ outcomes' \in [Tasks -> Kinds] /\ sent' \in [Tasks -> Kinds]
        /\ taken' \in [Tasks -> Kinds]
    BY <1>16, DeliverTypes DEF Drain, Kinds
  <2>2. queue' \in Seq(Tasks)
    BY <1>16, EmptySeq DEF Drain
  <2>3. Exit(w)
    BY <1>16 DEF Drain
  <2> QED BY <1>16, <2>1, <2>2, <2>3 DEF Drain, Exit, JoinTypes
<1> QED BY <1>1, <1>2, <1>3, <1>4, <1>5, <1>6, <1>7, <1>8, <1>9, <1>10, <1>11,
           <1>12, <1>13, <1>14, <1>15, <1>16 DEF WorkerStep, NextTask

\* Types: what a join is called to wait for is a set of tasks.
LEMMA StartJoinTypes ==
  ASSUME TypeOK, Holding, NEW h \in Handles, NEW reason \in {"join", "husk"},
         StartJoin(h, reason)
  PROVE  TypeOK'
<1> USE DEF TypeOK, SharedTypes, ControlTypes, HistoryTypes, Processes,
            Goto, WorkerPoints, HandlePoints, taskVars, flagVars, channelVars,
            outcomeVars, holdVars, ghostVars
<1>1. Executing \in SUBSET Tasks
  BY DEF Executing, Holding
<1>2. Prepared \ Resolved \in SUBSET Tasks
  BY DEF Prepared, Tasks
<1>3. owed' \in [Handles -> [active : SUBSET Tasks, queued : SUBSET Tasks]]
  BY <1>1, <1>2 DEF StartJoin, WaitsFor, Nothing, JoinTypes
<1>4. /\ at' \in [Handles -> JoinGate!Points]
      /\ UNCHANGED <<saved, phase, mutex>>
  BY DEF StartJoin, JoinGate!Arrive, JoinGate!Move, JoinGate!Points, JoinTypes
<1>5. JoinTypes'
  BY <1>3, <1>4 DEF JoinTypes
<1> QED BY <1>5 DEF StartJoin

(***************************************************************************)
(* Types: a handle.                                                        *)
(***************************************************************************)
LEMMA HandleStepTypes ==
  ASSUME TypeOK, Holding, NEW h \in Handles, ContinueCall(h) \/ StartCall(h)
  PROVE  TypeOK'
<1> USE DEF TypeOK, SharedTypes, ControlTypes, HistoryTypes, Processes,
            Goto, Move, WorkerPoints, HandlePoints, restVars, taskVars,
            flagVars, channelVars, outcomeVars, holdVars, joinVars, ghostVars
<1>1. ASSUME NEW n \in 1 .. MaxBatch, NEW d \in Destinations, Submit(h, n, d)
      PROVE  TypeOK'
  <2>1. nextIndex + n \in 0 .. MaxTasks /\ n \in 0 .. LMod - 1
    BY <1>1 DEF Submit
  <2>2. counter' \in Pair
    BY <1>1, <2>1, IncrementLeftType DEF Submit
  <2>3. [i \in 1 .. n |-> nextIndex + i - 1] \in Seq(Tasks)
    BY <2>1 DEF Tasks
  <2>4. dest' \in [Tasks -> AllDestinations]
    BY <1>1 DEF Submit
  <2> QED BY <1>1, <2>1, <2>2, <2>3, <2>4 DEF Submit, JoinTypes
<1>2. CASE Admit(h) \/ DropLast(h) \/ DropSender(h)
  <2>1. /\ \E l \in {"refuse", "send", "poison", "gone", "spin"} : Goto(h, l)
        /\ UNCHANGED restVars
    BY <1>2 DEF Admit, DropLast, DropSender
  <2> QED BY <2>1 DEF JoinTypes
<1>3. ASSUME NextOfBatch(h), batch[h] # <<>>, UNCHANGED why
      PROVE  ControlTypes'
  <2>1. batch' \in [Handles -> Seq(Tasks)]
    BY <1>3, NextOfBatchTypes
  <2>2. /\ task' \in {task, [task EXCEPT ![h] = Head(batch[h])]}
        /\ Head(batch[h]) \in Tasks
    BY <1>3, NextOfBatchTypes
  <2>3. task' \in [Processes -> Tasks \cup {NoTask}]
    BY <2>2
  <2>4. UNCHANGED pc \/ \E l \in {"await", "idle"} : Goto(h, l)
    BY <1>3, NextOfBatchTypes
  <2>5. /\ pc' \in [Processes -> WorkerPoints \cup HandlePoints]
        /\ \A v \in Workers : pc'[v] \in WorkerPoints
        /\ \A g \in Handles : pc'[g] \in HandlePoints
    <3>1. CASE UNCHANGED pc
      BY <3>1
    <3>2. ASSUME NEW l \in {"await", "idle"}, Goto(h, l)
          PROVE  /\ pc' \in [Processes -> WorkerPoints \cup HandlePoints]
                 /\ \A v \in Workers : pc'[v] = pc[v]
                 /\ \A g \in Handles : pc'[g] \in {pc[g], l}
      BY <3>2
    <3> QED BY <2>4, <3>1, <3>2
  <2> QED BY <1>3, <2>1, <2>3, <2>5
<1>4. CASE Send(h)
  <2>1. batch[h] # <<>> /\ NextOfBatch(h)
    BY <1>4 DEF Send, Holding
  <2>2. queue' \in Seq(Tasks)
    BY <1>4, <2>1, NextOfBatchTypes, AppendProperties DEF Send
  <2>3. ControlTypes'
    BY <1>3, <1>4, <2>1 DEF Send
  <2> QED BY <1>4, <2>2, <2>3 DEF Send, JoinTypes
<1>5. CASE Refuse(h)
  <2>1. batch[h] # <<>> /\ NextOfBatch(h)
    BY <1>5 DEF Refuse, Holding
  <2>2. /\ outcomes' \in [Tasks -> Kinds] /\ sent' \in [Tasks -> Kinds]
        /\ taken' \in [Tasks -> Kinds]
    BY <1>5, DeliverTypes DEF Refuse, Kinds
  <2>3. ControlTypes'
    BY <1>3, <1>5, <2>1 DEF Refuse
  <2> QED BY <1>5, <2>2, <2>3 DEF Refuse, JoinTypes
<1>6. CASE ApplyReturns(h)
  BY <1>6 DEF ApplyReturns, JoinTypes
<1>7. CASE HasWorkStep(h)
  BY <1>7, HasWorkStepTypes
<1>8. CASE JoinStep(h)
  <2>1. JoinTypes' /\ \E l \in JoinLabels : Goto(h, l)
    BY <1>8, GateStepTypes DEF JoinStep
  <2> QED BY <1>8, <2>1 DEF JoinStep, unreadVars, JoinLabels
<1>9. CASE ReturnNone(h) \/ Drop(h)
  <2>1. ReleaseReferrer(h)
    BY <1>9 DEF ReturnNone, Drop
  <2> QED BY <2>1 DEF ReleaseReferrer, JoinTypes
<1>10. CASE Poison(h)
  BY <1>10 DEF Poison, JoinTypes
<1>11. ASSUME Deliver(Range(queue), "unprocessed"), queue' = <<>>
       PROVE  /\ outcomes' \in [Tasks -> Kinds] /\ sent' \in [Tasks -> Kinds]
              /\ taken' \in [Tasks -> Kinds] /\ queue' \in Seq(Tasks)
  BY <1>11, DeliverTypes, EmptySeq DEF Kinds
<1>12. CASE Drain(h)
  <2>1. Goto(h, "gone") /\ UNCHANGED why
    BY <1>12 DEF Drain
  <2> QED BY <1>11, <1>12, <2>1 DEF Drain, JoinTypes
<1>13. CASE Extract(h)
  BY <1>11, <1>13 DEF Extract, JoinTypes
<1>14. CASE Join(h) \/ TryIntoHusk(h)
  <2>1. CASE Goto(h, "refused") /\ UNCHANGED restVars
    BY <2>1 DEF JoinTypes
  <2>2. CASE StartJoin(h, "join") \/ StartJoin(h, "husk")
    BY <2>2, StartJoinTypes
  <2> QED BY <1>14, <2>1, <2>2 DEF Join, TryIntoHusk
<1>15. CASE Suspend(h)
  <2>1. ASSUME NEW g \in Handles
        PROVE  [active |-> owed[g].active, queued |-> {}]
                 \in [active : SUBSET Tasks, queued : SUBSET Tasks]
    BY DEF JoinTypes
  <2>2. JoinTypes'
    BY <1>15, <2>1 DEF Suspend, JoinTypes
  <2>3. HistoryTypes'
    <3>1. late' = [w \in Workers |-> 0] /\ suspends' = suspends + 1
      BY <1>15 DEF Suspend
    <3> QED BY <3>1
  <2> HIDE DEF HistoryTypes
  <2> QED BY <1>15, <2>2, <2>3 DEF Suspend
<1>16. CASE Resume(h) \/ HangUp(h)
  <2>1. CASE Resume(h)
    BY <2>1 DEF Resume, JoinTypes
  <2>2. CASE HangUp(h)
    BY <2>2 DEF HangUp, JoinTypes
  <2> QED BY <1>16, <2>1, <2>2
<1>17. CASE TakeStored(h)
  BY <1>17 DEF TakeStored, JoinTypes, Kinds
<1>18. ASSUME NEW w \in Workers, Grow(h, w) PROVE TypeOK'
  <2>1. \E l \in {"boot", "dead"} : Goto(w, l)
    BY <1>18 DEF Grow, Spawned
  <2> QED BY <1>18, <2>1 DEF Grow, JoinTypes
<1>19. ASSUME NEW g \in Handles, Clone(h, g) PROVE TypeOK'
  BY <1>19 DEF Clone, JoinTypes
<1> QED BY <1>1, <1>2, <1>4, <1>5, <1>6, <1>7, <1>8, <1>9, <1>10, <1>12, <1>13,
           <1>14, <1>15, <1>16, <1>17, <1>18, <1>19 DEF ContinueCall, StartCall

-----------------------------------------------------------------------------
\* The other parts of the inductive invariant.
Parts == Holding /\ ReceiverOwner /\ LateTasks

\* has_work changes nothing but where its caller is.
LEMMA HasWorkMoves ==
  ASSUME TypeOK, NEW p \in Processes, HasWorkStep(p)
  PROVE  /\ UNCHANGED <<task, batch, rxLock, late, suspended>>
         /\ \E l \in {"counts", "flag"} \cup FinishLabels \cup JoinLabels : Goto(p, l)
<1> USE DEF TypeOK, unreadVars, holdVars, ghostVars, channelVars, flagVars,
            Move, restVars
<1>1. ASSUME NEW b \in BOOLEAN, Concludes(p, b)
      PROVE  \E l \in FinishLabels \cup JoinLabels : Goto(p, l)
  BY <1>1, ConcludesTypes
<1>2. CASE ReadPoisoned(p)
  BY <1>1, <1>2 DEF ReadPoisoned
<1>3. CASE ReadCounts(p)
  BY <1>1, <1>3 DEF ReadCounts
<1>4. CASE ReadSuspended(p)
  BY <1>1, <1>4 DEF ReadSuspended
<1> QED BY <1>2, <1>3, <1>4 DEF HasWorkStep

\* has_work takes nobody to a place the parts speak of.
LEMMA HasWorkStepParts ==
  ASSUME TypeOK, Parts, NEW p \in Processes, HasWorkStep(p)
  PROVE  Parts'
<1>1. /\ UNCHANGED <<task, batch, rxLock, late, suspended>>
      /\ \A q \in Processes : \/ pc'[q] = pc[q]
                             \/ /\ q = p
                                /\ pc'[q] \in {"counts", "flag"} \cup
                                              FinishLabels \cup JoinLabels
  BY HasWorkMoves DEF TypeOK, ControlTypes, Goto
<1>2. pc[p] \in {"has_work", "counts", "flag"}
  BY DEF HasWorkStep, ReadPoisoned, ReadCounts, ReadSuspended, Move
<1>3. Holding'
  BY <1>1 DEF Parts, Holding, JoinLabels, FinishLabels, Processes
<1>4. ReceiverOwner'
  BY <1>1, <1>2 DEF Parts, ReceiverOwner, JoinLabels, FinishLabels, Processes
<1>5. LateTasks'
  BY <1>1 DEF Parts, LateTasks, JoinLabels, FinishLabels, Processes
<1> QED BY <1>3, <1>4, <1>5 DEF Parts

(***************************************************************************)
(* The other parts: a worker.  Receive needs that no task was accepted     *)
(* since the suspension, and PassResumeGate that there is none.            *)
(***************************************************************************)
LEMMA WorkerStepParts ==
  ASSUME TypeOK, Parts, NEW w \in Workers, WorkerStep(w)
  PROVE  Parts'
<1> USE DEF Parts, Holding, ReceiverOwner, LateTasks, TypeOK, SharedTypes,
            ControlTypes, HistoryTypes, Processes, Goto, Move, restVars, taskVars,
            flagVars, channelVars, outcomeVars, holdVars, joinVars, ghostVars
<1>1. CASE Boot(w)
  BY <1>1 DEF Boot
<1>2. CASE PassResumeGate(w)
  BY <1>2 DEF PassResumeGate
<1>3. CASE Poll(w)
  BY <1>3 DEF Poll, Exit
<1>4. CASE LockReceiver(w)
  BY <1>4 DEF LockReceiver
<1>5. CASE Receive(w)
  BY <1>5 DEF Receive
<1>6. CASE RecvTimeout(w)
  BY <1>6 DEF RecvTimeout
<1>7. CASE RecvDisconnected(w)
  BY <1>7 DEF RecvDisconnected, Exit
<1>8. CASE TransferTask(w)
  BY <1>8 DEF TransferTask
<1>9. CASE Complete(w)
  BY <1>9 DEF Complete, EndTask
<1>10. CASE Cancel(w)
  BY <1>10 DEF Cancel
<1>11. CASE ReturnInput(w)
  BY <1>11 DEF ReturnInput, EndTask
<1>12. CASE Panic(w)
  BY <1>12 DEF Panic, EndTask
<1>13. CASE FinishTask(w)
  BY <1>13 DEF FinishTask, Abort
<1>14. CASE HasWorkStep(w)
  BY <1>14, HasWorkStepParts
<1>15. CASE Notify(w)
  <2>1. \E l \in {"gate", "respawn", "dead"} : Goto(w, l)
    BY <1>15, AfterFinishLabels DEF Notify
  <2> QED BY <1>15, <2>1 DEF Notify
<1>16. CASE Respawn(w)
  BY <1>16 DEF Respawn, Spawned
<1>17. CASE Poison(w)
  BY <1>17 DEF Poison
<1>18. CASE Drain(w)
  BY <1>18 DEF Drain, Exit
<1> HIDE DEF Parts
<1> QED BY <1>1, <1>2, <1>3, <1>4, <1>5, <1>6, <1>7, <1>8, <1>9, <1>10, <1>11,
           <1>12, <1>13, <1>14, <1>15, <1>16, <1>17, <1>18 DEF WorkerStep,
           NextTask

(***************************************************************************)
(* The other parts: a handle.  Suspend begins a new count of late tasks.   *)
(***************************************************************************)
LEMMA HandleStepParts ==
  ASSUME TypeOK, Parts, NEW h \in Handles, ContinueCall(h) \/ StartCall(h)
  PROVE  Parts'
<1> USE DEF Parts, Holding, ReceiverOwner, LateTasks, TypeOK, SharedTypes,
            ControlTypes, HistoryTypes, Processes, Goto, Move, restVars, taskVars,
            flagVars, channelVars, outcomeVars, holdVars, joinVars, ghostVars, Calls
<1>1. CASE Admit(h)
  BY <1>1 DEF Admit
<1>2. ASSUME NextOfBatch(h), batch[h] # <<>>, UNCHANGED <<suspended, rxLock, late>>
      PROVE  Parts'
  <2>1. \A g \in Handles \ {h} : batch'[g] = batch[g]
    BY <1>2, NextOfBatchTypes
  <2>2. \A v \in Workers : task'[v] = task[v]
    <3>1. task' = task \/ task' = [task EXCEPT ![h] = Head(batch[h])]
      BY <1>2, NextOfBatchTypes
    <3> QED BY <3>1
  <2>3. (batch'[h] # <<>> /\ UNCHANGED pc) \/ \E l \in {"await", "idle"} : Goto(h, l)
    BY <1>2, NextOfBatchTypes
  <2>4. /\ \A v \in Workers : pc'[v] = pc[v]
        /\ \A g \in Handles \ {h} : pc'[g] = pc[g]
        /\ batch'[h] # <<>> \/ pc'[h] \in {"await", "idle"}
    BY <2>3
  <2>5. Holding'
    BY <2>1, <2>2, <2>4
  <2>6. ReceiverOwner' /\ LateTasks'
    BY <1>2, <2>4
  <2> QED BY <2>5, <2>6
<1>3. CASE Send(h) \/ Refuse(h)
  <2>1. batch[h] # <<>> /\ NextOfBatch(h)
    BY <1>3 DEF Send, Refuse, Holding
  <2> QED BY <1>2, <1>3, <2>1 DEF Send, Refuse
<1>4. CASE ApplyReturns(h)
  BY <1>4 DEF ApplyReturns
<1>5. CASE HasWorkStep(h)
  BY <1>5, HasWorkStepParts
<1>6. CASE JoinStep(h)
  <2>1. \E l \in JoinLabels : Goto(h, l)
    BY <1>6, GateStepTypes DEF JoinStep
  <2> QED BY <1>6, <2>1 DEF JoinStep, unreadVars, JoinLabels
<1>7. CASE ReturnNone(h)
  BY <1>7 DEF ReturnNone, ReleaseReferrer
<1>8. CASE DropLast(h)
  BY <1>8 DEF DropLast
<1>9. CASE Poison(h)
  BY <1>9 DEF Poison
<1>10. CASE Drain(h)
  BY <1>10 DEF Drain, Exit
<1>11. CASE DropSender(h)
  BY <1>11 DEF DropSender
<1>12. CASE Extract(h)
  BY <1>12 DEF Extract
<1>13. CASE Join(h)
  BY <1>13 DEF Join, StartJoin
<1>14. CASE Suspend(h)
  BY <1>14 DEF Suspend
<1>15. CASE Resume(h)
  BY <1>15 DEF Resume
<1>16. CASE TakeStored(h)
  BY <1>16 DEF TakeStored
<1>17. CASE HangUp(h)
  BY <1>17 DEF HangUp
<1>18. CASE Drop(h)
  BY <1>18 DEF Drop, ReleaseReferrer
<1>19. CASE TryIntoHusk(h)
  <2>1. CASE Goto(h, "refused") /\ UNCHANGED restVars
    BY <1>19, <2>1
  <2>2. CASE StartJoin(h, "husk")
    BY <1>19, <2>2 DEF StartJoin
  <2> QED BY <1>19, <2>1, <2>2 DEF TryIntoHusk
<1>20. ASSUME NEW m \in 1 .. MaxBatch, NEW d \in Destinations, Submit(h, m, d)
       PROVE  Parts'
  <2>1. batch'[h] = [i \in 1 .. m |-> nextIndex + i - 1]
    BY <1>20 DEF Submit
  <2>2. 1 \in DOMAIN batch'[h]
    BY <2>1
  <2>3. batch'[h] # <<>>
    BY <2>2
  <2> QED BY <1>20, <2>3 DEF Submit
<1>21. ASSUME NEW w \in Workers, Grow(h, w) PROVE Parts'
  <2>1. \E l \in {"boot", "dead"} : Goto(w, l)
    BY <1>21 DEF Grow, Spawned
  <2> QED BY <1>21, <2>1 DEF Grow
<1>22. ASSUME NEW g \in Handles, Clone(h, g) PROVE Parts'
  BY <1>22 DEF Clone
<1> HIDE DEF Parts
<1> QED BY <1>1, <1>2, <1>3, <1>4, <1>5, <1>6, <1>7, <1>8, <1>9, <1>10, <1>11,
           <1>12, <1>13, <1>14, <1>15, <1>16, <1>17, <1>18, <1>19, <1>20,
           <1>21, <1>22 DEF ContinueCall, StartCall

-----------------------------------------------------------------------------
(***************************************************************************)
(* IInv holds initially, whichever threads the hive starts with, and is    *)
(* inductive.                                                              *)
(***************************************************************************)
LEMMA InitEstablishesIInv == Init => IInv
<1> SUFFICES ASSUME Init PROVE IInv
  OBVIOUS
<1>1. PICK first \in Handles, started \in SUBSET Workers :
        pc = [p \in Processes |-> IF p = first THEN "idle"
                                 ELSE IF p \in started THEN "boot" ELSE "absent"]
  BY DEF Init
<1>2. \A p \in Processes : pc[p] \in {"idle", "boot", "absent"}
  BY <1>1
<1>3. SharedTypes
  <2>1. counter \in Pair
    BY DEF Init, Pair, Zero
  <2>2. queue \in Seq(Tasks)
    BY EmptySeq DEF Init
  <2>3. nextIndex \in 0 .. MaxTasks /\ numPanics \in Nat /\ referrers \in Int
    BY DEF Init
  <2>4. /\ dest \in [Tasks -> AllDestinations]
        /\ outcomes \in [Tasks -> Kinds] /\ sent \in [Tasks -> Kinds]
        /\ taken \in [Tasks -> Kinds] /\ lost \in SUBSET Tasks
    BY DEF Init, Kinds, AllDestinations
  <2> QED BY <2>1, <2>2, <2>3, <2>4 DEF Init, SharedTypes
<1>4. ControlTypes
  BY <1>1, EmptySeq DEF Init, ControlTypes, WorkerPoints, HandlePoints, Processes
<1>5. JoinTypes
  BY DEF Init, JoinGate!Init, JoinTypes, JoinGate!Points, Nothing
<1>6. HistoryTypes
  BY DEF Init, HistoryTypes
<1>7. Holding
  BY <1>2 DEF Holding, Processes
<1>8. ReceiverOwner
  BY <1>2 DEF Init, ReceiverOwner, Processes
<1>9. LateTasks
  BY DEF Init, LateTasks
<1> QED BY <1>3, <1>4, <1>5, <1>6, <1>7, <1>8, <1>9 DEF IInv, TypeOK

\* Every step preserves IInv.
LEMMA StepPreservesIInv == IInv /\ [Next]_vars => IInv'
<1> SUFFICES ASSUME IInv, [Next]_vars PROVE IInv'
  OBVIOUS
<1>1. TypeOK /\ Holding /\ Parts
  BY DEF IInv, Parts
<1>2. ASSUME NEW w \in Workers, WorkerStep(w) PROVE IInv'
  BY <1>1, <1>2, WorkerStepTypes, WorkerStepParts DEF IInv, Parts
<1>3. ASSUME NEW h \in Handles, ContinueCall(h) \/ StartCall(h) PROVE IInv'
  BY <1>1, <1>3, HandleStepTypes, HandleStepParts DEF IInv, Parts
<1>4. CASE UNCHANGED vars
  BY <1>4 DEF IInv, TypeOK, SharedTypes, ControlTypes, JoinTypes, HistoryTypes,
              Holding, ReceiverOwner, LateTasks, vars, restVars, taskVars,
              flagVars, channelVars, outcomeVars, holdVars, joinVars, ghostVars
<1> QED BY <1>2, <1>3, <1>4 DEF Next, Rest

\* IInv is an invariant.
LEMMA AlwaysIInv == Safe => []IInv
BY InitEstablishesIInv, StepPreservesIInv, PTL DEF Safe

-----------------------------------------------------------------------------
(***************************************************************************)
(* Every variable of the hive keeps its type: in particular no counter     *)
(* ever leaves its half of the word, not even when it wraps around after   *)
(* shutdown, and no thread is ever at a label of the other kind.           *)
(***************************************************************************)
THEOREM TypeCorrect == Safe => []TypeOK
BY AlwaysIInv, PTL DEF IInv

OneReceiver == \A v, w \in Workers : pc[v] = "recv" /\ pc[w] = "recv" => v = w

(***************************************************************************)
(* The mutex around the task receiver does what it is for: at most one     *)
(* worker is inside recv_timeout, though each may find the channel empty,  *)
(* disconnected or full of tasks, and leave the lock in a different way.   *)
(***************************************************************************)
THEOREM ReceiversExclude == Safe => []OneReceiver
<1>1. IInv => OneReceiver
  BY DEF IInv, ReceiverOwner, OneReceiver
<1> QED BY <1>1, AlwaysIInv, PTL

(***************************************************************************)
(* "There is a window of time after the suspended flag is set within which *)
(* a worker thread may still accept a new task": whatever the number of    *)
(* workers, tasks, clients, suspensions and resumptions, each worker       *)
(* accepts at most one task in it.                                         *)
(***************************************************************************)
THEOREM OneLateTask == Safe => []AtMostOneLateTask
<1>1. IInv => AtMostOneLateTask
  BY DEF IInv, LateTasks, AtMostOneLateTask
<1> QED BY <1>1, AlwaysIInv, PTL

-----------------------------------------------------------------------------
(***************************************************************************)
(* TaskConservation and CountersExact of Hive: no task is duplicated, none *)
(* vanishes, and the counters say how many there are.                      *)
(*                                                                         *)
(* TaskConservation counts places.  The proof has no counting in it: it    *)
(* says of each task that it is somewhere exactly if it was prepared       *)
(* (Placed), and that one place excludes every other (Exclusive).  To know *)
(* that a step does not overwrite a task, one has to know whose hands are  *)
(* empty (HandsEmpty), and to know that taking the head of a sequence      *)
(* takes the task away, that no sequence repeats a task (NoRepeats).       *)
(***************************************************************************)
InBatch(t, h) == t \in Range(batch[h])
InQueue(t) == t \in Range(queue)
Ended(t) == outcomes[t] # "none" \/ sent[t] # "none" \/ taken[t] # "none" \/ t \in lost

\* A task is somewhere exactly if it was prepared.
Somewhere(t) ==
  \/ \E h \in Handles : InBatch(t, h)
  \/ InQueue(t)
  \/ \E w \in Workers : task[w] = t
  \/ Ended(t)
Placed == \A t \in Tasks : t \in Prepared <=> Somewhere(t)

\* A task that is somewhere is nowhere else.
Alone(t) ==
  /\ \A h \in Handles : InBatch(t, h) =>
       /\ \A g \in Handles : InBatch(t, g) => g = h
       /\ ~InQueue(t) /\ ~Ended(t) /\ \A w \in Workers : task[w] # t
  /\ InQueue(t) => ~Ended(t) /\ \A w \in Workers : task[w] # t
  /\ \A w \in Workers : task[w] = t =>
       ~Ended(t) /\ \A v \in Workers : task[v] = t => v = w
  /\ outcomes[t] # "none" => sent[t] = "none" /\ taken[t] = "none" /\ t \notin lost
  /\ sent[t] # "none" => taken[t] = "none" /\ t \notin lost
  /\ taken[t] # "none" => t \notin lost
Exclusive == \A t \in Tasks : Alone(t)

\* Neither the channel nor a batch has a task twice.
NoRepeats == IsInjective(queue) /\ \A h \in Handles : IsInjective(batch[h])

\* Who is not dealing with tasks has none.
HandsEmpty ==
  /\ \A w \in Workers : task[w] # NoTask =>
       pc[w] \in {"transfer", "apply", "cancelled"}
  /\ \A h \in Handles : batch[h] # <<>> =>
       pc[h] \in {"admit", "send", "refuse"}

Conserved == Placed /\ Exclusive /\ NoRepeats /\ HandsEmpty

-----------------------------------------------------------------------------
(***************************************************************************)
(* What is in a sequence.                                                  *)
(***************************************************************************)
LEMMA EmptyRange == Range(<<>>) = {} /\ IsInjective(<<>>)
BY DEF Range, IsInjective

\* Taking the head of a sequence without repetitions takes it out.
LEMMA TailRange ==
  ASSUME NEW S, NEW s \in Seq(S), s # <<>>, IsInjective(s)
  PROVE  /\ Head(s) \in Range(s)
         /\ Range(Tail(s)) = Range(s) \ {Head(s)}
         /\ IsInjective(Tail(s))
<1>1. /\ Head(s) = s[1] /\ DOMAIN s = 1 .. Len(s) /\ Len(s) \in Nat \ {0}
      /\ Tail(s) \in Seq(S) /\ Len(Tail(s)) = Len(s) - 1
      /\ \A i \in 1 .. Len(Tail(s)) : Tail(s)[i] = s[i + 1]
  BY HeadTailProperties, LenProperties
<1>2. DOMAIN Tail(s) = 1 .. Len(s) - 1
  BY <1>1, LenProperties
<1>3. \A i, j \in DOMAIN s : s[i] = s[j] => i = j
  BY DEF IsInjective
<1>4. ASSUME NEW x \in Range(s) \ {Head(s)} PROVE x \in Range(Tail(s))
  <2>1. PICK i \in DOMAIN s : x = s[i]
    BY <1>4 DEF Range
  <2>2. i - 1 \in DOMAIN Tail(s) /\ Tail(s)[i - 1] = x
    BY <1>1, <1>2, <1>4, <2>1
  <2> QED BY <2>2 DEF Range
<1>5. ASSUME NEW x \in Range(Tail(s)) PROVE x \in Range(s) \ {Head(s)}
  <2>1. PICK i \in DOMAIN Tail(s) : x = Tail(s)[i]
    BY <1>5 DEF Range
  <2>2. i + 1 \in DOMAIN s /\ x = s[i + 1] /\ 1 \in DOMAIN s /\ i + 1 # 1
    BY <1>1, <1>2, <2>1
  <2>3. x # s[1]
    BY <1>3, <2>2
  <2> QED BY <1>1, <2>2, <2>3 DEF Range
<1>6. ASSUME NEW i \in DOMAIN Tail(s), NEW j \in DOMAIN Tail(s), Tail(s)[i] = Tail(s)[j]
      PROVE  i = j
  <2>1. i + 1 \in DOMAIN s /\ j + 1 \in DOMAIN s /\ s[i + 1] = s[j + 1]
    BY <1>1, <1>2, <1>6
  <2> QED BY <1>2, <1>3, <2>1
<1> QED BY <1>1, <1>4, <1>5, <1>6 DEF Range, IsInjective

\* Appending what is not in a sequence puts it in, once.
LEMMA AppendRange ==
  ASSUME NEW S, NEW s \in Seq(S), NEW e \in S
  PROVE  /\ Range(Append(s, e)) = Range(s) \cup {e}
         /\ IsInjective(s) /\ e \notin Range(s) => IsInjective(Append(s, e))
<1>1. /\ DOMAIN s = 1 .. Len(s) /\ Len(s) \in Nat
      /\ DOMAIN Append(s, e) = 1 .. Len(s) + 1
      /\ \A i \in 1 .. Len(s) : Append(s, e)[i] = s[i]
      /\ Append(s, e)[Len(s) + 1] = e
  BY AppendProperties, LenProperties
<1>2. Range(Append(s, e)) = Range(s) \cup {e}
  BY <1>1 DEF Range
<1>3. ASSUME IsInjective(s), e \notin Range(s),
             NEW i \in DOMAIN Append(s, e), NEW j \in DOMAIN Append(s, e),
             Append(s, e)[i] = Append(s, e)[j]
      PROVE  i = j
  BY <1>1, <1>3 DEF IsInjective, Range
<1> QED BY <1>2, <1>3 DEF IsInjective

\* What is in a sequence of tasks is a task.
LEMMA RangeOfTasks ==
  ASSUME NEW s \in Seq(Tasks)
  PROVE  Range(s) \subseteq Tasks
BY LenProperties, ElementOfSeq DEF Range
-----------------------------------------------------------------------------
(***************************************************************************)
(* The ways a step can move tasks.                                         *)
(***************************************************************************)
Located == Placed /\ Exclusive /\ NoRepeats

\* Nothing moves.
LEMMA NothingMoves ==
  ASSUME Located, UNCHANGED <<nextIndex, outcomes, sent, taken, lost, queue, batch>>,
         \A w \in Workers : task'[w] = task[w]
  PROVE  Located'
BY DEF Located, Placed, Somewhere, Exclusive, Alone, NoRepeats, InBatch, InQueue, Ended, Prepared

\* A worker is done with its task: there is an outcome, or the task is lost.
LEMMA LeavesHands ==
  ASSUME Located, TypeOK, NEW w \in Workers, NEW held \in Tasks,
         task[w] = held,
         task' = [task EXCEPT ![w] = NoTask],
         UNCHANGED <<nextIndex, queue, batch>>,
         \/ \E k \in Kinds \ {"none"} : Deliver({held}, k) /\ UNCHANGED lost
         \/ lost' = lost \cup {held} /\ UNCHANGED outcomeVars
  PROVE  Located'
<1>1. /\ task'[w] = NoTask /\ NoTask \notin Tasks
      /\ \A v \in Workers \ {w} : task'[v] = task[v]
  BY DEF TypeOK, ControlTypes, Processes, NoTask, Tasks
<1>2. /\ \A t \in Tasks \ {held} :
           /\ outcomes'[t] = outcomes[t] /\ sent'[t] = sent[t] /\ taken'[t] = taken[t]
           /\ t \in lost' <=> t \in lost
      /\ Ended(held)'
      /\ ~Ended(held) =>
           /\ taken'[held] = "none"
           /\ outcomes'[held] # "none" => sent'[held] = "none" /\ held \notin lost'
           /\ sent'[held] # "none" => held \notin lost'
  <2>1. ASSUME NEW k \in Kinds \ {"none"}, Deliver({held}, k), UNCHANGED lost
        PROVE  <1>2!1 /\ <1>2!2 /\ <1>2!3
    <3>1. {held} \in SUBSET Tasks
      OBVIOUS
    <3>2. /\ \A t \in Tasks \ {held} :
               outcomes'[t] = outcomes[t] /\ sent'[t] = sent[t] /\ taken'[t] = taken[t]
          /\ taken'[held] = taken[held] /\ Ended(held)'
          /\ ~Ended(held) => outcomes'[held] = "none" \/ sent'[held] = "none"
      BY <2>1, <3>1 DEF Deliver, Ended
    <3>3. ~Ended(held) => taken[held] = "none" /\ held \notin lost
      BY DEF Ended
    <3> QED BY <2>1, <3>2, <3>3
  <2>2. CASE lost' = lost \cup {held} /\ UNCHANGED outcomeVars
    BY <2>2 DEF Ended, outcomeVars
  <2> QED BY <2>1, <2>2
<1>3. ~Ended(held) /\ ~InQueue(held) /\ \A h \in Handles : ~InBatch(held, h)
  BY DEF Located, Exclusive, Alone
<1>4. NoRepeats'
  BY DEF Located, NoRepeats
<1>5. \A v \in Workers : task'[v] # held
  BY <1>1 DEF Located, Exclusive, Alone
<1>6. ASSUME NEW t \in Tasks, t # held
      PROVE  /\ outcomes'[t] = outcomes[t] /\ sent'[t] = sent[t] /\ taken'[t] = taken[t]
             /\ t \in lost' <=> t \in lost
             /\ \A v \in Workers : task'[v] = t <=> task[v] = t
  BY <1>1, <1>2, <1>6
<1>7. Placed'
  <2> SUFFICES ASSUME NEW t \in Tasks
      PROVE (t \in Prepared <=> Somewhere(t))'
    BY DEF Placed
  <2> USE DEF Located, Placed, Somewhere, InBatch, InQueue, Ended, Prepared
  <2>1. CASE t = held
    BY <1>2, <2>1
  <2>2. CASE t # held
    BY <1>6, <2>2
  <2> QED BY <2>1, <2>2
<1>8. Exclusive'
  BY <1>2, <1>3, <1>5, <1>6 DEF Located, Exclusive, Alone, InBatch, InQueue, Ended
<1> QED BY <1>4, <1>7, <1>8 DEF Located

\* The channel is emptied, and every task that was in it given back.
LEMMA LeavesQueue ==
  ASSUME Located, TypeOK, Deliver(Range(queue), "unprocessed"), queue' = <<>>,
         UNCHANGED <<nextIndex, lost, task, batch>>
  PROVE  Located'
<1>1. Range(queue) \in SUBSET Tasks
  BY RangeOfTasks DEF TypeOK, SharedTypes
<1>2. /\ \A t \in Tasks \ Range(queue) :
           /\ outcomes'[t] = outcomes[t] /\ sent'[t] = sent[t] /\ taken'[t] = taken[t]
           /\ Ended(t)' <=> Ended(t)
      /\ \A t \in Range(queue) :
           /\ taken'[t] = taken[t] /\ Ended(t)'
           /\ ~Ended(t) => outcomes'[t] = "none" \/ sent'[t] = "none"
  <2>1. "unprocessed" \in Kinds \ {"none"}
    BY DEF Kinds
  <2> QED BY <1>1, <2>1 DEF Deliver, Ended
<1>3. \A t \in Tasks : /\ ~InQueue(t)'
                       /\ \A h \in Handles : InBatch(t, h)' <=> InBatch(t, h)
                       /\ t \in Prepared' <=> t \in Prepared
                       /\ \A w \in Workers : task'[w] = task[w]
                       /\ InQueue(t) <=> t \in Range(queue)
  BY EmptyRange DEF InQueue, InBatch, Prepared
<1>4. NoRepeats'
  BY EmptyRange DEF Located, NoRepeats
<1>5. \A t \in Range(queue) :
        /\ ~Ended(t) /\ t \notin lost /\ taken[t] = "none"
        /\ \A h \in Handles : ~InBatch(t, h)
        /\ \A w \in Workers : task[w] # t
  BY <1>1, <1>3 DEF Located, Exclusive, Alone, Ended
<1>6. Placed'
  BY <1>1, <1>2, <1>3, <1>5 DEF Located, Placed, Somewhere, InBatch, InQueue, Ended, Prepared
<1>7. Exclusive'
  BY <1>1, <1>2, <1>3, <1>5 DEF Located, Exclusive, Alone, InBatch, InQueue, Ended
<1> QED BY <1>4, <1>6, <1>7 DEF Located

\* A worker receives the head of the channel.
LEMMA LeavesQueueHead ==
  ASSUME Located, TypeOK, NEW w \in Workers, task[w] = NoTask, queue # <<>>,
         task' = [task EXCEPT ![w] = Head(queue)], queue' = Tail(queue),
         UNCHANGED <<nextIndex, outcomes, sent, taken, lost, batch>>
  PROVE  Located'
<1> DEFINE head == Head(queue)
<1>1. /\ head \in Range(queue) /\ Range(queue') = Range(queue) \ {head}
      /\ IsInjective(queue')
  BY TailRange DEF Located, NoRepeats, TypeOK, SharedTypes
<1>2. head \in Tasks
  BY <1>1, RangeOfTasks DEF TypeOK, SharedTypes
<1>3. /\ task'[w] = head /\ NoTask \notin Tasks
      /\ \A v \in Workers \ {w} : task'[v] = task[v]
  BY <1>2 DEF TypeOK, ControlTypes, Processes, NoTask, Tasks
<1> HIDE DEF head
<1>4. NoRepeats'
  BY <1>1 DEF Located, NoRepeats
<1>5. Placed'
  <2> SUFFICES ASSUME NEW t \in Tasks
      PROVE (t \in Prepared <=> Somewhere(t))'
    BY DEF Placed
  <2> USE DEF Located, Placed, Somewhere, InBatch, InQueue, Ended, Prepared
  <2>1. CASE t = head
    BY <1>1, <1>3, <2>1
  <2>2. CASE t # head
    BY <1>1, <1>3, <2>2
  <2> QED BY <2>1, <2>2
<1>6. Exclusive'
  BY <1>1, <1>2, <1>3 DEF Located, Exclusive, Alone, InBatch, InQueue, Ended
<1> QED BY <1>4, <1>5, <1>6 DEF Located

\* A handle sends or gives back the head of its batch.
LEMMA LeavesBatch ==
  ASSUME Located, TypeOK, NEW h \in Handles, batch[h] # <<>>,
         batch' = [batch EXCEPT ![h] = Tail(@)],
         \A w \in Workers : task'[w] = task[w],
         UNCHANGED <<nextIndex, lost>>,
         \/ queue' = Append(queue, Head(batch[h])) /\ UNCHANGED outcomeVars
         \/ Deliver({Head(batch[h])}, "unprocessed") /\ UNCHANGED queue
  PROVE  Located'
<1>1. /\ Head(batch[h]) \in Range(batch[h])
      /\ Range(batch'[h]) = Range(batch[h]) \ {Head(batch[h])}
      /\ IsInjective(batch'[h])
      /\ \A g \in Handles \ {h} : batch'[g] = batch[g]
  BY TailRange DEF Located, NoRepeats, TypeOK, ControlTypes
<1>2. PICK head \in Tasks : head = Head(batch[h])
  BY <1>1, RangeOfTasks DEF TypeOK, ControlTypes
<1>3. /\ ~Ended(head) /\ ~InQueue(head)
      /\ \A w \in Workers : task[w] # head
      /\ \A g \in Handles \ {h} : ~InBatch(head, g)
  BY <1>1, <1>2 DEF Located, Exclusive, Alone, InBatch
<1>4. /\ \A g \in Handles \ {h} : Range(batch'[g]) = Range(batch[g])
      /\ Range(batch'[h]) = Range(batch[h]) \ {head}
      /\ head \in Range(batch[h])
      /\ \A g \in Handles : IsInjective(batch'[g])
  BY <1>1, <1>2 DEF Located, NoRepeats
<1>5. \/ /\ Range(queue') = Range(queue) \cup {head} /\ IsInjective(queue')
         /\ UNCHANGED outcomeVars
      \/ UNCHANGED queue /\ Deliver({head}, "unprocessed")
  <2>1. queue \in Seq(Tasks) /\ IsInjective(queue) /\ head \notin Range(queue)
    BY <1>3 DEF Located, NoRepeats, TypeOK, SharedTypes, InQueue
  <2>2. /\ Range(Append(queue, head)) = Range(queue) \cup {head}
        /\ IsInjective(Append(queue, head))
    BY <2>1, AppendRange
  <2> QED BY <1>2, <2>2
<1>6. /\ \A t \in Tasks \ {head} :
           /\ outcomes'[t] = outcomes[t] /\ sent'[t] = sent[t] /\ taken'[t] = taken[t]
           /\ t \in Range(queue') <=> t \in Range(queue)
      /\ taken'[head] = "none" /\ head \notin lost'
      /\ \/ /\ head \in Range(queue')
            /\ outcomes'[head] = "none" /\ sent'[head] = "none"
         \/ /\ head \notin Range(queue')
            /\ outcomes'[head] # "none" \/ sent'[head] # "none"
            /\ outcomes'[head] = "none" \/ sent'[head] = "none"
  BY <1>3, <1>5 DEF Deliver, Ended, outcomeVars, InQueue
<1>7. NoRepeats'
  BY <1>4, <1>5 DEF Located, NoRepeats
<1>8. Placed'
  <2> SUFFICES ASSUME NEW t \in Tasks
      PROVE (t \in Prepared <=> Somewhere(t))'
    BY DEF Placed
  <2> USE DEF Located, Placed, Somewhere, InBatch, InQueue, Ended, Prepared
  <2>1. CASE t = head
    BY <1>4, <1>6, <2>1
  <2>2. CASE t # head
    BY <1>4, <1>6, <2>2
  <2> QED BY <2>1, <2>2
<1>9. Exclusive'
  <2> SUFFICES ASSUME NEW t \in Tasks PROVE Alone(t)'
    BY DEF Exclusive
  <2> USE DEF Alone, InBatch, InQueue, Ended
  <2>1. CASE t = head
    BY <1>3, <1>4, <1>6, <2>1
  <2>2. CASE t # head
    BY <1>4, <1>6, <2>2 DEF Located, Exclusive, Alone
  <2> QED BY <2>1, <2>2
<1> QED BY <1>7, <1>8, <1>9 DEF Located

\* A handle prepares a batch of new tasks.
LEMMA EntersBatch ==
  ASSUME Located, TypeOK, NEW h \in Handles, NEW n \in Nat,
         batch[h] = <<>>, nextIndex + n <= MaxTasks,
         batch' = [batch EXCEPT ![h] = [i \in 1 .. n |-> nextIndex + i - 1]],
         nextIndex' = nextIndex + n,
         UNCHANGED <<queue, outcomes, sent, taken, lost, task>>
  PROVE  Located'
<1> DEFINE new == [i \in 1 .. n |-> nextIndex + i - 1]
           N == nextIndex .. nextIndex + n - 1
<1>1. nextIndex \in Nat /\ MaxTasks \in Nat
  BY DEF TypeOK, SharedTypes
<1>2. Range(new) = N /\ IsInjective(new)
  <2>1. \A i \in 1 .. n : new[i] \in N
    BY <1>1
  <2>2. \A t \in N : t - nextIndex + 1 \in 1 .. n /\ new[t - nextIndex + 1] = t
    BY <1>1
  <2>3. \A i, j \in 1 .. n : new[i] = new[j] => i = j
    BY <1>1
  <2>4. DOMAIN new = 1 .. n
    OBVIOUS
  <2> HIDE DEF new, N
  <2> QED BY <2>1, <2>2, <2>3, <2>4 DEF Range, IsInjective
<1>3. /\ batch'[h] = new
      /\ \A g \in Handles \ {h} : batch'[g] = batch[g]
  BY DEF TypeOK, ControlTypes
<1>4. \A t \in Tasks : /\ t \in Prepared' <=> t \in Prepared \cup N
                       /\ t \in N => t \notin Prepared
  BY <1>1 DEF Prepared, Tasks
<1> HIDE DEF new, N
<1>5. /\ Range(batch'[h]) = N /\ Range(batch[h]) = {}
      /\ \A g \in Handles \ {h} : Range(batch'[g]) = Range(batch[g])
      /\ \A g \in Handles : IsInjective(batch'[g])
  BY <1>2, <1>3, EmptyRange DEF Located, NoRepeats
<1>6. NoRepeats'
  BY <1>5 DEF Located, NoRepeats
<1>7. Placed'
  <2> SUFFICES ASSUME NEW t \in Tasks
      PROVE (t \in Prepared <=> Somewhere(t))'
    BY DEF Placed
  <2>1. t \in Prepared <=> Somewhere(t)
    BY DEF Located, Placed
  <2> QED BY <1>4, <1>5, <2>1 DEF Somewhere, InBatch, InQueue, Ended
<1>8. Exclusive'
  <2> SUFFICES ASSUME NEW t \in Tasks PROVE Alone(t)'
    BY DEF Exclusive
  <2>1. t \in N => ~Somewhere(t)
    BY <1>4 DEF Located, Placed
  <2> USE DEF Alone, InBatch, InQueue, Ended
  <2>2. CASE t \in N
    BY <1>5, <2>1, <2>2 DEF Somewhere
  <2>3. CASE t \notin N
    BY <1>5, <2>3 DEF Located, Exclusive
  <2> QED BY <2>2, <2>3
<1> QED BY <1>6, <1>7, <1>8 DEF Located

\* The client takes what is stored.
LEMMA LeavesStore ==
  ASSUME Located, TypeOK,
         taken' = [t \in Tasks |-> IF outcomes[t] # "none" THEN outcomes[t] ELSE taken[t]],
         outcomes' = [t \in Tasks |-> "none"],
         UNCHANGED <<nextIndex, queue, sent, lost, batch, task>>
  PROVE  Located'
<1>1. NoRepeats'
  BY DEF Located, NoRepeats
<1>2. Placed'
  BY DEF Located, Placed, Somewhere, InBatch, InQueue, Ended, Prepared
<1>3. Exclusive'
  BY DEF Located, Exclusive, Alone, InBatch, InQueue, Ended
<1> QED BY <1>1, <1>2, <1>3 DEF Located

-----------------------------------------------------------------------------
(***************************************************************************)
(* What each step moves.                                                   *)
(***************************************************************************)
\* has_work moves no task and leaves empty hands empty.
LEMMA HasWorkStepConserves ==
  ASSUME TypeOK, Conserved, NEW p \in Processes, HasWorkStep(p)
  PROVE  Conserved'
<1>1. /\ UNCHANGED <<nextIndex, outcomes, sent, taken, lost, queue, batch, task>>
      /\ pc[p] \in {"has_work", "counts", "flag"}
  BY DEF HasWorkStep, ReadPoisoned, ReadCounts, ReadSuspended, Move, restVars,
         unreadVars, taskVars, channelVars, outcomeVars, holdVars
<1>2. \A q \in Processes : q # p => pc'[q] = pc[q]
  BY HasWorkMoves DEF TypeOK, ControlTypes, Goto
<1>3. Located'
  BY <1>1, NothingMoves DEF Conserved, Located
<1>4. HandsEmpty'
  BY <1>1, <1>2 DEF Conserved, HandsEmpty, Processes
<1> QED BY <1>3, <1>4 DEF Conserved, Located

(***************************************************************************)
(* A worker takes a task from the channel into empty hands, and empties    *)
(* them with an outcome or a loss.                                         *)
(***************************************************************************)
LEMMA WorkerStepConserves ==
  ASSUME TypeOK, Holding, Conserved, NEW w \in Workers, WorkerStep(w)
  PROVE  Conserved'
<1> USE DEF TypeOK, ControlTypes, Processes, Goto, Move, restVars, taskVars,
            channelVars, outcomeVars, holdVars
<1>0. /\ Located /\ HandsEmpty
      /\ Located' /\ HandsEmpty' => Conserved'
  BY DEF Conserved, Located
<1>1. ASSUME UNCHANGED <<nextIndex, outcomes, sent, taken, lost, queue, batch, task>>
      PROVE  Located'
  BY <1>0, <1>1, NothingMoves
<1>2. CASE Boot(w) \/ PassResumeGate(w) \/ Cancel(w) \/ Respawn(w)
  <2>1. HandsEmpty'
    BY <1>0, <1>2 DEF Boot, PassResumeGate, Cancel, Respawn, Spawned, HandsEmpty
  <2> QED BY <1>0, <1>1, <1>2, <2>1 DEF Boot, PassResumeGate, Cancel, Respawn
<1>3. CASE Poll(w) \/ LockReceiver(w) \/ RecvTimeout(w) \/ RecvDisconnected(w)
  <2>1. HandsEmpty'
    BY <1>0, <1>3 DEF Poll, LockReceiver, RecvTimeout, RecvDisconnected, Exit, HandsEmpty
  <2> QED BY <1>0, <1>1, <1>3, <2>1 DEF Poll, LockReceiver, RecvTimeout, RecvDisconnected
<1>4. CASE Receive(w)
  <2>1. task[w] = NoTask
    BY <1>0, <1>4 DEF Receive, HandsEmpty
  <2>2. Located'
    BY <1>0, <1>4, <2>1, LeavesQueueHead DEF Receive
  <2>3. HandsEmpty'
    BY <1>0, <1>4 DEF Receive, HandsEmpty
  <2> QED BY <1>0, <2>2, <2>3
<1>5. CASE TransferTask(w)
  <2>1. task[w] \in Tasks
    BY <1>5 DEF TransferTask, Holding
  <2>2. HandsEmpty'
    BY <1>0, <1>5 DEF TransferTask, HandsEmpty
  <2>3. Located'
    <3>1. CASE UNCHANGED <<task, lost>>
      BY <1>1, <1>5, <3>1 DEF TransferTask
    <3>2. CASE lost' = lost \cup {task[w]} /\ task' = [task EXCEPT ![w] = NoTask]
      BY <1>0, <1>5, <2>1, <3>2, LeavesHands DEF TransferTask
    <3> QED BY <1>5, <3>1, <3>2 DEF TransferTask
  <2> QED BY <1>0, <2>2, <2>3
<1>6. CASE Complete(w) \/ ReturnInput(w)
  <2>1. task[w] \in Tasks
    BY <1>6 DEF Complete, ReturnInput, Holding
  <2>2. \E k \in Kinds \ {"none"} : Deliver({task[w]}, k) /\ UNCHANGED lost
    BY <1>6 DEF Complete, ReturnInput, Kinds
  <2>3. task' = [task EXCEPT ![w] = NoTask] /\ UNCHANGED <<nextIndex, queue, batch>>
    BY <1>6 DEF Complete, ReturnInput, EndTask
  <2>4. Located'
    BY <1>0, <2>1, <2>2, <2>3, LeavesHands
  <2>5. HandsEmpty'
    BY <1>0, <1>6 DEF Complete, ReturnInput, EndTask, HandsEmpty
  <2> QED BY <1>0, <2>4, <2>5
<1>7. CASE Panic(w)
  <2>1. task[w] \in Tasks
    BY <1>7 DEF Panic, Holding
  <2>2. Located'
    BY <1>0, <1>7, <2>1, LeavesHands DEF Panic, EndTask
  <2>3. HandsEmpty'
    BY <1>0, <1>7 DEF Panic, EndTask, HandsEmpty
  <2> QED BY <1>0, <2>2, <2>3
<1>8. CASE FinishTask(w)
  <2>1. HandsEmpty'
    BY <1>0, <1>8 DEF FinishTask, Abort, HandsEmpty
  <2> QED BY <1>0, <1>1, <1>8, <2>1 DEF FinishTask
<1>9. CASE HasWorkStep(w)
  BY <1>9, HasWorkStepConserves
<1>10. CASE Notify(w)
  <2>1. HandsEmpty'
    BY <1>0, <1>10 DEF Notify, HandsEmpty
  <2> QED BY <1>0, <1>1, <1>10, <2>1 DEF Notify
<1>11. CASE Poison(w)
  <2>1. HandsEmpty'
    BY <1>0, <1>11 DEF Poison, HandsEmpty
  <2> QED BY <1>0, <1>1, <1>11, <2>1 DEF Poison
<1>12. CASE Drain(w)
  <2>1. Located'
    BY <1>0, <1>12, LeavesQueue DEF Drain
  <2>2. HandsEmpty'
    BY <1>0, <1>12 DEF Drain, Exit, HandsEmpty
  <2> QED BY <1>0, <2>1, <2>2
<1> QED BY <1>2, <1>3, <1>4, <1>5, <1>6, <1>7, <1>8, <1>9, <1>10, <1>11, <1>12
        DEF WorkerStep, NextTask

(***************************************************************************)
(* A handle prepares new tasks in an empty batch, and takes them out of it *)
(* one by one; what it drains or takes it takes as a whole.                *)
(***************************************************************************)
LEMMA HandleStepConserves ==
  ASSUME TypeOK, Holding, Conserved, NEW h \in Handles, ContinueCall(h) \/ StartCall(h)
  PROVE  Conserved'
<1> USE DEF TypeOK, ControlTypes, Processes, Goto, Move, restVars, taskVars,
            channelVars, outcomeVars, holdVars, Calls
<1>0. /\ Located /\ HandsEmpty
      /\ Located' /\ HandsEmpty' => Conserved'
  BY DEF Conserved, Located
<1>1. ASSUME UNCHANGED <<nextIndex, outcomes, sent, taken, lost, queue, batch>>,
             \A w \in Workers : task'[w] = task[w]
      PROVE  Located'
  BY <1>0, <1>1, NothingMoves
<1>2. ASSUME NEW n \in 1 .. MaxBatch, NEW d \in Destinations, Submit(h, n, d)
      PROVE  Conserved'
  <2>1. batch[h] = <<>> /\ n \in Nat
    <3>1. pc[h] = "idle"
      BY <1>2 DEF Submit
    <3>2. batch[h] # <<>> => pc[h] \in {"admit", "send", "refuse"}
      BY <1>0 DEF HandsEmpty
    <3>3. n \in Nat
      OBVIOUS
    <3> QED BY <3>1, <3>2, <3>3
  <2>2. Located'
    BY <1>0, <1>2, <2>1, EntersBatch DEF Submit
  <2>3. HandsEmpty'
    BY <1>0, <1>2 DEF Submit, HandsEmpty
  <2> QED BY <1>0, <2>2, <2>3
<1>3. CASE Admit(h)
  <2>1. HandsEmpty'
    BY <1>0, <1>3 DEF Admit, HandsEmpty
  <2> QED BY <1>0, <1>1, <1>3, <2>1 DEF Admit
<1>4. CASE Send(h) \/ Refuse(h)
  <2>1. batch[h] # <<>> /\ NextOfBatch(h) /\ pc[h] \in {"send", "refuse"}
    BY <1>4 DEF Send, Refuse, Holding
  <2>2. /\ \A g \in Handles \ {h} : batch'[g] = batch[g]
        /\ \/ batch'[h] # <<>> /\ UNCHANGED <<pc, task>>
           \/ /\ \E l \in {"await", "idle"} : Goto(h, l)
              /\ task' \in {task, [task EXCEPT ![h] = Head(batch[h])]}
    BY <2>1, NextOfBatchTypes
  <2>3. \A v \in Workers : task'[v] = task[v]
    BY <2>2
  <2>4. /\ \A q \in Processes \ {h} : pc'[q] = pc[q]
        /\ batch'[h] # <<>> => pc'[h] = pc[h]
    <3>1. batch'[h] = Tail(batch[h])
      BY <2>1 DEF NextOfBatch
    <3>2. batch'[h] # <<>> => UNCHANGED pc
      BY <2>1, <3>1 DEF NextOfBatch
    <3>3. \A q \in Processes \ {h} : pc'[q] = pc[q]
      BY <2>2
    <3> QED BY <3>2, <3>3
  <2>5. HandsEmpty'
    BY <1>0, <2>1, <2>2, <2>3, <2>4 DEF HandsEmpty
  <2>6. batch' = [batch EXCEPT ![h] = Tail(@)]
    BY <2>1 DEF NextOfBatch
  <2>7. UNCHANGED <<nextIndex, lost>>
    BY <1>4 DEF Send, Refuse
  <2>8. \/ queue' = Append(queue, Head(batch[h])) /\ UNCHANGED outcomeVars
        \/ Deliver({Head(batch[h])}, "unprocessed") /\ UNCHANGED queue
    BY <1>4 DEF Send, Refuse
  <2>9. Located'
    BY <1>0, <2>1, <2>3, <2>6, <2>7, <2>8, LeavesBatch
  <2> QED BY <1>0, <2>5, <2>9
<1>5. CASE ApplyReturns(h)
  <2>1. \A v \in Workers : task'[v] = task[v]
    BY <1>5 DEF ApplyReturns
  <2>2. HandsEmpty'
    BY <1>0, <1>5, <2>1 DEF ApplyReturns, HandsEmpty
  <2> QED BY <1>0, <1>1, <1>5, <2>1, <2>2 DEF ApplyReturns
<1>6. CASE HasWorkStep(h)
  BY <1>6, HasWorkStepConserves
<1>7. CASE JoinStep(h)
  <2>1. HandsEmpty'
    <3>1. \E l \in JoinLabels : Goto(h, l)
      BY <1>7, GateStepTypes DEF JoinStep
    <3> QED BY <1>0, <1>7, <3>1 DEF JoinStep, unreadVars, HandsEmpty
  <2> QED BY <1>0, <1>1, <1>7, <2>1 DEF JoinStep, unreadVars
<1>8. CASE ReturnNone(h) \/ Drop(h)
  <2>1. HandsEmpty'
    BY <1>0, <1>8 DEF ReturnNone, Drop, ReleaseReferrer, HandsEmpty
  <2> QED BY <1>0, <1>1, <1>8, <2>1 DEF ReturnNone, Drop, ReleaseReferrer
<1>9. CASE DropLast(h) \/ DropSender(h) \/ Poison(h)
  <2>1. HandsEmpty'
    BY <1>0, <1>9 DEF DropLast, DropSender, Poison, HandsEmpty
  <2> QED BY <1>0, <1>1, <1>9, <2>1 DEF DropLast, DropSender, Poison
<1>10. CASE Drain(h) \/ Extract(h)
  <2>1. Located'
    BY <1>0, <1>10, LeavesQueue DEF Drain, Extract
  <2>2. HandsEmpty'
    BY <1>0, <1>10 DEF Drain, Exit, Extract, HandsEmpty
  <2> QED BY <1>0, <2>1, <2>2
<1>11. ASSUME NEW reason \in {"join", "husk"}, pc[h] = "idle", StartJoin(h, reason)
       PROVE  Conserved'
  <2>1. HandsEmpty'
    BY <1>0, <1>11 DEF StartJoin, HandsEmpty
  <2> QED BY <1>0, <1>1, <1>11, <2>1 DEF StartJoin
<1>12. CASE Join(h)
  BY <1>11, <1>12 DEF Join
<1>13. CASE TryIntoHusk(h)
  <2>1. CASE Goto(h, "refused") /\ UNCHANGED restVars
    <3>1. HandsEmpty'
      BY <1>0, <1>13, <2>1 DEF TryIntoHusk, HandsEmpty
    <3> QED BY <1>0, <1>1, <2>1, <3>1
  <2> QED BY <1>11, <1>13, <2>1 DEF TryIntoHusk
<1>14. CASE Suspend(h) \/ Resume(h) \/ HangUp(h)
  <2>1. HandsEmpty'
    BY <1>0, <1>14 DEF Suspend, Resume, HangUp, HandsEmpty
  <2> QED BY <1>0, <1>1, <1>14, <2>1 DEF Suspend, Resume, HangUp
<1>15. CASE TakeStored(h)
  <2>1. HandsEmpty'
    BY <1>0, <1>15 DEF TakeStored, HandsEmpty
  <2>2. Located'
    BY <1>0, <1>15, LeavesStore DEF TakeStored
  <2> QED BY <1>0, <2>1, <2>2
<1>16. ASSUME NEW w \in Workers, Grow(h, w) PROVE Conserved'
  <2>1. HandsEmpty'
    BY <1>0, <1>16 DEF Grow, Spawned, HandsEmpty
  <2> QED BY <1>0, <1>1, <1>16, <2>1 DEF Grow
<1>17. ASSUME NEW g \in Handles, Clone(h, g) PROVE Conserved'
  <2>1. HandsEmpty'
    BY <1>0, <1>17 DEF Clone, HandsEmpty
  <2> QED BY <1>0, <1>1, <1>17, <2>1 DEF Clone
<1> QED BY <1>2, <1>3, <1>4, <1>5, <1>6, <1>7, <1>8, <1>9, <1>10, <1>12, <1>13,
           <1>14, <1>15, <1>16, <1>17 DEF ContinueCall, StartCall

-----------------------------------------------------------------------------
\* A hive begins without tasks.
LEMMA InitConserves == Init => Conserved
<1> SUFFICES ASSUME Init PROVE Conserved
  OBVIOUS
<1>1. /\ \A h \in Handles : Range(batch[h]) = {} /\ IsInjective(batch[h])
      /\ \A h \in Handles : batch[h] = <<>>
      /\ Range(queue) = {} /\ IsInjective(queue)
      /\ \A p \in Processes : task[p] = NoTask
      /\ \A t \in Tasks : outcomes[t] = "none" /\ sent[t] = "none" /\ taken[t] = "none"
      /\ lost = {} /\ nextIndex = 0
  BY EmptyRange DEF Init
<1>2. \A t \in Tasks : t # NoTask
  BY DEF Tasks, NoTask
<1>3. \A t \in Tasks : ~Somewhere(t)
  BY <1>1, <1>2 DEF Somewhere, InBatch, InQueue, Ended, Processes
<1>4. Placed
  BY <1>1, <1>3 DEF Placed, Prepared
<1>5. Exclusive
  BY <1>3 DEF Exclusive, Alone, Somewhere, Ended
<1>6. NoRepeats /\ HandsEmpty
  BY <1>1 DEF NoRepeats, HandsEmpty, Processes
<1> QED BY <1>4, <1>5, <1>6 DEF Conserved

\* Every step conserves the tasks.
LEMMA StepConserves == IInv /\ Conserved /\ [Next]_vars => Conserved'
<1> SUFFICES ASSUME IInv, Conserved, [Next]_vars PROVE Conserved'
  OBVIOUS
<1>1. TypeOK /\ Holding
  BY DEF IInv
<1>2. CASE UNCHANGED vars
  BY <1>2 DEF Conserved, Placed, Exclusive, NoRepeats, HandsEmpty, Somewhere,
              Alone, InBatch, InQueue, Ended, Prepared, vars, restVars, taskVars,
              channelVars, outcomeVars, holdVars
<1>3. CASE Next
  BY <1>1, <1>2, <1>3, WorkerStepConserves, HandleStepConserves DEF Next, Rest
<1> QED BY <1>2, <1>3

LEMMA AlwaysConserved == Safe => []Conserved
<1>1. IInv /\ Conserved /\ [Next]_vars => Conserved'
  BY StepConserves
<1> QED BY <1>1, InitConserves, AlwaysIInv, PTL DEF Safe

-----------------------------------------------------------------------------
(***************************************************************************)
(* From places to their number.                                            *)
(***************************************************************************)
\* A task that is alone somewhere has one place.
LEMMA OnePlace ==
  ASSUME TypeOK, Conserved, NEW t \in Tasks, Somewhere(t)
  PROVE  \E x : Places(t) = {x}
<1> USE DEF Places, Stored, Sent, Taken, Held, NoTask, Tasks, InBatch, InQueue, Ended
<1>1. Alone(t)
  BY DEF Conserved, Exclusive
<1>2. \A i, j \in DOMAIN queue : queue[i] = t /\ queue[j] = t => i = j
  BY DEF Conserved, NoRepeats, IsInjective
<1>3. ASSUME NEW i \in DOMAIN queue, queue[i] = t PROVE InQueue(t)
  BY <1>3 DEF Range
<1>4. ASSUME NEW h \in Handles, InBatch(t, h) PROVE Places(t) = {<<"batch", h>>}
  BY <1>1, <1>3, <1>4 DEF Alone
<1>5. CASE InQueue(t)
  <2>1. PICK i \in DOMAIN queue : queue[i] = t
    BY <1>5 DEF Range
  <2>2. Places(t) = {<<"queue", i>>}
    BY <1>1, <1>2, <1>5, <2>1 DEF Alone
  <2> QED BY <2>2
<1>6. ASSUME NEW w \in Workers, task[w] = t PROVE Places(t) = {<<"worker", w>>}
  BY <1>1, <1>3, <1>6 DEF Alone
<1>7. CASE Ended(t)
  <2>1. CASE outcomes[t] # "none"
    <3>1. Places(t) = {<<"stored", t>>}
      BY <1>1, <1>3, <2>1 DEF Alone
    <3> QED BY <3>1
  <2>2. CASE sent[t] # "none"
    <3>1. Places(t) = {<<"sent", t>>}
      BY <1>1, <1>3, <2>2 DEF Alone
    <3> QED BY <3>1
  <2>3. CASE taken[t] # "none"
    <3>1. Places(t) = {<<"taken", t>>}
      BY <1>1, <1>3, <2>3 DEF Alone
    <3> QED BY <3>1
  <2>4. CASE t \in lost
    <3>1. Places(t) = {<<"lost", t>>}
      BY <1>1, <1>3, <2>4 DEF Alone
    <3> QED BY <3>1
  <2> QED BY <1>7, <2>1, <2>2, <2>3, <2>4
<1> QED BY <1>4, <1>5, <1>6, <1>7 DEF Somewhere

\* A task that is nowhere has none.
LEMMA NoPlace ==
  ASSUME NEW t \in Tasks, ~Somewhere(t)
  PROVE  Places(t) = {}
BY DEF Somewhere, Places, Stored, Sent, Taken, Held, InBatch, InQueue, Ended, Range

(***************************************************************************)
(* No task is duplicated and none vanishes: whatever the number of         *)
(* workers, clients and tasks, and however submission, execution, panics,  *)
(* suspension, poisoning and draining interleave, every task that was      *)
(* prepared is in exactly one place, and no other task is anywhere.        *)
(***************************************************************************)
THEOREM TasksConserved == Safe => []TaskConservation
<1>1. IInv /\ Conserved => TaskConservation
  <2> SUFFICES ASSUME IInv, Conserved, NEW t \in Tasks
               PROVE  Cardinality(Places(t)) = IF t \in Prepared THEN 1 ELSE 0
    BY DEF TaskConservation
  <2>1. t \in Prepared <=> Somewhere(t)
    BY DEF Conserved, Placed
  <2>2. CASE Somewhere(t)
    BY <2>1, <2>2, OnePlace, FS_Singleton DEF IInv
  <2>3. CASE ~Somewhere(t)
    BY <2>1, <2>3, NoPlace, FS_EmptySet
  <2> QED BY <2>2, <2>3
<1> QED BY <1>1, AlwaysIInv, AlwaysConserved, PTL

-----------------------------------------------------------------------------
(***************************************************************************)
(* CountersExact of Hive, for any number of workers, handles and tasks.    *)
(*                                                                         *)
(* A shut down hive stays shut down (ShutDownStays), so it is enough to    *)
(* follow the counters as long as it is not.  Two things have to be known  *)
(* for that: where the tasks are (Conserved), so that a transfer takes the *)
(* one task off the queued ones and no submission counts one twice; and    *)
(* that no thread leaves before the shutdown (Departures), since a thread  *)
(* that leaves decrements a counter that does not count it.                *)
(***************************************************************************)
\* Workers whose panic is not counted yet.
Unwinding == {w \in Workers : pc[w] = "finish" /\ why[w] = "panic"}

\* The counters say what they stand for.
Counted ==
  /\ counter.left = Cardinality(Waiting)
  /\ counter.right = Cardinality(Active)
  /\ Cardinality(lost) = numPanics + Cardinality(Unwinding)

\* Why a thread is past its task; nobody leaves, drains or refuses before
\* the shutdown.
Departures ==
  /\ \A w \in Workers :
       /\ pc[w] \in {"finish", "has_work", "counts", "flag", "notify"} =>
            why[w] \in {"task", "panic", "exit"}
       /\ why[w] = "exit" => ShutDown
       /\ pc[w] = "dead" => ShutDown \/ SpawnMayFail
  /\ \A p \in Processes : pc[p] = "drain" => poisoned
  /\ \A h \in Handles : pc[h] = "refuse" => poisoned

CountInv == Departures /\ (~ShutDown => Counted)

-----------------------------------------------------------------------------
(***************************************************************************)
(* Who moves, and what shuts a hive down.                                  *)
(***************************************************************************)
\* A worker moves itself and nobody else.
LEMMA WorkerMoves ==
  ASSUME TypeOK, Holding, NEW w \in Workers, WorkerStep(w)
  PROVE  /\ UNCHANGED pc \/ \E l \in WorkerPoints : Goto(w, l)
         /\ pc[w] # "absent" /\ pc[w] # "dead"
         /\ poisoned \/ pc[w] = "poison" => poisoned'
         /\ poisoned' => poisoned \/ pc[w] = "poison"
         /\ UNCHANGED <<nextIndex, dest, suspended, referrers, rxOpen, batch, suspends>>
<1> USE DEF Goto, Move, Exit, EndTask, restVars, taskVars, flagVars, holdVars,
            ghostVars, WorkerPoints
<1>1. CASE Boot(w) \/ PassResumeGate(w) \/ Cancel(w) \/ Poll(w) \/ LockReceiver(w)
  BY <1>1 DEF Boot, PassResumeGate, Cancel, Poll, LockReceiver
<1>2. CASE Receive(w) \/ RecvTimeout(w) \/ RecvDisconnected(w) \/ TransferTask(w)
  BY <1>2 DEF Receive, RecvTimeout, RecvDisconnected, TransferTask
<1>3. CASE Complete(w) \/ ReturnInput(w) \/ Panic(w)
  BY <1>3 DEF Complete, ReturnInput, Panic
<1>4. CASE FinishTask(w)
  BY <1>4 DEF FinishTask, Abort
<1>5. CASE HasWorkStep(w)
  <2>1. \E l \in {"counts", "flag"} \cup FinishLabels : Goto(w, l)
    <3>1. ASSUME NEW b \in BOOLEAN, Concludes(w, b) PROVE \E l \in FinishLabels : Goto(w, l)
      BY <3>1, ConcludesTypes DEF TypeOK, Processes
    <3> QED BY <1>5, <3>1 DEF HasWorkStep, ReadPoisoned, ReadCounts, ReadSuspended
  <2>2. /\ UNCHANGED <<nextIndex, dest, suspended, referrers, rxOpen, batch, suspends, poisoned>>
        /\ pc[w] \in {"has_work", "counts", "flag"}
    BY <1>5 DEF HasWorkStep, ReadPoisoned, ReadCounts, ReadSuspended, unreadVars
  <2> QED BY <2>1, <2>2 DEF FinishLabels
<1>6. CASE Notify(w) \/ Respawn(w)
  BY <1>6, AfterFinishLabels DEF Notify, Respawn, Spawned
<1>7. CASE Poison(w) \/ Drain(w)
  BY <1>7 DEF Poison, Drain, Processes
<1> QED BY <1>1, <1>2, <1>3, <1>4, <1>5, <1>6, <1>7 DEF WorkerStep, NextTask

\* A handle moves itself, or lets a new worker or handle in.
HandleMoves(h) ==
  \/ UNCHANGED pc
  \/ /\ pc[h] \notin {"absent", "gone", "husk"}
     /\ \E l \in HandlePoints \ {"absent"} :
          /\ Goto(h, l)
          /\ pc[h] = "spin" <=> l = "husk"
          /\ l = "poison" => pc[h] = "dropping" /\ referrers = 0
          /\ l = "drain" => pc[h] = "poison" /\ poisoned'
  \/ pc[h] = "idle" /\ \E w \in Workers : pc[w] = "absent" /\ Spawned(w)
  \/ pc[h] = "idle" /\ \E g \in Handles : pc[g] = "absent" /\ Goto(g, "idle")

LEMMA HandleStepMoves ==
  ASSUME TypeOK, Holding, NEW h \in Handles, ContinueCall(h) \/ StartCall(h)
  PROVE  /\ HandleMoves(h)
         /\ poisoned => poisoned'
         /\ poisoned' => poisoned \/ pc[h] = "poison"
<1> USE DEF HandleMoves, Calls, Goto, Move, restVars, taskVars, flagVars, holdVars,
            ghostVars, HandlePoints
<1>0. pc[h] = "idle" /\ Goto(h, "admit") => HandleMoves(h)
  OBVIOUS
<1>1. ASSUME NEW n \in 1 .. MaxBatch, NEW d \in Destinations, Submit(h, n, d)
      PROVE  HandleMoves(h) /\ UNCHANGED poisoned
  <2>1. pc[h] = "idle" /\ Goto(h, "admit") /\ UNCHANGED poisoned
    BY <1>1 DEF Submit
  <2> QED BY <1>0, <2>1
<1>2. CASE Admit(h) \/ ApplyReturns(h)
  BY <1>2 DEF Admit, ApplyReturns
<1>3. CASE Send(h) \/ Refuse(h)
  <2>1. batch[h] # <<>> /\ NextOfBatch(h) /\ pc[h] \in {"send", "refuse"}
    BY <1>3 DEF Send, Refuse, Holding
  <2>2. UNCHANGED pc \/ \E l \in {"await", "idle"} : Goto(h, l)
    BY <2>1, NextOfBatchTypes DEF TypeOK
  <2> QED BY <1>3, <2>1, <2>2 DEF Send, Refuse
<1>4. CASE HasWorkStep(h)
  <2>1. /\ \E l \in {"counts", "flag"} \cup JoinLabels : Goto(h, l)
    <3>1. ASSUME NEW b \in BOOLEAN, Concludes(h, b) PROVE \E l \in JoinLabels : Goto(h, l)
      BY <3>1, ConcludesTypes DEF TypeOK, Processes
    <3> QED BY <1>4, <3>1 DEF HasWorkStep, ReadPoisoned, ReadCounts, ReadSuspended
  <2>2. UNCHANGED poisoned /\ pc[h] \in {"has_work", "counts", "flag"}
    BY <1>4 DEF HasWorkStep, ReadPoisoned, ReadCounts, ReadSuspended, unreadVars
  <2> QED BY <2>1, <2>2 DEF JoinLabels
<1>5. CASE JoinStep(h)
  <2>1. \E l \in JoinLabels : Goto(h, l)
    BY <1>5, GateStepTypes DEF JoinStep, TypeOK
  <2> QED BY <1>5, <2>1 DEF JoinStep, unreadVars, JoinLabels
<1>6. CASE ReturnNone(h) \/ Drop(h)
  BY <1>6 DEF ReturnNone, Drop, ReleaseReferrer
<1>7. CASE DropLast(h) \/ DropSender(h) \/ Extract(h)
  BY <1>7 DEF DropLast, DropSender, Extract
<1>8. CASE Poison(h) \/ Drain(h)
  BY <1>8 DEF Poison, Drain, Processes
<1>9. CASE Join(h) \/ TryIntoHusk(h)
  BY <1>9 DEF Join, TryIntoHusk, StartJoin
<1>10. CASE Suspend(h) \/ Resume(h) \/ TakeStored(h) \/ HangUp(h)
  BY <1>10 DEF Suspend, Resume, TakeStored, HangUp
<1>11. ASSUME NEW w \in Workers, Grow(h, w) PROVE HandleMoves(h) /\ UNCHANGED poisoned
  BY <1>11 DEF Grow
<1>12. ASSUME NEW g \in Handles, Clone(h, g) PROVE HandleMoves(h) /\ UNCHANGED poisoned
  BY <1>12 DEF Clone
<1> HIDE DEF HandleMoves
<1> QED BY <1>1, <1>2, <1>3, <1>4, <1>5, <1>6, <1>7, <1>8, <1>9, <1>10, <1>11,
           <1>12 DEF ContinueCall, StartCall

\* The workers' labels when a handle moves: only new threads come.
LEMMA HandleLeavesWorkers ==
  ASSUME TypeOK, NEW h \in Handles, HandleMoves(h)
  PROVE  \A w \in Workers :
           \/ pc'[w] = pc[w]
           \/ pc[w] = "absent" /\ pc'[w] = "boot"
           \/ pc[w] = "absent" /\ pc'[w] = "dead" /\ (poisoned \/ SpawnMayFail)
BY DEF HandleMoves, Spawned, Goto, TypeOK, ControlTypes, Processes

\* The handles' labels when a handle moves.
LEMMA HandleLeavesHandles ==
  ASSUME TypeOK, NEW h \in Handles, HandleMoves(h), NEW g \in Handles
  PROVE  \/ pc'[g] = pc[g]
         \/ pc[h] = "idle" /\ pc[g] = "absent" /\ pc'[g] = "idle"
         \/ /\ g = h
            /\ pc[h] \notin {"absent", "gone", "husk"}
            /\ pc'[h] \in HandlePoints \ {"absent"}
            /\ pc[h] = "spin" <=> pc'[h] = "husk"
            /\ pc'[h] = "poison" => pc[h] = "dropping" /\ referrers = 0
            /\ pc'[h] = "drain" => pc[h] = "poison" /\ poisoned'
BY DEF HandleMoves, Spawned, Goto, TypeOK, ControlTypes, Processes

\* A hive that is shut down stays shut down.
LEMMA ShutDownStays ==
  ASSUME TypeOK, Holding, Next
  PROVE  /\ poisoned => poisoned'
         /\ ShutDown => ShutDown'
<1>1. ASSUME NEW w \in Workers, WorkerStep(w)
      PROVE  (poisoned => poisoned') /\ (ShutDown => ShutDown')
  <2>1. /\ \A p \in Processes \ {w} : pc'[p] = pc[p]
        /\ poisoned \/ pc[w] = "poison" => poisoned'
    BY <1>1, WorkerMoves DEF Goto, TypeOK, ControlTypes
  <2>2. \A h \in Handles : pc'[h] = pc[h]
    BY <2>1 DEF Processes
  <2>3. \A v \in Workers : v # w => pc'[v] = pc[v]
    BY <2>1 DEF Processes
  <2> QED BY <2>1, <2>2, <2>3 DEF ShutDown, BrokenDown, Connected, HoldsSender
<1>2. ASSUME NEW h \in Handles, ContinueCall(h) \/ StartCall(h)
      PROVE  (poisoned => poisoned') /\ (ShutDown => ShutDown')
  <2>1. HandleMoves(h) /\ (poisoned => poisoned')
    BY <1>2, HandleStepMoves
  <2>2. BrokenDown => BrokenDown'
    BY <2>1, HandleLeavesWorkers DEF BrokenDown
  <2>3. ~Connected => ~Connected'
    BY <2>1, HandleLeavesHandles DEF Connected, HoldsSender
  <2> QED BY <2>1, <2>2, <2>3 DEF ShutDown
<1>3. CASE Rest
  BY <1>3 DEF Rest, vars, restVars, flagVars, ShutDown, BrokenDown, Connected, HoldsSender
<1> QED BY <1>1, <1>2, <1>3 DEF Next
-----------------------------------------------------------------------------
(***************************************************************************)
(* Departures.                                                             *)
(***************************************************************************)
Busy == {"finish", "has_work", "counts", "flag", "notify"}

\* What a worker does to its own part of Departures.
LEMMA WorkerDeparts ==
  ASSUME TypeOK, Holding, Departures, NEW w \in Workers, WorkerStep(w)
  PROVE  /\ \A p \in Processes \ {w} : why'[p] = why[p]
         /\ pc'[w] \in Busy => why'[w] \in {"task", "panic", "exit"}
         /\ why'[w] = "exit" => ShutDown
         /\ pc'[w] = "dead" => ShutDown \/ SpawnMayFail
         /\ pc'[w] = "drain" => poisoned'
<1> USE DEF Departures, TypeOK, ControlTypes, Processes, Goto, Move, Exit, EndTask,
            restVars, Busy
<1>1. CASE Boot(w) \/ PassResumeGate(w) \/ Cancel(w) \/ LockReceiver(w)
           \/ Receive(w) \/ RecvTimeout(w) \/ TransferTask(w)
  BY <1>1 DEF Boot, PassResumeGate, Cancel, LockReceiver, Receive, RecvTimeout,
              TransferTask
<1>2. CASE Poll(w) \/ RecvDisconnected(w)
  BY <1>2 DEF Poll, RecvDisconnected, ShutDown
<1>3. CASE Complete(w) \/ ReturnInput(w) \/ Panic(w)
  BY <1>3 DEF Complete, ReturnInput, Panic
<1>4. CASE FinishTask(w)
  BY <1>4 DEF FinishTask, Abort
<1>5. ASSUME pc[w] \in Busy, Goto(w, AfterFinish(w)), UNCHANGED why
      PROVE  /\ pc'[w] \in {"gate", "respawn", "dead"}
             /\ pc'[w] = "dead" => ShutDown
             /\ \A p \in Processes \ {w} : why'[p] = why[p]
             /\ why'[w] = "exit" => ShutDown
  BY <1>5 DEF AfterFinish
<1>6. CASE Notify(w)
  BY <1>5, <1>6 DEF Notify
<1>7. CASE HasWorkStep(w)
  <2>1. UNCHANGED why /\ pc[w] \in {"has_work", "counts", "flag"}
    BY <1>7 DEF HasWorkStep, ReadPoisoned, ReadCounts, ReadSuspended, unreadVars
  <2>2. ASSUME NEW b \in BOOLEAN, Concludes(w, b)
        PROVE  Goto(w, "notify") \/ Goto(w, AfterFinish(w))
    BY <2>2 DEF Concludes
  <2>3. Goto(w, "counts") \/ Goto(w, "flag") \/ Goto(w, "notify") \/ Goto(w, AfterFinish(w))
    BY <1>7, <2>2 DEF HasWorkStep, ReadPoisoned, ReadCounts, ReadSuspended
  <2>4. CASE Goto(w, AfterFinish(w))
    BY <1>5, <2>1, <2>4
  <2>5. CASE Goto(w, "counts") \/ Goto(w, "flag") \/ Goto(w, "notify")
    BY <2>1, <2>5
  <2> QED BY <2>3, <2>4, <2>5
<1>8. CASE Respawn(w)
  BY <1>8 DEF Respawn, Spawned, ShutDown
<1>9. CASE Poison(w)
  BY <1>9 DEF Poison, ShutDown
<1>10. CASE Drain(w)
  BY <1>10 DEF Drain, ShutDown
<1> QED BY <1>1, <1>2, <1>3, <1>4, <1>6, <1>7, <1>8, <1>9, <1>10 DEF WorkerStep, NextTask

\* What a handle does to its own part of it.
LEMMA HandleDeparts ==
  ASSUME TypeOK, Holding, NEW h \in Handles, ContinueCall(h) \/ StartCall(h)
  PROVE  /\ \A p \in Processes \ {h} : why'[p] = why[p]
         /\ pc'[h] = "refuse" => pc[h] = "refuse" \/ poisoned
<1> USE DEF TypeOK, ControlTypes, Processes, Goto, Move, restVars, Calls, unreadVars
<1>1. ASSUME NEW n \in 1 .. MaxBatch, NEW d \in Destinations, Submit(h, n, d)
      PROVE  UNCHANGED why /\ pc'[h] # "refuse"
  <2>1. Goto(h, "admit") /\ UNCHANGED why
    BY <1>1 DEF Submit
  <2> QED BY <2>1
<1>2. CASE Admit(h) \/ ApplyReturns(h) \/ DropLast(h) \/ DropSender(h) \/ Poison(h)
           \/ Drain(h) \/ Extract(h)
  BY <1>2 DEF Admit, ApplyReturns, DropLast, DropSender, Poison, Drain, Extract
<1>3. CASE Send(h) \/ Refuse(h)
  <2>1. batch[h] # <<>> /\ NextOfBatch(h) /\ pc[h] \in {"send", "refuse"} /\ UNCHANGED why
    BY <1>3 DEF Send, Refuse, Holding
  <2>2. UNCHANGED pc \/ \E l \in {"await", "idle"} : Goto(h, l)
    BY <2>1, NextOfBatchTypes
  <2>3. pc'[h] = pc[h] \/ pc'[h] \in {"await", "idle"}
    BY <2>2
  <2>4. pc[h] = "refuse" => Refuse(h)
    BY <1>3 DEF Send
  <2> QED BY <2>1, <2>3, <2>4
<1>4. CASE HasWorkStep(h)
  <2>1. UNCHANGED why /\ pc'[h] # "refuse"
    BY <1>4, HasWorkMoves DEF HasWorkStep, ReadPoisoned, ReadCounts, ReadSuspended,
       FinishLabels, JoinLabels
  <2> QED BY <2>1
<1>5. CASE JoinStep(h)
  <2>1. \E l \in JoinLabels : Goto(h, l)
    BY <1>5, GateStepTypes DEF JoinStep
  <2> QED BY <1>5, <2>1 DEF JoinStep, JoinLabels
<1>6. CASE ReturnNone(h) \/ Drop(h) \/ Suspend(h) \/ Resume(h) \/ TakeStored(h) \/ HangUp(h)
  BY <1>6 DEF ReturnNone, Drop, ReleaseReferrer, Suspend, Resume, TakeStored, HangUp
<1>7. CASE Join(h) \/ TryIntoHusk(h)
  BY <1>7 DEF Join, TryIntoHusk, StartJoin
<1>8. ASSUME NEW w \in Workers, Grow(h, w) PROVE UNCHANGED why /\ pc'[h] # "refuse"
  <2>1. pc[h] = "idle" /\ UNCHANGED why /\ w # h
    BY <1>8 DEF Grow
  <2>2. \E l \in {"boot", "dead"} : Goto(w, l)
    BY <1>8 DEF Grow, Spawned
  <2> QED BY <2>1, <2>2
<1>9. ASSUME NEW g \in Handles, Clone(h, g) PROVE UNCHANGED why /\ pc'[h] # "refuse"
  BY <1>9 DEF Clone
<1> QED BY <1>1, <1>2, <1>3, <1>4, <1>5, <1>6, <1>7, <1>8, <1>9 DEF ContinueCall, StartCall

\* Every step preserves Departures.
LEMMA StepDepartures ==
  ASSUME TypeOK, Holding, Departures, Next
  PROVE  Departures'
<1>0. (poisoned => poisoned') /\ (ShutDown => ShutDown')
  BY ShutDownStays
<1>1. ASSUME NEW w \in Workers, WorkerStep(w) PROVE Departures'
  <2>1. \A p \in Processes \ {w} : pc'[p] = pc[p]
    BY <1>1, WorkerMoves DEF Goto, TypeOK, ControlTypes
  <2> HIDE DEF ShutDown
  <2> QED BY <1>0, <1>1, <2>1, WorkerDeparts DEF Departures, Busy, Processes
<1>2. ASSUME NEW h \in Handles, ContinueCall(h) \/ StartCall(h) PROVE Departures'
  <2>1. HandleMoves(h)
    BY <1>2, HandleStepMoves
  <2>2. /\ \A w \in Workers : why'[w] = why[w]
        /\ pc'[h] = "refuse" => pc[h] = "refuse" \/ poisoned
    BY <1>2, HandleDeparts DEF Processes
  <2>3. \A w \in Workers : \/ pc'[w] = pc[w]
                           \/ pc'[w] = "boot"
                           \/ pc'[w] = "dead" /\ (poisoned \/ SpawnMayFail)
    BY <2>1, HandleLeavesWorkers
  <2>4. \A g \in Handles :
           /\ pc'[g] = "drain" => pc[g] = "drain" \/ poisoned'
           /\ pc'[g] = "refuse" => pc[g] = "refuse" \/ poisoned
    BY <2>1, <2>2, HandleLeavesHandles
  <2>5. poisoned => ShutDown
    BY DEF ShutDown
  <2> QED BY <1>0, <2>2, <2>3, <2>4, <2>5 DEF Departures, Processes
<1>3. CASE Rest
  BY <1>3 DEF Rest, vars, restVars, flagVars, ShutDown, BrokenDown, Connected,
              HoldsSender, Departures
<1> QED BY <1>1, <1>2, <1>3 DEF Next
-----------------------------------------------------------------------------
(***************************************************************************)
(* The counters.                                                           *)
(***************************************************************************)
\* What is counted is finite, and there are MaxTasks tasks.
LEMMA TasksFinite == IsFiniteSet(Tasks) /\ Cardinality(Tasks) = MaxTasks
BY FS_Interval DEF Tasks

LEMMA CountedAreFinite ==
  ASSUME TypeOK
  PROVE  /\ IsFiniteSet(Waiting) /\ Cardinality(Waiting) \in Nat
         /\ IsFiniteSet(Active) /\ Cardinality(Active) \in Nat
         /\ IsFiniteSet(lost) /\ Cardinality(lost) \in Nat
         /\ IsFiniteSet(Unwinding) /\ Cardinality(Unwinding) \in Nat
<1>1. /\ Waiting \in SUBSET Tasks /\ lost \in SUBSET Tasks
      /\ Active \in SUBSET Workers /\ Unwinding \in SUBSET Workers
  BY DEF Waiting, Active, Unwinding, TypeOK, SharedTypes
<1>2. /\ IsFiniteSet(Waiting) /\ IsFiniteSet(lost)
      /\ IsFiniteSet(Active) /\ IsFiniteSet(Unwinding)
  BY <1>1, TasksFinite, FS_Subset
<1> QED BY <1>2, FS_CardinalityType

\* A step that changes nobody's part of the counts.
Uncounted ==
  /\ Waiting' = Waiting /\ Active' = Active /\ Unwinding' = Unwinding
  /\ UNCHANGED <<counter, numPanics, lost>>

LEMMA QuietStep ==
  ASSUME Counted, Uncounted
  PROVE  Counted'
BY DEF Counted, Uncounted

\* A worker whose move does not touch the counts, nor the task it holds.
LEMMA QuietMove ==
  ASSUME TypeOK, NEW w \in Workers,
         \A v \in Workers \ {w} : pc'[v] = pc[v] /\ task'[v] = task[v] /\ why'[v] = why[v],
         pc[w] \notin {"transfer", "apply", "cancelled", "finish"},
         pc'[w] \notin {"transfer", "apply", "cancelled"},
         pc'[w] = "finish" => why'[w] = "exit",
         UNCHANGED <<counter, numPanics, lost, queue, batch>>
  PROVE  Uncounted
BY DEF Uncounted, Waiting, Active, Unwinding, Range

\* Counting below the width of a counter does not wrap around.
LEMMA ModBelow ==
  ASSUME NEW m \in Nat \ {0}, NEW a \in 0 .. m - 1
  PROVE  a % m = a
OBVIOUS

(***************************************************************************)
(* What a worker does to the counts.                                       *)
(***************************************************************************)
\* Receiving a task does not change how many are queued.
LEMMA ReceiveCounts ==
  ASSUME TypeOK, Conserved, NEW w \in Workers, Receive(w)
  PROVE  Uncounted
<1> USE DEF Receive, Goto, TypeOK, ControlTypes, Processes
<1>1. /\ Head(queue) \in Range(queue)
      /\ Range(queue') = Range(queue) \ {Head(queue)}
  BY TailRange DEF Conserved, NoRepeats, SharedTypes
<1>2. PICK head \in Tasks : head = Head(queue)
  BY <1>1, RangeOfTasks DEF SharedTypes
<1>3. /\ pc'[w] = "transfer" /\ task'[w] = head /\ pc[w] = "recv"
      /\ \A v \in Workers \ {w} : pc'[v] = pc[v] /\ task'[v] = task[v]
      /\ UNCHANGED <<why, batch, counter, numPanics, lost>>
  BY <1>2 DEF holdVars, taskVars
<1>4. Waiting' = Waiting
  BY <1>1, <1>2, <1>3 DEF Waiting
<1>5. Active' = Active /\ Unwinding' = Unwinding
  BY <1>3 DEF Active, Unwinding
<1> QED BY <1>3, <1>4, <1>5 DEF Uncounted

\* A transfer that succeeds counts its task off, and its worker on.
LEMMA TransferCounts ==
  ASSUME TypeOK, Holding, Conserved, Counted, NEW w \in Workers, TransferTask(w)
  PROVE  Counted' \/ BrokenDown'
<1> USE DEF Goto, TypeOK, ControlTypes, Processes
<1>1. task[w] \in Tasks /\ pc[w] = "transfer"
  BY DEF TransferTask, Holding
<1>2. CASE TransferFails(counter, 1) /\ Goto(w, "poison")
  BY <1>2 DEF BrokenDown
<1>3. CASE /\ ~TransferFails(counter, 1)
           /\ Goto(w, "apply")
           /\ UNCHANGED <<task, lost>>
  <2>1. /\ counter.left \in Nat /\ counter.right \in Nat
        /\ counter' = [left |-> counter.left - 1, right |-> counter.right + 1]
    <3>1. counter.left \in Nat /\ counter.right \in Nat /\ counter.right + 1 < RMod
      BY <1>3 DEF TransferFails, RightOverflows, SharedTypes, Pair
    <3>2. (counter.right + 1) % RMod = counter.right + 1
      BY <3>1, ModBelow
    <3> QED BY <1>3, <3>1, <3>2 DEF TransferTask, TransferFails, Transfer
  <2>2. /\ pc'[w] = "apply"
        /\ \A v \in Workers \ {w} : pc'[v] = pc[v]
        /\ UNCHANGED <<task, lost, why, batch, queue, numPanics>>
    BY <1>3 DEF TransferTask, channelVars
  <2>3. Waiting' = Waiting \ {task[w]} /\ task[w] \in Waiting
    <3>1. /\ ~InQueue(task[w]) /\ \A h \in Handles : ~InBatch(task[w], h)
          /\ \A v \in Workers : task[v] = task[w] => v = w
      BY <1>1 DEF Conserved, Exclusive, Alone
    <3> QED BY <1>1, <2>2, <3>1 DEF Waiting, InQueue, InBatch
  <2>4. Active' = Active \cup {w} /\ w \notin Active /\ Unwinding' = Unwinding
    BY <1>1, <2>2 DEF Active, Unwinding
  <2>5. /\ Cardinality(Waiting \ {task[w]}) = Cardinality(Waiting) - 1
        /\ Cardinality(Active \cup {w}) = Cardinality(Active) + 1
    <3>1. IsFiniteSet(Waiting) /\ IsFiniteSet(Active)
      BY CountedAreFinite
    <3>2. Cardinality(Waiting \ {task[w]}) = Cardinality(Waiting) - 1
      BY <2>3, <3>1, FS_RemoveElement
    <3>3. Cardinality(Active \cup {w}) = Cardinality(Active) + 1
      BY <2>4, <3>1, FS_AddElement
    <3> QED BY <3>2, <3>3
  <2> QED BY <2>1, <2>2, <2>3, <2>4, <2>5 DEF Counted
<1> QED BY <1>2, <1>3 DEF TransferTask

\* The outcome of a task is delivered while its worker is still counted; a
\* panic is recorded when it happens and counted when it is finished.
LEMMA EndTaskCounts ==
  ASSUME TypeOK, Holding, Conserved, Counted, NEW w \in Workers,
         Complete(w) \/ ReturnInput(w) \/ Panic(w)
  PROVE  Counted'
<1> USE DEF Goto, EndTask, TypeOK, ControlTypes, Processes
<1>1. /\ pc[w] \in {"apply", "cancelled"} /\ task[w] \in Tasks
      /\ pc'[w] = "finish" /\ why'[w] \in {"task", "panic"}
      /\ \A v \in Workers \ {w} : pc'[v] = pc[v] /\ task'[v] = task[v] /\ why'[v] = why[v]
      /\ UNCHANGED <<counter, numPanics, queue, batch>>
  BY DEF Complete, ReturnInput, Panic, Holding, channelVars
<1>2. Waiting' = Waiting
  BY <1>1 DEF Waiting
<1>3. Active' = Active
  BY <1>1 DEF Active
<1>4. CASE Complete(w) \/ ReturnInput(w)
  <2>1. Unwinding' = Unwinding /\ UNCHANGED lost
    BY <1>1, <1>4 DEF Complete, ReturnInput, Unwinding
  <2> QED BY <1>1, <1>2, <1>3, <2>1 DEF Counted
<1>5. CASE Panic(w)
  <2>1. /\ Unwinding' = Unwinding \cup {w} /\ w \notin Unwinding
        /\ lost' = lost \cup {task[w]} /\ task[w] \notin lost
    BY <1>1, <1>5 DEF Panic, Unwinding, Conserved, Exclusive, Alone, Ended
  <2>2. /\ Cardinality(Unwinding') = Cardinality(Unwinding) + 1
        /\ Cardinality(lost') = Cardinality(lost) + 1
    BY <2>1, CountedAreFinite, FS_AddElement
  <2>3. numPanics \in Nat
    BY DEF SharedTypes
  <2> QED BY <1>1, <1>2, <1>3, <2>2, <2>3, CountedAreFinite DEF Counted
<1> QED BY <1>4, <1>5

\* finish_task counts its worker off, and the panic on: the counter is not
\* zero, since it counts the worker.
LEMMA FinishCounts ==
  ASSUME TypeOK, Departures, ~ShutDown, Counted, NEW w \in Workers, FinishTask(w)
  PROVE  Counted'
<1> USE DEF Goto, TypeOK, ControlTypes, Processes
<1>1. pc[w] = "finish" /\ why[w] \in {"task", "panic"}
  BY DEF FinishTask, Departures
<1>2. w \in Active
  BY <1>1 DEF Active
<1>3. /\ Cardinality(Active \ {w}) = Cardinality(Active) - 1
      /\ Cardinality(Active \ {w}) \in Nat
  BY <1>2, CountedAreFinite, FS_RemoveElement, FS_CardinalityType
<1>4. counter.right \in 1 .. RMod - 1 /\ counter.left \in Nat
  BY <1>3, CountedAreFinite DEF Counted, SharedTypes, Pair
<1>5. counter' = [counter EXCEPT !.right = counter.right - 1]
  <2>1. (counter.right - 1) % RMod = counter.right - 1
    BY <1>4, ModBelow
  <2> QED BY <2>1 DEF FinishTask, DecrementRight
<1>6. counter'.left = counter.left /\ counter'.right = counter.right - 1
  BY <1>4, <1>5 DEF SharedTypes, Pair
<1>7. /\ numPanics' = IF why[w] = "panic" THEN numPanics + 1 ELSE numPanics
      /\ pc'[w] = "has_work"
      /\ \A v \in Workers \ {w} : pc'[v] = pc[v]
      /\ UNCHANGED <<why, task, batch, queue, lost>>
  BY <1>4 DEF FinishTask, RightUnderflows, holdVars, channelVars
<1>8. /\ Waiting' = Waiting /\ Active' = Active \ {w}
      /\ Unwinding' = Unwinding \ {w}
      /\ w \in Unwinding <=> why[w] = "panic"
  BY <1>1, <1>7 DEF Waiting, Active, Unwinding
<1>9. Cardinality(Unwinding') = IF why[w] = "panic" THEN Cardinality(Unwinding) - 1
                                ELSE Cardinality(Unwinding)
  BY <1>8, CountedAreFinite, FS_RemoveElement
<1>10. numPanics \in Nat
  BY DEF SharedTypes
<1> QED BY <1>3, <1>6, <1>7, <1>8, <1>9, <1>10, CountedAreFinite DEF Counted

LEMMA WorkerCounts ==
  ASSUME TypeOK, Holding, Conserved, Departures, ~ShutDown, Counted,
         NEW w \in Workers, WorkerStep(w)
  PROVE  Counted' \/ ShutDown'
<1> USE DEF Goto, Move, Exit, TypeOK, ControlTypes, Processes, restVars, holdVars,
            channelVars
<1>1. CASE Boot(w) \/ PassResumeGate(w) \/ Poll(w) \/ LockReceiver(w) \/ RecvTimeout(w)
           \/ RecvDisconnected(w) \/ Respawn(w)
  <2>1. Uncounted
    BY <1>1, QuietMove DEF Boot, PassResumeGate, Poll, LockReceiver, RecvTimeout,
       RecvDisconnected, Respawn, Spawned
  <2> QED BY <2>1, QuietStep
<1>2. CASE Receive(w)
  BY <1>2, ReceiveCounts, QuietStep
<1>3. CASE TransferTask(w)
  BY <1>3, TransferCounts DEF ShutDown
<1>4. CASE Complete(w) \/ ReturnInput(w) \/ Panic(w)
  BY <1>4, EndTaskCounts
<1>5. CASE Cancel(w)
  <2>1. Uncounted
    BY <1>5 DEF Cancel, Uncounted, Waiting, Active, Unwinding
  <2> QED BY <2>1, QuietStep
<1>6. CASE FinishTask(w)
  BY <1>6, FinishCounts
<1>7. CASE HasWorkStep(w) \/ Notify(w)
  <2>1. /\ pc[w] \in {"has_work", "counts", "flag", "notify"}
        /\ UNCHANGED <<counter, numPanics, lost, queue, batch, task, why>>
    BY <1>7 DEF HasWorkStep, ReadPoisoned, ReadCounts, ReadSuspended, unreadVars, Notify
  <2>2. \E l \in {"counts", "flag"} \cup FinishLabels : Goto(w, l)
    <3>1. ASSUME NEW b \in BOOLEAN, Concludes(w, b) PROVE \E l \in FinishLabels : Goto(w, l)
      BY <3>1, ConcludesTypes
    <3>2. CASE HasWorkStep(w)
      BY <3>1, <3>2 DEF HasWorkStep, ReadPoisoned, ReadCounts, ReadSuspended
    <3>3. CASE Notify(w)
      BY <3>3, AfterFinishLabels DEF Notify, FinishLabels
    <3> QED BY <1>7, <3>2, <3>3
  <2>3. Uncounted
    BY <2>1, <2>2, QuietMove DEF FinishLabels
  <2> QED BY <2>3, QuietStep
<1>8. CASE Poison(w) \/ Drain(w)
  BY <1>8 DEF Poison, Drain, ShutDown, BrokenDown, Departures
<1> QED BY <1>1, <1>2, <1>3, <1>4, <1>5, <1>6, <1>7, <1>8 DEF WorkerStep, NextTask

(***************************************************************************)
(* What a handle does to the counts.                                       *)
(***************************************************************************)
\* New tasks are counted when they are prepared.  There is room for them in
\* the counter: it counts tasks, and there are less tasks than it can count.
LEMMA SubmitCounts ==
  ASSUME TypeOK, Conserved, Counted, NEW h \in Handles,
         NEW n \in 1 .. MaxBatch, NEW d \in Destinations, Submit(h, n, d)
  PROVE  Counted'
<1> DEFINE N == nextIndex .. nextIndex + n - 1
<1> USE DEF Goto, Calls, TypeOK, ControlTypes, Processes
<1>1. nextIndex \in Nat /\ n \in Nat /\ nextIndex + n <= MaxTasks /\ MaxTasks \in Nat
  BY DEF Submit, SharedTypes
<1>2. /\ batch[h] = <<>> /\ pc[h] = "idle"
      /\ batch'[h] = [i \in 1 .. n |-> nextIndex + i - 1]
      /\ \A g \in Handles \ {h} : batch'[g] = batch[g]
      /\ \A w \in Workers : pc'[w] = pc[w]
      /\ UNCHANGED <<queue, task, why, lost, numPanics>>
      /\ counter' = IncrementLeft(counter, n)
  BY DEF Submit, Conserved, HandsEmpty, channelVars
<1>3. Range(batch'[h]) = N /\ Range(batch[h]) = {}
  <2> DEFINE new == [i \in 1 .. n |-> nextIndex + i - 1]
  <2>1. \A i \in 1 .. n : new[i] \in N
    BY <1>1
  <2>2. \A t \in N : t - nextIndex + 1 \in 1 .. n /\ new[t - nextIndex + 1] = t
    BY <1>1
  <2>3. DOMAIN new = 1 .. n /\ batch'[h] = new
    BY <1>2
  <2> HIDE DEF new, N
  <2> QED BY <1>2, <2>1, <2>2, <2>3, EmptyRange DEF Range
<1>4. N \subseteq Tasks /\ \A t \in N : t \notin Prepared
  BY <1>1 DEF Tasks, Prepared
<1> HIDE DEF N
<1>5. \A t \in N : ~Somewhere(t)
  BY <1>4 DEF Conserved, Placed
<1>6. Waiting' = Waiting \cup N /\ Waiting \cap N = {}
  <2>1. Waiting' = Waiting \cup N
    BY <1>2, <1>3, <1>4 DEF Waiting
  <2>2. Waiting \cap N = {}
    BY <1>5 DEF Somewhere, InBatch, InQueue, Waiting
  <2> QED BY <2>1, <2>2
<1>7. IsFiniteSet(N) /\ Cardinality(N) = n
  BY <1>1, FS_Interval DEF N
<1>8. Cardinality(Waiting \cup N) = Cardinality(Waiting) + n
  <2>1. IsFiniteSet(Waiting) /\ Cardinality(Waiting \cap N) = 0
        /\ Cardinality(Waiting) \in Nat
    BY <1>6, CountedAreFinite, FS_EmptySet
  <2>2. Cardinality(Waiting \cup N)
          = Cardinality(Waiting) + Cardinality(N) - Cardinality(Waiting \cap N)
    BY <1>7, <2>1, FS_Union
  <2> QED BY <1>1, <1>7, <2>1, <2>2
<1>9. Cardinality(Waiting) + n <= MaxTasks
  <2>1. Waiting \cup N \in SUBSET Tasks
    BY <1>4 DEF Waiting
  <2> QED BY <1>8, <2>1, TasksFinite, FS_Subset
<1>10. counter' = [left |-> counter.left + n, right |-> counter.right]
  <2>1. ~LeftOverflows(counter, n)
    BY <1>1, <1>9 DEF LeftOverflows, Counted, SharedTypes, Pair
  <2> QED BY <1>2, <2>1 DEF IncrementLeft, SharedTypes, Pair
<1>11. Active' = Active /\ Unwinding' = Unwinding
  BY <1>2 DEF Active, Unwinding
<1> QED BY <1>2, <1>6, <1>8, <1>10, <1>11 DEF Counted

\* Sending a task does not change how many are queued.
LEMMA SendCounts ==
  ASSUME TypeOK, Holding, Conserved, NEW h \in Handles, Send(h)
  PROVE  Waiting' = Waiting
<1>1. batch[h] # <<>> /\ NextOfBatch(h)
  BY DEF Send, Holding
<1>2. /\ batch[h] \in Seq(Tasks) /\ IsInjective(batch[h])
      /\ queue \in Seq(Tasks) /\ Head(batch[h]) \in Tasks
  BY <1>1, NextOfBatchTypes DEF Conserved, NoRepeats, TypeOK, ControlTypes, SharedTypes
<1>3. /\ batch'[h] = Tail(batch[h])
      /\ \A g \in Handles \ {h} : batch'[g] = batch[g]
      /\ queue' = Append(queue, Head(batch[h]))
  BY <1>1 DEF NextOfBatch, Send, TypeOK, ControlTypes
<1>4. /\ Head(batch[h]) \in Range(batch[h])
      /\ Range(batch'[h]) = Range(batch[h]) \ {Head(batch[h])}
  BY <1>1, <1>2, <1>3, TailRange
<1>5. Range(queue') = Range(queue) \cup {Head(batch[h])}
  BY <1>2, <1>3, AppendRange
<1>6. \A w \in Workers : task'[w] = task[w] /\ pc'[w] = pc[w]
  <2>1. /\ UNCHANGED task \/ task' = [task EXCEPT ![h] = Head(batch[h])]
        /\ UNCHANGED pc \/ \E l \in {"await", "idle"} : Goto(h, l)
    BY <1>1, NextOfBatchTypes DEF TypeOK
  <2> QED BY <2>1 DEF Goto, TypeOK, ControlTypes, Processes
<1>7. \A t \in Tasks : (\E g \in Handles : t \in Range(batch'[g])) \/ t \in Range(queue')
                  <=> (\E g \in Handles : t \in Range(batch[g])) \/ t \in Range(queue)
  <2> SUFFICES ASSUME NEW t \in Tasks
      PROVE (\E g \in Handles : t \in Range(batch'[g])) \/ t \in Range(queue')
              <=> (\E g \in Handles : t \in Range(batch[g])) \/ t \in Range(queue)
    OBVIOUS
  <2>1. CASE t = Head(batch[h])
    BY <1>4, <1>5, <2>1
  <2>2. CASE t # Head(batch[h])
    <3>1. t \in Range(queue') <=> t \in Range(queue)
      BY <1>5, <2>2
    <3>2. \A g \in Handles : t \in Range(batch'[g]) <=> t \in Range(batch[g])
      BY <1>3, <1>4, <2>2
    <3> QED BY <3>1, <3>2
  <2> QED BY <2>1, <2>2
<1> QED BY <1>6, <1>7 DEF Waiting

\* What handles do otherwise changes no count.
LEMMA OtherHandleStep ==
  ASSUME TypeOK, Holding, NEW h \in Handles, ContinueCall(h) \/ StartCall(h)
  PROVE  \/ \E n \in 1 .. MaxBatch, d \in Destinations : Submit(h, n, d)
         \/ Refuse(h) \/ Drain(h) \/ Extract(h)
         \/ /\ UNCHANGED <<counter, numPanics, lost>>
            /\ Send(h) \/ UNCHANGED <<queue, batch>>
            /\ \A w \in Workers : task'[w] = task[w]
<1> USE DEF TypeOK, ControlTypes, Processes, Move, restVars, channelVars, holdVars
<1>1. CASE Admit(h) \/ ApplyReturns(h) \/ DropLast(h) \/ DropSender(h) \/ Poison(h)
  BY <1>1 DEF Admit, ApplyReturns, DropLast, DropSender, Poison
<1>2. CASE Send(h)
  <2>1. batch[h] # <<>> /\ NextOfBatch(h) /\ UNCHANGED <<counter, numPanics, lost>>
    BY <1>2 DEF Send, Holding
  <2>2. UNCHANGED task \/ task' = [task EXCEPT ![h] = Head(batch[h])]
    BY <2>1, NextOfBatchTypes
  <2>3. \A w \in Workers : task'[w] = task[w]
    BY <2>2
  <2> QED BY <1>2, <2>1, <2>3
<1>3. CASE HasWorkStep(h) \/ JoinStep(h)
  BY <1>3 DEF HasWorkStep, ReadPoisoned, ReadCounts, ReadSuspended, JoinStep, unreadVars
<1>4. CASE ReturnNone(h) \/ Drop(h) \/ Suspend(h) \/ Resume(h) \/ TakeStored(h) \/ HangUp(h)
  BY <1>4 DEF ReturnNone, Drop, ReleaseReferrer, Suspend, Resume, TakeStored, HangUp
<1>5. CASE Join(h) \/ TryIntoHusk(h)
  BY <1>5 DEF Join, TryIntoHusk, StartJoin
<1>6. ASSUME NEW w \in Workers, Grow(h, w)
      PROVE  UNCHANGED <<counter, numPanics, lost, queue, batch, task>>
  BY <1>6 DEF Grow
<1>7. ASSUME NEW g \in Handles, Clone(h, g)
      PROVE  UNCHANGED <<counter, numPanics, lost, queue, batch, task>>
  BY <1>7 DEF Clone
<1> QED BY <1>1, <1>2, <1>3, <1>4, <1>5, <1>6, <1>7 DEF ContinueCall, StartCall

LEMMA HandleCounts ==
  ASSUME TypeOK, Holding, Conserved, Departures, ~ShutDown, Counted,
         NEW h \in Handles, ContinueCall(h) \/ StartCall(h)
  PROVE  Counted'
<1>1. /\ \A w \in Workers : why'[w] = why[w]
      /\ \A w \in Workers :
           \/ pc'[w] = pc[w]
           \/ pc[w] = "absent" /\ pc'[w] \in {"boot", "dead"}
  <2>1. HandleMoves(h)
    BY HandleStepMoves
  <2>2. \A w \in Workers : why'[w] = why[w]
    BY HandleDeparts DEF Processes
  <2> QED BY <2>1, <2>2, HandleLeavesWorkers
<1>2. Active' = Active /\ Unwinding' = Unwinding
  BY <1>1 DEF Active, Unwinding
<1>3. ASSUME NEW n \in 1 .. MaxBatch, NEW d \in Destinations, Submit(h, n, d)
      PROVE  Counted'
  BY <1>3, SubmitCounts
<1>4. ~Refuse(h) /\ ~Drain(h)
  BY DEF Refuse, Drain, Departures, Processes, ShutDown
<1>5. ~Extract(h)
  <2> SUFFICES ASSUME Extract(h) PROVE FALSE
    OBVIOUS
  <2>1. \A g \in Handles : ~HoldsSender(g)
    BY DEF Extract, HoldsShared, HoldsSender, Processes, TypeOK, ControlTypes, HandlePoints
  <2> QED BY <2>1 DEF ShutDown, Connected
<1>6. ASSUME UNCHANGED <<counter, numPanics, lost>>,
             Send(h) \/ UNCHANGED <<queue, batch>>,
             \A w \in Workers : task'[w] = task[w]
      PROVE  Counted'
  <2>1. Waiting' = Waiting
    <3>1. CASE Send(h)
      BY <3>1, SendCounts
    <3>2. CASE UNCHANGED <<queue, batch>>
      BY <1>1, <1>6, <3>2 DEF Waiting
    <3> QED BY <1>6, <3>1, <3>2
  <2> QED BY <1>2, <1>6, <2>1 DEF Counted
<1> QED BY <1>3, <1>4, <1>5, <1>6, OtherHandleStep

-----------------------------------------------------------------------------
\* A hive begins with nothing to count.
LEMMA InitCounts == Init => CountInv
<1> SUFFICES ASSUME Init PROVE CountInv
  OBVIOUS
<1>1. \A p \in Processes : pc[p] \in {"idle", "boot", "absent"}
  <2>1. PICK first \in Handles, started \in SUBSET Workers :
          pc = [p \in Processes |-> IF p = first THEN "idle"
                                   ELSE IF p \in started THEN "boot" ELSE "absent"]
    BY DEF Init
  <2> QED BY <2>1
<1>2. /\ \A h \in Handles : batch[h] = <<>>
      /\ \A p \in Processes : why[p] = "none"
      /\ queue = <<>> /\ lost = {} /\ numPanics = 0 /\ counter = Zero
  BY DEF Init
<1>3. Departures
  BY <1>1, <1>2 DEF Departures, Processes
<1>4. Waiting = {} /\ Active = {} /\ Unwinding = {}
  BY <1>1, <1>2, EmptyRange DEF Waiting, Active, Unwinding, Processes
<1> QED BY <1>2, <1>3, <1>4, FS_EmptySet DEF CountInv, Counted, Zero

\* Every step keeps them exact.
LEMMA StepCounts == IInv /\ Conserved /\ CountInv /\ [Next]_vars => CountInv'
<1> SUFFICES ASSUME IInv, Conserved, CountInv, [Next]_vars PROVE CountInv'
  OBVIOUS
<1>1. TypeOK /\ Holding /\ Departures
  BY DEF IInv, CountInv
<1>2. CASE UNCHANGED vars
  BY <1>2 DEF CountInv, Departures, Counted, ShutDown, BrokenDown, Connected, HoldsSender,
              Waiting, Active, Unwinding, vars, restVars, flagVars, channelVars, holdVars
<1>3. CASE Next
  <2>1. Departures' /\ (ShutDown => ShutDown')
    BY <1>1, <1>3, StepDepartures, ShutDownStays
  <2>2. ASSUME ~ShutDown' PROVE Counted'
    <3>1. ~ShutDown /\ Counted
      BY <2>1, <2>2 DEF CountInv
    <3> QED BY <1>1, <1>2, <1>3, <2>2, <3>1, WorkerCounts, HandleCounts
            DEF Next, Rest, CountInv
  <2> QED BY <2>1, <2>2 DEF CountInv
<1> QED BY <1>2, <1>3

LEMMA AlwaysCounts == Safe => []CountInv
<1>1. IInv /\ Conserved /\ CountInv /\ [Next]_vars => CountInv'
  BY StepCounts
<1> QED BY <1>1, InitCounts, AlwaysIInv, AlwaysConserved, PTL DEF Safe

(***************************************************************************)
(* Until the hive is shut down, the queued counter is the number of tasks  *)
(* that were prepared and not transferred, the active counter the number   *)
(* of workers between transfer and decrement, and num_panics the number of *)
(* tasks lost whose thread has unwound: for any number of workers and      *)
(* clients, and any widths of the counters.  In particular no operation on *)
(* num_tasks overflows, underflows or carries into the other half.         *)
(***************************************************************************)
THEOREM CountersStayExact == Safe => []CountersExact
<1>1. CountInv => CountersExact
  BY DEF CountInv, Counted, CountersExact, Unwinding
<1> QED BY <1>1, AlwaysCounts, PTL

(***************************************************************************)
(* While clients use the hive no thread goes away, provided the operating  *)
(* system does not refuse to start one in the place of one that panicked.  *)
(***************************************************************************)
THEOREM PoolSizeKept ==
  ASSUME SpawnMayFail = FALSE
  PROVE  Safe => []PoolKeepsItsSize
<1>1. CountInv => PoolKeepsItsSize
  BY DEF CountInv, Departures, PoolKeepsItsSize
<1> QED BY <1>1, AlwaysCounts, PTL
===============================================================================
