----------------------------- MODULE HiveEndProofs -----------------------------
(***************************************************************************)
(* How a hive ends: who has a reference to it, when it is poisoned, what   *)
(* try_into_husk finds, and what a join that returns has waited for; and   *)
(* that the hive implements the task pool.                                 *)
(***************************************************************************)
EXTENDS HiveProofs, HivePool

\* The handles the number of referrers stands for.
Referring == {h \in Handles : pc[h] \notin {"absent", "dropping", "poison", "drain", "gone"}}

Joining(h) == pc[h] \in {"has_work", "counts", "flag", "join"}

\* Between the decision of try_into_husk that there is no other handle, and
\* the husk.
InHusk(h) == \/ pc[h] \in {"hang_up", "spin", "husk"}
             \/ Joining(h) /\ why[h] = "husk"

\* No handle is in use any more.
EndLabels == {"absent", "dropping", "poison", "drain", "gone", "spin", "husk"}
End == \A h \in Handles : pc[h] \in EndLabels

\* A handle is in wait_on_done exactly if it is in the join gate.
JoinPlaces ==
  \A h \in Handles :
    /\ at[h] # "out" <=> Joining(h)
    /\ at[h] \in {"pre", "test"} <=> pc[h] \in {"has_work", "counts", "flag"}
    /\ Joining(h) => why[h] \in {"join", "husk"}

JoinOp(h) == Ops[h] \cap {"join", "husk"} # {}

\* At most one handle ever waits in the join gate.
OneJoiner == \A g, h \in Handles : JoinOp(g) /\ JoinOp(h) => g = h

USE CounterAssumption, HiveAssumption

-----------------------------------------------------------------------------
(***************************************************************************)
(* What the steps do to the join gate and to the references.               *)
(***************************************************************************)
\* A worker only wakes sleepers.
LEMMA WorkerLeavesGate ==
  ASSUME TypeOK, NEW w \in Workers, WorkerStep(w)
  PROVE  /\ UNCHANGED <<saved, phase, owed>>
         /\ \A g \in Handles : at'[g] = at[g] \/ (at[g] = "parked" /\ at'[g] = "lock")
<1> USE DEF Move, restVars, joinVars
<1>1. CASE Notify(w)
  BY <1>1 DEF Notify, JoinGate!NotifyAll, TypeOK, JoinTypes
<1>2. CASE HasWorkStep(w)
  <2>1. ASSUME NEW b \in BOOLEAN, Concludes(w, b) PROVE UNCHANGED joinVars
    BY <2>1 DEF Concludes
  <2> QED BY <1>2, <2>1 DEF HasWorkStep, ReadPoisoned, ReadCounts, ReadSuspended
<1>3. CASE Boot(w) \/ NextTask(w) \/ Complete(w) \/ Cancel(w) \/ ReturnInput(w) \/ Panic(w)
           \/ FinishTask(w) \/ Respawn(w) \/ Poison(w) \/ Drain(w)
  BY <1>3 DEF Boot, NextTask, PassResumeGate, Poll, LockReceiver, Receive, RecvTimeout,
     RecvDisconnected, TransferTask, Complete, Cancel, ReturnInput, Panic, FinishTask,
     Respawn, Poison, Drain
<1> QED BY <1>1, <1>2, <1>3 DEF WorkerStep

\* Asks has_work again, or begins to.
ReadsOn(h) ==
  /\ \/ pc[h] = "has_work" /\ ~poisoned /\ Goto(h, "counts")
     \/ pc[h] = "counts" /\ counter.right = 0 /\ Goto(h, "flag")
  /\ UNCHANGED joinVars
  /\ UNCHANGED unreadVars

\* Has its answer.
Answered(h, work) ==
  /\ pc[h] \in {"has_work", "counts", "flag"}
  /\ ~work => \/ pc[h] = "has_work" /\ poisoned
              \/ pc[h] = "counts" /\ counter.right = 0 /\ counter.left = 0
              \/ pc[h] = "flag" /\ suspended
  /\ JoinGate!Evaluate(h, work)
  /\ FollowGate(h)
  /\ UNCHANGED unreadVars

\* Has nothing to do with the join gate.
Elsewhere(h) ==
  /\ pc[h] \notin {"has_work", "counts", "flag", "join", "absent", "gone", "husk"}
  /\ pc'[h] \notin {"has_work", "counts", "flag", "join"}
  /\ UNCHANGED <<at, saved, phase, why>>
  /\ \/ UNCHANGED owed
     \/ \A g \in Handles : owed'[g] = [active |-> owed[g].active, queued |-> {}]
  /\ ~suspended /\ suspended' => \A g \in Handles : owed'[g].queued = {}
  /\ pc'[h] = "hang_up" => pc[h] = "hang_up"
  /\ pc'[h] = "spin" => pc[h] = "hang_up"
  /\ pc'[h] = "husk" => Extract(h)
  /\ pc[h] \in EndLabels => pc'[h] \in EndLabels

LEMMA HandleStepJoins ==
  ASSUME TypeOK, Holding, NEW h \in Handles, ContinueCall(h) \/ StartCall(h)
  PROVE  \/ Elsewhere(h)
         \/ pc[h] = "idle" /\ JoinOp(h) /\ StartJoin(h, "join")
         \/ pc[h] = "idle" /\ JoinOp(h) /\ StartJoin(h, "husk") /\ referrers <= 1
         \/ ReadsOn(h)
         \/ \E b \in BOOLEAN : Answered(h, b)
         \/ JoinStep(h)
<1> USE DEF Move, Calls, restVars, joinVars, flagVars, Goto, TypeOK, ControlTypes,
            Processes, Elsewhere, EndLabels
<1>1. ASSUME NEW n \in 1 .. MaxBatch, NEW d \in Destinations, Submit(h, n, d)
      PROVE  Elsewhere(h)
  <2>1. /\ pc[h] = "idle" /\ pc'[h] = "admit"
        /\ UNCHANGED <<at, saved, phase, why, owed, suspended>>
    BY <1>1 DEF Submit
  <2> QED BY <2>1
<1>2. CASE Admit(h) \/ ApplyReturns(h) \/ DropLast(h) \/ DropSender(h) \/ Extract(h)
  BY <1>2 DEF Admit, ApplyReturns, DropLast, DropSender, Extract
<1>3. CASE Send(h) \/ Refuse(h)
  <2>1. /\ batch[h] # <<>> /\ NextOfBatch(h) /\ pc[h] \in {"send", "refuse"}
        /\ UNCHANGED <<at, saved, phase, why, owed, suspended>>
    BY <1>3 DEF Send, Refuse, Holding
  <2>2. UNCHANGED pc \/ \E l \in {"await", "idle"} : Goto(h, l)
    BY <2>1, NextOfBatchTypes
  <2>3. pc'[h] \in {"send", "refuse", "await", "idle"}
    BY <2>1, <2>2
  <2> QED BY <2>1, <2>3
<1>4. CASE HasWorkStep(h)
  <2>1. ASSUME NEW b \in BOOLEAN, Concludes(h, b)
        PROVE  JoinGate!Evaluate(h, b) /\ FollowGate(h)
    BY <2>1 DEF Concludes
  <2>2. CASE ReadPoisoned(h)
    <3>1. CASE ~poisoned /\ Move(h, "has_work", "counts")
      BY <3>1 DEF ReadsOn, unreadVars
    <3>2. CASE poisoned /\ pc[h] = "has_work" /\ Concludes(h, FALSE) /\ UNCHANGED unreadVars
      <4>1. Answered(h, FALSE)
        BY <2>1, <3>2 DEF Answered
      <4> QED BY <4>1
    <3> QED BY <2>2, <3>1, <3>2 DEF ReadPoisoned
  <2>3. CASE ReadCounts(h)
    <3>1. pc[h] = "counts" /\ UNCHANGED unreadVars
      BY <2>3 DEF ReadCounts
    <3>2. CASE Concludes(h, TRUE)
      <4>1. Answered(h, TRUE)
        BY <2>1, <3>1, <3>2 DEF Answered
      <4> QED BY <4>1
    <3>3. CASE counter.right = 0 /\ counter.left = 0 /\ Concludes(h, FALSE)
      <4>1. Answered(h, FALSE)
        BY <2>1, <3>1, <3>3 DEF Answered
      <4> QED BY <4>1
    <3>4. CASE counter.right = 0 /\ Goto(h, "flag") /\ UNCHANGED joinVars
      BY <3>1, <3>4 DEF ReadsOn
    <3> QED BY <2>3, <3>2, <3>3, <3>4 DEF ReadCounts
  <2>4. CASE ReadSuspended(h)
    <3>1. ASSUME NEW b \in BOOLEAN, b = ~suspended PROVE Concludes(h, b) => Answered(h, b)
      <4>1. ~b => suspended
        BY <3>1
      <4>2. pc[h] = "flag" /\ UNCHANGED unreadVars
        BY <2>4 DEF ReadSuspended
      <4> QED BY <2>1, <4>1, <4>2 DEF Answered
    <3>2. \E b \in BOOLEAN : b = ~suspended /\ Concludes(h, b)
      BY <2>4, Zenon DEF ReadSuspended
    <3>3. \E b \in BOOLEAN : Answered(h, b)
      BY <3>1, <3>2
    <3> QED BY <3>3
  <2> QED BY <1>4, <2>2, <2>3, <2>4 DEF HasWorkStep
<1>5. CASE ReturnNone(h) \/ Drop(h)
  BY <1>5 DEF ReturnNone, Drop, ReleaseReferrer
<1>6. CASE Poison(h) \/ Drain(h)
  BY <1>6 DEF Poison, Drain
<1>7. CASE Resume(h) \/ TakeStored(h) \/ HangUp(h)
  BY <1>7 DEF Resume, TakeStored, HangUp
<1>8. CASE Suspend(h)
  <2>1. /\ pc[h] = "idle" /\ UNCHANGED <<pc, at, saved, phase, why>>
        /\ owed' = [g \in Handles |-> [active |-> owed[g].active, queued |-> {}]]
    BY <1>8 DEF Suspend
  <2> QED BY <2>1
<1>9. CASE Join(h)
  BY <1>9 DEF Join, JoinOp
<1>10. CASE TryIntoHusk(h)
  <2>1. CASE Goto(h, "refused") /\ UNCHANGED restVars
    BY <1>10, <2>1 DEF TryIntoHusk
  <2> QED BY <1>10, <2>1 DEF TryIntoHusk, JoinOp
<1>11. ASSUME NEW w \in Workers, Grow(h, w) PROVE Elsewhere(h)
  <2>1. /\ pc[h] = "idle" /\ UNCHANGED <<at, saved, phase, why, owed, suspended>> /\ w # h
    BY <1>11 DEF Grow
  <2>2. \E l \in {"boot", "dead"} : Goto(w, l)
    BY <1>11 DEF Grow, Spawned
  <2>3. pc'[h] = "idle"
    BY <2>1, <2>2
  <2> QED BY <2>1, <2>3
<1>12. ASSUME NEW g \in Handles, Clone(h, g) PROVE Elsewhere(h)
  <2>1. /\ pc[h] = "idle" /\ UNCHANGED <<at, saved, phase, why, owed, suspended>>
        /\ pc'[h] = "idle"
    BY <1>12 DEF Clone
  <2> QED BY <2>1
<1> QED BY <1>1, <1>2, <1>3, <1>4, <1>5, <1>6, <1>7, <1>8, <1>9, <1>10, <1>11,
           <1>12 DEF ContinueCall, StartCall

\* A worker leaves the handles, and an empty channel, as they are.
LEMMA WorkerLeavesHandles ==
  ASSUME TypeOK, Holding, NEW w \in Workers, WorkerStep(w)
  PROVE  /\ \A h \in Handles : pc'[h] = pc[h]
         /\ Referring' = Referring /\ UNCHANGED <<referrers, nextIndex, suspended, suspends>>
         /\ queue = <<>> => queue' = <<>>
<1>1. \A h \in Handles : pc'[h] = pc[h]
  <2>1. UNCHANGED pc \/ \E l \in WorkerPoints : Goto(w, l)
    BY WorkerMoves
  <2> QED BY <2>1 DEF Goto, TypeOK, ControlTypes, Processes
<1>2. Referring' = Referring
  BY <1>1 DEF Referring
<1>3. UNCHANGED <<referrers, nextIndex, suspended, suspends>>
  BY WorkerMoves
<1>4. queue = <<>> => queue' = <<>>
  <2> USE DEF Move, restVars, channelVars
  <2>1. CASE Boot(w) \/ NextTask(w) \/ Complete(w) \/ Cancel(w) \/ ReturnInput(w) \/ Panic(w)
    BY <2>1 DEF Boot, NextTask, PassResumeGate, Poll, LockReceiver, Receive, RecvTimeout,
       RecvDisconnected, TransferTask, Complete, Cancel, ReturnInput, Panic
  <2>2. CASE FinishTask(w) \/ HasWorkStep(w) \/ Notify(w) \/ Respawn(w) \/ Poison(w) \/ Drain(w)
    BY <2>2 DEF FinishTask, Respawn, Poison, Drain, HasWorkStep, ReadPoisoned, ReadCounts,
       ReadSuspended, unreadVars, Notify
  <2> QED BY <2>1, <2>2 DEF WorkerStep
<1> QED BY <1>1, <1>2, <1>3, <1>4

\* A clone is one reference more, a drop or a refused husk one less.
ClonesTo(h, g) ==
  /\ pc[h] = "idle" /\ g \in Handles \ Referring
  /\ Referring' = Referring \cup {g}
  /\ referrers' = referrers + 1
Releases(h) ==
  /\ pc[h] \in {"idle", "refused"} /\ pc'[h] = "dropping"
  /\ Referring' = Referring \ {h}
  /\ referrers' = referrers - 1

LEMMA HandleRefers ==
  ASSUME TypeOK, Holding, NEW h \in Handles, ContinueCall(h) \/ StartCall(h)
  PROVE  \/ Referring' = Referring /\ UNCHANGED referrers
         \/ \E g \in Handles : ClonesTo(h, g)
         \/ Releases(h)
<1> USE DEF TypeOK, ControlTypes, Processes, Goto, Move, Calls, restVars, flagVars
<1>2. CASE ReturnNone(h) \/ Drop(h)
  <2>1. Releases(h)
    BY <1>2 DEF ReturnNone, Drop, ReleaseReferrer, Releases, Referring
  <2> QED BY <2>1
<1>3. ASSUME NEW g \in Handles, Clone(h, g) PROVE ClonesTo(h, g)
  BY <1>3 DEF Clone, ClonesTo, Referring
<1>4. ASSUME NEW w \in Workers, Grow(h, w) PROVE Referring' = Referring /\ UNCHANGED referrers
  <2>1. \E l \in {"boot", "dead"} : Goto(w, l)
    BY <1>4 DEF Grow, Spawned
  <2> QED BY <1>4, <2>1 DEF Grow, Referring
<1>5. ASSUME NEW n \in 1 .. MaxBatch, NEW d \in Destinations, Submit(h, n, d)
      PROVE  Referring' = Referring /\ UNCHANGED referrers
  <2>1. pc[h] = "idle" /\ Goto(h, "admit") /\ UNCHANGED referrers
    BY <1>5 DEF Submit
  <2> QED BY <2>1 DEF Referring
<1>6. CASE Admit(h) \/ ApplyReturns(h) \/ DropLast(h) \/ DropSender(h) \/ Extract(h)
  <2>1. /\ UNCHANGED referrers
        /\ \/ /\ pc[h] \in {"admit", "await", "hang_up", "spin"}
              /\ \E l \in {"refuse", "send", "idle", "spin", "husk"} : Goto(h, l)
           \/ pc[h] = "dropping" /\ \E l \in {"poison", "gone"} : Goto(h, l)
    BY <1>6 DEF Admit, ApplyReturns, DropLast, DropSender, Extract
  <2> QED BY <2>1 DEF Referring
<1>7. CASE Send(h) \/ Refuse(h)
  <2>1. batch[h] # <<>> /\ NextOfBatch(h) /\ pc[h] \in {"send", "refuse"} /\ UNCHANGED referrers
    BY <1>7 DEF Send, Refuse, Holding
  <2>2. UNCHANGED pc \/ \E l \in {"await", "idle"} : Goto(h, l)
    BY <2>1, NextOfBatchTypes
  <2> QED BY <2>1, <2>2 DEF Referring
<1>8. CASE HasWorkStep(h) \/ JoinStep(h)
  <2>1. pc[h] \in {"has_work", "counts", "flag", "join"} /\ UNCHANGED referrers
    BY <1>8 DEF HasWorkStep, ReadPoisoned, ReadCounts, ReadSuspended, JoinStep, unreadVars
  <2>2. \E l \in {"counts", "flag"} \cup JoinLabels : Goto(h, l)
    <3>1. CASE JoinStep(h)
      BY <3>1, GateStepTypes DEF JoinStep
    <3>2. ASSUME NEW b \in BOOLEAN, Concludes(h, b) PROVE \E l \in JoinLabels : Goto(h, l)
      BY <3>2, ConcludesTypes
    <3>3. CASE HasWorkStep(h)
      BY <3>2, <3>3 DEF HasWorkStep, ReadPoisoned, ReadCounts, ReadSuspended
    <3> QED BY <1>8, <3>1, <3>3
  <2> QED BY <2>1, <2>2 DEF Referring, JoinLabels
<1>9. CASE Poison(h) \/ Drain(h)
  <2>1. /\ UNCHANGED referrers /\ pc[h] \in {"poison", "drain"}
        /\ \E l \in {"drain", "gone"} : Goto(h, l)
    BY <1>9 DEF Poison, Drain
  <2> QED BY <2>1 DEF Referring
<1>10. CASE Join(h) \/ TryIntoHusk(h)
  <2>1. /\ UNCHANGED referrers /\ pc[h] = "idle"
        /\ \E l \in {"has_work", "refused"} : Goto(h, l)
    BY <1>10 DEF Join, TryIntoHusk, StartJoin
  <2> QED BY <2>1 DEF Referring
<1>11. CASE Suspend(h) \/ Resume(h) \/ TakeStored(h) \/ HangUp(h)
  BY <1>11 DEF Suspend, Resume, TakeStored, HangUp, Referring
<1> QED BY <1>2, <1>3, <1>4, <1>5, <1>6, <1>7, <1>8, <1>9, <1>10, <1>11
        DEF ContinueCall, StartCall

\* What a handle's part in the gate can be, and nobody else's.
GateMove(h) ==
  \/ /\ pc[h] \notin {"has_work", "counts", "flag", "join"}
     /\ pc'[h] \notin {"has_work", "counts", "flag", "join"}
     /\ UNCHANGED <<at, saved, phase, why>>
  \/ /\ at[h] = "out" /\ at' = [at EXCEPT ![h] = "pre"] /\ pc'[h] = "has_work"
     /\ pc[h] = "idle" /\ JoinOp(h) /\ UNCHANGED <<saved, phase>>
     /\ \E reason \in {"join", "husk"} :
          /\ why' = [why EXCEPT ![h] = reason]
          /\ reason = "husk" => referrers <= 1
  \/ /\ pc[h] \in {"has_work", "counts"} /\ pc'[h] \in {"counts", "flag"}
     /\ UNCHANGED <<at, saved, phase, why>>
  \/ /\ pc[h] \in {"has_work", "counts", "flag"} /\ UNCHANGED <<saved, phase, why>>
     /\ \/ at[h] = "pre" /\ at' = [at EXCEPT ![h] = "load"] /\ pc'[h] = "join"
        \/ at[h] = "pre" /\ at' = [at EXCEPT ![h] = "out"] /\ pc'[h] = AfterJoin(h)
        \/ at[h] = "test" /\ at' = [at EXCEPT ![h] = "parked"] /\ pc'[h] = "join"
        \/ at[h] = "test" /\ at' = [at EXCEPT ![h] = "leave"] /\ pc'[h] = "join"
  \/ /\ pc[h] = "join" /\ UNCHANGED why
     /\ \/ /\ at[h] = "load" /\ at' = [at EXCEPT ![h] = "lock"] /\ pc'[h] = "join"
           /\ saved' = [saved EXCEPT ![h] = phase] /\ UNCHANGED phase
        \/ /\ at[h] = "lock" /\ at' = [at EXCEPT ![h] = "test"] /\ pc'[h] = "has_work"
           /\ UNCHANGED <<saved, phase>>
        \/ /\ at[h] = "lock" /\ at' = [at EXCEPT ![h] = "out"] /\ pc'[h] = AfterJoin(h)
           /\ saved[h] # phase /\ UNCHANGED <<saved, phase>>
        \/ /\ at[h] = "leave" /\ at' = [at EXCEPT ![h] = "out"] /\ pc'[h] = AfterJoin(h)
           /\ UNCHANGED saved

LEMMA HandleGateMoves ==
  ASSUME TypeOK, Holding, NEW h \in Handles, ContinueCall(h) \/ StartCall(h)
  PROVE  GateMove(h)
<1> USE DEF TypeOK, ControlTypes, JoinTypes, Processes, Goto, JoinGate!Move
<1>1. CASE Elsewhere(h)
  BY <1>1 DEF Elsewhere, GateMove
<1>2. ASSUME NEW reason \in {"join", "husk"}, pc[h] = "idle", JoinOp(h), StartJoin(h, reason),
             reason = "husk" => referrers <= 1
      PROVE  GateMove(h)
  <2>1. /\ at[h] = "out" /\ at' = [at EXCEPT ![h] = "pre"] /\ pc'[h] = "has_work"
        /\ why' = [why EXCEPT ![h] = reason] /\ UNCHANGED <<saved, phase>>
    BY <1>2 DEF StartJoin, JoinGate!Arrive
  <2> QED BY <1>2, <2>1 DEF GateMove
<1>3. CASE ReadsOn(h)
  BY <1>3 DEF ReadsOn, joinVars, unreadVars, GateMove
<1>4. ASSUME NEW b \in BOOLEAN, Answered(h, b) PROVE GateMove(h)
  <2>1. pc[h] \in {"has_work", "counts", "flag"} /\ UNCHANGED <<saved, phase, why>>
    BY <1>4 DEF Answered, JoinGate!Evaluate, unreadVars
  <2>2. \/ at[h] = "pre" /\ at' = [at EXCEPT ![h] = "load"] /\ pc'[h] = "join"
        \/ at[h] = "pre" /\ at' = [at EXCEPT ![h] = "out"] /\ pc'[h] = AfterJoin(h)
        \/ at[h] = "test" /\ at' = [at EXCEPT ![h] = "parked"] /\ pc'[h] = "join"
        \/ at[h] = "test" /\ at' = [at EXCEPT ![h] = "leave"] /\ pc'[h] = "join"
    BY <1>4 DEF Answered, JoinGate!Evaluate, FollowGate
  <2> QED BY <2>1, <2>2 DEF GateMove
<1>5. CASE JoinStep(h)
  <2>1. pc[h] = "join" /\ UNCHANGED why
    BY <1>5 DEF JoinStep, unreadVars
  <2>2. CASE JoinGate!Load(h)
    BY <1>5, <2>1, <2>2 DEF JoinStep, JoinGate!Load, FollowGate, GateMove
  <2>3. CASE JoinGate!Lock(h)
    <3>1. CASE saved[h] = phase
      BY <1>5, <2>1, <2>3, <3>1 DEF JoinStep, JoinGate!Lock, FollowGate, GateMove
    <3>2. CASE saved[h] # phase
      BY <1>5, <2>1, <2>3, <3>2 DEF JoinStep, JoinGate!Lock, FollowGate, GateMove
    <3> QED BY <3>1, <3>2
  <2>4. CASE JoinGate!Leave(h)
    BY <1>5, <2>1, <2>4 DEF JoinStep, JoinGate!Leave, FollowGate, GateMove
  <2> QED BY <1>5, <2>2, <2>3, <2>4 DEF JoinStep
<1> QED BY <1>1, <1>2, <1>3, <1>4, <1>5, HandleStepJoins

\* The others in the gate stay where they are.
LEMMA GateMoveOthers ==
  ASSUME TypeOK, NEW h \in Handles, GateMove(h), NEW g \in Handles, g # h
  PROVE  at'[g] = at[g] /\ why'[g] = why[g] /\ saved'[g] = saved[g]
BY DEF GateMove, TypeOK, JoinTypes, ControlTypes, Processes

\* JoinPlaces is inductive.
LEMMA StepJoinPlaces ==
  ASSUME TypeOK, Holding, Departures, JoinPlaces, Next
  PROVE  JoinPlaces'
<1> USE DEF JoinPlaces, Joining
<1>1. ASSUME NEW w \in Workers, WorkerStep(w) PROVE JoinPlaces'
  <2>1. \A h \in Handles : pc'[h] = pc[h]
    BY <1>1, WorkerLeavesHandles
  <2>2. \A h \in Handles : why'[h] = why[h]
    BY <1>1, WorkerDeparts DEF Processes
  <2>3. \A h \in Handles : at'[h] = at[h] \/ (at[h] = "parked" /\ at'[h] = "lock")
    BY <1>1, WorkerLeavesGate
  <2> QED BY <2>1, <2>2, <2>3
<1>2. ASSUME NEW h \in Handles, ContinueCall(h) \/ StartCall(h) PROVE JoinPlaces'
  <2>1. GateMove(h) /\ HandleMoves(h)
    BY <1>2, HandleGateMoves, HandleStepMoves
  <2>2. ASSUME NEW g \in Handles, g # h
        PROVE  /\ at'[g] # "out" <=> Joining(g)'
               /\ at'[g] \in {"pre", "test"} <=> pc'[g] \in {"has_work", "counts", "flag"}
               /\ Joining(g)' => why'[g] \in {"join", "husk"}
    <3>1. at'[g] = at[g] /\ why'[g] = why[g]
      BY <2>1, <2>2, GateMoveOthers
    <3>2. pc'[g] = pc[g] \/ (pc[g] = "absent" /\ pc'[g] = "idle")
      BY <2>1, <2>2, HandleLeavesHandles
    <3> QED BY <3>1, <3>2
  <2>3. /\ at'[h] # "out" <=> Joining(h)'
        /\ at'[h] \in {"pre", "test"} <=> pc'[h] \in {"has_work", "counts", "flag"}
        /\ Joining(h)' => why'[h] \in {"join", "husk"}
    BY <2>1 DEF GateMove, AfterJoin, TypeOK, JoinTypes, ControlTypes, Processes
  <2> QED BY <2>2, <2>3
<1>3. CASE Rest
  BY <1>3 DEF Rest, vars, restVars, joinVars
<1> QED BY <1>1, <1>2, <1>3 DEF Next

-----------------------------------------------------------------------------
(***************************************************************************)
(* The references.                                                         *)
(***************************************************************************)
\* The last reference was released by a handle that is poisoning the hive,
\* or has.
Closing == \/ \E h \in Handles : pc[h] \in {"dropping", "poison", "drain"}
           \/ poisoned /\ queue = <<>>

Referred ==
  /\ IsFiniteSet(Referring) /\ referrers = Cardinality(Referring)
  /\ Referring = {} => Closing
  /\ \A h \in Handles : InHusk(h) => Referring = {h}
  /\ \A h \in Handles : pc[h] = "poison" => Referring = {}

\* A handle that finds no other is the only one.
LEMMA OnlyReference ==
  ASSUME Referred, NEW h \in Handles, h \in Referring, referrers <= 1
  PROVE  Referring = {h}
<1>1. {h} \in SUBSET Referring /\ IsFiniteSet(Referring) /\ Cardinality(Referring) <= 1
  BY DEF Referred
<1>2. Cardinality({h}) = 1 /\ Cardinality(Referring) \in Nat
  BY <1>1, FS_Singleton, FS_CardinalityType
<1>3. Cardinality({h}) <= Cardinality(Referring)
  BY <1>1, FS_Subset
<1>4. Cardinality(Referring) = Cardinality({h})
  BY <1>1, <1>2, <1>3
<1> QED BY <1>1, <1>4, FS_Subset

\* The number of references is right, and who uses a handle has one.
LEMMA HandleReferences ==
  ASSUME TypeOK, Holding, Referred, NEW h \in Handles, ContinueCall(h) \/ StartCall(h)
  PROVE  /\ IsFiniteSet(Referring') /\ referrers' = Cardinality(Referring')
         /\ Referring' # Referring => h \in Referring
         /\ \A g \in Handles : Referring = {g} =>
              \/ Referring' = {g}
              \/ g = h /\ pc[h] \in {"idle", "refused"}
<1>1. CASE Referring' = Referring /\ UNCHANGED referrers
  BY <1>1 DEF Referred
<1>2. ASSUME NEW g \in Handles, ClonesTo(h, g)
      PROVE  /\ IsFiniteSet(Referring') /\ referrers' = Cardinality(Referring')
             /\ h \in Referring /\ pc[h] = "idle"
  <2>1. IsFiniteSet(Referring) /\ g \notin Referring
    BY <1>2 DEF ClonesTo, Referred
  <2>2. /\ IsFiniteSet(Referring \cup {g})
        /\ Cardinality(Referring \cup {g}) = Cardinality(Referring) + 1
    BY <2>1, FS_AddElement
  <2>3. h \in Referring /\ pc[h] = "idle"
    BY <1>2 DEF ClonesTo, Referring
  <2> QED BY <1>2, <2>2, <2>3 DEF ClonesTo, Referred
<1>3. ASSUME Releases(h)
      PROVE  /\ IsFiniteSet(Referring') /\ referrers' = Cardinality(Referring')
             /\ h \in Referring /\ pc[h] \in {"idle", "refused"}
  <2>1. IsFiniteSet(Referring) /\ h \in Referring
    BY <1>3 DEF Releases, Referred, Referring
  <2>2. /\ IsFiniteSet(Referring \ {h})
        /\ Cardinality(Referring \ {h}) = Cardinality(Referring) - 1
    BY <2>1, FS_RemoveElement
  <2> QED BY <1>3, <2>1, <2>2 DEF Releases, Referred
<1>4. ASSUME NEW g \in Handles, Referring = {g}, h \in Referring PROVE g = h
  BY <1>4
<1> QED BY <1>1, <1>2, <1>3, <1>4, HandleRefers

\* The last handle closes the hive and empties the channel.
LEMMA HandleCloses ==
  ASSUME TypeOK, Holding, Departures, Referred, NEW h \in Handles,
         ContinueCall(h) \/ StartCall(h), Referring' = {}
  PROVE  Closing'
<1>1. HandleMoves(h) /\ (poisoned => poisoned')
  BY HandleStepMoves
<1>2. CASE Referring # {}
  <2>1. Releases(h)
    <3>1. \A g \in Handles : ~ClonesTo(h, g)
      BY DEF ClonesTo
    <3> QED BY <1>2, <3>1, HandleRefers
  <2> QED BY <2>1 DEF Releases, Closing
<1>3. CASE Referring = {}
  <2>1. pc[h] \in {"absent", "gone", "dropping", "poison", "drain"}
    BY <1>3 DEF Referring
  <2>2. DropLast(h) \/ Poison(h) \/ Drain(h)
    BY <2>1 DEF ContinueCall, StartCall, Admit, Send, Refuse, ApplyReturns, HasWorkStep,
       ReadPoisoned, ReadCounts, ReadSuspended, Move, JoinStep, ReturnNone, DropSender,
       Extract, Calls, Submit, Join, Suspend, Resume, TakeStored, HangUp, Grow, Clone,
       Drop, TryIntoHusk
  <2>3. referrers = 0
    BY <1>3, FS_EmptySet DEF Referred
  <2>4. CASE DropLast(h) \/ Poison(h)
    <3>1. pc'[h] \in {"poison", "drain"}
      BY <2>3, <2>4 DEF DropLast, Poison, Move, Goto, TypeOK, ControlTypes, Processes
    <3> QED BY <3>1 DEF Closing
  <2>5. CASE Drain(h)
    <3>1. poisoned' /\ queue' = <<>>
      BY <1>1, <2>5 DEF Drain, Departures, Processes
    <3> QED BY <3>1 DEF Closing
  <2> QED BY <2>2, <2>4, <2>5
<1> QED BY <1>2, <1>3

\* Only the one reference there is becomes a husk.
LEMMA HandleToHusk ==
  ASSUME TypeOK, Holding, JoinPlaces, Referred, NEW h \in Handles,
         ContinueCall(h) \/ StartCall(h), NEW g \in Handles, InHusk(g)'
  PROVE  /\ Referring' = {g}
         /\ InHusk(g) \/ (g = h /\ pc[g] = "idle" /\ at'[g] = "pre")
<1>1. GateMove(h) /\ HandleMoves(h)
  BY HandleGateMoves, HandleStepMoves
<1>2. CASE g # h
  <2>1. pc'[g] = pc[g] \/ (pc[g] = "absent" /\ pc'[g] = "idle")
    BY <1>1, <1>2, HandleLeavesHandles
  <2>2. why'[g] = why[g]
    BY <1>1, <1>2, GateMoveOthers
  <2>3. InHusk(g)
    BY <2>1, <2>2 DEF InHusk, Joining
  <2> QED BY <1>2, <2>3, HandleReferences DEF Referred
<1>3. CASE g = h
  <2>1. CASE InHusk(h)
    <3>1. pc[h] \notin {"idle", "refused"} /\ Referring = {h}
      BY <2>1 DEF InHusk, Joining, Referred
    <3> QED BY <1>3, <2>1, <3>1, HandleReferences
  <2>2. CASE ~InHusk(h)
    <3>1. /\ pc[h] = "idle" /\ at'[h] = "pre" /\ pc'[h] = "has_work" /\ referrers <= 1
      <4>1. pc'[h] \in {"hang_up", "spin", "husk"} => pc[h] \in {"hang_up", "spin"} \/ Joining(h)
        BY HandleStepJoins DEF Elsewhere, Extract, StartJoin, ReadsOn, Answered, JoinStep,
           Joining, Goto, TypeOK, ControlTypes, Processes
      <4> QED BY <1>1, <1>3, <2>2, <4>1 DEF GateMove, InHusk, Joining, AfterJoin, JoinPlaces,
                 TypeOK, ControlTypes, JoinTypes, Processes
    <3>2. Referring = {h}
      BY <3>1, OnlyReference DEF Referring
    <3>3. Referring' = Referring
      <4>1. ~Releases(h) /\ \A f \in Handles : ~ClonesTo(h, f)
        <5>1. ~Releases(h)
          BY <3>1 DEF Releases
        <5>2. ASSUME NEW f \in Handles, ClonesTo(h, f) PROVE FALSE
          <6>1. referrers' = referrers + 1
            BY <5>2 DEF ClonesTo
          <6>2. UNCHANGED referrers
            BY <3>1, HandleStepJoins DEF Elsewhere, StartJoin, ReadsOn, Answered, JoinStep,
               unreadVars, flagVars
          <6> QED BY <6>1, <6>2 DEF TypeOK, SharedTypes
        <5> QED BY <5>1, <5>2
      <4> QED BY <4>1, HandleRefers
    <3> QED BY <1>3, <3>1, <3>2, <3>3
  <2> QED BY <2>1, <2>2
<1> QED BY <1>2, <1>3

\* Referred is inductive.
LEMMA StepReferred ==
  ASSUME TypeOK, Holding, Departures, JoinPlaces, Referred, Next
  PROVE  Referred'
<1>1. ASSUME NEW w \in Workers, WorkerStep(w) PROVE Referred'
  <2>1. /\ \A h \in Handles : pc'[h] = pc[h] /\ why'[h] = why[h]
        /\ Referring' = Referring /\ UNCHANGED referrers
        /\ queue = <<>> => queue' = <<>>
        /\ poisoned => poisoned'
    <3>1. \A h \in Handles : why'[h] = why[h]
      BY <1>1, WorkerDeparts DEF Processes
    <3> QED BY <1>1, <3>1, WorkerLeavesHandles, WorkerMoves
  <2>2. \A h \in Handles : InHusk(h)' <=> InHusk(h)
    BY <2>1 DEF InHusk, Joining
  <2>3. Closing => Closing'
    BY <2>1 DEF Closing
  <2> QED BY <2>1, <2>2, <2>3 DEF Referred
<1>2. ASSUME NEW h \in Handles, ContinueCall(h) \/ StartCall(h) PROVE Referred'
  <2>1. IsFiniteSet(Referring') /\ referrers' = Cardinality(Referring')
    BY <1>2, HandleReferences
  <2>2. Referring' = {} => Closing'
    BY <1>2, HandleCloses
  <2>3. \A g \in Handles : InHusk(g)' => Referring' = {g}
    BY <1>2, HandleToHusk
  <2>4. ASSUME NEW g \in Handles, pc'[g] = "poison" PROVE Referring' = {}
    <3>1. HandleMoves(h)
      BY <1>2, HandleStepMoves
    <3>2. pc[g] = "poison" \/ referrers = 0
      BY <2>4, <3>1, HandleLeavesHandles
    <3>3. Referring = {}
      BY <3>2, FS_EmptySet DEF Referred
    <3> QED BY <1>2, <3>3, HandleReferences
  <2> QED BY <2>1, <2>2, <2>3, <2>4 DEF Referred
<1>3. CASE Rest
  BY <1>3 DEF Rest, vars, restVars, flagVars, channelVars, Referred, Referring, Closing,
     InHusk, Joining
<1> QED BY <1>1, <1>2, <1>3 DEF Next

-----------------------------------------------------------------------------
(***************************************************************************)
(* What the counters tell those who read them.                             *)
(***************************************************************************)
\* The active counter can count all workers.
Few == Cardinality(Workers) < RMod

\* While the counters are exact no transfer fails.
LEMMA TransferSucceeds ==
  ASSUME Few, TypeOK, Holding, Counted, NEW w \in Workers, pc[w] = "transfer"
  PROVE  ~TransferFails(counter, 1)
<1>1. task[w] \in Waiting /\ w \notin Active
  BY DEF Waiting, Active, Holding
<1>2. Cardinality(Waiting) # 0
  <2>1. IsFiniteSet(Waiting) /\ Waiting # {}
    BY <1>1, CountedAreFinite
  <2> QED BY <2>1, FS_EmptySet
<1>3. Cardinality(Active) + 1 <= Cardinality(Workers)
  <2>1. IsFiniteSet(Active)
    BY CountedAreFinite
  <2>2. Cardinality(Active \cup {w}) = Cardinality(Active) + 1
    BY <1>1, <2>1, FS_AddElement
  <2>3. Active \cup {w} \in SUBSET Workers
    BY DEF Active
  <2>4. Cardinality(Active \cup {w}) <= Cardinality(Workers)
    BY <2>3, FS_Subset
  <2> QED BY <2>2, <2>4
<1>4. Cardinality(Workers) \in Nat
  BY FS_CardinalityType
<1>5. Cardinality(Waiting) \in Nat /\ Cardinality(Active) \in Nat
  BY CountedAreFinite
<1> QED BY <1>2, <1>3, <1>4, <1>5 DEF TransferFails, LeftUnderflows, RightOverflows, Counted, Few

\* When no task is active, none is being executed ...
LEMMA NoneActive ==
  ASSUME TypeOK, Counted, counter.right = 0
  PROVE  Executing = {}
<1>1. Active = {}
  BY CountedAreFinite, FS_EmptySet DEF Counted
<1> QED BY <1>1 DEF Active, Executing

\* ... and when none is queued either, all have an outcome or are lost.
LEMMA NothingLeft ==
  ASSUME TypeOK, Conserved, Counted, counter.right = 0, counter.left = 0
  PROVE  Prepared \subseteq Resolved
<1>1. Active = {} /\ Waiting = {}
  BY CountedAreFinite, FS_EmptySet DEF Counted
<1>2. Prepared \subseteq Tasks
  BY DEF Prepared, Tasks, TypeOK, SharedTypes
<1>3. ASSUME NEW t \in Prepared PROVE Ended(t)
  <2>1. t \in Tasks /\ Somewhere(t)
    BY <1>2 DEF Conserved, Placed
  <2>2. ~InQueue(t) /\ \A h \in Handles : ~InBatch(t, h)
    BY <1>1, <2>1 DEF Waiting, InQueue, InBatch
  <2>3. ASSUME NEW w \in Workers, task[w] = t PROVE FALSE
    <3>1. pc[w] \in {"transfer", "apply", "cancelled"}
      BY <2>1, <2>3 DEF Conserved, HandsEmpty, NoTask, Tasks
    <3> QED BY <1>1, <2>1, <2>3, <3>1 DEF Waiting, Active
  <2> QED BY <2>1, <2>2, <2>3 DEF Somewhere
<1> QED BY <1>2, <1>3 DEF Resolved, Ended

\* What is resolved is not held by anybody.
LEMMA ResolvedIsNowhereElse ==
  ASSUME TypeOK, Conserved, Prepared \subseteq Resolved
  PROVE  /\ Range(queue) = {}
         /\ \A w \in Workers : task[w] \notin Tasks
         /\ \A h \in Handles : Range(batch[h]) = {}
<1>1. \A t \in Tasks : Somewhere(t) => Ended(t)
  BY DEF Conserved, Placed, Resolved, Ended
<1>2. \A t \in Tasks : /\ ~InQueue(t) /\ \A h \in Handles : ~InBatch(t, h)
                       /\ \A w \in Workers : task[w] # t
  BY <1>1 DEF Conserved, Exclusive, Alone, Somewhere
<1>3. Range(queue) \subseteq Tasks /\ \A h \in Handles : Range(batch[h]) \subseteq Tasks
  BY RangeOfTasks DEF TypeOK, SharedTypes, ControlTypes
<1> QED BY <1>2, <1>3 DEF InQueue, InBatch

\* As long as a handle is in use the counters are exact, unless the hive was
\* poisoned or has broken down.
LEMMA InUseCounted ==
  ASSUME CountInv, ~poisoned, ~BrokenDown, NEW h \in Handles, HoldsSender(h)
  PROVE  Counted
BY DEF CountInv, ShutDown, Connected

-----------------------------------------------------------------------------
(***************************************************************************)
(* PoisonedOnlyAtTheEnd.                                                   *)
(***************************************************************************)
NotEarly == poisoned \/ BrokenDown => End

\* The end does not end.
LEMMA EndStays ==
  ASSUME TypeOK, Holding, End, Next
  PROVE  End'
<1>1. ASSUME NEW w \in Workers, WorkerStep(w) PROVE End'
  BY <1>1, WorkerLeavesHandles DEF End
<1>2. ASSUME NEW h \in Handles, ContinueCall(h) \/ StartCall(h) PROVE End'
  <2>1. HandleMoves(h) /\ pc[h] \in EndLabels
    BY <1>2, HandleStepMoves DEF End
  <2>2. Elsewhere(h)
    BY <1>2, <2>1, HandleStepJoins DEF ReadsOn, Answered, JoinStep, EndLabels
  <2>3. \A g \in Handles : pc'[g] = pc[g] \/ g = h
    BY <2>1, HandleLeavesHandles DEF EndLabels
  <2> QED BY <2>1, <2>2, <2>3 DEF End, Elsewhere
<1>3. CASE Rest
  BY <1>3 DEF Rest, vars, End
<1> QED BY <1>1, <1>2, <1>3 DEF Next

\* When the last sender is gone, or the last reference, it is the end.
LEMMA EndReached ==
  /\ ~Connected => End
  /\ Referring = {} => End
BY DEF Connected, HoldsSender, Referring, End, EndLabels

LEMMA StepNotEarly ==
  ASSUME Few, TypeOK, Holding, CountInv, Referred, NotEarly, Next
  PROVE  NotEarly'
<1>1. CASE End
  BY <1>1, EndStays DEF NotEarly
<1>2. CASE ~End
  <2>1. ~poisoned /\ ~BrokenDown /\ Connected /\ Referring # {}
    BY <1>2, EndReached DEF NotEarly
  <2>2. Counted
    BY <2>1 DEF CountInv, ShutDown
  <2>3. \A h \in Handles : pc[h] # "poison"
    BY <2>1 DEF Referred
  <2>4. ASSUME NEW w \in Workers, WorkerStep(w) PROVE ~poisoned' /\ ~BrokenDown'
    <3>1. pc[w] # "poison" /\ ~poisoned'
      BY <2>1, <2>4, WorkerMoves DEF BrokenDown
    <3>2. \A v \in Workers \ {w} : pc'[v] = pc[v]
      BY <2>4, WorkerMoves DEF Goto, TypeOK, ControlTypes, Processes
    <3>3. pc'[w] # "poison"
      <4>1. CASE TransferTask(w)
        <5>1. ~TransferFails(counter, 1)
          BY <2>2, <4>1, TransferSucceeds DEF TransferTask
        <5> QED BY <4>1, <5>1 DEF TransferTask, Goto, TypeOK, ControlTypes, Processes
      <4>2. CASE FinishTask(w)
        BY <4>2 DEF FinishTask, Abort, Goto, TypeOK, ControlTypes, Processes
      <4>3. CASE HasWorkStep(w) \/ Notify(w)
        <5>1. \E l \in {"counts", "flag"} \cup FinishLabels \cup JoinLabels : Goto(w, l)
          BY <4>3, HasWorkMoves, AfterFinishLabels DEF Notify, FinishLabels, Processes
        <5> QED BY <5>1 DEF FinishLabels, JoinLabels, Goto, TypeOK, ControlTypes, Processes
      <4>4. CASE Boot(w) \/ PassResumeGate(w) \/ Poll(w) \/ LockReceiver(w) \/ Receive(w)
                 \/ RecvTimeout(w) \/ RecvDisconnected(w) \/ Complete(w) \/ Cancel(w)
                 \/ ReturnInput(w) \/ Panic(w) \/ Respawn(w) \/ Poison(w) \/ Drain(w)
        BY <4>4 DEF Boot, PassResumeGate, Poll, LockReceiver, Receive, RecvTimeout,
           RecvDisconnected, Complete, Cancel, ReturnInput, Panic, Respawn, Spawned, Poison,
           Drain, Exit, EndTask, Move, Goto, TypeOK, ControlTypes, Processes
      <4> QED BY <2>4, <4>1, <4>2, <4>3, <4>4 DEF WorkerStep, NextTask
    <3> QED BY <2>1, <3>1, <3>2, <3>3 DEF BrokenDown
  <2>5. ASSUME NEW h \in Handles, ContinueCall(h) \/ StartCall(h)
        PROVE  ~poisoned' /\ ~BrokenDown'
    <3>1. HandleMoves(h) /\ ~poisoned'
      BY <2>1, <2>3, <2>5, HandleStepMoves
    <3> QED BY <2>1, <3>1, HandleLeavesWorkers DEF BrokenDown
  <2>6. CASE Rest
    BY <2>1, <2>6 DEF Rest, vars, restVars, flagVars, BrokenDown, NotEarly
  <2> QED BY <2>1, <2>4, <2>5, <2>6 DEF Next, NotEarly, BrokenDown
<1> QED BY <1>1, <1>2

-----------------------------------------------------------------------------
(***************************************************************************)
(* The phase of the join gate, and the husk.                               *)
(***************************************************************************)
\* Who waits alone in the join gate sees the phase it saved: only another
\* waiter could move it on.
SamePhase ==
  \A h \in Handles :
    /\ at[h] # "out" => JoinOp(h)
    /\ (OneJoiner \/ InHusk(h)) /\ at[h] \in {"lock", "test", "parked", "leave"}
         => saved[h] = phase

LEMMA StepSamePhase ==
  ASSUME TypeOK, Holding, Departures, JoinPlaces, Referred, SamePhase, Next
  PROVE  SamePhase'
<1>1. ASSUME NEW w \in Workers, WorkerStep(w) PROVE SamePhase'
  <2>1. \A h \in Handles : pc'[h] = pc[h] /\ why'[h] = why[h]
    BY <1>1, WorkerLeavesHandles, WorkerDeparts DEF Processes
  <2>2. \A h \in Handles : InHusk(h)' <=> InHusk(h)
    BY <2>1 DEF InHusk, Joining
  <2> QED BY <1>1, <2>2, WorkerLeavesGate DEF SamePhase
<1>2. ASSUME NEW h \in Handles, ContinueCall(h) \/ StartCall(h) PROVE SamePhase'
  <2>1. GateMove(h)
    BY <1>2, HandleGateMoves
  <2>2. ASSUME NEW g \in Handles, InHusk(g)', at'[g] # "pre" PROVE InHusk(g)
    BY <1>2, <2>2, HandleToHusk
  <2>3. ASSUME NEW g \in Handles, g # h
        PROVE  /\ at'[g] # "out" => JoinOp(g)
               /\ (OneJoiner \/ InHusk(g)') /\ at'[g] \in {"lock", "test", "parked", "leave"}
                    => saved'[g] = phase'
    <3>1. at'[g] = at[g] /\ saved'[g] = saved[g]
      BY <2>1, <2>3, GateMoveOthers
    <3>2. CASE UNCHANGED phase
      BY <2>2, <3>1, <3>2 DEF SamePhase
    <3>3. CASE pc[h] = "join" /\ at[h] = "leave"
      <4>1. JoinOp(h)
        BY <3>3 DEF SamePhase
      <4>2. at[g] # "out" => ~OneJoiner
        BY <2>3, <4>1 DEF SamePhase, OneJoiner
      <4>3. ~InHusk(g)
        BY <2>3, <3>3 DEF Referred, Referring
      <4> QED BY <2>2, <3>1, <4>2, <4>3 DEF SamePhase
    <3> QED BY <2>1, <3>2, <3>3 DEF GateMove
  <2>4. /\ at'[h] # "out" => JoinOp(h)
        /\ (OneJoiner \/ InHusk(h)') /\ at'[h] \in {"lock", "test", "parked", "leave"}
             => saved'[h] = phase'
    <3>1. at'[h] # "out" => JoinOp(h)
      BY <2>1 DEF GateMove, SamePhase, TypeOK, JoinTypes
    <3>2. ASSUME at'[h] \in {"lock", "test", "parked", "leave"}, OneJoiner \/ InHusk(h)'
          PROVE  saved'[h] = phase'
      <4>1. OneJoiner \/ InHusk(h)
        BY <2>2, <3>2
      <4> QED BY <2>1, <3>2, <4>1 DEF GateMove, SamePhase, TypeOK, JoinTypes
    <3> QED BY <3>1, <3>2
  <2> QED BY <2>3, <2>4 DEF SamePhase
<1>3. CASE Rest
  <2>1. \A h \in Handles : InHusk(h)' <=> InHusk(h)
    BY <1>3 DEF Rest, vars, restVars, InHusk, Joining
  <2> QED BY <1>3, <2>1 DEF Rest, vars, restVars, joinVars, SamePhase
<1> QED BY <1>1, <1>2, <1>3 DEF Next

\* Nobody but its owner is left of a husk, and all tasks have an outcome.
HuskAlone ==
  \A h \in Handles : pc[h] = "husk" =>
    /\ \A p \in Processes \ {h} : pc[p] \in {"absent", "dead", "gone"}
    /\ Prepared \subseteq Resolved

\* When nobody can hold a task, those that were prepared are resolved.
LEMMA NobodyHolds ==
  ASSUME TypeOK', Conserved', queue' = <<>>,
         \A w \in Workers : pc'[w] \in {"absent", "dead", "gone"},
         \A h \in Handles : pc'[h] \in {"absent", "dead", "gone", "husk"}
  PROVE  (Prepared \subseteq Resolved)'
<1>1. \A t \in Tasks : ~InQueue(t)' /\ \A h \in Handles : ~InBatch(t, h)'
  BY EmptyRange DEF Conserved, HandsEmpty, InQueue, InBatch
<1>2. \A t \in Tasks, w \in Workers : task'[w] # t
  BY DEF Conserved, HandsEmpty, NoTask, Tasks
<1>3. \A t \in Tasks : Somewhere(t)' => Ended(t)'
  BY <1>1, <1>2 DEF Somewhere
<1>4. \A t \in Prepared' : t \in Tasks
  <2>1. nextIndex' \in 0 .. MaxTasks /\ MaxTasks \in Nat
    BY DEF TypeOK, SharedTypes
  <2>2. ASSUME NEW t \in 0 .. nextIndex' - 1 PROVE t \in 0 .. MaxTasks - 1
    BY <2>1
  <2> QED BY <2>2 DEF Prepared, Tasks
<1>5. \A t \in Prepared' : Ended(t)'
  BY <1>3, <1>4 DEF Conserved, Placed
<1> QED BY <1>4, <1>5 DEF Resolved, Ended

LEMMA StepHuskAlone ==
  ASSUME TypeOK, TypeOK', Holding, Conserved, Conserved', Referred, HuskAlone, Next
  PROVE  HuskAlone'
<1>1. ASSUME NEW h \in Handles, pc[h] = "husk" PROVE HuskAlone'
  <2>1. /\ \A p \in Processes \ {h} : pc[p] \in {"absent", "dead", "gone"}
        /\ Prepared \subseteq Resolved
    BY <1>1 DEF HuskAlone
  <2>2. ASSUME NEW w \in Workers, WorkerStep(w) PROVE FALSE
    <3>1. pc[w] \in {"absent", "dead"}
      BY <2>1, <1>1 DEF Processes, TypeOK, ControlTypes, WorkerPoints
    <3> QED BY <2>2, <3>1, WorkerMoves
  <2>3. ASSUME NEW g \in Handles, ContinueCall(g) \/ StartCall(g) PROVE FALSE
    <3>1. pc[g] \in {"absent", "gone", "husk"}
      BY <2>1, <1>1 DEF Processes, TypeOK, ControlTypes, HandlePoints
    <3> QED BY <2>3, <3>1, HandleStepJoins DEF Elsewhere, StartJoin, ReadsOn, Answered, JoinStep
  <2>4. Rest
    BY <2>2, <2>3 DEF Next
  <2> QED BY <2>4 DEF Rest, vars, restVars, taskVars, outcomeVars, HuskAlone, Prepared, Resolved
<1>2. ASSUME NEW h \in Handles, pc[h] # "husk", pc'[h] = "husk"
      PROVE  /\ \A p \in Processes \ {h} : pc'[p] \in {"absent", "dead", "gone"}
             /\ (Prepared \subseteq Resolved)'
  <2>1. ~\E w \in Workers : WorkerStep(w)
    BY <1>2, WorkerLeavesHandles
  <2>2. PICK g \in Handles : ContinueCall(g) \/ StartCall(g)
    BY <1>2, <2>1 DEF Next, Rest, vars
  <2>3. g = h
    BY <1>2, <2>2, HandleStepMoves, HandleLeavesHandles
  <2>4. Extract(h)
    BY <1>2, <2>2, <2>3, HandleStepJoins DEF Elsewhere, StartJoin, ReadsOn, Answered, JoinStep,
       JoinLabels, FollowGate, AfterJoin, Goto, TypeOK, ControlTypes, Processes
  <2>5. /\ \A p \in Processes \ {h} : pc'[p] \in {"absent", "gone", "dead"}
        /\ queue' = <<>>
    <3>1. ASSUME NEW p \in Processes \ {h} PROVE pc[p] # "husk"
      <4>1. CASE p \in Handles
        <5>1. h \in Referring /\ p # h
          BY <2>4 DEF Extract, Referring
        <5> QED BY <4>1, <5>1 DEF Referred, InHusk
      <4>2. CASE p \in Workers
        BY <4>2 DEF TypeOK, ControlTypes, WorkerPoints
      <4> QED BY <4>1, <4>2 DEF Processes
    <3> QED BY <2>4, <3>1 DEF Extract, HoldsShared, Goto, TypeOK, ControlTypes
  <2>6. /\ \A w \in Workers : pc'[w] \in {"absent", "dead", "gone"}
        /\ \A f \in Handles : pc'[f] \in {"absent", "dead", "gone", "husk"}
    BY <1>2, <2>5 DEF Processes
  <2>7. (Prepared \subseteq Resolved)'
    BY <2>5, <2>6, NobodyHolds
  <2> QED BY <2>5, <2>7
<1> QED BY <1>1, <1>2 DEF HuskAlone

-----------------------------------------------------------------------------
(***************************************************************************)
(* Outcomes only come.                                                     *)
(***************************************************************************)
\* Where workers and handles get outcomes from.
LEMMA WorkerOutcomes ==
  ASSUME TypeOK, NEW w \in Workers, WorkerStep(w)
  PROVE  /\ lost \subseteq lost'
         /\ \/ UNCHANGED outcomeVars
            \/ Deliver({task[w]}, "processed")
            \/ pc[w] = "cancelled" /\ Deliver({task[w]}, "unprocessed")
            \/ pc[w] = "drain" /\ Deliver(Range(queue), "unprocessed")
<1> USE DEF Move, restVars, unreadVars
<1>1. CASE Complete(w) \/ ReturnInput(w) \/ Panic(w)
  BY <1>1 DEF Complete, ReturnInput, Panic
<1>2. CASE Drain(w)
  BY <1>2 DEF Drain
<1>3. CASE Boot(w) \/ NextTask(w) \/ Cancel(w)
  BY <1>3 DEF Boot, NextTask, PassResumeGate, Poll, LockReceiver, Receive, RecvTimeout,
     RecvDisconnected, TransferTask, Cancel
<1>4. CASE FinishTask(w) \/ HasWorkStep(w) \/ Notify(w) \/ Respawn(w) \/ Poison(w)
  BY <1>4 DEF FinishTask, HasWorkStep, ReadPoisoned, ReadCounts, ReadSuspended, Notify,
     Respawn, Poison
<1> QED BY <1>1, <1>2, <1>3, <1>4 DEF WorkerStep

LEMMA HandleOutcomes ==
  ASSUME TypeOK, NEW h \in Handles, ContinueCall(h) \/ StartCall(h)
  PROVE  /\ UNCHANGED lost
         /\ \/ UNCHANGED outcomeVars
            \/ TakeStored(h)
            \/ pc[h] = "refuse" /\ Deliver({Head(batch[h])}, "unprocessed")
            \/ pc[h] \in {"drain", "spin"} /\ Deliver(Range(queue), "unprocessed")
<1> USE DEF Move, restVars, unreadVars
<1>1. CASE TakeStored(h) \/ Refuse(h) \/ Drain(h) \/ Extract(h)
  BY <1>1 DEF TakeStored, Refuse, Drain, Extract
<1>2. CASE ContinueCall(h) /\ ~Refuse(h) /\ ~Drain(h) /\ ~Extract(h)
  BY <1>2 DEF ContinueCall, Admit, Send, ApplyReturns, HasWorkStep, ReadPoisoned, ReadCounts,
     ReadSuspended, JoinStep, ReturnNone, ReleaseReferrer, DropLast, Poison, DropSender
<1>3. CASE StartCall(h) /\ ~TakeStored(h)
  BY <1>3 DEF StartCall, Submit, Join, StartJoin, Suspend, Resume, HangUp, Grow, Clone, Drop,
     ReleaseReferrer, TryIntoHusk
<1> QED BY <1>1, <1>2, <1>3

\* What was resolved stays so.
LEMMA ResolvedStays ==
  ASSUME TypeOK, Next
  PROVE  Resolved \subseteq Resolved'
<1> USE DEF TypeOK, SharedTypes, outcomeVars
<1>1. ASSUME NEW S, NEW k \in {"processed", "unprocessed"}, Deliver(S, k), lost \subseteq lost'
      PROVE  Resolved \subseteq Resolved'
  BY <1>1 DEF Deliver, Resolved
<1>2. ASSUME UNCHANGED outcomeVars, lost \subseteq lost' PROVE Resolved \subseteq Resolved'
  BY <1>2 DEF Resolved
<1>3. ASSUME NEW w \in Workers, WorkerStep(w) PROVE Resolved \subseteq Resolved'
  BY <1>1, <1>2, <1>3, WorkerOutcomes
<1>4. ASSUME NEW h \in Handles, ContinueCall(h) \/ StartCall(h) PROVE Resolved \subseteq Resolved'
  <2>1. TakeStored(h) => Resolved \subseteq Resolved'
    BY DEF TakeStored, Resolved
  <2> QED BY <1>1, <1>2, <1>4, <2>1, HandleOutcomes
<1>5. CASE Rest
  BY <1>5, <1>2 DEF Rest, vars, restVars
<1> QED BY <1>3, <1>4, <1>5 DEF Next

\* The tasks that were given back.
Unprocessed == {t \in Tasks : "unprocessed" \in {outcomes[t], sent[t], taken[t]}}

LEMMA NothingGivenBack ==
  ASSUME TypeOK,
         \/ UNCHANGED outcomeVars
         \/ \E S : Deliver(S, "processed")
         \/ \E S : Deliver(S, "unprocessed") /\ S \cap Tasks = {}
         \/ \E h \in Handles : TakeStored(h)
  PROVE  Unprocessed' \subseteq Unprocessed
<1> USE DEF TypeOK, SharedTypes, outcomeVars, Unprocessed
<1>1. CASE UNCHANGED outcomeVars
  BY <1>1
<1>2. ASSUME NEW S, Deliver(S, "processed") PROVE Unprocessed' \subseteq Unprocessed
  BY <1>2 DEF Deliver
<1>3. ASSUME NEW S, Deliver(S, "unprocessed"), S \cap Tasks = {}
      PROVE  Unprocessed' \subseteq Unprocessed
  BY <1>3 DEF Deliver
<1>4. ASSUME NEW h \in Handles, TakeStored(h) PROVE Unprocessed' \subseteq Unprocessed
  BY <1>4 DEF TakeStored
<1> QED BY <1>1, <1>2, <1>3, <1>4

-----------------------------------------------------------------------------
(***************************************************************************)
(* How a call of wait_on_done ends: has_work was false, or another waiter  *)
(* moved the phase on.                                                     *)
(***************************************************************************)
LEMMA HowJoinsEnd ==
  ASSUME TypeOK, Holding, JoinPlaces, NEW h \in Handles, ContinueCall(h) \/ StartCall(h),
         at[h] # "out", at'[h] \in {"out", "leave"}
  PROVE  \/ at[h] = "leave" /\ at'[h] = "out"
         \/ at[h] = "lock" /\ saved[h] # phase
         \/ Answered(h, FALSE)
<1> USE DEF TypeOK, JoinTypes, JoinGate!Move
<1>1. Joining(h)
  BY DEF JoinPlaces
<1>2. ~Elsewhere(h) /\ pc[h] # "idle"
  BY <1>1 DEF Elsewhere, Joining
<1>3. CASE ReadsOn(h)
  <2>1. at[h] \in {"pre", "test"} /\ at'[h] = at[h]
    BY <1>3 DEF ReadsOn, joinVars, JoinPlaces
  <2> QED BY <2>1
<1>4. CASE Answered(h, TRUE)
  BY <1>4 DEF Answered, JoinGate!Evaluate
<1>5. CASE JoinStep(h)
  BY <1>5 DEF JoinStep, JoinGate!Load, JoinGate!Lock, JoinGate!Leave
<1> QED BY <1>2, <1>3, <1>4, <1>5, HandleStepJoins

\* Who waits alone sees no other phase.
LEMMA AloneNotOvertaken ==
  ASSUME SamePhase, NEW h \in Handles, OneJoiner \/ InHusk(h), at[h] = "lock"
  PROVE  saved[h] = phase
BY DEF SamePhase

\* What a handle that found no work knows.
LEMMA NoWork ==
  ASSUME TypeOK, Conserved, CountInv, NotEarly, NEW h \in Handles, Answered(h, FALSE)
  PROVE  \/ pc[h] = "counts" /\ Prepared \subseteq Resolved /\ Executing = {}
         \/ pc[h] = "flag" /\ suspended
<1>1. ~poisoned /\ ~BrokenDown /\ HoldsSender(h)
  BY DEF Answered, NotEarly, End, EndLabels, HoldsSender
<1>2. Counted
  BY <1>1, InUseCounted
<1>3. \/ pc[h] = "counts" /\ counter.right = 0 /\ counter.left = 0
      \/ pc[h] = "flag" /\ suspended
  BY <1>1 DEF Answered
<1> QED BY <1>2, <1>3, NothingLeft, NoneActive

-----------------------------------------------------------------------------
(***************************************************************************)
(* A hive that was never suspended gives no task back before its last      *)
(* handle is gone, and all its tasks are resolved when the join of         *)
(* try_into_husk has found no work.                                        *)
(***************************************************************************)
Joined(h) == InHusk(h) /\ (pc[h] \in {"hang_up", "spin", "husk"} \/ at[h] = "leave")

Untroubled ==
  /\ ~suspended
  /\ \A w \in Workers : pc[w] # "cancelled"
  /\ Referring # {} => ~poisoned /\ ~BrokenDown /\ Unprocessed = {}
  /\ \A h \in Handles : Joined(h) => Prepared \subseteq Resolved
Calm == suspends = 0 => Untroubled

\* No transfer fails as long as there is a handle.
LEMMA CalmTransfer ==
  ASSUME Few, TypeOK, Holding, Conserved, CountInv, Untroubled, Referring # {},
         NEW w \in Workers, pc[w] = "transfer"
  PROVE  ~TransferFails(counter, 1)
<1>1. CASE Connected
  <2>1. Counted
    BY <1>1 DEF CountInv, ShutDown, Untroubled
  <2> QED BY <2>1, TransferSucceeds
<1>2. CASE ~Connected
  <2>1. PICK h \in Handles : h \in Referring
    BY DEF Referring
  <2>2. pc[h] \in {"spin", "husk"}
    BY <1>2, <2>1 DEF Connected, HoldsSender, Referring
  <2>3. Prepared \subseteq Resolved
    BY <2>2 DEF Untroubled, Joined, InHusk
  <2>4. task[w] \notin Tasks
    BY <2>3, ResolvedIsNowhereElse
  <2> QED BY <2>4 DEF Holding
<1> QED BY <1>1, <1>2

LEMMA WorkerCalm ==
  ASSUME Few, TypeOK, Holding, Conserved, Departures, CountInv, Untroubled,
         NEW w \in Workers, WorkerStep(w)
  PROVE  Untroubled'
<1>1. ~suspended' /\ Referring' = Referring /\ UNCHANGED nextIndex
  BY WorkerLeavesHandles DEF Untroubled
<1>2. /\ \A v \in Workers \ {w} : pc'[v] = pc[v]
      /\ poisoned' => poisoned \/ pc[w] = "poison"
  BY WorkerMoves DEF Goto, TypeOK, ControlTypes, Processes
<1>3. pc'[w] # "cancelled" /\ (pc'[w] = "poison" => TransferTask(w) /\ TransferFails(counter, 1))
  <2> USE DEF TypeOK, ControlTypes, Processes, Goto
  <2>1. CASE TransferTask(w)
    BY <2>1 DEF TransferTask
  <2>2. CASE FinishTask(w)
    BY <2>2 DEF FinishTask, Abort
  <2>3. CASE HasWorkStep(w) \/ Notify(w)
    <3>1. \E l \in {"counts", "flag"} \cup FinishLabels \cup JoinLabels : Goto(w, l)
      BY <2>3, HasWorkMoves, AfterFinishLabels DEF Notify, FinishLabels
    <3> QED BY <3>1 DEF FinishLabels, JoinLabels
  <2>4. CASE Cancel(w)
    BY <2>4 DEF Cancel, Untroubled
  <2>5. CASE Boot(w) \/ PassResumeGate(w) \/ Poll(w) \/ LockReceiver(w) \/ Receive(w)
             \/ RecvTimeout(w) \/ RecvDisconnected(w) \/ Complete(w)
             \/ ReturnInput(w) \/ Panic(w) \/ Respawn(w) \/ Poison(w) \/ Drain(w)
    BY <2>5 DEF Boot, PassResumeGate, Poll, LockReceiver, Receive, RecvTimeout,
       RecvDisconnected, Complete, ReturnInput, Panic, Respawn, Spawned, Poison,
       Drain, Exit, EndTask, Move
  <2> QED BY <2>1, <2>2, <2>3, <2>4, <2>5 DEF WorkerStep, NextTask
<1>4. ASSUME Referring # {} PROVE ~poisoned' /\ ~BrokenDown' /\ Unprocessed' = {}
  <2>1. ~poisoned /\ ~BrokenDown /\ Unprocessed = {}
    BY <1>4 DEF Untroubled
  <2>2. pc[w] # "poison" /\ ~poisoned'
    BY <1>2, <2>1 DEF BrokenDown
  <2>3. pc'[w] # "poison"
    <3>1. ASSUME TransferTask(w) PROVE ~TransferFails(counter, 1)
      BY <1>4, <3>1, CalmTransfer DEF TransferTask
    <3> QED BY <1>3, <3>1
  <2>4. pc[w] # "cancelled" /\ pc[w] # "drain"
    BY <2>1 DEF Untroubled, Departures, Processes
  <2>5. UNCHANGED outcomeVars \/ \E S : Deliver(S, "processed")
    BY <2>4, WorkerOutcomes
  <2>6. Unprocessed' = {}
    BY <2>1, <2>5, NothingGivenBack
  <2> QED BY <1>2, <2>1, <2>2, <2>3, <2>6 DEF BrokenDown
<1>5. ASSUME NEW h \in Handles, Joined(h)' PROVE Prepared' \subseteq Resolved'
  <2>1. pc'[h] = pc[h] /\ why'[h] = why[h] /\ (at'[h] = "leave" => at[h] = "leave")
    BY WorkerLeavesHandles, WorkerDeparts, WorkerLeavesGate DEF Processes
  <2>2. Joined(h)
    BY <1>5, <2>1 DEF Joined, InHusk, Joining
  <2>3. Prepared \subseteq Resolved /\ Resolved \subseteq Resolved'
    BY <2>2, ResolvedStays DEF Untroubled, Next
  <2> QED BY <1>1, <2>3 DEF Prepared
<1> QED BY <1>1, <1>2, <1>3, <1>4, <1>5 DEF Untroubled

\* Only idle handles prepare tasks.
LEMMA HandlePrepares ==
  ASSUME NEW h \in Handles, ContinueCall(h) \/ StartCall(h), pc[h] # "idle"
  PROVE  UNCHANGED nextIndex
<1> USE DEF Move, restVars, unreadVars, taskVars
<1>1. CASE ContinueCall(h)
  BY <1>1 DEF ContinueCall, Admit, Send, Refuse, ApplyReturns, HasWorkStep, ReadPoisoned,
     ReadCounts, ReadSuspended, JoinStep, ReturnNone, ReleaseReferrer, DropLast, Poison,
     Drain, DropSender, Extract
<1>2. CASE StartCall(h)
  BY <1>2 DEF StartCall, Calls, Submit, Join, Suspend, Resume, TakeStored, HangUp, Grow,
     Clone, Drop, TryIntoHusk
<1> QED BY <1>1, <1>2

\* Only suspend suspends.
LEMMA HandleSuspends ==
  ASSUME TypeOK, NEW h \in Handles, ContinueCall(h) \/ StartCall(h)
  PROVE  \/ UNCHANGED <<suspended, suspends>>
         \/ Resume(h)
         \/ Suspend(h) /\ suspends' # 0
<1> USE DEF Move, restVars, unreadVars, flagVars, ghostVars
<1>1. CASE ContinueCall(h)
  BY <1>1 DEF ContinueCall, Admit, Send, Refuse, ApplyReturns, HasWorkStep, ReadPoisoned,
     ReadCounts, ReadSuspended, JoinStep, ReturnNone, ReleaseReferrer, DropLast, Poison,
     Drain, DropSender, Extract
<1>2. CASE Suspend(h)
  <2>1. suspends' = suspends + 1 /\ suspends \in Nat
    BY <1>2 DEF Suspend, TypeOK, HistoryTypes
  <2> QED BY <1>2, <2>1
<1>3. CASE StartCall(h) /\ ~Suspend(h)
  BY <1>3 DEF StartCall, Submit, Join, StartJoin, Resume, TakeStored, HangUp, Grow,
     Clone, Drop, ReleaseReferrer, TryIntoHusk
<1> QED BY <1>1, <1>2, <1>3

LEMMA HandleCalm ==
  ASSUME TypeOK, Holding, Conserved, CountInv, JoinPlaces, Referred, NotEarly, SamePhase,
         Untroubled, NEW h \in Handles, ContinueCall(h) \/ StartCall(h),
         ~suspended'
  PROVE  Untroubled'
<1>1. HandleMoves(h) /\ (poisoned' => poisoned \/ pc[h] = "poison") /\ GateMove(h)
  BY HandleStepMoves, HandleGateMoves
<1>2. \A w \in Workers : pc'[w] = pc[w] \/ pc'[w] \in {"boot", "dead"}
  BY <1>1, HandleLeavesWorkers
<1>3. ASSUME Referring' # {} PROVE ~poisoned' /\ ~BrokenDown' /\ Unprocessed' = {}
  <2>1. Referring # {}
    BY <1>3, HandleReferences
  <2>2. ~poisoned /\ ~BrokenDown /\ Unprocessed = {} /\ pc[h] # "poison"
    BY <2>1 DEF Untroubled, Referred
  <2>3. pc[h] # "drain" /\ pc[h] # "refuse"
    BY <2>2 DEF CountInv, Departures, Processes
  <2>4. ASSUME pc[h] = "spin" PROVE Range(queue) \cap Tasks = {}
    <3>1. Prepared \subseteq Resolved
      BY <2>4 DEF Untroubled, Joined, InHusk
    <3> QED BY <3>1, ResolvedIsNowhereElse
  <2>5. \/ UNCHANGED outcomeVars
        \/ \E S : Deliver(S, "unprocessed") /\ S \cap Tasks = {}
        \/ TakeStored(h)
    BY <2>3, <2>4, HandleOutcomes
  <2>6. Unprocessed' = {}
    BY <2>2, <2>5, NothingGivenBack
  <2> QED BY <1>1, <1>2, <2>2, <2>6 DEF BrokenDown
<1>4. ASSUME NEW g \in Handles, Joined(g)' PROVE Prepared' \subseteq Resolved'
  <2>1. InHusk(g) \/ (g = h /\ pc[g] = "idle" /\ at'[g] = "pre")
    BY <1>4, HandleToHusk DEF Joined
  <2>2. InHusk(g)
    <3>1. ASSUME pc[h] = "idle", at'[h] = "pre" PROVE ~Joined(h)'
      <4>1. at[h] = "out"
        BY <3>1 DEF JoinPlaces, Joining
      <4>2. pc'[h] = "has_work"
        BY <1>1, <3>1, <4>1 DEF GateMove
      <4> QED BY <3>1, <4>2 DEF Joined
    <3> QED BY <1>4, <2>1, <3>1
  <2>3. pc[h] # "idle"
    BY <2>2 DEF Referred, Referring, InHusk, Joining
  <2>4. Prepared' = Prepared /\ Resolved \subseteq Resolved'
    BY <2>3, HandlePrepares, ResolvedStays DEF Next, Prepared
  <2>5. CASE Joined(g)
    BY <2>4, <2>5 DEF Untroubled
  <2>6. CASE ~Joined(g)
    <3>1. at[g] # "out" /\ at[g] # "leave" /\ Joining(g)
      BY <2>2, <2>6 DEF Joined, InHusk, JoinPlaces
    <3>2. g = h /\ at'[g] \in {"out", "leave"}
      <4>1. ASSUME g # h PROVE FALSE
        <5>1. at'[g] = at[g]
          BY <1>1, <4>1, GateMoveOthers
        <5>2. pc'[g] = pc[g]
          BY <1>1, <3>1, <4>1, HandleLeavesHandles DEF Joining
        <5> QED BY <1>4, <3>1, <5>1, <5>2 DEF Joined, InHusk, Joining
      <4>2. at'[h] # "out" => pc'[h] \in {"has_work", "counts", "flag", "join"}
        BY <1>1, <3>1, <4>1 DEF GateMove, Joining, TypeOK, JoinTypes
      <4> QED BY <1>4, <4>1, <4>2 DEF Joined
    <3>3. Answered(h, FALSE)
      BY <2>2, <3>1, <3>2, HowJoinsEnd, AloneNotOvertaken
    <3>4. Prepared \subseteq Resolved
      BY <3>3, NoWork DEF Untroubled
    <3> QED BY <2>4, <3>4
  <2> QED BY <2>5, <2>6
<1> QED BY <1>2, <1>3, <1>4 DEF Untroubled

LEMMA StepCalm ==
  ASSUME Few, TypeOK, Holding, Conserved, CountInv, JoinPlaces, Referred, NotEarly,
         SamePhase, Calm, Next
  PROVE  Calm'
<1>1. ASSUME NEW w \in Workers, WorkerStep(w) PROVE Calm'
  BY <1>1, WorkerCalm, WorkerLeavesHandles DEF Calm, CountInv
<1>2. ASSUME NEW h \in Handles, ContinueCall(h) \/ StartCall(h) PROVE Calm'
  <2>1. ASSUME suspends' = 0 PROVE suspends = 0 /\ ~suspended'
    <3>1. \/ UNCHANGED <<suspended, suspends>>
          \/ UNCHANGED suspends /\ suspended /\ ~suspended'
      BY <1>2, <2>1, HandleSuspends DEF Resume, ghostVars
    <3> QED BY <2>1, <3>1 DEF Calm, Untroubled
  <2> QED BY <1>2, <2>1, HandleCalm DEF Calm
<1>3. CASE Rest
  BY <1>3 DEF Rest, vars, restVars, flagVars, taskVars, outcomeVars, joinVars, ghostVars,
     Calm, Untroubled, BrokenDown, Referring, Unprocessed, Joined, InHusk, Joining, Prepared,
     Resolved
<1> QED BY <1>1, <1>2, <1>3 DEF Next

-----------------------------------------------------------------------------
(***************************************************************************)
(* What a join is owed.                                                    *)
(***************************************************************************)
\* What is owed for a task that was executing is settled by its outcome;
\* has_work never skips the active counter.
Owing ==
  \A h \in Handles :
    /\ suspended => owed[h].queued = {}
    /\ owed[h].queued \subseteq Prepared
    /\ owed[h].active \subseteq Executing \cup Resolved
    /\ pc[h] = "flag" => owed[h].active \subseteq Resolved
    /\ at[h] = "leave" => owed[h].active \cup owed[h].queued \subseteq Resolved
Owed == OneJoiner => Owing

\* A worker leaves the others, and the tasks they hold, alone.
LEMMA WorkerLeavesWorkers ==
  ASSUME TypeOK, Holding, NEW w \in Workers, WorkerStep(w)
  PROVE  \A v \in Workers \ {w} : pc'[v] = pc[v] /\ task'[v] = task[v]
<1> USE DEF TypeOK, ControlTypes, Processes, Goto
<1>1. \A v \in Workers \ {w} : pc'[v] = pc[v]
  BY WorkerMoves
<1>2. \A v \in Workers \ {w} : task'[v] = task[v]
  <2> USE DEF Move, restVars, unreadVars, holdVars
  <2>1. CASE Boot(w) \/ NextTask(w) \/ Complete(w) \/ Cancel(w) \/ ReturnInput(w) \/ Panic(w)
    BY <2>1 DEF Boot, NextTask, PassResumeGate, Poll, LockReceiver, Receive, RecvTimeout,
       RecvDisconnected, TransferTask, Complete, Cancel, ReturnInput, Panic, EndTask
  <2>2. CASE FinishTask(w) \/ HasWorkStep(w) \/ Notify(w) \/ Respawn(w) \/ Poison(w) \/ Drain(w)
    BY <2>2 DEF FinishTask, Respawn, Poison, Drain, HasWorkStep, ReadPoisoned, ReadCounts,
       ReadSuspended, Notify
  <2> QED BY <2>1, <2>2 DEF WorkerStep
<1> QED BY <1>1, <1>2

\* A worker stops executing a task when it is resolved.
LEMMA WorkerExecutes ==
  ASSUME TypeOK, Holding, NEW w \in Workers, WorkerStep(w)
  PROVE  Executing \subseteq Executing' \cup Resolved'
<1> USE DEF TypeOK, SharedTypes, ControlTypes, Processes, Goto
<1>1. \A v \in Workers \ {w} : pc'[v] = pc[v] /\ task'[v] = task[v]
  BY WorkerLeavesWorkers
<1>2. ASSUME pc[w] \in {"apply", "cancelled"}
      PROVE  task[w] \in Resolved' \/ (pc'[w] \in {"apply", "cancelled"} /\ task'[w] = task[w])
  <2>1. task[w] \in Tasks
    BY <1>2 DEF Holding
  <2>2. CASE Complete(w) \/ ReturnInput(w)
    BY <2>1, <2>2 DEF Complete, ReturnInput, Deliver, Resolved
  <2>3. CASE Panic(w)
    BY <2>1, <2>3 DEF Panic, Resolved
  <2>4. CASE Cancel(w)
    BY <2>4 DEF Cancel, Move, restVars, holdVars
  <2>5. Complete(w) \/ ReturnInput(w) \/ Panic(w) \/ Cancel(w)
    BY <1>2 DEF WorkerStep, Boot, NextTask, PassResumeGate, Poll, LockReceiver, Receive,
       RecvTimeout, RecvDisconnected, TransferTask, FinishTask, Respawn, Poison, Drain,
       HasWorkStep, ReadPoisoned, ReadCounts, ReadSuspended, Notify, Move
  <2> QED BY <2>2, <2>3, <2>4, <2>5
<1>3. ASSUME NEW v \in Workers, pc[v] \in {"apply", "cancelled"}
      PROVE  task[v] \in Resolved' \/ (pc'[v] \in {"apply", "cancelled"} /\ task'[v] = task[v])
  BY <1>1, <1>2, <1>3
<1> QED BY <1>3 DEF Executing

\* A handle disturbs no worker.
LEMMA HandleLeavesExecuting ==
  ASSUME TypeOK, Holding, NEW h \in Handles, ContinueCall(h) \/ StartCall(h)
  PROVE  Executing' = Executing
<1>1. \A w \in Workers : pc[w] \in {"apply", "cancelled"} \/ pc'[w] \in {"apply", "cancelled"}
                         => pc'[w] = pc[w]
  BY HandleStepMoves, HandleLeavesWorkers
<1>2. \A w \in Workers : task'[w] = task[w]
  <2> USE DEF Move, restVars, unreadVars, holdVars
  <2>1. CASE Send(h) \/ Refuse(h)
    <3>1. batch[h] # <<>> /\ NextOfBatch(h)
      BY <2>1 DEF Send, Refuse, Holding
    <3>2. UNCHANGED task \/ \E t \in Tasks : task' = [task EXCEPT ![h] = t]
      BY <3>1, NextOfBatchTypes DEF NextOfBatch, TypeOK
    <3> QED BY <3>2 DEF TypeOK, ControlTypes, Processes
  <2>2. CASE ApplyReturns(h)
    BY <2>2 DEF ApplyReturns, TypeOK, ControlTypes, Processes
  <2>3. CASE ContinueCall(h) /\ ~Send(h) /\ ~Refuse(h) /\ ~ApplyReturns(h)
    BY <2>3 DEF ContinueCall, Admit, HasWorkStep, ReadPoisoned, ReadCounts, ReadSuspended,
       JoinStep, ReturnNone, ReleaseReferrer, DropLast, Poison, Drain, DropSender, Extract
  <2>4. CASE StartCall(h)
    BY <2>4 DEF StartCall, Submit, Join, StartJoin, Suspend, Resume, TakeStored, HangUp, Grow,
       Clone, Drop, ReleaseReferrer, TryIntoHusk
  <2> QED BY <2>1, <2>2, <2>3, <2>4
<1> QED BY <1>1, <1>2 DEF Executing

\* Indices are only handed out.
LEMMA NextIndexGrows ==
  ASSUME TypeOK, Holding, NEW h \in Handles, ContinueCall(h) \/ StartCall(h)
  PROVE  \E k \in Nat : nextIndex' = nextIndex + k
<1> USE DEF TypeOK, SharedTypes
<1>0. nextIndex' = nextIndex => \E k \in Nat : nextIndex' = nextIndex + k
  <2>1. nextIndex = nextIndex + 0 /\ 0 \in Nat
    OBVIOUS
  <2> QED BY <2>1
<1>1. ASSUME NEW n \in 1 .. MaxBatch, NEW d \in Destinations, Submit(h, n, d)
      PROVE  \E k \in Nat : nextIndex' = nextIndex + k
  BY <1>1 DEF Submit
<1>2. CASE ContinueCall(h)
  <2>1. pc[h] # "idle"
    BY <1>2 DEF ContinueCall, Admit, Send, Refuse, ApplyReturns, HasWorkStep, ReadPoisoned,
       ReadCounts, ReadSuspended, JoinStep, ReturnNone, DropLast, Poison, Drain, DropSender,
       Extract, Move
  <2> QED BY <1>0, <2>1, HandlePrepares
<1>3. CASE StartCall(h) /\ ~\E n \in 1 .. MaxBatch, d \in Destinations : Submit(h, n, d)
  <2>1. nextIndex' = nextIndex
    BY <1>3 DEF StartCall, Join, StartJoin, Suspend, Resume, TakeStored, HangUp, Grow,
       Clone, Drop, ReleaseReferrer, TryIntoHusk, taskVars, restVars
  <2> QED BY <1>0, <2>1
<1> QED BY <1>1, <1>2, <1>3

\* A join is owed what it finds when it is called, and less after suspend.
Fewer(g) == /\ owed'[g].active \subseteq owed[g].active
            /\ owed'[g].queued \subseteq owed[g].queued

LEMMA HandleOwes ==
  ASSUME TypeOK, Holding, NEW h \in Handles, ContinueCall(h) \/ StartCall(h)
  PROVE  /\ \A g \in Handles :
              \/ Fewer(g)
              \/ /\ g = h /\ pc'[h] = "has_work" /\ at'[h] = "pre"
                 /\ owed'[h].active \subseteq Executing
                 /\ owed'[h].queued \subseteq Prepared
                 /\ suspended => owed'[h].queued = {}
                 /\ UNCHANGED suspended
         /\ suspended' => suspended \/ \A g \in Handles : owed'[g].queued = {}
<1> USE DEF TypeOK, JoinTypes
<1>1. CASE Elsewhere(h)
  <2>1. \A g \in Handles : Fewer(g)
    <3>1. CASE UNCHANGED owed
      BY <3>1 DEF Fewer
    <3>2. CASE \A g \in Handles : owed'[g] = [active |-> owed[g].active, queued |-> {}]
      <4>1. ASSUME NEW g \in Handles
            PROVE  owed'[g].active = owed[g].active /\ owed'[g].queued = {}
        <5> DEFINE less == [active |-> owed[g].active, queued |-> {}]
        <5>1. owed'[g] = less
          BY <3>2
        <5>2. less.active = owed[g].active /\ less.queued = {}
          OBVIOUS
        <5> HIDE DEF less
        <5> QED BY <5>1, <5>2
      <4> QED BY <4>1 DEF Fewer
    <3> QED BY <1>1, <3>1, <3>2 DEF Elsewhere
  <2>2. suspended' => suspended \/ \A g \in Handles : owed'[g].queued = {}
    BY <1>1, Zenon DEF Elsewhere
  <2> QED BY <2>1, <2>2
<1>2. ASSUME NEW reason, pc[h] = "idle", StartJoin(h, reason)
      PROVE  /\ \A g \in Handles \ {h} : Fewer(g)
             /\ pc'[h] = "has_work" /\ at'[h] = "pre"
             /\ owed'[h].active \subseteq Executing
             /\ owed'[h].queued \subseteq Prepared
             /\ suspended => owed'[h].queued = {}
             /\ UNCHANGED suspended
  <2>1. /\ pc'[h] = "has_work" /\ at'[h] = "pre" /\ UNCHANGED suspended
        /\ owed' = [owed EXCEPT ![h] = WaitsFor(h)]
    BY <1>2 DEF StartJoin, JoinGate!Arrive, JoinGate!Move, Goto, flagVars, ControlTypes,
       Processes
  <2>2. \A g \in Handles \ {h} : owed'[g] = owed[g]
    BY <2>1
  <2>3. owed'[h] = WaitsFor(h)
    BY <2>1
  <2>4. /\ WaitsFor(h).active \subseteq Executing /\ WaitsFor(h).queued \subseteq Prepared
        /\ suspended => WaitsFor(h).queued = {}
    BY DEF WaitsFor, Nothing
  <2> QED BY <2>1, <2>2, <2>3, <2>4 DEF Fewer
<1>3. CASE ReadsOn(h)
  BY <1>3 DEF ReadsOn, joinVars, unreadVars, flagVars, Fewer
<1>4. ASSUME FollowGate(h) PROVE \A g \in Handles : Fewer(g)
  BY <1>4 DEF FollowGate, Nothing, Fewer
<1>5. ASSUME NEW b \in BOOLEAN, Answered(h, b) PROVE FollowGate(h) /\ UNCHANGED suspended
  BY <1>5 DEF Answered, unreadVars, flagVars
<1>6. CASE JoinStep(h)
  BY <1>4, <1>6 DEF JoinStep, unreadVars, flagVars
<1>7. ASSUME \A g \in Handles : Fewer(g), UNCHANGED suspended
      PROVE  /\ \A g \in Handles : Fewer(g)
             /\ suspended' => suspended
  BY <1>7
<1> QED BY <1>1, <1>2, <1>3, <1>4, <1>5, <1>6, <1>7, HandleStepJoins

\* A join that found no work got what it is owed.
LEMMA NoWorkKeepsPromise ==
  ASSUME TypeOK, Conserved, CountInv, NotEarly, Owing, NEW h \in Handles, Answered(h, FALSE)
  PROVE  owed[h].active \cup owed[h].queued \subseteq Resolved
<1>1. CASE Prepared \subseteq Resolved /\ Executing = {}
  BY <1>1 DEF Owing
<1>2. CASE pc[h] = "flag" /\ suspended
  BY <1>2 DEF Owing
<1> QED BY <1>1, <1>2, NoWork

LEMMA StepOwed ==
  ASSUME TypeOK, Holding, Conserved, CountInv, JoinPlaces, Referred, NotEarly, SamePhase,
         Owed, Next
  PROVE  Owed'
<1> SUFFICES ASSUME OneJoiner PROVE Owing'
  BY DEF Owed, OneJoiner, JoinOp
<1>1. Owing /\ Resolved \subseteq Resolved'
  BY ResolvedStays DEF Owed
<1>2. ASSUME NEW w \in Workers, WorkerStep(w) PROVE Owing'
  <2>1. /\ \A h \in Handles : pc'[h] = pc[h] /\ (at'[h] = "leave" => at[h] = "leave")
        /\ UNCHANGED <<owed, suspended, nextIndex>>
        /\ Executing \subseteq Executing' \cup Resolved'
    BY <1>2, WorkerLeavesHandles, WorkerLeavesGate, WorkerExecutes
  <2>2. Prepared' = Prepared
    BY <2>1 DEF Prepared
  <2> QED BY <1>1, <2>1, <2>2 DEF Owing
<1>3. ASSUME NEW h \in Handles, ContinueCall(h) \/ StartCall(h) PROVE Owing'
  <2>1. Executing \subseteq Executing'
    BY <1>3, HandleLeavesExecuting
  <2>2. Prepared \subseteq Prepared'
    <3>1. \E k \in Nat : nextIndex' = nextIndex + k
      BY <1>3, NextIndexGrows
    <3>2. nextIndex \in Nat
      BY DEF TypeOK, SharedTypes
    <3>3. ASSUME NEW t \in 0 .. nextIndex - 1 PROVE t \in 0 .. nextIndex' - 1
      BY <3>1, <3>2
    <3> QED BY <3>3 DEF Prepared
  <2>3. ASSUME NEW g \in Handles, pc'[g] = "flag", pc[g] # "flag"
        PROVE  owed[g].active \subseteq Resolved
    <3>1. g = h /\ pc[h] \in {"has_work", "counts"} /\ ReadsOn(h)
      <4>1. GateMove(h) /\ HandleMoves(h)
        BY <1>3, HandleGateMoves, HandleStepMoves
      <4>2. g = h
        BY <2>3, <4>1, HandleLeavesHandles
      <4>3. pc[h] \in {"has_work", "counts"}
        BY <2>3, <4>1, <4>2 DEF GateMove, AfterJoin
      <4>4. ~JoinStep(h) /\ ~Elsewhere(h) /\ pc[h] # "idle"
        BY <4>3 DEF JoinStep, Elsewhere
      <4>5. ASSUME NEW b \in BOOLEAN, Answered(h, b) PROVE FALSE
        BY <2>3, <4>2, <4>5 DEF Answered, FollowGate, AfterJoin, Goto, TypeOK, ControlTypes,
           Processes
      <4> QED BY <1>3, <4>2, <4>3, <4>4, <4>5, HandleStepJoins
    <3>2. pc[h] = "counts" /\ counter.right = 0
      BY <2>3, <3>1 DEF ReadsOn, Goto, TypeOK, ControlTypes, Processes
    <3>3. ~poisoned /\ ~BrokenDown /\ HoldsSender(h)
      BY <3>2 DEF NotEarly, End, EndLabels, HoldsSender
    <3>4. Executing = {}
      BY <3>2, <3>3, InUseCounted, NoneActive
    <3> QED BY <1>1, <3>1, <3>4 DEF Owing
  <2>4. ASSUME NEW g \in Handles, at'[g] = "leave", at[g] # "leave"
        PROVE  owed[g].active \cup owed[g].queued \subseteq Resolved
    <3>1. GateMove(h)
      BY <1>3, HandleGateMoves
    <3>2. g = h
      BY <2>4, <3>1, GateMoveOthers
    <3>3. at[h] # "out"
      BY <2>4, <3>1, <3>2 DEF GateMove, TypeOK, JoinTypes
    <3>4. Answered(h, FALSE)
      BY <1>3, <2>4, <3>2, <3>3, HowJoinsEnd, AloneNotOvertaken
    <3> QED BY <1>1, <3>2, <3>4, NoWorkKeepsPromise
  <2>5. ASSUME NEW g \in Handles, Fewer(g)
        PROVE  /\ suspended => owed'[g].queued = {}
               /\ owed'[g].queued \subseteq Prepared'
               /\ owed'[g].active \subseteq Executing' \cup Resolved'
               /\ pc'[g] = "flag" => owed'[g].active \subseteq Resolved'
               /\ at'[g] = "leave" => owed'[g].active \cup owed'[g].queued \subseteq Resolved'
    BY <1>1, <2>1, <2>2, <2>3, <2>4, <2>5 DEF Owing, Fewer
  <2>6. ASSUME pc'[h] = "has_work", at'[h] = "pre", owed'[h].active \subseteq Executing,
               owed'[h].queued \subseteq Prepared, suspended => owed'[h].queued = {}
        PROVE  /\ suspended => owed'[h].queued = {}
               /\ owed'[h].queued \subseteq Prepared'
               /\ owed'[h].active \subseteq Executing' \cup Resolved'
               /\ pc'[h] # "flag" /\ at'[h] # "leave"
    BY <2>1, <2>2, <2>6
  <2>7. suspended' => suspended \/ \A g \in Handles : owed'[g].queued = {}
    BY <1>3, HandleOwes
  <2> QED BY <1>3, <2>5, <2>6, <2>7, HandleOwes DEF Owing
<1>4. CASE Rest
  BY <1>1, <1>4 DEF Rest, vars, restVars, flagVars, taskVars, outcomeVars, joinVars, holdVars,
     Owing, Executing, Prepared, Resolved
<1> QED BY <1>2, <1>3, <1>4 DEF Next

-----------------------------------------------------------------------------
(***************************************************************************)
(* The invariants, from the first state on.                                *)
(***************************************************************************)
EndInv == JoinPlaces /\ Referred /\ SamePhase /\ HuskAlone
FewInv == NotEarly /\ Calm /\ Owed

LEMMA InitEnds == Init => EndInv /\ FewInv
<1> SUFFICES ASSUME Init PROVE EndInv /\ FewInv
  OBVIOUS
<1>1. PICK first \in Handles, started \in SUBSET Workers :
        pc = [p \in Processes |-> IF p = first THEN "idle"
                                  ELSE IF p \in started THEN "boot" ELSE "absent"]
  BY DEF Init
<1>2. /\ \A h \in Handles : pc[h] \in {"idle", "absent"}
      /\ \A w \in Workers : pc[w] \in {"boot", "absent"}
      /\ Referring = {first}
  BY <1>1 DEF Processes, Referring
<1>3. /\ \A h \in Handles : at[h] = "out" /\ owed[h].active = {} /\ owed[h].queued = {}
      /\ ~poisoned /\ ~suspended /\ referrers = 1
      /\ \A t \in Tasks : outcomes[t] = "none" /\ sent[t] = "none" /\ taken[t] = "none"
  BY DEF Init, JoinGate!Init, Nothing
<1>4. JoinPlaces /\ SamePhase /\ HuskAlone
  BY <1>2, <1>3 DEF JoinPlaces, Joining, SamePhase, HuskAlone
<1>5. Referred
  <2>1. IsFiniteSet({first}) /\ Cardinality({first}) = 1
    BY FS_Singleton
  <2>2. \A h \in Handles : ~InHusk(h) /\ pc[h] # "poison"
    BY <1>2 DEF InHusk, Joining
  <2> QED BY <1>2, <1>3, <2>1, <2>2 DEF Referred
<1>6. ~BrokenDown /\ Unprocessed = {}
  BY <1>2, <1>3 DEF BrokenDown, Unprocessed
<1>7. NotEarly /\ Calm
  BY <1>2, <1>3, <1>6 DEF NotEarly, Calm, Untroubled, Joined, InHusk, Joining
<1>8. Owed
  BY <1>2, <1>3 DEF Owed, Owing
<1> QED BY <1>4, <1>5, <1>7, <1>8 DEF EndInv, FewInv

LEMMA UnchangedEnds == UNCHANGED vars => (EndInv => EndInv') /\ (FewInv => FewInv')
<1> SUFFICES ASSUME UNCHANGED vars PROVE (EndInv => EndInv') /\ (FewInv => FewInv')
  OBVIOUS
<1> USE DEF vars, restVars, flagVars, taskVars, channelVars, outcomeVars, holdVars, joinVars,
            ghostVars, Referring, Joining, InHusk, Joined, Prepared, Resolved
<1>1. /\ JoinPlaces => JoinPlaces'
      /\ Referred => Referred'
      /\ SamePhase => SamePhase'
      /\ HuskAlone => HuskAlone'
  BY DEF JoinPlaces, Referred, Closing, SamePhase, HuskAlone
<1>2. /\ NotEarly => NotEarly'
      /\ Calm => Calm'
      /\ Owed => Owed'
  BY DEF NotEarly, BrokenDown, End, Calm, Untroubled, Unprocessed, Owed, Owing, Executing
<1> QED BY <1>1, <1>2 DEF EndInv, FewInv

LEMMA StepEnds ==
  IInv /\ IInv' /\ Conserved /\ Conserved' /\ CountInv /\ EndInv /\ [Next]_vars => EndInv'
<1> SUFFICES ASSUME IInv, IInv', Conserved, Conserved', CountInv, EndInv, [Next]_vars
             PROVE  EndInv'
  OBVIOUS
<1>1. TypeOK /\ TypeOK' /\ Holding /\ Departures
  BY DEF IInv, CountInv
<1>2. CASE Next
  BY <1>1, <1>2, StepJoinPlaces, StepReferred, StepSamePhase, StepHuskAlone DEF EndInv
<1> QED BY <1>2, UnchangedEnds

LEMMA AlwaysEnds == Safe => []EndInv
<1>1. IInv /\ IInv' /\ Conserved /\ Conserved' /\ CountInv /\ EndInv /\ [Next]_vars => EndInv'
  BY StepEnds
<1>2. Init => EndInv
  BY InitEnds
<1> QED BY <1>1, <1>2, AlwaysIInv, AlwaysConserved, AlwaysCounts, PTL DEF Safe

LEMMA AlwaysFew ==
  ASSUME Few
  PROVE  Safe => []FewInv
<1>1. IInv /\ Conserved /\ CountInv /\ EndInv /\ FewInv /\ [Next]_vars => FewInv'
  <2> SUFFICES ASSUME IInv, Conserved, CountInv, EndInv, FewInv, [Next]_vars
               PROVE  FewInv'
    OBVIOUS
  <2>1. TypeOK /\ Holding
    BY DEF IInv
  <2>2. CASE Next
    BY <2>1, <2>2, StepNotEarly, StepCalm, StepOwed DEF EndInv, FewInv
  <2> QED BY <2>2, UnchangedEnds
<1>2. Init => FewInv
  BY InitEnds
<1> QED BY <1>1, <1>2, AlwaysIInv, AlwaysConserved, AlwaysCounts, AlwaysEnds, PTL DEF Safe

-----------------------------------------------------------------------------
(***************************************************************************)
(* Once every handle is gone no task is left in the channel, for any       *)
(* number of handles that are cloned, dropped and refused a husk in any    *)
(* order (Hive::drop and Shared::poison).                                  *)
(***************************************************************************)
THEOREM NoTaskStranded == Safe => []NothingStranded
<1>1. EndInv => NothingStranded
  <2> SUFFICES ASSUME EndInv, \A h \in Handles : pc[h] \in {"absent", "gone"}
               PROVE  poisoned /\ queue = <<>>
    BY DEF NothingStranded
  <2>1. Referring = {} /\ \A h \in Handles : pc[h] \notin {"dropping", "poison", "drain"}
    BY DEF Referring
  <2> QED BY <2>1 DEF EndInv, Referred, Closing
<1> QED BY <1>1, AlwaysEnds, PTL

(***************************************************************************)
(* A hive in use is not poisoned: neither by a handle that takes itself    *)
(* for the last one, nor by a worker whose transfer fails, as long as the  *)
(* active counter can count the workers (Hive::drop, Shared::next_task).   *)
(***************************************************************************)
THEOREM OnlyPoisonedAtTheEnd ==
  ASSUME Few
  PROVE  Safe => []PoisonedOnlyAtTheEnd
<1>1. FewInv => PoisonedOnlyAtTheEnd
  BY DEF FewInv, NotEarly, End, EndLabels, PoisonedOnlyAtTheEnd
<1> QED BY <1>1, AlwaysFew, PTL

(***************************************************************************)
(* try_into_husk returns a husk only when no thread and no other handle is *)
(* left, with an outcome for every task that a panic did not take, and     *)
(* without an unprocessed one if the hive was never suspended.             *)
(***************************************************************************)
THEOREM HuskComplete ==
  ASSUME Few
  PROVE  Safe => []HuskIsComplete
<1>1. EndInv /\ FewInv => HuskIsComplete
  <2> SUFFICES ASSUME EndInv, FewInv, NEW h \in Handles, pc[h] = "husk"
               PROVE  /\ \A p \in Processes \ {h} : pc[p] \in {"absent", "dead", "gone"}
                      /\ Prepared \subseteq Resolved
                      /\ suspends = 0 => \A t \in Tasks : "unprocessed" \notin
                                                           {outcomes[t], sent[t], taken[t]}
    BY DEF HuskIsComplete
  <2>1. suspends = 0 => Unprocessed = {}
    BY DEF FewInv, Calm, Untroubled, Referring
  <2> QED BY <2>1 DEF EndInv, HuskAlone, Unprocessed
<1> QED BY <1>1, AlwaysEnds, AlwaysFew, PTL

(***************************************************************************)
(* A join keeps its promise if it is alone in the gate: no interleaving of *)
(* its three reads of has_work with workers, submitters and suspensions    *)
(* lets it return early.  With two joiners it may (the phase of one ends   *)
(* the wait of the other), which a run of Hive shows.                      *)
(***************************************************************************)
THEOREM JoinPromiseKept ==
  ASSUME Few, OneJoiner
  PROVE  Safe => JoinKeepsItsPromise
<1> DEFINE A == \A h \in Handles : Returning(h) =>
                  owed[h].active \cup owed[h].queued \subseteq Resolved
<1>1. IInv /\ Conserved /\ CountInv /\ EndInv /\ FewInv /\ [Next]_vars => [A]_vars
  <2> SUFFICES ASSUME IInv, Conserved, CountInv, EndInv, FewInv, Next,
                      NEW h \in Handles, at[h] # "out", at'[h] = "out"
               PROVE  owed[h].active \cup owed[h].queued \subseteq Resolved
    BY DEF Returning
  <2>1. TypeOK /\ Holding /\ JoinPlaces /\ SamePhase /\ NotEarly /\ Owing
    BY DEF IInv, EndInv, FewInv, Owed
  <2>2. ASSUME NEW w \in Workers, WorkerStep(w) PROVE FALSE
    BY <2>1, <2>2, WorkerLeavesGate
  <2>3. ASSUME NEW g \in Handles, ContinueCall(g) \/ StartCall(g)
        PROVE  owed[h].active \cup owed[h].queued \subseteq Resolved
    <3>1. g = h
      BY <2>1, <2>3, HandleGateMoves, GateMoveOthers
    <3>2. \/ at[h] = "leave"
          \/ Answered(h, FALSE)
      BY <2>1, <2>3, <3>1, HowJoinsEnd, AloneNotOvertaken
    <3> QED BY <2>1, <3>2, NoWorkKeepsPromise DEF Owing
  <2>4. ~Rest
    BY DEF Rest, vars, restVars, joinVars
  <2> QED BY <2>2, <2>3, <2>4 DEF Next
<1> QED BY <1>1, AlwaysIInv, AlwaysConserved, AlwaysCounts, AlwaysEnds, AlwaysFew, PTL
        DEF Safe, JoinKeepsItsPromise

-----------------------------------------------------------------------------
(***************************************************************************)
(* The hive implements the task pool: every step of Hive is, by the        *)
(* mapping of HivePool, a step of TaskPool or none.                        *)
(***************************************************************************)
\* The pool counts as the hive does.
LEMMA SameCardinality == \A S : Pool!Cardinality(S) = Cardinality(S)
BY DEF Pool!Cardinality, Cardinality

\* What the status says of a task.
LEMMA StatusFacts ==
  ASSUME TypeOK, Conserved, NEW t \in Tasks
  PROVE  /\ Status[t] = StatusOf(t)
         /\ Status[t] \in Pool!States
         /\ t \in Executing => Status[t] = "running"
         /\ Status[t] = "running" => t \in Executing
         /\ t \in Prepared /\ ~Ended(t) /\ t \notin Executing => Status[t] = "waiting"
         /\ Status[t] = "new" <=> t \notin Prepared
<1>1. Status[t] = StatusOf(t)
  BY DEF Status
<1>2. t \in Executing => ~Ended(t) /\ t \in Prepared
  <2> SUFFICES ASSUME t \in Executing PROVE ~Ended(t) /\ t \in Prepared
    OBVIOUS
  <2>1. PICK w \in Workers : task[w] = t
    BY DEF Executing
  <2>2. ~Ended(t)
    BY <2>1 DEF Conserved, Exclusive, Alone
  <2>3. Somewhere(t)
    BY <2>1 DEF Somewhere
  <2> QED BY <2>2, <2>3 DEF Conserved, Placed
<1>3. Ended(t) => t \in Prepared
  BY DEF Conserved, Placed, Somewhere
<1>4. /\ outcomes[t] \in Kinds /\ sent[t] \in Kinds /\ taken[t] \in Kinds
  BY DEF TypeOK, SharedTypes
<1>5. CASE Ended(t)
  <2>1. StatusOf(t) \in {"processed", "unprocessed", "lost"} /\ t \notin Executing /\ t \in Prepared
    BY <1>2, <1>3, <1>4, <1>5 DEF StatusOf, Ended, Kinds
  <2> QED BY <1>1, <1>5, <2>1 DEF Pool!States
<1>6. CASE ~Ended(t)
  <2>1. StatusOf(t) = IF t \in Executing THEN "running"
                      ELSE IF t \in Prepared THEN "waiting" ELSE "new"
    BY <1>6 DEF StatusOf, Ended
  <2> QED BY <1>1, <1>2, <1>6, <2>1 DEF Pool!States
<1> QED BY <1>5, <1>6

-----------------------------------------------------------------------------
(***************************************************************************)
(* What a step does to the status of a task.                               *)
(***************************************************************************)
LEMMA StatusSame ==
  ASSUME NEW t \in Tasks, outcomes'[t] = outcomes[t], sent'[t] = sent[t],
         taken'[t] = taken[t], t \in lost' <=> t \in lost, UNCHANGED nextIndex,
         Ended(t) \/ (t \in Executing' <=> t \in Executing)
  PROVE  Status'[t] = Status[t]
<1>1. /\ Status[t] = StatusOf(t) /\ Status'[t] = StatusOf(t)'
      /\ t \in Prepared' <=> t \in Prepared
  BY DEF Status, Prepared
<1>2. CASE Ended(t)
  BY <1>1, <1>2 DEF StatusOf, Ended
<1>3. CASE t \in Executing' <=> t \in Executing
  BY <1>1, <1>3 DEF StatusOf
<1> QED BY <1>2, <1>3

\* A task without an outcome gets one.
LEMMA StatusDelivered ==
  ASSUME NEW S, NEW k \in {"processed", "unprocessed"}, Deliver(S, k),
         NEW t \in Tasks, t \in S, ~Ended(t)
  PROVE  Status'[t] = k
<1>1. outcomes[t] = "none" /\ sent[t] = "none" /\ Status'[t] = StatusOf(t)'
  BY DEF Ended, Status
<1>2. \/ outcomes'[t] = k
      \/ outcomes'[t] = "none" /\ sent'[t] = k
  BY <1>1 DEF Deliver
<1> QED BY <1>1, <1>2 DEF StatusOf

\* Nothing changes for the others.
LEMMA OthersNotDelivered ==
  ASSUME NEW S, NEW k, Deliver(S, k), NEW t \in Tasks, t \notin S
  PROVE  outcomes'[t] = outcomes[t] /\ sent'[t] = sent[t] /\ taken'[t] = taken[t]
BY DEF Deliver

\* A task without an outcome is dropped.
LEMMA StatusLost ==
  ASSUME NEW t \in Tasks, UNCHANGED outcomeVars, t \in lost', ~Ended(t)
  PROVE  Status'[t] = "lost"
<1>1. /\ outcomes'[t] = "none" /\ sent'[t] = "none" /\ taken'[t] = "none"
      /\ Status'[t] = StatusOf(t)'
  BY DEF Ended, Status, outcomeVars
<1> QED BY <1>1 DEF StatusOf

\* A task without an outcome is started.
LEMMA StatusStarts ==
  ASSUME NEW t \in Tasks, UNCHANGED <<outcomeVars, lost>>, t \in Executing', ~Ended(t)
  PROVE  Status'[t] = "running"
<1>1. /\ outcomes'[t] = "none" /\ sent'[t] = "none" /\ taken'[t] = "none" /\ t \notin lost'
      /\ Status'[t] = StatusOf(t)'
  BY DEF Ended, Status, outcomeVars
<1> QED BY <1>1 DEF StatusOf

\* The steps of the pool, by what they do to the status.
LEMMA PoolSets ==
  ASSUME NEW S, NEW s, ShutDown' <=> ShutDown,
         \A t \in Tasks : Status'[t] = IF t \in S THEN s ELSE Status[t]
  PROVE  Pool!Set(S, s)
<1>1. Status' = [t \in Tasks |-> Status'[t]]
  BY DEF Status
<1>2. Status' = [t \in Tasks |-> IF t \in S THEN s ELSE Status[t]]
  BY <1>1
<1> QED BY <1>2 DEF Pool!Set, Pool!Tasks, Tasks

LEMMA PoolQuiet ==
  ASSUME \A t \in Tasks : Status'[t] = Status[t], ShutDown => ShutDown'
  PROVE  [Pool!Next]_(Pool!vars)
<1>1. Status' = Status
  <2>1. Status' = [t \in Tasks |-> Status'[t]] /\ Status = [t \in Tasks |-> Status[t]]
    BY DEF Status
  <2> QED BY <2>1
<1>2. CASE ~ShutDown /\ ShutDown'
  BY <1>1, <1>2 DEF Pool!Next, Pool!Close, Pool!Tasks, Tasks
<1>3. CASE ShutDown' <=> ShutDown
  BY <1>1, <1>3 DEF Pool!vars, Tasks
<1> QED BY <1>2, <1>3

LEMMA PoolGivesBack ==
  ASSUME TypeOK, Conserved, ShutDown, NEW S \in SUBSET Tasks, Deliver(S, "unprocessed"),
         UNCHANGED <<lost, nextIndex>>, Executing' = Executing,
         \A t \in S : t \in Prepared /\ ~Ended(t) /\ t \notin Executing, ShutDown'
  PROVE  Pool!Next
<1>1. \A t \in Tasks : Status'[t] = IF t \in S THEN "unprocessed" ELSE Status[t]
  <2>1. ASSUME NEW t \in S PROVE Status'[t] = "unprocessed"
    BY <2>1, StatusDelivered
  <2>2. ASSUME NEW t \in Tasks, t \notin S PROVE Status'[t] = Status[t]
    <3>1. outcomes'[t] = outcomes[t] /\ sent'[t] = sent[t] /\ taken'[t] = taken[t]
      BY <2>2, OthersNotDelivered
    <3> QED BY <3>1, StatusSame
  <2> QED BY <2>1, <2>2
<1>2. Pool!Set(S, "unprocessed")
  BY <1>1, PoolSets
<1>3. \A t \in S : Status[t] = "waiting"
  BY StatusFacts
<1>4. S \subseteq Pool!In("waiting")
  BY <1>3 DEF Pool!In, Pool!Tasks, Tasks
<1>5. Pool!GiveBack(S)
  BY <1>2, <1>4 DEF Pool!GiveBack
<1> QED BY <1>5 DEF Pool!Next, Pool!Tasks, Tasks

-----------------------------------------------------------------------------
(***************************************************************************)
(* The workers.                                                            *)
(***************************************************************************)
\* A worker that neither begins nor ends a task, nor drains the channel.
LEMMA WorkerQuiet ==
  ASSUME TypeOK, Holding, NEW w \in Workers, WorkerStep(w), ~TransferTask(w),
         ~Complete(w), ~ReturnInput(w), ~Panic(w), ~Drain(w)
  PROVE  UNCHANGED <<outcomeVars, lost, nextIndex>> /\ Executing' = Executing
<1> USE DEF TypeOK, ControlTypes, Processes, Goto, Move, restVars, unreadVars, holdVars, taskVars
<1>1. \A v \in Workers \ {w} : pc'[v] = pc[v] /\ task'[v] = task[v]
  BY WorkerLeavesWorkers
<1>2. CASE Cancel(w)
  <2>1. UNCHANGED <<outcomeVars, lost, nextIndex, task>>
    BY <1>2 DEF Cancel
  <2>2. pc[w] = "apply" /\ pc'[w] = "cancelled"
    BY <1>2 DEF Cancel
  <2> QED BY <1>1, <2>1, <2>2 DEF Executing
<1>3. CASE ~Cancel(w)
  <2>1. UNCHANGED <<outcomeVars, lost, nextIndex>> /\ pc[w] \notin {"apply", "cancelled"}
    <3>1. CASE Boot(w) \/ NextTask(w) \/ Respawn(w) \/ Poison(w)
      BY <3>1 DEF Boot, NextTask, PassResumeGate, Poll, LockReceiver, Receive, RecvTimeout,
         RecvDisconnected, Respawn, Poison
    <3>2. CASE FinishTask(w) \/ HasWorkStep(w) \/ Notify(w)
      BY <3>2 DEF FinishTask, HasWorkStep, ReadPoisoned, ReadCounts, ReadSuspended, Notify
    <3> QED BY <1>3, <3>1, <3>2 DEF WorkerStep
  <2>2. pc'[w] \notin {"apply", "cancelled"}
    <3>1. CASE Boot(w) \/ NextTask(w) \/ Respawn(w) \/ Poison(w)
      BY <3>1 DEF Boot, NextTask, PassResumeGate, Poll, LockReceiver, Receive, RecvTimeout,
         RecvDisconnected, Respawn, Spawned, Poison, Exit
    <3>2. CASE HasWorkStep(w)
      BY <3>2, HasWorkMoves DEF FinishLabels, JoinLabels
    <3>3. CASE FinishTask(w)
      BY <3>3 DEF FinishTask, Abort
    <3>4. CASE Notify(w)
      BY <3>4, AfterFinishLabels DEF Notify
    <3> QED BY <1>3, <3>1, <3>2, <3>3, <3>4 DEF WorkerStep
  <2> QED BY <1>1, <2>1, <2>2 DEF Executing
<1> QED BY <1>2, <1>3

\* A worker that holds a task is the only place the task is in.
LEMMA InHand ==
  ASSUME TypeOK, Holding, Conserved, NEW w \in Workers,
         pc[w] \in {"transfer", "apply", "cancelled"}
  PROVE  /\ task[w] \in Tasks /\ task[w] \in Prepared /\ ~Ended(task[w])
         /\ \A v \in Workers : task[v] = task[w] => v = w
<1>1. task[w] \in Tasks
  BY DEF Holding
<1>2. Somewhere(task[w]) /\ Alone(task[w])
  BY <1>1 DEF Somewhere, Conserved, Exclusive
<1> QED BY <1>1, <1>2 DEF Conserved, Placed, Alone

\* Nobody poisons the hive and no handle moves: it is as open as it was.
LEMMA WorkerKeepsOpen ==
  ASSUME TypeOK, Holding, NEW w \in Workers, WorkerStep(w),
         pc[w] # "poison", pc'[w] # "poison"
  PROVE  ShutDown' <=> ShutDown
<1>1. /\ \A h \in Handles : pc'[h] = pc[h]
      /\ \A v \in Workers \ {w} : pc'[v] = pc[v]
      /\ poisoned' <=> poisoned
  BY WorkerLeavesHandles, WorkerLeavesWorkers, WorkerMoves
<1>2. BrokenDown' <=> BrokenDown
  BY <1>1 DEF BrokenDown
<1>3. Connected' <=> Connected
  BY <1>1 DEF Connected, HoldsSender
<1> QED BY <1>1, <1>2, <1>3 DEF ShutDown

\* The worker that holds a task it has not begun is none of those that run
\* one, so that less than all do.
LEMMA RoomToRun ==
  ASSUME TypeOK, Holding, Conserved, NEW w \in Workers, pc[w] = "transfer"
  PROVE  Cardinality(Pool!In("running")) < Cardinality(Workers)
<1> DEFINE R == {v \in Workers : pc[v] \in {"apply", "cancelled"}}
<1>1. Pool!In("running") = Executing
  <2>1. Executing \subseteq Tasks
    BY DEF Executing, Holding
  <2> QED BY <2>1, StatusFacts DEF Pool!In, Pool!Tasks, Tasks
<1>2. IsFiniteSet(R) /\ Cardinality(R) <= Cardinality(Workers) - 1
  <2>1. IsFiniteSet(Workers \ {w}) /\ Cardinality(Workers \ {w}) = Cardinality(Workers) - 1
    BY FS_RemoveElement
  <2>2. R \subseteq Workers \ {w}
    OBVIOUS
  <2> QED BY <2>1, <2>2, FS_Subset
<1>3. Cardinality(Executing) <= Cardinality(R)
  <2> DEFINE f == [v \in R |-> task[v]]
  <2>1. f \in Surjection(R, Executing)
    BY DEF Surjection, Executing
  <2> HIDE DEF f, R
  <2> QED BY <1>2, <2>1, FS_Surjection
<1>4. Cardinality(Workers) \in Nat /\ Cardinality(R) \in Nat /\ Cardinality(Executing) \in Nat
  <2>1. IsFiniteSet(Executing)
    <3>1. Executing \subseteq Tasks
      BY DEF Executing, Holding
    <3> QED BY <3>1, TasksFinite, FS_Subset
  <2> HIDE DEF R
  <2> QED BY <1>2, <2>1, FS_CardinalityType
<1> HIDE DEF R
<1> QED BY <1>1, <1>2, <1>3, <1>4

LEMMA TransferPools ==
  ASSUME TypeOK, Holding, Conserved, Next, NEW w \in Workers, WorkerStep(w), TransferTask(w)
  PROVE  Pool!Next
<1> DEFINE t == task[w]
<1> USE DEF TypeOK, ControlTypes, Processes, Goto
<1>1. /\ pc[w] = "transfer" /\ t \in Tasks /\ t \in Prepared /\ ~Ended(t)
      /\ \A v \in Workers : task[v] = t => v = w
      /\ UNCHANGED <<outcomeVars, nextIndex>>
  BY InHand DEF TransferTask, taskVars
<1>2. \A v \in Workers \ {w} : pc'[v] = pc[v] /\ task'[v] = task[v]
  BY WorkerLeavesWorkers
<1>3. t \notin Executing
  BY <1>1 DEF Executing
<1>4. Status[t] = "waiting"
  BY <1>1, <1>3, StatusFacts
<1>5. ASSUME NEW u \in Tasks, u # t, u \in lost' <=> u \in lost,
             u \in Executing' <=> u \in Executing
      PROVE  Status'[u] = Status[u]
  BY <1>1, <1>5, StatusSame DEF outcomeVars
<1>6. CASE ~TransferFails(counter, 1) /\ Goto(w, "apply") /\ UNCHANGED <<task, lost>>
  <2>1. pc'[w] = "apply" /\ task'[w] = t
    BY <1>6
  <2>2. Executing' = Executing \cup {t}
    BY <1>1, <1>2, <2>1 DEF Executing
  <2>3. Status'[t] = "running"
    BY <1>1, <1>6, <2>2, StatusStarts
  <2>4. \A u \in Tasks : Status'[u] = IF u \in {t} THEN "running" ELSE Status[u]
    BY <1>5, <1>6, <2>2, <2>3
  <2>5. ShutDown' <=> ShutDown
    BY <1>1, <2>1, WorkerKeepsOpen
  <2>6. Pool!Set({t}, "running")
    BY <2>4, <2>5, PoolSets
  <2>7. Cardinality(Pool!In("running")) < Cardinality(Workers)
    BY <1>1, RoomToRun
  <2>8. Pool!Start(t)
    BY <1>4, <2>6, <2>7, SameCardinality DEF Pool!Start
  <2> QED BY <1>1, <2>8 DEF Pool!Next, Pool!Tasks, Tasks
<1>7. CASE /\ TransferFails(counter, 1) /\ Goto(w, "poison")
           /\ lost' = lost \cup {t} /\ task' = [task EXCEPT ![w] = NoTask]
  <2>1. pc'[w] = "poison" /\ BrokenDown' /\ ShutDown'
    BY <1>7 DEF BrokenDown, ShutDown
  <2>2. Executing' = Executing
    BY <1>1, <1>2, <2>1 DEF Executing
  <2>3. Status'[t] = "lost"
    BY <1>1, <1>7, StatusLost
  <2>4. \A u \in Tasks : Status'[u] = IF u \in {t} THEN "lost" ELSE Status[u]
    BY <1>5, <1>7, <2>2, <2>3
  <2>5. CASE ShutDown
    <3>1. Pool!Set({t}, "lost")
      BY <2>1, <2>4, <2>5, PoolSets
    <3>2. Pool!Lose(t)
      BY <1>4, <2>5, <3>1 DEF Pool!Lose
    <3> QED BY <1>1, <3>2 DEF Pool!Next, Pool!Tasks, Tasks
  <2>6. CASE ~ShutDown
    <3>1. Status' = [Status EXCEPT ![t] = "lost"]
      <4>1. /\ Status' = [u \in Tasks |-> Status'[u]]
            /\ Status = [u \in Tasks |-> Status[u]]
        BY DEF Status
      <4> QED BY <1>1, <2>4, <4>1
    <3>2. Pool!BreakDown(t)
      BY <1>4, <2>1, <2>6, <3>1 DEF Pool!BreakDown, Tasks, Pool!Tasks
    <3> QED BY <1>1, <3>2 DEF Pool!Next, Pool!Tasks, Tasks
  <2> QED BY <2>5, <2>6
<1> QED BY <1>6, <1>7 DEF TransferTask

\* The end of a task.
LEMMA EndTaskPools ==
  ASSUME TypeOK, Holding, Conserved, NEW w \in Workers, WorkerStep(w),
         Complete(w) \/ ReturnInput(w) \/ Panic(w)
  PROVE  Pool!Next
<1> DEFINE t == task[w]
<1> USE DEF TypeOK, ControlTypes, Processes, Goto
<1>1. /\ pc[w] \in {"apply", "cancelled"} /\ pc'[w] = "finish"
      /\ UNCHANGED nextIndex
  BY DEF Complete, ReturnInput, Panic, EndTask, taskVars
<1>2. /\ t \in Tasks /\ t \in Prepared /\ ~Ended(t)
      /\ \A v \in Workers : task[v] = t => v = w
  BY <1>1, InHand
<1>3. \A v \in Workers \ {w} : pc'[v] = pc[v] /\ task'[v] = task[v]
  BY WorkerLeavesWorkers
<1>4. Status[t] = "running"
  <2>1. t \in Executing
    BY <1>1 DEF Executing
  <2> QED BY <1>2, <2>1, StatusFacts
<1>5. Executing' = Executing \ {t}
  <2>1. ASSUME NEW u \in Executing' PROVE u \in Executing \ {t}
    <3>1. PICK v \in Workers : pc'[v] \in {"apply", "cancelled"} /\ u = task'[v]
      BY <2>1 DEF Executing
    <3>2. v # w /\ pc[v] \in {"apply", "cancelled"} /\ u = task[v]
      BY <1>1, <1>3, <3>1
    <3> QED BY <1>2, <3>2 DEF Executing
  <2>2. ASSUME NEW u \in Executing \ {t} PROVE u \in Executing'
    <3>1. PICK v \in Workers : pc[v] \in {"apply", "cancelled"} /\ u = task[v]
      BY <2>2 DEF Executing
    <3>2. pc'[v] \in {"apply", "cancelled"} /\ u = task'[v]
      BY <1>3, <2>2, <3>1
    <3> QED BY <3>2 DEF Executing
  <2> QED BY <2>1, <2>2
<1>6. ShutDown' <=> ShutDown
  BY <1>1, WorkerKeepsOpen
<1>7. \E k \in Pool!Final :
         \A u \in Tasks : Status'[u] = IF u \in {t} THEN k ELSE Status[u]
  <2>1. CASE Panic(w)
    <3>1. lost' = lost \cup {t} /\ UNCHANGED outcomeVars
      BY <2>1 DEF Panic
    <3>2. Status'[t] = "lost"
      BY <1>2, <3>1, StatusLost
    <3>3. ASSUME NEW u \in Tasks, u # t PROVE Status'[u] = Status[u]
      BY <1>1, <1>5, <3>1, <3>3, StatusSame DEF outcomeVars
    <3> QED BY <3>2, <3>3 DEF Pool!Final
  <2>2. ASSUME NEW k \in {"processed", "unprocessed"}, Deliver({t}, k), UNCHANGED lost
        PROVE  \A u \in Tasks : Status'[u] = IF u \in {t} THEN k ELSE Status[u]
    <3>1. Status'[t] = k
      BY <1>2, <2>2, StatusDelivered
    <3>2. ASSUME NEW u \in Tasks, u # t PROVE Status'[u] = Status[u]
      <4>1. outcomes'[u] = outcomes[u] /\ sent'[u] = sent[u] /\ taken'[u] = taken[u]
        BY <2>2, <3>2, OthersNotDelivered
      <4> QED BY <1>1, <1>5, <2>2, <3>2, <4>1, StatusSame
    <3> QED BY <3>1, <3>2
  <2>3. CASE Complete(w)
    BY <2>2, <2>3 DEF Complete, Pool!Final
  <2>4. CASE ReturnInput(w)
    BY <2>2, <2>4 DEF ReturnInput, Pool!Final
  <2> QED BY <2>1, <2>3, <2>4
<1>8. Pool!Finish(t)
  BY <1>4, <1>6, <1>7, PoolSets DEF Pool!Finish
<1> QED BY <1>2, <1>8 DEF Pool!Next, Pool!Tasks, Tasks

\* What is in the channel waits.
LEMMA InChannel ==
  ASSUME TypeOK, Conserved
  PROVE  /\ Range(queue) \in SUBSET Tasks
         /\ \A t \in Range(queue) : t \in Prepared /\ ~Ended(t) /\ t \notin Executing
<1>1. Range(queue) \in SUBSET Tasks
  BY DEF TypeOK, SharedTypes, Range
<1>2. ASSUME NEW t \in Range(queue)
      PROVE  t \in Prepared /\ ~Ended(t) /\ t \notin Executing
  BY <1>1, <1>2 DEF Conserved, Placed, Somewhere, Exclusive, Alone, InQueue, Executing
<1> QED BY <1>1, <1>2

LEMMA WorkerPools ==
  ASSUME TypeOK, Holding, Conserved, Departures, Next, NEW w \in Workers, WorkerStep(w)
  PROVE  [Pool!Next]_(Pool!vars)
<1>0. ShutDown => ShutDown'
  BY ShutDownStays
<1>1. CASE TransferTask(w)
  BY <1>1, TransferPools
<1>2. CASE Complete(w) \/ ReturnInput(w) \/ Panic(w)
  BY <1>2, EndTaskPools
<1>3. CASE Drain(w)
  <2>1. poisoned /\ pc[w] = "drain"
    BY <1>3 DEF Drain, Departures, Processes
  <2>2. Deliver(Range(queue), "unprocessed") /\ UNCHANGED <<lost, nextIndex>> /\ pc'[w] = "finish"
    BY <1>3 DEF Drain, Exit, Goto, TypeOK, ControlTypes, Processes, taskVars, HiveAssumption
  <2>3. Executing' = Executing
    <3>1. \A v \in Workers \ {w} : pc'[v] = pc[v] /\ task'[v] = task[v]
      BY WorkerLeavesWorkers
    <3> QED BY <2>1, <2>2, <3>1 DEF Executing
  <2>4. ShutDown /\ ShutDown'
    BY <1>0, <2>1 DEF ShutDown
  <2> QED BY <2>2, <2>3, <2>4, InChannel, PoolGivesBack
<1>4. CASE ~TransferTask(w) /\ ~Complete(w) /\ ~ReturnInput(w) /\ ~Panic(w) /\ ~Drain(w)
  <2>1. UNCHANGED <<outcomeVars, lost, nextIndex>> /\ Executing' = Executing
    BY <1>4, WorkerQuiet
  <2>2. \A t \in Tasks : Status'[t] = Status[t]
    BY <2>1, StatusSame DEF outcomeVars
  <2> QED BY <1>0, <2>2, PoolQuiet
<1> QED BY <1>1, <1>2, <1>3, <1>4

-----------------------------------------------------------------------------
(***************************************************************************)
(* The handles.                                                            *)
(***************************************************************************)
\* Tasks are accepted under the next indices.
LEMMA SubmitPools ==
  ASSUME TypeOK, Holding, Conserved, NEW h \in Handles,
         NEW n \in 1 .. MaxBatch, NEW d \in Destinations, Submit(h, n, d),
         Executing' = Executing
  PROVE  Pool!Next
<1> USE DEF TypeOK, SharedTypes, ControlTypes, Processes, Goto, Calls
<1>1. /\ nextIndex \in Nat /\ n \in Nat /\ nextIndex + n <= MaxTasks /\ MaxTasks \in Nat
      /\ nextIndex' = nextIndex + n /\ UNCHANGED <<outcomeVars, lost>>
  BY DEF Submit
<1>2. n \in 1 .. MaxTasks
  BY <1>1
<1>3. Tasks \ Pool!In("new") = Prepared
  <2>1. Prepared \subseteq Tasks
    BY <1>1 DEF Prepared, Tasks
  <2>2. \A t \in Tasks : Status[t] = "new" <=> t \notin Prepared
    BY StatusFacts
  <2> QED BY <2>1, <2>2 DEF Pool!In, Pool!Tasks, Tasks
<1>4. Pool!Cardinality(Pool!Tasks \ Pool!In("new")) = nextIndex
  <2>1. Cardinality(Prepared) = nextIndex
    BY <1>1, FS_Interval DEF Prepared
  <2> QED BY <1>3, <2>1, SameCardinality DEF Pool!Tasks, Tasks
<1>5. ASSUME NEW t \in nextIndex .. nextIndex + n - 1
      PROVE  t \in Tasks /\ Status'[t] = "waiting"
  <2>1. t \in Tasks /\ t \notin Prepared /\ t \in Prepared'
    BY <1>1, <1>5 DEF Prepared, Tasks
  <2>2. ~Somewhere(t)
    BY <2>1 DEF Conserved, Placed
  <2>3. /\ outcomes[t] = "none" /\ sent[t] = "none" /\ taken[t] = "none" /\ t \notin lost
        /\ \A w \in Workers : task[w] # t
    BY <2>2 DEF Somewhere, Ended
  <2>4. t \notin Executing'
    BY <2>3 DEF Executing
  <2>5. Status'[t] = StatusOf(t)'
    BY <2>1 DEF Status
  <2> QED BY <1>1, <2>1, <2>3, <2>4, <2>5 DEF StatusOf, outcomeVars
<1>6. ASSUME NEW t \in Tasks, t \notin nextIndex .. nextIndex + n - 1
      PROVE  Status'[t] = Status[t]
  <2>1. t \in Prepared' <=> t \in Prepared
    BY <1>1, <1>6 DEF Prepared, Tasks
  <2>2. Status'[t] = StatusOf(t)' /\ Status[t] = StatusOf(t)
    BY DEF Status
  <2> QED BY <1>1, <2>1, <2>2 DEF StatusOf, outcomeVars
<1>7. ShutDown' <=> ShutDown
  <2>1. /\ \A w \in Workers : pc'[w] = pc[w]
        /\ pc[h] = "idle" /\ pc'[h] = "admit" /\ \A g \in Handles \ {h} : pc'[g] = pc[g]
        /\ poisoned' = poisoned
    BY DEF Submit, flagVars
  <2>2. BrokenDown' <=> BrokenDown
    BY <2>1 DEF BrokenDown
  <2>3. Connected' <=> Connected
    BY <2>1 DEF Connected, HoldsSender
  <2> QED BY <2>1, <2>2, <2>3 DEF ShutDown
<1>8. Pool!Set(nextIndex .. nextIndex + n - 1, "waiting")
  BY <1>5, <1>6, <1>7, PoolSets
<1>9. Pool!Accept(n)
  BY <1>1, <1>4, <1>8 DEF Pool!Accept
<1> QED BY <1>2, <1>9 DEF Pool!Next

\* Taking the stored outcomes changes none of them.
LEMMA TakeStoredPools ==
  ASSUME TypeOK, Conserved, NEW h \in Handles, TakeStored(h), NEW t \in Tasks,
         Executing' = Executing
  PROVE  Status'[t] = Status[t]
<1>1. Status[t] = StatusOf(t) /\ Status'[t] = StatusOf(t)'
  BY DEF Status
<1>2. /\ outcomes'[t] = "none" /\ sent'[t] = sent[t]
      /\ taken'[t] = IF outcomes[t] # "none" THEN outcomes[t] ELSE taken[t]
      /\ lost' = lost /\ Prepared' = Prepared
  BY DEF TakeStored, Prepared, taskVars
<1>3. outcomes[t] # "none" => sent[t] = "none"
  BY DEF Conserved, Exclusive, Alone
<1> QED BY <1>1, <1>2, <1>3 DEF StatusOf

\* What else a handle does to the outcomes.
LEMMA HandleQuiet ==
  ASSUME TypeOK, NEW h \in Handles, ContinueCall(h) \/ StartCall(h), ~TakeStored(h),
         ~Refuse(h), ~Drain(h), ~Extract(h),
         ~\E n \in 1 .. MaxBatch, d \in Destinations : Submit(h, n, d)
  PROVE  UNCHANGED <<outcomeVars, lost, nextIndex>>
<1> USE DEF Move, restVars, unreadVars, taskVars
<1>1. CASE ContinueCall(h)
  BY <1>1 DEF ContinueCall, Admit, Send, ApplyReturns, HasWorkStep, ReadPoisoned, ReadCounts,
     ReadSuspended, JoinStep, ReturnNone, ReleaseReferrer, DropLast, Poison, DropSender
<1>2. CASE StartCall(h)
  BY <1>2 DEF StartCall, Join, StartJoin, Suspend, Resume, HangUp, Grow, Clone, Drop,
     ReleaseReferrer, TryIntoHusk
<1> QED BY <1>1, <1>2

\* A husk is only made when nobody can submit.
LEMMA ExtractShutDown ==
  ASSUME TypeOK, NEW h \in Handles, Extract(h)
  PROVE  ShutDown
<1>1. ~Connected
  <2>1. ASSUME NEW g \in Handles PROVE ~HoldsSender(g)
    <3>1. pc[h] = "spin" /\ (g # h => ~HoldsShared(g))
      BY DEF Extract, Processes
    <3>2. pc[g] # "dead"
      BY DEF TypeOK, ControlTypes, HandlePoints
    <3> QED BY <3>1, <3>2 DEF HoldsSender, HoldsShared
  <2> QED BY <2>1 DEF Connected
<1> QED BY <1>1 DEF ShutDown

LEMMA HandlePools ==
  ASSUME TypeOK, Holding, Conserved, Departures, Next,
         NEW h \in Handles, ContinueCall(h) \/ StartCall(h)
  PROVE  [Pool!Next]_(Pool!vars)
<1>0. (ShutDown => ShutDown') /\ Executing' = Executing
  BY ShutDownStays, HandleLeavesExecuting
<1>1. CASE \E n \in 1 .. MaxBatch, d \in Destinations : Submit(h, n, d)
  BY <1>0, <1>1, SubmitPools
<1>2. CASE TakeStored(h)
  BY <1>0, <1>2, TakeStoredPools, PoolQuiet
<1>3. CASE Refuse(h)
  <2> DEFINE t == Head(batch[h])
  <2>1. /\ pc[h] = "refuse" /\ Deliver({t}, "unprocessed")
        /\ UNCHANGED <<lost, nextIndex>>
    BY <1>3 DEF Refuse, taskVars
  <2>2. batch[h] # <<>> /\ batch[h] \in Seq(Tasks)
    BY <2>1 DEF Holding, TypeOK, ControlTypes
  <2>3. t \in Tasks /\ InBatch(t, h)
    <3>1. IsInjective(batch[h])
      BY DEF Conserved, NoRepeats
    <3>2. t \in Range(batch[h]) /\ t \in Tasks
      BY <2>2, <3>1, TailRange, HeadTailProperties
    <3> QED BY <3>2 DEF InBatch
  <2>4. t \in Prepared /\ ~Ended(t) /\ t \notin Executing
    BY <2>3 DEF Conserved, Placed, Somewhere, Exclusive, Alone, Executing
  <2>5. ShutDown
    BY <2>1 DEF Departures, ShutDown
  <2>6. {t} \in SUBSET Tasks
    BY <2>3
  <2> HIDE DEF t
  <2> QED BY <1>0, <2>1, <2>4, <2>5, <2>6, PoolGivesBack
<1>4. CASE Drain(h) \/ Extract(h)
  <2>1. Deliver(Range(queue), "unprocessed") /\ UNCHANGED <<lost, nextIndex>>
    BY <1>4 DEF Drain, Extract, taskVars
  <2>2. ShutDown
    <3>1. Drain(h) => poisoned
      BY DEF Drain, Departures, Processes
    <3> QED BY <1>4, <3>1, ExtractShutDown DEF ShutDown
  <2> QED BY <1>0, <2>1, <2>2, InChannel, PoolGivesBack
<1>5. CASE /\ ~TakeStored(h) /\ ~Refuse(h) /\ ~Drain(h) /\ ~Extract(h)
           /\ ~\E n \in 1 .. MaxBatch, d \in Destinations : Submit(h, n, d)
  <2>1. UNCHANGED <<outcomeVars, lost, nextIndex>>
    BY <1>5, HandleQuiet
  <2>2. \A t \in Tasks : Status'[t] = Status[t]
    BY <1>0, <2>1, StatusSame DEF outcomeVars
  <2> QED BY <1>0, <2>2, PoolQuiet
<1> QED BY <1>1, <1>2, <1>3, <1>4, <1>5

-----------------------------------------------------------------------------
\* At first every task is new, and the pool is open.
LEMMA InitPools == Init => Pool!Init
<1> SUFFICES ASSUME Init PROVE Pool!Init
  OBVIOUS
<1>1. PICK first \in Handles, started \in SUBSET Workers :
         pc = [p \in Processes |-> IF p = first THEN "idle"
                                  ELSE IF p \in started THEN "boot" ELSE "absent"]
  BY DEF Init
<1>2. ~ShutDown
  <2>1. pc[first] = "idle" /\ \A w \in Workers : pc[w] # "poison"
    BY <1>1 DEF Processes
  <2>2. ~poisoned
    BY DEF Init
  <2> QED BY <2>1, <2>2 DEF ShutDown, BrokenDown, Connected, HoldsSender
<1>3. ASSUME NEW t \in Tasks PROVE StatusOf(t) = "new"
  <2>1. outcomes[t] = "none" /\ sent[t] = "none" /\ taken[t] = "none" /\ t \notin lost
    BY DEF Init
  <2>2. t \notin Prepared
    BY DEF Init, Prepared
  <2>3. t \notin Executing
    BY <1>1 DEF Executing, Processes
  <2> QED BY <2>1, <2>2, <2>3 DEF StatusOf
<1>4. Status = [t \in Tasks |-> "new"]
  BY <1>3 DEF Status
<1> QED BY <1>2, <1>4 DEF Pool!Init, Pool!Tasks, Tasks

\* Every step of the hive is one of the pool, or none.
LEMMA StepPools == IInv /\ Conserved /\ CountInv /\ [Next]_vars => [Pool!Next]_(Pool!vars)
<1> SUFFICES ASSUME IInv, Conserved, CountInv, [Next]_vars PROVE [Pool!Next]_(Pool!vars)
  OBVIOUS
<1>1. TypeOK /\ Holding /\ Departures
  BY DEF IInv, CountInv
<1>2. CASE UNCHANGED vars
  BY <1>2 DEF vars, restVars, taskVars, flagVars, channelVars, outcomeVars, holdVars,
     Pool!vars, Pool!Tasks, Status, StatusOf, Executing, Prepared, ShutDown, BrokenDown,
     Connected, HoldsSender
<1>3. CASE Rest
  BY <1>2, <1>3 DEF Rest
<1>4. ASSUME Next, NEW w \in Workers, WorkerStep(w) PROVE [Pool!Next]_(Pool!vars)
  BY <1>1, <1>4, WorkerPools
<1>5. ASSUME Next, NEW h \in Handles, ContinueCall(h) \/ StartCall(h)
      PROVE  [Pool!Next]_(Pool!vars)
  BY <1>1, <1>5, HandlePools
<1> QED BY <1>2, <1>3, <1>4, <1>5 DEF Next

(***************************************************************************)
(* The hive implements the task pool, for any number of workers, handles   *)
(* and tasks: whatever the interleaving of submitters, workers, panics,    *)
(* suspensions, drops and husks, indices have no gaps, no task is started  *)
(* twice or by more workers than there are, no outcome is changed or given *)
(* twice, and until the hive is shut down nothing is given back or lost    *)
(* but by an execution.                                                    *)
(***************************************************************************)
THEOREM PoolImplemented == Safe => ImplementsTaskPool
BY InitPools, StepPools, AlwaysIInv, AlwaysConserved, AlwaysCounts, PTL
   DEF Safe, ImplementsTaskPool, Pool!Spec
===============================================================================
