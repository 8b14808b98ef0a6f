------------------------------- MODULE JoinGate -------------------------------
(***************************************************************************)
(* The join gate as src/hive/shared.rs uses it, with the hive's work       *)
(* reduced to one bit: wait_on_done waits while there is work, and whoever *)
(* finishes the last task calls no_work_notify_all, which looks at the     *)
(* work once more and notifies only if there still is none.                *)
(*                                                                         *)
(* Suspending the hive ends the work as well, but without a notification;  *)
(* it is left out here and is part of module Hive.                         *)
(***************************************************************************)
EXTENDS PhasedGate

CONSTANTS Finishers,   \* the threads that finish tasks
          MaxFlips     \* bound: how often new work arrives

ASSUME FlipsAssumption == MaxFlips \in Nat

VARIABLES hasWork,     \* the condition
          notifier,    \* where each finisher is in finish_task
          flips        \* how often work arrived so far

vars == <<gateVars, hasWork, notifier, flips>>

JoinInit ==
  /\ Init
  /\ hasWork = FALSE
  /\ notifier = [f \in Finishers |-> "idle"]
  /\ flips = 0

Submit ==
  /\ ~hasWork
  /\ flips < MaxFlips
  /\ hasWork' = TRUE
  /\ flips' = flips + 1
  /\ UNCHANGED <<gateVars, notifier>>

\* Mutant: the work is looked at before the task is taken off the counter.
FinishAfterCheck(f) ==
  /\ hasWork
  /\ notifier[f] = "idle"
  /\ hasWork' = FALSE
  /\ UNCHANGED <<gateVars, notifier, flips>>

\* finish_task of the last task: the counter goes to zero ...
FinishLast(f) ==
  /\ hasWork
  /\ notifier[f] = "idle"
  /\ hasWork' = FALSE
  /\ notifier' = [notifier EXCEPT ![f] = "check"]
  /\ UNCHANGED <<gateVars, flips>>

\* ... no_work_notify_all evaluates has_work ...
CheckWork(f) ==
  /\ notifier[f] = "check"
  /\ notifier' = [notifier EXCEPT ![f] = IF hasWork THEN "idle" ELSE "notify"]
  /\ UNCHANGED <<gateVars, hasWork, flips>>

\* ... and notifies.
Notify(f) ==
  /\ notifier[f] = "notify"
  /\ NotifyAll
  /\ notifier' = [notifier EXCEPT ![f] = "idle"]
  /\ UNCHANGED <<hasWork, flips>>

Join(t) == Arrive(t) /\ UNCHANGED <<hasWork, notifier, flips>>

JoinStep(t) ==
  /\ Evaluate(t, hasWork) \/ Load(t) \/ Lock(t) \/ Leave(t)
  /\ UNCHANGED <<hasWork, notifier, flips>>

Next ==
  \/ Submit
  \/ \E f \in Finishers : FinishLast(f) \/ CheckWork(f) \/ Notify(f)
  \/ \E t \in Threads : Join(t) \/ JoinStep(t)

\* Nobody has to submit or to join; a call under way goes on, a task that was
\* started is finished, and a mutex that stays free is obtained.
Fairness ==
  /\ \A f \in Finishers : /\ WF_vars(FinishLast(f))
                          /\ WF_vars(CheckWork(f))
                          /\ WF_vars(Notify(f))
  /\ \A t \in Threads : /\ WF_vars(Evaluate(t, hasWork) /\ JoinStep(t))
                        /\ WF_vars(Load(t) /\ JoinStep(t))
                        /\ WF_vars(Lock(t) /\ JoinStep(t))
                        /\ WF_vars(Leave(t) /\ JoinStep(t))

Safe == JoinInit /\ [][Next]_vars
Spec == Safe /\ Fairness

-----------------------------------------------------------------------------
(***************************************************************************)
(* Type invariant.                                                         *)
(***************************************************************************)
TypeOK ==
  /\ at \in [Threads -> Points]
  /\ saved \in [Threads -> Nat]
  /\ phase \in Nat
  /\ mutex \in Threads \cup {NoOne}
  /\ hasWork \in BOOLEAN
  /\ notifier \in [Finishers -> {"idle", "check", "notify"}]
  /\ flips \in 0 .. MaxFlips

Inside(t) == at[t] \in {"test", "leave"}

(***************************************************************************)
(* The mutex serialises the loop of wait_while: exactly its owner is       *)
(* between the lock and the unlock.                                        *)
(***************************************************************************)
MutexOwner == \A t \in Threads : Inside(t) <=> mutex = t

(***************************************************************************)
(* No wakeup is lost: when there is no work, a thread can only be asleep   *)
(* because the notification that wakes it is still to come.  This is what  *)
(* testing the condition under the mutex and notifying under it is for.    *)
(***************************************************************************)
NoLostWakeup ==
  \A t \in Threads :
    at[t] = "parked" /\ ~hasWork =>
      \E f \in Finishers : notifier[f] # "idle"

(***************************************************************************)
(* The phase only moves under the mutex and one at a time, so that a       *)
(* thread never has a phase that is yet to come and every thread in the    *)
(* loop is in the current one.                                             *)
(***************************************************************************)
PhaseIsCurrent ==
  \A t \in Threads : /\ saved[t] <= phase
                     /\ Inside(t) => saved[t] = phase

(***************************************************************************)
(* Nobody stays in wait_while for ever once work stops arriving.           *)
(***************************************************************************)
JoinReturns == \A t \in Threads : at[t] # "out" ~> at[t] = "out"
===============================================================================
