---------------------------- MODULE JoinGateProofs ----------------------------
(***************************************************************************)
(* Proofs about JoinGate, for any set of joining threads, any set of       *)
(* finishers and any number of arrivals of new work.                       *)
(*                                                                         *)
(* The argument.  Only the owner of the mutex is between Lock and the      *)
(* unlock in Evaluate or Leave (MutexOwner), so while a thread moves the   *)
(* phase on no other thread is in the loop with the old one                *)
(* (PhaseIsCurrent).  A thread goes to sleep only on a condition that is   *)
(* true in that step; when the last task makes it false its finisher is    *)
(* bound to notify, and a notification leaves no sleeper (NoLostWakeup).   *)
(***************************************************************************)
EXTENDS JoinGate, TLAPS

IInv == TypeOK /\ MutexOwner /\ PhaseIsCurrent /\ NoLostWakeup

USE GateAssumption, FlipsAssumption

(***************************************************************************)
(* The initial states satisfy the inductive invariant.                     *)
(***************************************************************************)
LEMMA InitEstablishesIInv == JoinInit => IInv
<1> SUFFICES ASSUME JoinInit PROVE IInv
  OBVIOUS
<1>1. TypeOK
  <2>1. at \in [Threads -> Points]
    BY DEF JoinInit, Init, Points
  <2>2. flips \in 0 .. MaxFlips
    BY DEF JoinInit
  <2>3. notifier \in [Finishers -> {"idle", "check", "notify"}]
    BY DEF JoinInit
  <2>4. saved \in [Threads -> Nat] /\ phase \in Nat
    BY DEF JoinInit, Init
  <2> QED BY <2>1, <2>2, <2>3, <2>4 DEF JoinInit, Init, TypeOK, Points
<1>2. MutexOwner
  BY DEF JoinInit, Init, MutexOwner, Inside
<1>3. PhaseIsCurrent
  <2> SUFFICES ASSUME NEW t \in Threads
               PROVE  saved[t] <= phase /\ (Inside(t) => saved[t] = phase)
    BY DEF PhaseIsCurrent
  <2>1. saved[t] = 0 /\ phase = 0
    BY DEF JoinInit, Init
  <2>2. 0 <= 0
    OBVIOUS
  <2> QED BY <2>1, <2>2
<1>4. NoLostWakeup
  BY DEF JoinInit, Init, NoLostWakeup
<1> QED BY <1>1, <1>2, <1>3, <1>4 DEF IInv

(***************************************************************************)
(* A step of wait_while preserves it.  What the step does to the thread    *)
(* that takes it and to the mutex decides all four conjuncts.              *)
(***************************************************************************)
LEMMA JoinStepPreservesIInv ==
  ASSUME IInv, NEW t \in Threads, Join(t) \/ JoinStep(t)
  PROVE  IInv'
<1> USE DEF IInv, TypeOK, MutexOwner, PhaseIsCurrent, NoLostWakeup, Inside,
            Points, Move
<1>1. CASE Join(t)
  BY <1>1 DEF Join, Arrive
<1>2. CASE JoinStep(t) /\ Evaluate(t, hasWork)
  <2>1. CASE at[t] = "pre"
    BY <1>2, <2>1 DEF JoinStep, Evaluate
  <2>2. CASE at[t] = "test"
    BY <1>2, <2>2 DEF JoinStep, Evaluate
  <2> QED BY <1>2, <2>1, <2>2 DEF Evaluate
<1>3. CASE JoinStep(t) /\ Load(t)
  BY <1>3 DEF JoinStep, Load
<1>4. CASE JoinStep(t) /\ Lock(t)
  BY <1>4 DEF JoinStep, Lock
<1>5. CASE JoinStep(t) /\ Leave(t)
  BY <1>5 DEF JoinStep, Leave
<1> QED BY <1>1, <1>2, <1>3, <1>4, <1>5 DEF JoinStep

(***************************************************************************)
(* New work, and the three steps of a thread that finishes the last task,  *)
(* preserve it.                                                            *)
(***************************************************************************)
LEMMA WorkStepPreservesIInv ==
  ASSUME IInv, Submit \/ \E f \in Finishers : FinishLast(f) \/ CheckWork(f) \/ Notify(f)
  PROVE  IInv'
<1> USE DEF IInv, TypeOK, MutexOwner, PhaseIsCurrent, NoLostWakeup, Inside,
            Points, gateVars
<1>1. CASE Submit
  BY <1>1 DEF Submit
<1>2. ASSUME NEW f \in Finishers, FinishLast(f) PROVE IInv'
  BY <1>2 DEF FinishLast
<1>3. ASSUME NEW f \in Finishers, CheckWork(f) PROVE IInv'
  BY <1>3 DEF CheckWork
<1>4. ASSUME NEW f \in Finishers, Notify(f) PROVE IInv'
  BY <1>4 DEF Notify, NotifyAll
<1> QED BY <1>1, <1>2, <1>3, <1>4

(***************************************************************************)
(* IInv is inductive.                                                      *)
(***************************************************************************)
LEMMA StepPreservesIInv == IInv /\ [Next]_vars => IInv'
<1> SUFFICES ASSUME IInv, [Next]_vars PROVE IInv'
  OBVIOUS
<1>1. CASE UNCHANGED vars
  BY <1>1 DEF vars, gateVars, IInv, TypeOK, MutexOwner, PhaseIsCurrent,
              NoLostWakeup, Inside
<1>2. CASE Next
  BY <1>2, JoinStepPreservesIInv, WorkStepPreservesIInv DEF Next
<1> QED BY <1>1, <1>2

\* IInv is an invariant.
LEMMA AlwaysIInv == Safe => []IInv
BY InitEstablishesIInv, StepPreservesIInv, PTL DEF Safe

-----------------------------------------------------------------------------
(***************************************************************************)
(* The variables of the gate have their types in every reachable state.    *)
(***************************************************************************)
THEOREM TypeCorrect == Safe => []TypeOK
BY AlwaysIInv, PTL DEF IInv

(***************************************************************************)
(* wait_while runs its loop under the mutex: nobody but the owner is       *)
(* between the lock and the unlock, whatever the interleaving.             *)
(***************************************************************************)
THEOREM MutualExclusion == Safe => []MutexOwner
BY AlwaysIInv, PTL DEF IInv

(***************************************************************************)
(* No thread sleeps through the end of the work: when it is asleep and     *)
(* there is no work, the thread that finished the last task has yet to     *)
(* notify.  For any number of joiners, finishers and arrivals.             *)
(***************************************************************************)
THEOREM NoWakeupIsLost == Safe => []NoLostWakeup
BY AlwaysIInv, PTL DEF IInv

(***************************************************************************)
(* The phase is moved on by the threads of the current phase only, one at  *)
(* a time: the compare_exchange in wait_while cannot fail for a thread     *)
(* that saw the condition false.                                           *)
(***************************************************************************)
THEOREM PhasesAreCurrent == Safe => []PhaseIsCurrent
BY AlwaysIInv, PTL DEF IInv
===============================================================================
