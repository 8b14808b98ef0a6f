------------------------------ MODULE PhasedGate ------------------------------
(***************************************************************************)
(* PhasedGate of src/hive/gate.rs: a mutex, a condition variable and a     *)
(* phase number.  A thread that calls wait_while(condition) sleeps while   *)
(* the condition holds and the phase is the one it loaded; the first of    *)
(* the sleepers to see the condition false moves the phase on, which lets  *)
(* the others go even if the condition has become true again.              *)
(*                                                                         *)
(* The condition belongs to the caller: Evaluate takes its value b, and    *)
(* the module that uses the gate says when it is evaluated and what it     *)
(* reads.                                                                  *)
(***************************************************************************)
EXTENDS Naturals

CONSTANTS Threads,   \* the threads that may call wait_while
          NoOne      \* the owner of a free mutex

ASSUME GateAssumption == NoOne \notin Threads

VARIABLES at,      \* where each thread is in wait_while
          saved,   \* the phase it loaded
          phase,   \* AtomicUsize
          mutex    \* the owner of the mutex

gateVars == <<at, saved, phase, mutex>>

Points == {"out", "pre", "load", "lock", "test", "parked", "leave"}

Init ==
  /\ at = [t \in Threads |-> "out"]
  /\ saved = [t \in Threads |-> 0]
  /\ phase = 0
  /\ mutex = NoOne

Move(t, p) == at' = [at EXCEPT ![t] = p]

Arrive(t) ==
  /\ at[t] = "out"
  /\ Move(t, "pre")
  /\ UNCHANGED <<saved, phase, mutex>>

\* condition() outside the mutex: false, and wait_while returns at once.
\* condition() in the loop: true, and the thread gives up the mutex and
\* sleeps in one step (Condvar::wait).
Evaluate(t, b) ==
  \/ /\ at[t] = "pre"
     /\ Move(t, IF b THEN "load" ELSE "out")
     /\ UNCHANGED <<saved, phase, mutex>>
  \/ /\ at[t] = "test"
     /\ Move(t, IF b THEN "parked" ELSE "leave")
     /\ mutex' = IF b THEN NoOne ELSE mutex
     /\ UNCHANGED <<saved, phase>>

Load(t) ==
  /\ at[t] = "load"
  /\ saved' = [saved EXCEPT ![t] = phase]
  /\ Move(t, "lock")
  /\ UNCHANGED <<phase, mutex>>

\* Mutant: the loop does not compare the phases.
LockIgnoresPhase(t) ==
  /\ at[t] = "lock"
  /\ mutex = NoOne /\ mutex' = t
  /\ Move(t, "test")
  /\ UNCHANGED <<saved, phase>>

\* Takes the mutex, for the first time or after a notification, and compares
\* the phases.  If they differ the loop ends and its compare_exchange fails.
Lock(t) ==
  /\ at[t] = "lock"
  /\ mutex = NoOne
  /\ IF saved[t] = phase THEN Move(t, "test") /\ mutex' = t
                         ELSE Move(t, "out") /\ UNCHANGED mutex
  /\ UNCHANGED <<saved, phase>>

\* The loop ended on a false condition: compare_exchange, then unlock.
Leave(t) ==
  /\ at[t] = "leave"
  /\ phase' = IF phase = saved[t] THEN phase + 1 ELSE phase
  /\ mutex' = NoOne
  /\ Move(t, "out")
  /\ UNCHANGED saved

\* Mutant: notify_one.
NotifyOne ==
  /\ mutex = NoOne
  /\ IF \E t \in Threads : at[t] = "parked"
     THEN \E t \in Threads : at[t] = "parked" /\ Move(t, "lock")
     ELSE UNCHANGED at
  /\ UNCHANGED <<saved, phase, mutex>>

\* notify_all: wakes every sleeper, each of which then wants the mutex.
NotifyAll ==
  /\ mutex = NoOne
  /\ at' = [t \in Threads |-> IF at[t] = "parked" THEN "lock" ELSE at[t]]
  /\ UNCHANGED <<saved, phase, mutex>>
===============================================================================
