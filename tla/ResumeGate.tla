------------------------------- MODULE ResumeGate -------------------------------
(***************************************************************************)
(* Gate of src/hive/gate.rs as the resume gate of the hive: workers call   *)
(* wait_while(is_suspended) before they take a task, clients call          *)
(* set_suspended.  The condition is evaluated once without the mutex and   *)
(* then under it; clearing the flag and notifying are two steps of the     *)
(* client, and only the client that changed the flag notifies.             *)
(***************************************************************************)
CONSTANTS Threads,   \* the workers
          Clients,   \* the threads that suspend and resume
          NoOne

ASSUME ResumeGateAssumption == NoOne \notin Threads

VARIABLES at,         \* where each worker is in wait_while
          mutex,      \* the owner of the mutex
          suspended,
          notifying   \* clients that cleared the flag and must still notify

vars == <<at, mutex, suspended, notifying>>

Init ==
  /\ at = [t \in Threads |-> "out"]
  /\ mutex = NoOne
  /\ suspended = FALSE
  /\ notifying = {}

Move(t, from, to) == at[t] = from /\ at' = [at EXCEPT ![t] = to]

Arrive(t) == Move(t, "out", "pre") /\ UNCHANGED <<mutex, suspended, notifying>>

Precheck(t) ==
  /\ Move(t, "pre", IF suspended THEN "lock" ELSE "out")
  /\ UNCHANGED <<mutex, suspended, notifying>>

\* Mutant: the condition is not tested again under the mutex.
TestOnce(t) ==
  /\ Move(t, "test", "out")
  /\ mutex' = NoOne
  /\ UNCHANGED <<suspended, notifying>>

Lock(t) ==
  /\ mutex = NoOne /\ mutex' = t
  /\ Move(t, "lock", "test")
  /\ UNCHANGED <<suspended, notifying>>

\* Condvar::wait gives up the mutex and sleeps in one step; the mutex is also
\* released when wait_while returns.
Test(t) ==
  /\ Move(t, "test", IF suspended THEN "parked" ELSE "out")
  /\ mutex' = NoOne
  /\ UNCHANGED <<suspended, notifying>>

\* Mutant: notifies when the hive is suspended instead of when it is resumed.
NotifyOnSuspend(c, b) ==
  /\ c \notin notifying
  /\ suspended # b
  /\ suspended' = b
  /\ notifying' = IF b THEN notifying \cup {c} ELSE notifying
  /\ UNCHANGED <<at, mutex>>

\* set_suspended: the swap, which tells whether the flag changed ...
SetSuspended(c, b) ==
  /\ c \notin notifying
  /\ suspended # b
  /\ suspended' = b
  /\ notifying' = IF b THEN notifying ELSE notifying \cup {c}
  /\ UNCHANGED <<at, mutex>>

\* Mutant: notify_one.
NotifyOne(c) ==
  /\ c \in notifying
  /\ mutex = NoOne
  /\ \/ \E t \in Threads : Move(t, "parked", "lock")
     \/ (\A t \in Threads : at[t] # "parked") /\ UNCHANGED at
  /\ notifying' = notifying \ {c}
  /\ UNCHANGED <<mutex, suspended>>

\* ... and notify_all.
Notify(c) ==
  /\ c \in notifying
  /\ mutex = NoOne
  /\ at' = [t \in Threads |-> IF at[t] = "parked" THEN "lock" ELSE at[t]]
  /\ notifying' = notifying \ {c}
  /\ UNCHANGED <<mutex, suspended>>

Wait(t) == Precheck(t) \/ Lock(t) \/ Test(t)

Next ==
  \/ \E t \in Threads : Arrive(t) \/ Wait(t)
  \/ \E c \in Clients : Notify(c) \/ \E b \in BOOLEAN : SetSuspended(c, b)

\* A worker in wait_while is scheduled, and obtains a mutex that stays free;
\* a call of set_suspended is finished.
Fairness ==
  /\ \A t \in Threads : WF_vars(Precheck(t)) /\ WF_vars(Test(t)) /\ WF_vars(Lock(t))
  /\ \A c \in Clients : WF_vars(Notify(c))

Spec == Init /\ [][Next]_vars /\ Fairness

-----------------------------------------------------------------------------
(***************************************************************************)
(* Type invariant.                                                         *)
(***************************************************************************)
TypeOK ==
  /\ at \in [Threads -> {"out", "pre", "lock", "test", "parked"}]
  /\ mutex \in Threads \cup {NoOne}
  /\ suspended \in BOOLEAN
  /\ notifying \subseteq Clients

(***************************************************************************)
(* A worker only sleeps while the hive is suspended or a client that       *)
(* resumed it is about to notify.                                          *)
(***************************************************************************)
NoLostWakeup ==
  \A t \in Threads : at[t] = "parked" => suspended \/ notifying # {}

(***************************************************************************)
(* Once the hive stays resumed, every worker gets through the gate, each   *)
(* time it comes to it: it is outside again and again, unless the hive is  *)
(* suspended again and again.                                              *)
(***************************************************************************)
ResumeReleases == \A t \in Threads : []<>(suspended \/ at[t] = "out")

(***************************************************************************)
(* The gate is an Await: a worker leaves wait_while only at a moment when  *)
(* the hive is not suspended.                                              *)
(***************************************************************************)
AsAwait == INSTANCE Await WITH waiting <- {t \in Threads : at[t] # "out"}
ImplementsAwait == AsAwait!Init /\ [][AsAwait!Next]_(AsAwait!vars)
===============================================================================
