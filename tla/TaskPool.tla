------------------------------- MODULE TaskPool -------------------------------
(***************************************************************************)
(* What the hive promises about a task, whatever threads, locks, channels  *)
(* and counters it uses: tasks are accepted under consecutive indices,     *)
(* each is started once, and once more for each of at most MaxRetries      *)
(* retries, by at most Capacity workers at a time, and each gets one       *)
(* outcome that never changes. While the pool is open only a task that was *)
(* running can be lost, but for one whose start breaks the pool down. Once *)
(* the pool is closed or broken, tasks that wait may be given back         *)
(* unprocessed, or lost, and a broken pool still accepts tasks.            *)
(***************************************************************************)
EXTENDS Naturals, FiniteSets

CONSTANTS MaxTasks, Capacity, MaxRetries

Tasks == 0 .. MaxTasks - 1

VARIABLES status,   \* of each task
          retries,  \* how often each was put back
          open      \* not closed, and not broken

vars == <<status, retries, open>>

States == {"new", "waiting", "running", "processed", "unprocessed", "lost"}

Final == {"processed", "unprocessed", "lost"}

In(s) == {t \in Tasks : status[t] = s}

Init == /\ status = [t \in Tasks |-> "new"] /\ open = TRUE
        /\ retries = [t \in Tasks |-> 0]

Set(S, s) == /\ status' = [t \in Tasks |-> IF t \in S THEN s ELSE status[t]]
             /\ UNCHANGED <<retries, open>>

Accept(n) ==
  LET first == Cardinality(Tasks \ In("new")) IN
    /\ first + n <= MaxTasks
    /\ Set(first .. first + n - 1, "waiting")

Start(t) ==
  /\ status[t] = "waiting"
  /\ Cardinality(In("running")) < Capacity
  /\ Set({t}, "running")

Finish(t) ==
  /\ status[t] = "running"
  /\ \E s \in Final : Set({t}, s)

PutBack(t) ==
  /\ status[t] = "running"
  /\ retries[t] < MaxRetries
  /\ status' = [status EXCEPT ![t] = "waiting"]
  /\ retries' = [retries EXCEPT ![t] = @ + 1]
  /\ UNCHANGED open

Close == open /\ open' = FALSE /\ UNCHANGED <<status, retries>>

BreakDown(t) ==
  /\ open /\ open' = FALSE
  /\ status[t] = "waiting"
  /\ status' = [status EXCEPT ![t] = "lost"]
  /\ UNCHANGED retries

GiveBack(S) == ~open /\ S \subseteq In("waiting") /\ Set(S, "unprocessed")

Lose(t) == ~open /\ status[t] = "waiting" /\ Set({t}, "lost")

Next ==
  \/ \E n \in 1 .. MaxTasks : Accept(n)
  \/ \E t \in Tasks : Start(t) \/ Finish(t) \/ PutBack(t) \/ BreakDown(t) \/ Lose(t)
  \/ Close
  \/ \E S \in SUBSET Tasks : GiveBack(S)

Spec == Init /\ [][Next]_vars
===============================================================================
