------------------------------ MODULE MCRetryHive ------------------------------
(***************************************************************************)
(* Two workers and one handle in the `retry` build; the multiplier has one *)
(* bit, so that the second retry of a task overflows it.                   *)
(***************************************************************************)
EXTENDS RetryHive

OneAsksMore == [t \in Tasks |-> IF t = 0 THEN 2 ELSE 1]
SubmitAndLeave == [h \in Handles |-> {"submit", "drop", "husk"}]
===============================================================================
