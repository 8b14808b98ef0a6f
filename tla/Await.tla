--------------------------------- MODULE Await ---------------------------------
(***************************************************************************)
(* What the resume gate promises: a thread that waits goes on in one step, *)
(* at a moment when the hive is not suspended.  Module Hive uses the gate  *)
(* in this form.                                                           *)
(***************************************************************************)
CONSTANT Threads

VARIABLES suspended, waiting

vars == <<suspended, waiting>>

Init == suspended = FALSE /\ waiting = {}

SetSuspended(b) == suspended # b /\ suspended' = b /\ UNCHANGED waiting

Arrive(t) == t \notin waiting /\ waiting' = waiting \cup {t} /\ UNCHANGED suspended

Pass(t) == ~suspended /\ t \in waiting /\ waiting' = waiting \ {t} /\ UNCHANGED suspended

Next ==
  \/ \E b \in BOOLEAN : SetSuspended(b)
  \/ \E t \in Threads : Arrive(t) \/ Pass(t)

Spec == Init /\ [][Next]_vars /\ \A t \in Threads : WF_vars(Pass(t))
===============================================================================
