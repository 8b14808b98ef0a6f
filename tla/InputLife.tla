------------------------------- MODULE InputLife -------------------------------
(***************************************************************************)
(* What a hive promises for the inputs of tasks that may be cancelled: an  *)
(* input that is due is processed or interrupted; one that was interrupted *)
(* may become due again, one that was processed never does.                *)
(***************************************************************************)
CONSTANT Inputs

VARIABLE life    \* new, due, undone, processed, or left: out of the hive

Init == life = [x \in Inputs |-> "new"]

Become(x, from, to) == life[x] \in from /\ life' = [life EXCEPT ![x] = to]

Submit(x) == Become(x, {"new"}, "due")
Process(x) == Become(x, {"due"}, "processed")
Interrupt(x) == Become(x, {"due"}, "undone")
Deliver(x) == Become(x, {"due"}, "left")

\* Of the stored outcomes, a client submits undone inputs again and takes others
\* away, in one step.
Take ==
  \A x \in Inputs :
    \/ UNCHANGED life[x]
    \/ life[x] = "undone" /\ life'[x] = "due"
    \/ life[x] \in {"undone", "processed"} /\ life'[x] = "left"

Next ==
  \/ \E x \in Inputs : Submit(x) \/ Process(x) \/ Interrupt(x) \/ Deliver(x)
  \/ Take

Spec == Init /\ [][Next]_life
===============================================================================
