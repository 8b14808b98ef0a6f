-------------------------------- MODULE MCHive --------------------------------
(***************************************************************************)
(* Instances of Hive for TLC: small sets of workers and handles, and which *)
(* operations the handles use.                                             *)
(***************************************************************************)
EXTENDS HivePool, TLC

WorkerSymmetry == Permutations(Workers)
Symmetry == Permutations(Workers) \cup Permutations(Handles)

AllMay(ops) == [h \in Handles |-> ops]

\* One handle joins; the other submits, suspends and resumes meanwhile.
Joiner == CHOOSE h \in Handles : TRUE
InUse == [h \in Handles |-> {"clone", "submit"} \cup
                            IF h = Joiner THEN {"join"} ELSE {"suspend", "resume"}]
Leaving == AllMay({"submit", "clone", "suspend", "resume", "drop", "husk"})
WholeLife == AllMay({"submit", "take", "hang_up", "grow", "drop"})
Alone == AllMay({"submit", "drop", "husk"})

\* For the statements that do not hold.
SubmitAndDrop == AllMay({"submit", "drop"})
JoinOnly == AllMay({"clone", "submit", "join"})
===============================================================================
