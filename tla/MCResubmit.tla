------------------------------- MODULE MCResubmit -------------------------------
(***************************************************************************)
(* Two workers, two clients and two inputs.  The first client submits,     *)
(* resumes with resume_store and removes what is unprocessed; the second   *)
(* one suspends and resumes with resume_send, competes for the outcomes,   *)
(* and rebuilds the hive when the first one has gone.                      *)
(***************************************************************************)
EXTENDS Resubmit

First == CHOOSE c \in Clients : TRUE
MCDoes ==
  [c \in Clients |->
     IF c = First
       THEN {"apply", "resume_store", "remove_unprocessed", "drop"}
       ELSE {"suspend", "resume_send", "take", "rebuild"}]
===============================================================================
