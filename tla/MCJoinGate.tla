------------------------------ MODULE MCJoinGate ------------------------------
(***************************************************************************)
(* Three joining threads and two finishers; work arrives twice, so that a  *)
(* phase can be entered while the threads of the one before are still      *)
(* leaving it.  The constants are in the .cfg; without symmetry, since two *)
(* of the properties are temporal.                                         *)
(***************************************************************************)
EXTENDS JoinGate
===============================================================================
