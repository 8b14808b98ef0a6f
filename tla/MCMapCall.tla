------------------------------- MODULE MCMapCall -------------------------------
(***************************************************************************)
(* Three inputs, whose outcomes the client asks for in an order that is    *)
(* neither that of the indices nor its reverse, on a channel that one      *)
(* other task uses as well.  The workers may fail or unwind; or catch; or  *)
(* always succeed.                                                         *)
(***************************************************************************)
EXTENDS MapCall

MCGiven == <<3, 1, 2>>
MCWorkers == {OnceCaller, PunkWorker, EchoWorker}
===============================================================================
