-------------------------------- MODULE MCThreads --------------------------------
(***************************************************************************)
(* Two clients enlarge a pool of up to three threads on a machine with two *)
(* cores, of which the lists of affinity name both and one that is not     *)
(* there; the first hive is configured in up to two steps.                 *)
(***************************************************************************)
EXTENDS Threads

MCAffinities == {<<2, 0>>}
MCSymmetry == Permutations(Clients)
==================================================================================
