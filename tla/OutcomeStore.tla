------------------------------ MODULE OutcomeStore ------------------------------
(***************************************************************************)
(* The operations of outcome/store.rs on a map from indices to outcomes,   *)
(* which a Hive, a Husk and an OutcomeBatch have in common.  What the code *)
(* does under one lock is one operator here: the remove_all_* of a Hive    *)
(* lock its map anew for every outcome, and are made of Indices, RemoveAs  *)
(* and Without by the modules that use them.                               *)
(***************************************************************************)
EXTENDS Outcomes, FiniteSets, SequencesExt

NoOutcomes == <<>>

Insert(s, o) == [i \in DOMAIN s \cup {o.index} |-> IF i = o.index THEN o ELSE s[i]]

Without(s, I) == [i \in DOMAIN s \ I |-> s[i]]

\* unprocessed_indices and its like.
Indices(s, kinds) == {i \in DOMAIN s : s[i].kind \in kinds}

\* (unprocessed, successes, failures); everything else counts as a failure.
Count(s) ==
  LET un == Cardinality(Indices(s, Unprocessed))
      ok == Cardinality(Indices(s, Success))
  IN  [unprocessed |-> un, successes |-> ok,
       failures |-> Cardinality(DOMAIN s) - un - ok]

AssertEmpty(s, allowSuccesses) ==
  LET n == Count(s)
  IN  IF n.unprocessed > 0 \/ n.failures > 0 \/ (n.successes > 0 /\ ~allowSuccesses)
        THEN Panics ELSE Returns({})

\* remove_unprocessed, remove_success, remove_failure: the outcome is out of the
\* map, Without(s, {i}), before its kind is looked at.
RemoveAs(s, i, kinds) ==
  IF i \notin DOMAIN s THEN Returns({}) ELSE IF s[i].kind \in kinds THEN Returns({s[i]}) ELSE Panics

\* The outcomes of a kind, in an order of the HashMap's.
InSomeOrder(s, kinds) == {[k \in DOMAIN q |-> s[q[k]]] : q \in SetToSeqs(Indices(s, kinds))}

-----------------------------------------------------------------------------
(***************************************************************************)
(* What consumes a Husk or a batch; values are returned as the set of the  *)
(* inputs they were computed from.                                         *)
(***************************************************************************)
Values(s, I) == {s[i].of : i \in I}

UnwrapAll(s) ==
  IF Indices(s, Failure) \cup Indices(s, Unprocessed) # {}
    THEN Panics
    ELSE Returns([ok |-> Values(s, Indices(s, Success))])

\* The sequences of inputs that into_unprocessed may return.
Ascending(q) == \A j, k \in DOMAIN q : j < k => q[j] < q[k]
IntoInputs(s, ordered) ==
  {[k \in DOMAIN q |-> IntoInput(s[q[k]]).value] :
     q \in {p \in SetToSeqs(Indices(s, Unprocessed)) : ordered => Ascending(p)}}

\* remove_all_failures of a batch, with which nobody interferes.
RemoveAllFailures(s) == {RemoveAs(s, i, Failure).value : i \in Indices(s, Failure)}

\* The unprocessed inputs are not dropped before the successes are unwrapped.
OkOrUnwrapErrors(s, dropUnprocessed) ==
  LET failed == Indices(s, Failure)
  IN  IF ~dropUnprocessed /\ Indices(s, Unprocessed) # {} THEN Panics
      ELSE IF failed = {} THEN UnwrapAll(s)
      ELSE IF \E i \in failed : IntoError(s[i]).panics THEN Panics
      ELSE Returns([err |-> Values(s, failed)])
===============================================================================
