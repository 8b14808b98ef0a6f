----------------------------- MODULE CounterPair -----------------------------
(***************************************************************************)
(* What the dual counter promises to its callers: a pair of counters, each *)
(* operation one atomic step that returns the previous value or an error.  *)
(* An amount no half can hold is refused before anything is changed; any   *)
(* other error is reported after the change was made.                      *)
(***************************************************************************)
EXTENDS DualCounter

CONSTANT Amounts   \* the amounts the callers pass

VARIABLES pair,    \* the two counters
          result   \* what the last operation returned

Ok(v) == [error |-> "none", value |-> v]
Err(e) == [error |-> e, value |-> <<>>]

Init == pair = Zero /\ result = Ok(<<>>)

Refused(e) == result' = Err(e) /\ UNCHANGED pair

Increment(n) ==
  \/ n >= LMod /\ Refused("LeftOverflow")
  \/ /\ n < LMod
     /\ pair' = IncrementLeft(pair, n)
     /\ result' = IF LeftOverflows(pair, n) THEN Err("LeftOverflow")
                  ELSE Ok(<<pair.left>>)

Decrement(n) ==
  \/ n >= RMod /\ Refused("RightUnderflow")
  \/ /\ n < RMod
     /\ pair' = DecrementRight(pair, n)
     /\ result' = IF RightUnderflows(pair, n) THEN Err("RightUnderflow")
                  ELSE Ok(<<pair.right>>)

Move(n) ==
  \/ n >= LMod /\ Refused("LeftUnderflow")
  \/ n < LMod /\ n >= RMod /\ Refused("RightOverflow")
  \/ /\ n < LMod /\ n < RMod
     /\ pair' = Transfer(pair, n)
     /\ result' = IF LeftUnderflows(pair, n) THEN Err("LeftUnderflow")
                  ELSE IF RightOverflows(pair, n) THEN Err("RightOverflow")
                  ELSE Ok(<<pair.left, pair.right>>)

Next == \E n \in Amounts : Increment(n) \/ Decrement(n) \/ Move(n)

Spec == Init /\ [][Next]_<<pair, result>>
==============================================================================
