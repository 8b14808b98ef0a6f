----------------------------- MODULE DualCounter -----------------------------
(***************************************************************************)
(* The two counters of src/hive/counter.rs as the pair they stand for: a   *)
(* left counter (tasks queued) below LMod and a right counter (tasks       *)
(* active) below RMod.  The program keeps both in one 64-bit word; what    *)
(* each operation does to the pair, the wrap-around and the carry between  *)
(* the halves included, is stated here, and PackedCounter shows that the   *)
(* arithmetic on the word does the same.                                   *)
(***************************************************************************)
EXTENDS Integers

CONSTANTS LMod,   \* 2^L_BITS: the number of values of the left counter
          RMod    \* 2^R_BITS: the number of values of the right counter

ASSUME CounterAssumption == LMod \in Nat \ {0, 1} /\ RMod \in Nat \ {0, 1}

Pair == [left : 0 .. LMod - 1, right : 0 .. RMod - 1]

Zero == [left |-> 0, right |-> 0]

\* What increment_left reports: the sum must fit the left half.
LeftOverflows(c, n) == c.left + n >= LMod

\* The word is incremented even then, and the carry goes to the right half.
IncrementLeft(c, n) ==
  IF LeftOverflows(c, n)
  THEN [left |-> c.left + n - LMod, right |-> (c.right + 1) % RMod]
  ELSE [c EXCEPT !.left = @ + n]

RightUnderflows(c, n) == c.right < n

DecrementRight(c, n) == [c EXCEPT !.right = (@ - n) % RMod]

LeftUnderflows(c, n) == c.left < n

RightOverflows(c, n) == c.right + n >= RMod

\* One addition of (n << L) - n: a borrow from the left half takes one
\* back from the right half.
Transfer(c, n) ==
  IF LeftUnderflows(c, n)
  THEN [left |-> c.left + LMod - n, right |-> (c.right + n - 1) % RMod]
  ELSE [left |-> c.left - n, right |-> (c.right + n) % RMod]

TransferFails(c, n) == LeftUnderflows(c, n) \/ RightOverflows(c, n)
==============================================================================
