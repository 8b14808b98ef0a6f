---------------------------- MODULE PackedCounter ----------------------------
(***************************************************************************)
(* DualCounter of src/hive/counter.rs as it is built: one machine word,    *)
(* the left counter in the low bits and the right counter in the high      *)
(* ones, and every operation a single wrapping addition or subtraction     *)
(* (atomic fetch_add and fetch_sub) whose previous value tells whether a   *)
(* half overflowed.                                                        *)
(*                                                                         *)
(* `ledger' is a history variable: the exact, unbounded integers the two   *)
(* halves should hold if every operation were counted without a width.     *)
(* `healthy' says no operation has returned an error so far.               *)
(***************************************************************************)
EXTENDS DualCounter

CONSTANT Amounts   \* the amounts the callers pass

ASSUME AmountsAssumption == Amounts \subseteq Nat

VARIABLES word,     \* the AtomicU64
          result,   \* what the last operation returned
          ledger,   \* history: exact counts
          healthy   \* history: no error was returned yet

vars == <<word, result, ledger, healthy>>

Ok(v) == [error |-> "none", value |-> v]
Err(e) == [error |-> e, value |-> <<>>]

WordMod == LMod * RMod
LMax == LMod - 1
RMax == RMod - 1

Decompose(n) == [left |-> n % LMod, right |-> n \div LMod]

Init ==
  /\ word = 0
  /\ result = Ok(<<>>)
  /\ ledger = Zero
  /\ healthy = TRUE

Refused(e) == result' = Err(e) /\ UNCHANGED word

(***************************************************************************)
(* The operations: the width check on n, the word arithmetic, and the      *)
(* verdict drawn from the previous value.                                  *)
(***************************************************************************)
Added(n) == (word + n) % WordMod

\* Mutant: the limit of the sum is off by one.
IncrementLeftPastMax(n) ==
  /\ n <= LMax
  /\ word' = Added(n)
  /\ LET prev == word % LMod IN
       result' = IF prev + n <= LMod THEN Ok(<<prev>>) ELSE Err("LeftOverflow")

IncrementLeftWord(n) ==
  \/ n > LMax /\ Refused("LeftOverflow")
  \/ /\ n <= LMax
     /\ word' = Added(n)
     /\ LET prev == word % LMod IN
          result' = IF prev + n <= LMax THEN Ok(<<prev>>) ELSE Err("LeftOverflow")

DecrementRightWord(n) ==
  \/ n > RMax /\ Refused("RightUnderflow")
  \/ /\ n <= RMax
     /\ word' = (word - n * LMod) % WordMod
     /\ LET prev == word \div LMod IN
          result' = IF prev >= n THEN Ok(<<prev>>) ELSE Err("RightUnderflow")

\* Mutant: the right half is examined first.
TransferRightFirst(n) ==
  /\ n <= LMax /\ n <= RMax
  /\ word' = Added(n * LMod - n)
  /\ LET prev == Decompose(word) IN
       result' = IF prev.right + n > RMax THEN Err("RightOverflow")
                 ELSE IF prev.left < n THEN Err("LeftUnderflow")
                 ELSE Ok(<<prev.left, prev.right>>)

TransferWord(n) ==
  \/ n > LMax /\ Refused("LeftUnderflow")
  \/ n <= LMax /\ n > RMax /\ Refused("RightOverflow")
  \/ /\ n <= LMax /\ n <= RMax
     /\ word' = Added(n * LMod - n)
     /\ LET prev == Decompose(word) IN
          result' = IF prev.left < n THEN Err("LeftUnderflow")
                    ELSE IF prev.right + n <= RMax THEN Ok(<<prev.left, prev.right>>)
                    ELSE Err("RightOverflow")

\* The history is kept only while it can still be compared with the word.
Counts(dl, dr) ==
  /\ healthy' = (healthy /\ result'.error = "none")
  /\ ledger' = IF healthy' THEN [left |-> ledger.left + dl, right |-> ledger.right + dr]
               ELSE Zero

Next ==
  \E n \in Amounts :
    \/ IncrementLeftWord(n) /\ Counts(n, 0)
    \/ DecrementRightWord(n) /\ Counts(0, -n)
    \/ TransferWord(n) /\ Counts(-n, n)

Spec == Init /\ [][Next]_vars

-----------------------------------------------------------------------------
(***************************************************************************)
(* No silent corruption: as long as every operation returned Ok, the two   *)
(* halves of the word are exactly the counts of what was done.  A carry or *)
(* a borrow that crosses from one half to the other, or a wrap-around of   *)
(* the word, is always reported by the operation that makes it.            *)
(***************************************************************************)
NoSilentCorruption == healthy => Decompose(word) = ledger

(***************************************************************************)
(* The word implements the pair: CounterPair's operations on               *)
(* Decompose(word), with the same results, errors included.                *)
(***************************************************************************)
PairView == INSTANCE CounterPair WITH pair <- Decompose(word)
ImplementsPair == PairView!Spec
==============================================================================
