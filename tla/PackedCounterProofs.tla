-------------------------- MODULE PackedCounterProofs --------------------------
(***************************************************************************)
(* The packed counter, for halves of any width: the arithmetic on the word *)
(* is the arithmetic on the pair, and no carry or borrow goes unreported.  *)
(***************************************************************************)
EXTENDS PackedCounter, TLAPS

USE CounterAssumption, AmountsAssumption

-----------------------------------------------------------------------------
(***************************************************************************)
(* Quotient and remainder.                                                 *)
(***************************************************************************)
\* A multiple of m that is less than m away from zero is zero.
LEMMA SmallMultiple ==
  ASSUME NEW m \in Nat \ {0}, NEW k \in Int, m * k < m, m * k > -m
  PROVE  k = 0
<1>1. CASE k >= 1
  <2>1. m * (k - 1) >= 0 /\ m * (k - 1) = m * k - m
    BY <1>1
  <2> QED BY <2>1
<1>2. CASE k <= -1
  <2>1. m * (-k - 1) >= 0 /\ m * (-k - 1) = -(m * k) - m
    BY <1>2
  <2> QED BY <2>1
<1> QED BY <1>1, <1>2

\* A number has one quotient and one remainder.
LEMMA QuotientRemainder ==
  ASSUME NEW m \in Nat \ {0}, NEW l \in 0 .. m - 1, NEW r \in Int
  PROVE  (l + m * r) % m = l /\ (l + m * r) \div m = r
<1> DEFINE x == l + m * r
           q == x \div m
           s == x % m
<1>1. x \in Int /\ m * r \in Int
  OBVIOUS
<1>2. q \in Int /\ s \in 0 .. m - 1 /\ x = m * q + s
  <2> HIDE DEF x
  <2> QED BY <1>1
<1>3. m * (q - r) = l - s
  <2>1. m * (q - r) = m * q - m * r
    BY <1>2
  <2> QED BY <1>1, <1>2, <2>1
<1>4. q - r = 0
  <2>1. m * (q - r) < m /\ m * (q - r) > -m
    BY <1>2, <1>3
  <2> HIDE DEF q
  <2> QED BY <1>2, <2>1, SmallMultiple
<1>5. q = r
  <2> HIDE DEF q
  <2> QED BY <1>2, <1>4
<1>6. s = l
  BY <1>1, <1>2, <1>5
<1> QED BY <1>5, <1>6

LEMMA RemainderBelow ==
  ASSUME NEW m \in Nat \ {0}, NEW a \in 0 .. m - 1
  PROVE  a % m = a
OBVIOUS

\* Wrapping the word around wraps the right half around.
LEMMA WordWraps ==
  ASSUME NEW l \in 0 .. LMod - 1, NEW r \in Int
  PROVE  /\ (l + LMod * r) % WordMod = l + LMod * (r % RMod)
         /\ l + LMod * (r % RMod) \in 0 .. WordMod - 1
<1> DEFINE d == r \div RMod
           e == r % RMod
           y == l + LMod * e
<1>1. d \in Int /\ e \in 0 .. RMod - 1 /\ r = RMod * d + e
  OBVIOUS
<1> HIDE DEF d, e
<1>2. LMod * r = WordMod * d + LMod * e
  <2>1. LMod * (RMod * d + e) = (LMod * RMod) * d + LMod * e
    BY <1>1
  <2> QED BY <1>1, <2>1 DEF WordMod
<1>3. WordMod \in Nat \ {0} /\ y \in 0 .. WordMod - 1
  <2>1. LMod * e >= 0 /\ LMod * (RMod - 1 - e) >= 0
    BY <1>1
  <2>2. LMod * (RMod - 1 - e) = LMod * RMod - LMod - LMod * e
    BY <1>1
  <2>3. LMod * RMod \in Nat /\ LMod * e \in Int
    BY <1>1
  <2> QED BY <2>1, <2>2, <2>3 DEF WordMod
<1>4. l + LMod * r = y + WordMod * d
  <2>1. LMod * e \in Int /\ WordMod * d \in Int
    BY <1>1, <1>3
  <2> QED BY <1>2, <2>1
<1>5. (y + WordMod * d) % WordMod = y
  <2> HIDE DEF y
  <2> QED BY <1>1, <1>3, QuotientRemainder
<1> QED BY <1>3, <1>4, <1>5 DEF e

\* A word is its two halves, and each pair of halves is a word.
LEMMA WordSplits ==
  ASSUME NEW x \in 0 .. WordMod - 1
  PROVE  /\ Decompose(x) \in Pair
         /\ x = Decompose(x).left + LMod * Decompose(x).right
<1>1. LMod * RMod \in Nat /\ WordMod = LMod * RMod
  BY DEF WordMod
<1>2. x \in Nat /\ x < LMod * RMod
  BY <1>1
<1>3. x % LMod \in 0 .. LMod - 1 /\ x \div LMod \in Int
      /\ x = LMod * (x \div LMod) + (x % LMod)
  BY <1>2
<1> DEFINE q == x \div LMod
<1>4. q \in 0 .. RMod - 1
  <2> HIDE DEF q
  <2>1. ASSUME q < 0 PROVE FALSE
    <3>1. LMod * (-q - 1) >= 0 /\ LMod * (-q - 1) = -(LMod * q) - LMod
      BY <1>3, <2>1 DEF q
    <3> QED BY <1>2, <1>3, <3>1 DEF q
  <2>2. ASSUME q >= RMod PROVE FALSE
    <3>1. LMod * (q - RMod) >= 0 /\ LMod * (q - RMod) = LMod * q - LMod * RMod
      BY <1>3, <2>2 DEF q
    <3> QED BY <1>2, <1>3, <3>1 DEF q
  <2> QED BY <1>3, <2>1, <2>2 DEF q
<1> QED BY <1>3, <1>4 DEF Decompose, Pair

LEMMA WordJoins ==
  ASSUME NEW l \in 0 .. LMod - 1, NEW r \in Int
  PROVE  /\ (l + LMod * r) % WordMod \in 0 .. WordMod - 1
         /\ Decompose((l + LMod * r) % WordMod) = [left |-> l, right |-> r % RMod]
<1>1. /\ (l + LMod * r) % WordMod = l + LMod * (r % RMod)
      /\ l + LMod * (r % RMod) \in 0 .. WordMod - 1
  BY WordWraps
<1>2. r % RMod \in Int
  OBVIOUS
<1>3. /\ (l + LMod * (r % RMod)) % LMod = l
      /\ (l + LMod * (r % RMod)) \div LMod = r % RMod
  BY <1>2, QuotientRemainder
<1> QED BY <1>1, <1>3 DEF Decompose

-----------------------------------------------------------------------------
(***************************************************************************)
(* What the word arithmetic of the operations does to the halves.          *)
(***************************************************************************)
WordOK == word \in 0 .. WordMod - 1

\* The halves of the word.
Half == Decompose(word)

LEMMA Halves ==
  ASSUME WordOK
  PROVE  /\ Half \in Pair
         /\ Half.left \in 0 .. LMod - 1 /\ Half.right \in 0 .. RMod - 1
         /\ Half.left = word % LMod /\ Half.right = word \div LMod
         /\ word = Half.left + LMod * Half.right
<1>1. Half \in Pair /\ word = Half.left + LMod * Half.right
  BY WordSplits DEF WordOK, Half
<1> QED BY <1>1 DEF Pair, Half, Decompose

\* Adding to the left half carries into the right one.
LEMMA WordIncrement ==
  ASSUME WordOK, NEW n \in Nat, n <= LMax, word' = Added(n)
  PROVE  WordOK' /\ Half' = IncrementLeft(Half, n)
<1> DEFINE l == Half.left
           r == Half.right
<1>1. l \in 0 .. LMod - 1 /\ r \in 0 .. RMod - 1 /\ word = l + LMod * r
  BY Halves
<1>2. Half = [left |-> l, right |-> r]
  BY DEF Half, Decompose
<1> HIDE DEF l, r
<1>3. r % RMod = r /\ LMod * r \in Int
  <2>1. LMod * r \in Int
    BY <1>1
  <2>2. r % RMod = r
    BY <1>1
  <2> QED BY <2>1, <2>2
<1>4. CASE l + n < LMod
  <2>1. l + n \in 0 .. LMod - 1 /\ word + n = (l + n) + LMod * r
    BY <1>1, <1>3, <1>4
  <2>2. WordOK' /\ Half' = [left |-> l + n, right |-> r]
    BY <1>1, <1>3, <2>1, WordJoins DEF Added, WordOK, Half
  <2>3. IncrementLeft(Half, n) = [left |-> l + n, right |-> r]
    BY <1>1, <1>2, <1>4 DEF IncrementLeft, LeftOverflows
  <2> QED BY <2>2, <2>3
<1>5. CASE l + n >= LMod
  <2>1. /\ l + n - LMod \in 0 .. LMod - 1 /\ r + 1 \in Int
        /\ word + n = (l + n - LMod) + LMod * (r + 1)
    <3>1. LMod * (r + 1) = LMod * r + LMod
      BY <1>1
    <3> QED BY <1>1, <1>3, <1>5, <3>1 DEF LMax
  <2>2. WordOK' /\ Half' = [left |-> l + n - LMod, right |-> (r + 1) % RMod]
    BY <2>1, WordJoins DEF Added, WordOK, Half
  <2>3. IncrementLeft(Half, n) = [left |-> l + n - LMod, right |-> (r + 1) % RMod]
    BY <1>1, <1>2, <1>5 DEF IncrementLeft, LeftOverflows
  <2> QED BY <2>2, <2>3
<1> QED BY <1>1, <1>4, <1>5

\* Subtracting from the right half leaves the left one alone.
LEMMA WordDecrement ==
  ASSUME WordOK, NEW n \in Nat, word' = (word - n * LMod) % WordMod
  PROVE  WordOK' /\ Half' = DecrementRight(Half, n)
<1> DEFINE l == Half.left
           r == Half.right
<1>1. l \in 0 .. LMod - 1 /\ r \in 0 .. RMod - 1 /\ word = l + LMod * r
  BY Halves
<1>2. Half = [left |-> l, right |-> r]
  BY DEF Half, Decompose
<1> HIDE DEF l, r
<1>3. r - n \in Int /\ word - n * LMod = l + LMod * (r - n)
  <2>1. LMod * (r - n) = LMod * r - n * LMod /\ LMod * r \in Int /\ n * LMod \in Int
    BY <1>1
  <2> QED BY <1>1, <2>1
<1>4. WordOK' /\ Half' = [left |-> l, right |-> (r - n) % RMod]
  BY <1>1, <1>3, WordJoins DEF WordOK, Half
<1>5. DecrementRight(Half, n) = [left |-> l, right |-> (r - n) % RMod]
  BY <1>2 DEF DecrementRight
<1> QED BY <1>4, <1>5

\* Adding to the right half what is taken from the left one borrows from the
\* right one.
LEMMA WordTransfer ==
  ASSUME WordOK, NEW n \in Nat, n <= LMax, word' = Added(n * LMod - n)
  PROVE  WordOK' /\ Half' = Transfer(Half, n)
<1> DEFINE l == Half.left
           r == Half.right
<1>1. l \in 0 .. LMod - 1 /\ r \in 0 .. RMod - 1 /\ word = l + LMod * r
  BY Halves
<1>2. Half = [left |-> l, right |-> r]
  BY DEF Half, Decompose
<1> HIDE DEF l, r
<1>3. LMod * r \in Int /\ n * LMod \in Int
  BY <1>1
<1>4. CASE l < n
  <2>1. /\ l + LMod - n \in 0 .. LMod - 1 /\ r + n - 1 \in Int
        /\ word + (n * LMod - n) = (l + LMod - n) + LMod * (r + n - 1)
    <3>1. LMod * (r + n - 1) = LMod * r + n * LMod - LMod
      BY <1>1
    <3> QED BY <1>1, <1>3, <1>4, <3>1 DEF LMax
  <2>2. WordOK' /\ Half' = [left |-> l + LMod - n, right |-> (r + n - 1) % RMod]
    BY <2>1, WordJoins DEF Added, WordOK, Half
  <2>3. Transfer(Half, n) = [left |-> l + LMod - n, right |-> (r + n - 1) % RMod]
    BY <1>1, <1>2, <1>4 DEF Transfer, LeftUnderflows
  <2> QED BY <2>2, <2>3
<1>5. CASE l >= n
  <2>1. /\ l - n \in 0 .. LMod - 1 /\ r + n \in Int
        /\ word + (n * LMod - n) = (l - n) + LMod * (r + n)
    <3>1. LMod * (r + n) = LMod * r + n * LMod
      BY <1>1
    <3> QED BY <1>1, <1>3, <1>5, <3>1
  <2>2. WordOK' /\ Half' = [left |-> l - n, right |-> (r + n) % RMod]
    BY <2>1, WordJoins DEF Added, WordOK, Half
  <2>3. Transfer(Half, n) = [left |-> l - n, right |-> (r + n) % RMod]
    BY <1>1, <1>2, <1>5 DEF Transfer, LeftUnderflows
  <2> QED BY <2>2, <2>3
<1> QED BY <1>1, <1>4, <1>5

-----------------------------------------------------------------------------
(***************************************************************************)
(* The operations.                                                         *)
(***************************************************************************)
\* The operations of the pair are those of DualCounter.
LEMMA PairOperations ==
  ASSUME NEW c, NEW n
  PROVE  /\ PairView!IncrementLeft(c, n) = IncrementLeft(c, n)
         /\ PairView!DecrementRight(c, n) = DecrementRight(c, n)
         /\ PairView!Transfer(c, n) = Transfer(c, n)
<1>1. PairView!IncrementLeft(c, n) = IncrementLeft(c, n)
  BY DEF PairView!IncrementLeft, IncrementLeft, PairView!LeftOverflows, LeftOverflows
<1>2. PairView!DecrementRight(c, n) = DecrementRight(c, n)
  BY DEF PairView!DecrementRight, DecrementRight
<1>3. PairView!Transfer(c, n) = Transfer(c, n)
  BY DEF PairView!Transfer, Transfer, PairView!LeftUnderflows, LeftUnderflows
<1> QED BY <1>1, <1>2, <1>3

LEMMA IncrementPairs ==
  ASSUME WordOK, NEW n \in Amounts, IncrementLeftWord(n)
  PROVE  WordOK' /\ PairView!Increment(n)
<1>0. n \in Nat /\ (n > LMax <=> n >= LMod)
  BY DEF LMax
<1>1. CASE n > LMax /\ Refused("LeftOverflow")
  BY <1>0, <1>1 DEF PairView!Increment, PairView!Refused, Refused, PairView!Err, Err, WordOK
<1>2. CASE ~(n > LMax)
  <2> DEFINE prev == word % LMod
  <2>1. /\ n <= LMax /\ word' = Added(n)
        /\ result' = IF prev + n <= LMax THEN Ok(<<prev>>) ELSE Err("LeftOverflow")
    BY <1>0, <1>2 DEF IncrementLeftWord, LMax
  <2>2. WordOK' /\ Half' = IncrementLeft(Half, n)
    BY <1>0, <2>1, WordIncrement
  <2>3. Half.left = prev /\ prev \in 0 .. LMod - 1
    BY Halves
  <2> HIDE DEF prev
  <2>4. result' = IF Half.left + n >= LMod THEN Err("LeftOverflow") ELSE Ok(<<Half.left>>)
    BY <1>0, <2>1, <2>3 DEF LMax
  <2>5. n < LMod /\ Half' = PairView!IncrementLeft(Half, n)
    BY <1>0, <2>1, <2>2, PairOperations DEF LMax
  <2>6. PairView!Increment(n)
    BY <2>4, <2>5 DEF PairView!Increment, PairView!LeftOverflows, PairView!Err, Err,
       PairView!Ok, Ok, Half
  <2> QED BY <2>2, <2>6
<1> QED BY <1>0, <1>1, <1>2 DEF IncrementLeftWord, LMax

LEMMA DecrementPairs ==
  ASSUME WordOK, NEW n \in Amounts, DecrementRightWord(n)
  PROVE  WordOK' /\ PairView!Decrement(n)
<1>0. n \in Nat /\ (n > RMax <=> n >= RMod)
  BY DEF RMax
<1>1. CASE n > RMax /\ Refused("RightUnderflow")
  BY <1>0, <1>1 DEF PairView!Decrement, PairView!Refused, Refused, PairView!Err, Err, WordOK
<1>2. CASE ~(n > RMax)
  <2> DEFINE prev == word \div LMod
  <2>1. /\ n <= RMax /\ word' = (word - n * LMod) % WordMod
        /\ result' = IF prev >= n THEN Ok(<<prev>>) ELSE Err("RightUnderflow")
    BY <1>0, <1>2 DEF DecrementRightWord, RMax
  <2>2. WordOK' /\ Half' = DecrementRight(Half, n)
    BY <1>0, <2>1, WordDecrement
  <2>3. Half.right = prev /\ prev \in 0 .. RMod - 1
    BY Halves
  <2> HIDE DEF prev
  <2>4. result' = IF Half.right < n THEN Err("RightUnderflow") ELSE Ok(<<Half.right>>)
    BY <1>0, <2>1, <2>3
  <2>5. n < RMod /\ Half' = PairView!DecrementRight(Half, n)
    BY <1>0, <2>1, <2>2, PairOperations DEF RMax
  <2>6. PairView!Decrement(n)
    BY <2>4, <2>5 DEF PairView!Decrement, PairView!RightUnderflows, PairView!Err, Err,
       PairView!Ok, Ok, Half
  <2> QED BY <2>2, <2>6
<1> QED BY <1>0, <1>1, <1>2 DEF DecrementRightWord, RMax

LEMMA TransferPairs ==
  ASSUME WordOK, NEW n \in Amounts, TransferWord(n)
  PROVE  WordOK' /\ PairView!Move(n)
<1>0. n \in Nat /\ (n > LMax <=> n >= LMod) /\ (n > RMax <=> n >= RMod)
  BY DEF LMax, RMax
<1>1. CASE n > LMax /\ Refused("LeftUnderflow")
  BY <1>0, <1>1 DEF PairView!Move, PairView!Refused, Refused, PairView!Err, Err, WordOK
<1>2. CASE n <= LMax /\ n > RMax /\ Refused("RightOverflow")
  BY <1>0, <1>2 DEF PairView!Move, PairView!Refused, Refused, PairView!Err, Err, WordOK, LMax
<1>3. CASE ~(n > LMax) /\ ~(n > RMax)
  <2> DEFINE prev == Decompose(word)
  <2>1. /\ n <= LMax /\ n <= RMax /\ word' = Added(n * LMod - n)
        /\ result' = IF prev.left < n THEN Err("LeftUnderflow")
                     ELSE IF prev.right + n <= RMax THEN Ok(<<prev.left, prev.right>>)
                     ELSE Err("RightOverflow")
    BY <1>0, <1>3 DEF TransferWord, LMax, RMax
  <2>2. WordOK' /\ Half' = Transfer(Half, n)
    BY <1>0, <2>1, WordTransfer
  <2>3. Half = prev /\ Half.left \in 0 .. LMod - 1 /\ Half.right \in 0 .. RMod - 1
    BY Halves DEF Half
  <2> HIDE DEF prev
  <2>4. result' = IF Half.left < n THEN Err("LeftUnderflow")
                  ELSE IF Half.right + n >= RMod THEN Err("RightOverflow")
                  ELSE Ok(<<Half.left, Half.right>>)
    BY <1>0, <2>1, <2>3 DEF RMax
  <2>5. n < LMod /\ n < RMod /\ Half' = PairView!Transfer(Half, n)
    BY <1>0, <2>1, <2>2, PairOperations DEF LMax, RMax
  <2>6. PairView!Move(n)
    BY <2>4, <2>5 DEF PairView!Move, PairView!LeftUnderflows, PairView!RightOverflows,
       PairView!Err, Err, PairView!Ok, Ok, Half
  <2> QED BY <2>2, <2>6
<1> QED BY <1>0, <1>1, <1>2, <1>3 DEF TransferWord, LMax, RMax

-----------------------------------------------------------------------------
\* The word stays a word, and as long as no error was returned its halves are
\* the counts.
CounterInv == WordOK /\ NoSilentCorruption

LEMMA InitCorrect == Init => CounterInv /\ PairView!Init
<1> SUFFICES ASSUME Init PROVE CounterInv /\ PairView!Init
  OBVIOUS
<1>1. WordMod \in Nat \ {0}
  BY DEF WordMod
<1>2. Half = Zero
  <2>1. (0 + LMod * 0) % LMod = 0 /\ (0 + LMod * 0) \div LMod = 0
    BY QuotientRemainder
  <2>2. 0 + LMod * 0 = 0
    OBVIOUS
  <2> QED BY <2>1, <2>2 DEF Half, Decompose, Init, Zero
<1> QED BY <1>1, <1>2 DEF Init, CounterInv, WordOK, NoSilentCorruption, Half,
           PairView!Init, PairView!Zero, Zero, PairView!Ok, Ok

\* Every step is one of the pair's.
LEMMA StepPairs == WordOK /\ [Next]_vars => WordOK' /\ [PairView!Next]_<<Decompose(word), result>>
<1> SUFFICES ASSUME WordOK, [Next]_vars
             PROVE  WordOK' /\ [PairView!Next]_<<Decompose(word), result>>
  OBVIOUS
<1>1. CASE UNCHANGED vars
  BY <1>1 DEF vars, WordOK, Decompose
<1>2. ASSUME NEW n \in Amounts,
             IncrementLeftWord(n) \/ DecrementRightWord(n) \/ TransferWord(n)
      PROVE  WordOK' /\ PairView!Next
  BY <1>2, IncrementPairs, DecrementPairs, TransferPairs DEF PairView!Next
<1> QED BY <1>1, <1>2 DEF Next

\* An operation that returned no error counted exactly.
LEMMA StepUncorrupted == CounterInv /\ [Next]_vars => NoSilentCorruption'
<1> SUFFICES ASSUME CounterInv, [Next]_vars PROVE NoSilentCorruption'
  OBVIOUS
<1>1. CASE UNCHANGED vars
  BY <1>1 DEF vars, CounterInv, NoSilentCorruption, Decompose
<1>2. ASSUME NEW dl, NEW dr, Counts(dl, dr),
             result'.error = "none" =>
               Half' = [left |-> Half.left + dl, right |-> Half.right + dr]
      PROVE  NoSilentCorruption'
  <2> SUFFICES ASSUME healthy' PROVE Half' = ledger'
    BY DEF NoSilentCorruption, Half
  <2>1. /\ healthy /\ result'.error = "none"
        /\ ledger' = [left |-> ledger.left + dl, right |-> ledger.right + dr]
    BY <1>2 DEF Counts
  <2>2. Half = ledger
    BY <2>1 DEF CounterInv, NoSilentCorruption, Half
  <2> QED BY <1>2, <2>1, <2>2
<1>3. /\ WordOK
      /\ Half.left \in 0 .. LMod - 1 /\ Half.right \in 0 .. RMod - 1
      /\ Half.left = word % LMod /\ Half.right = word \div LMod /\ Half = Decompose(word)
      /\ Half = [left |-> Half.left, right |-> Half.right]
  BY Halves DEF CounterInv, Half, Decompose
<1>4. ASSUME NEW e \in {"LeftOverflow", "LeftUnderflow", "RightOverflow", "RightUnderflow"}
      PROVE  Err(e).error # "none"
  BY DEF Err
<1>5. ASSUME NEW n \in Amounts, IncrementLeftWord(n), Counts(n, 0) PROVE NoSilentCorruption'
  <2>1. ASSUME result'.error = "none"
        PROVE  Half' = [left |-> Half.left + n, right |-> Half.right + 0]
    <3>1. /\ n \in Nat /\ n <= LMax /\ word' = Added(n)
          /\ Half.left + n <= LMax
      BY <1>3, <1>4, <1>5, <2>1 DEF IncrementLeftWord, Refused
    <3>2. Half' = IncrementLeft(Half, n)
      BY <1>3, <3>1, WordIncrement
    <3>3. ~LeftOverflows(Half, n)
      BY <1>3, <3>1 DEF LeftOverflows, LMax
    <3>4. Half' = [left |-> Half.left + n, right |-> Half.right]
      BY <1>3, <3>2, <3>3 DEF IncrementLeft
    <3> QED BY <1>3, <3>4
  <2> QED BY <1>2, <1>5, <2>1
<1>6. ASSUME NEW n \in Amounts, DecrementRightWord(n), Counts(0, -n) PROVE NoSilentCorruption'
  <2>1. ASSUME result'.error = "none"
        PROVE  Half' = [left |-> Half.left + 0, right |-> Half.right + -n]
    <3>1. /\ n \in Nat /\ word' = (word - n * LMod) % WordMod
          /\ Half.right >= n
      BY <1>3, <1>4, <1>6, <2>1 DEF DecrementRightWord, Refused
    <3>2. Half' = DecrementRight(Half, n)
      BY <1>3, <3>1, WordDecrement
    <3>3. (Half.right - n) % RMod = Half.right - n
      <4>1. Half.right - n \in 0 .. RMod - 1
        BY <1>3, <3>1
      <4> QED BY <4>1, RemainderBelow
    <3>4. Half' = [left |-> Half.left, right |-> Half.right - n]
      BY <1>3, <3>2, <3>3 DEF DecrementRight
    <3>5. Half.left + 0 = Half.left /\ Half.right + -n = Half.right - n
      BY <1>3, <3>1
    <3> QED BY <3>4, <3>5
  <2> QED BY <1>2, <1>6, <2>1
<1>7. ASSUME NEW n \in Amounts, TransferWord(n), Counts(-n, n) PROVE NoSilentCorruption'
  <2>1. ASSUME result'.error = "none"
        PROVE  Half' = [left |-> Half.left + -n, right |-> Half.right + n]
    <3>1. /\ n \in Nat /\ n <= LMax /\ word' = Added(n * LMod - n)
          /\ ~(Half.left < n) /\ Half.right + n <= RMax
      BY <1>3, <1>4, <1>7, <2>1 DEF TransferWord, Refused
    <3>2. Half' = Transfer(Half, n)
      BY <1>3, <3>1, WordTransfer
    <3>3. (Half.right + n) % RMod = Half.right + n
      <4>1. Half.right + n \in 0 .. RMod - 1
        BY <1>3, <3>1 DEF RMax
      <4> QED BY <4>1, RemainderBelow
    <3>4. Half' = [left |-> Half.left - n, right |-> Half.right + n]
      BY <3>1, <3>2, <3>3 DEF Transfer, LeftUnderflows
    <3>5. Half.left + -n = Half.left - n
      BY <1>3, <3>1
    <3> QED BY <3>4, <3>5
  <2> QED BY <1>2, <1>7, <2>1
<1> QED BY <1>1, <1>5, <1>6, <1>7 DEF Next

LEMMA AlwaysCorrect == Spec => []CounterInv
<1>1. CounterInv /\ [Next]_vars => CounterInv'
  BY StepPairs, StepUncorrupted DEF CounterInv
<1> QED BY InitCorrect, <1>1, PTL DEF Spec

(***************************************************************************)
(* No silent corruption: for halves of any width, as long as every         *)
(* operation returned Ok the two halves of the word are exactly the counts *)
(* of what was done.  Every carry or borrow across the halves and every    *)
(* wrap-around of the word is reported by the operation that makes it.     *)
(***************************************************************************)
THEOREM CorruptionIsReported == Spec => []NoSilentCorruption
BY AlwaysCorrect, PTL DEF CounterInv

(***************************************************************************)
(* The word implements the pair: a single addition or subtraction on the   *)
(* word is, for halves of any width and any amount, the operation on the   *)
(* two counters, with the same result, errors and what they leave behind   *)
(* included.                                                               *)
(***************************************************************************)
THEOREM PairImplemented == Spec => ImplementsPair
<1>1. WordOK /\ [Next]_vars => [PairView!Next]_<<Decompose(word), result>>
  BY StepPairs
<1>2. Spec => []WordOK
  BY AlwaysCorrect, PTL DEF CounterInv
<1> QED BY InitCorrect, <1>1, <1>2, PTL DEF Spec, ImplementsPair, PairView!Spec
===============================================================================
