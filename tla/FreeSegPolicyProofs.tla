------------------------ MODULE FreeSegPolicyProofs ------------------------
(***************************************************************************)
(* The free-segment policy, for words of any width that hold the products  *)
(* of the first table, any volume and any selectors.                       *)
(***************************************************************************)
EXTENDS FreeSegPolicy, TLAPS

(* The difference of two words is a word.                                  *)
LEMMA MinusInWord ==
  ASSUME NEW a \in 0..(Word - 1), NEW b \in 0..(Word - 1)
  PROVE  Minus(a, b) \in 0..(Word - 1)
  BY WordAssumption DEF Minus

(* A quotient does not exceed its dividend.                                *)
LEMMA QuotientInWord ==
  ASSUME NEW a \in 0..(Word - 1)
  PROVE  a \div BlocksPerSegment \in 0..(Word - 1)
<1>1. BlocksPerSegment \in Nat /\ BlocksPerSegment > 0
  BY BlocksAssumption
<1>2. a \div BlocksPerSegment \in Nat /\ a \div BlocksPerSegment <= a
  BY <1>1, Z3
<1>3. QED
  BY <1>2, WordAssumption

(* The initial values of the locals lie in their ranges.                   *)
LEMMA ZeroIsInRange == 0 \in 0..(Word - 1) /\ 0 \in 0..255
  BY WordAssumption

(* Before any call all locals are well typed.                              *)
LEMMA PolicyTypeInit == PolicyInit => PolicyTypeOK
  BY ZeroIsInRange DEF PolicyInit, PolicyTypeOK

(* Each step of a call and each store of a selector keeps the types.       *)
LEMMA PolicyTypeNext == PolicyTypeOK /\ [PolicyNext]_policyVars => PolicyTypeOK'
<1> SUFFICES ASSUME PolicyTypeOK, [PolicyNext]_policyVars
             PROVE  PolicyTypeOK'
  OBVIOUS
<1> USE DEF PolicyTypeOK, argVars
<1>0. selector0 \in 0..255 /\ selector1 \in 0..255
  BY SelectorsAssumption
<1>1. ASSUME NEW user \in UserBlocks, NEW sit \in SitBlocks,
             NEW free \in SegmentCounts, NEW reserved \in SegmentCounts,
             Ask(user, sit, free, reserved)
      PROVE  PolicyTypeOK'
  <2>1. /\ user \in 0..(Word - 1) /\ sit \in 0..(Word - 1)
        /\ free \in 0..(Word - 1) /\ reserved \in 0..(Word - 1)
    BY CountsAssumption
  <2>2. {userSegments', delta', spare'} \subseteq 0..(Word - 1)
    BY <1>1, <2>1, MinusInWord, QuotientInWord DEF Ask
  <2>3. highestRow' \in 0..255
    BY <1>0, <1>1 DEF Ask, Larger
  <2>4. short' \in BOOLEAN
    BY <1>1 DEF Ask
  <2>5. QED
    BY <1>1, <2>2, <2>3, <2>4 DEF Ask
<1>2. CASE ReadSelector0
  BY <1>2, <1>0 DEF ReadSelector0
<1>3. CASE ReadSelector1
  BY <1>3, <1>0 DEF ReadSelector1, Larger
<1>4. CASE Decide
  <2>1. enough' \in BOOLEAN
    BY <1>4, Zenon DEF Decide, HasEnough
  <2>2. QED
    BY <1>4, <2>1 DEF Decide
<1>5. CASE TakeAnswer
  BY <1>5, ZeroIsInRange DEF TakeAnswer
<1>6. ASSUME NEW value0 \in Selectors, NEW value1 \in Selectors,
             Select(value0, value1)
      PROVE  PolicyTypeOK'
  BY <1>6, <1>0, SelectorsAssumption DEF Select, Larger
<1>7. CASE UNCHANGED policyVars
  BY <1>7 DEF policyVars
<1>8. QED
  BY <1>1, <1>2, <1>3, <1>4, <1>5, <1>6, <1>7 DEF PolicyNext

(* The types: every word stays within 32 bits, every row within a byte.    *)
THEOREM PolicyTypeCorrect == PolicySpec => []PolicyTypeOK
  BY PolicyTypeInit, PolicyTypeNext, PTL DEF PolicySpec

(* No torn read of the selectors yields a row above those in force.        *)
THEOREM RowsInForce == PolicySpec => []RowWasInForce
<1>1. PolicyInit => RowWasInForce
  BY DEF PolicyInit, RowWasInForce
<1>2. ASSUME PolicyTypeOK, RowWasInForce, [PolicyNext]_policyVars
      PROVE  RowWasInForce'
  <2>0. /\ selector0 \in Int /\ selector1 \in Int
        /\ row \in Int /\ highestRow \in Int
    BY <1>2, SelectorsAssumption DEF PolicyTypeOK
  <2> USE <2>0 DEF RowWasInForce, Larger, argVars
  <2>1. ASSUME NEW user \in UserBlocks, NEW sit \in SitBlocks,
               NEW free \in SegmentCounts, NEW reserved \in SegmentCounts,
               Ask(user, sit, free, reserved)
        PROVE  RowWasInForce'
    BY <2>1 DEF Ask
  <2>2. CASE ReadSelector0
    BY <1>2, <2>2 DEF ReadSelector0
  <2>3. CASE ReadSelector1
    BY <1>2, <2>3 DEF ReadSelector1
  <2>4. CASE Decide \/ TakeAnswer
    BY <1>2, <2>4 DEF Decide, TakeAnswer
  <2>5. ASSUME NEW value0 \in Selectors, NEW value1 \in Selectors,
               Select(value0, value1)
        PROVE  RowWasInForce'
    <3>1. value0 \in Int /\ value1 \in Int
      BY SelectorsAssumption
    <3>2. QED
      BY <1>2, <2>5, <3>1 DEF Select, PolicyTypeOK
  <2>6. CASE UNCHANGED policyVars
    BY <1>2, <2>6 DEF policyVars
  <2>7. QED
    BY <1>2, <2>1, <2>2, <2>3, <2>4, <2>5, <2>6 DEF PolicyNext
<1>3. QED
  BY <1>1, <1>2, PolicyTypeCorrect, PTL DEF PolicySpec

(* Division by the blocks of a segment keeps the order.                    *)
LEMMA QuotientsOrdered ==
  ASSUME NEW a \in Nat, NEW b \in Nat, a <= b
  PROVE  a \div BlocksPerSegment <= b \div BlocksPerSegment
  BY BlocksAssumption, Z3

(* The largest product of the second table fits a word.                    *)
DeltaFits == 80 * delta < Word

(* The volume holds no more than it has for users, so that the difference  *)
(* of the segments does not wrap.                                          *)
LEMMA DeltaAlwaysFits == PolicySpec => []DeltaFits
<1>1. PolicyInit => DeltaFits
  BY WordAssumption DEF PolicyInit, DeltaFits
<1>2. DeltaFits /\ [PolicyNext]_policyVars => DeltaFits'
  <2> SUFFICES ASSUME DeltaFits, [PolicyNext]_policyVars
               PROVE  DeltaFits'
    OBVIOUS
  <2> USE DEF DeltaFits, argVars
  <2>1. ASSUME NEW user \in UserBlocks, NEW sit \in SitBlocks,
               NEW free \in SegmentCounts, NEW reserved \in SegmentCounts,
               Ask(user, sit, free, reserved)
        PROVE  DeltaFits'
    <3> DEFINE segs(blocks) == blocks \div BlocksPerSegment
    <3>1. /\ user \in 0..(Word - 1) /\ sit \in 0..(Word - 1) /\ sit <= user
          /\ delta' = Minus(segs(user), segs(sit))
      BY <2>1, CountsAssumption DEF Ask
    <3>2. segs(sit) <= segs(user) /\ segs(user) <= segs(Word - 1)
      BY <3>1, QuotientsOrdered, WordAssumption
    <3>3. segs(user) \in Nat /\ segs(sit) \in Nat /\ segs(Word - 1) \in Nat
      BY <3>1, QuotientInWord, WordAssumption
    <3>4. delta' = segs(user) - segs(sit)
      BY <3>1, <3>2, <3>3 DEF Minus
    <3>5. 80 * segs(Word - 1) < Word
      BY SegmentsAssumption
    <3> HIDE DEF segs
    <3>6. QED
      BY <3>2, <3>3, <3>4, <3>5, WordAssumption
  <2>2. ASSUME NEW value0, NEW value1, Select(value0, value1)
        PROVE  DeltaFits'
    BY <2>2 DEF Select
  <2>3. CASE TakeAnswer
    BY <2>3, WordAssumption DEF TakeAnswer
  <2>4. CASE ReadSelector0 \/ ReadSelector1 \/ Decide \/ UNCHANGED policyVars
    BY <2>4 DEF ReadSelector0, ReadSelector1, Decide, policyVars
  <2>5. QED
    BY <2>1, <2>2, <2>3, <2>4 DEF PolicyNext
<1>3. QED
  BY <1>1, <1>2, PTL DEF PolicySpec

-----------------------------------------------------------------------------
(* What the tables hold: the second only falls; the first falls from row 4 *)
(* on and is large before.                                                 *)
LEMMA TableValues ==
  ASSUME NEW r \in Row
  PROVE  /\ FreeTableA[r] \in {2048, 3072, 4096, 100, 80}
         /\ FreeTableB[r] \in {80, 70, 60}
         /\ r <= 3 => FreeTableA[r] >= 2048
  BY DEF FreeTableA, FreeTableB, Row

(* From row 4 on the first table does not rise, and the second one never   *)
(* does.                                                                   *)
LEMMA TablesFall ==
  ASSUME NEW r \in Row, NEW s \in Row, r <= s
  PROVE  /\ FreeTableB[s] <= FreeTableB[r]
         /\ r >= 4 => FreeTableA[s] <= FreeTableA[r]
  BY DEF FreeTableA, FreeTableB, Row

(* The base value of a volume, by its size.                                *)
LEMMA BaseValues ==
  ASSUME NEW user \in Nat
  PROVE  /\ Base(user) \in {2048, 3072, 4096, 6144}
         /\ user >= 8192 => Base(user) >= 3072
         /\ user >= 16384 => Base(user) >= 4096
         /\ user >= 32768 => Base(user) = 6144
<1>1. CASE user >= 32768
  BY <1>1 DEF Base
<1>2. CASE user < 32768
  <2>1. /\ user \div 8192 \in 0..3
        /\ user >= 8192 => user \div 8192 >= 1
        /\ user >= 16384 => user \div 8192 >= 2
    BY <1>2, Z3
  <2>2. Base(user) = FreeTableA[user \div 8192]
    BY <1>2 DEF Base
  <2>3. /\ FreeTableA[0] = 2048 /\ FreeTableA[1] = 3072
        /\ FreeTableA[2] = 4096 /\ FreeTableA[3] = 4096
    BY DEF FreeTableA, Row
  <2>4. QED
    BY <1>2, <2>1, <2>2, <2>3
<1>3. QED
  BY <1>1, <1>2

(* A product that fits a word is not cut.                                  *)
LEMMA SmallProduct ==
  ASSUME NEW a \in Nat, NEW b \in Nat, a * b < Word
  PROVE  Times(a, b) = a * b
<1>1. a * b \in Nat
  OBVIOUS
<1>2. ASSUME NEW n \in Nat, n < Word
      PROVE  n % Word = n
  BY <1>2, WordAssumption, Z3
<1>3. QED
  BY <1>1, <1>2 DEF Times

(* Comparing with a truncated hundredth is comparing a hundredfold.        *)
LEMMA HundredthIsExact ==
  ASSUME NEW n \in Nat, NEW m \in Nat
  PROVE  (n > m \div 100) <=> (100 * n > m)
  BY Z3

(* The two gates in exact arithmetic.                                      *)
GateA(r, user, above) == 100 * above > FreeTableA[r] * Base(user)
GateB(r, unused, above) == 100 * above > FreeTableB[r] * unused

(* Within the bounds on the product, the truncated comparisons are the     *)
(* exact ones.                                                             *)
LEMMA GatesAreExact ==
  ASSUME NEW r \in Row, NEW user \in Nat, NEW unused \in Nat, NEW above \in Nat,
         80 * unused < Word
  PROVE  HasEnough(r, user, unused, above)
           <=> GateA(r, user, above) \/ GateB(r, unused, above)
<1>1. /\ FreeTableA[r] \in Nat /\ FreeTableA[r] <= 4096
      /\ FreeTableB[r] \in Nat /\ FreeTableB[r] <= 80
  BY TableValues
<1>2. Base(user) \in Nat /\ Base(user) <= 6144
  BY BaseValues
<1>3. FreeTableA[r] * Base(user) \in Nat /\ FreeTableA[r] * Base(user) < Word
  <2>1. Base(user) \in {2048, 3072, 4096, 6144}
    BY BaseValues
  <2>2. QED
    BY <1>1, <2>1, WordAssumption
<1>4. FreeTableB[r] * unused \in Nat /\ FreeTableB[r] * unused < Word
  <2>1. FreeTableB[r] \in {80, 70, 60}
    BY TableValues
  <2>2. QED
    BY <2>1, WordAssumption
<1>5. ThresholdA(r, user) = (FreeTableA[r] * Base(user)) \div 100
  BY <1>1, <1>2, <1>3, SmallProduct DEF ThresholdA
<1>6. ThresholdB(r, unused) = (FreeTableB[r] * unused) \div 100
  BY <1>1, <1>4, SmallProduct DEF ThresholdB
<1>7. (above > ThresholdA(r, user)) <=> GateA(r, user, above)
  BY <1>3, <1>5, HundredthIsExact DEF GateA
<1>8. (above > ThresholdB(r, unused)) <=> GateB(r, unused, above)
  BY <1>4, <1>6, HundredthIsExact DEF GateB
<1>9. QED
  BY <1>7, <1>8 DEF HasEnough

(* Below 125829 segments the first gate never opens in rows 0 to 3.        *)
LEMMA FirstGateShut ==
  ASSUME NEW r \in Row, r <= 3, NEW user \in Nat, user <= 125829,
         NEW above \in Nat, above <= user
  PROVE  ~GateA(r, user, above)
<1>1. FreeTableA[r] \in Nat /\ FreeTableA[r] >= 2048
  BY TableValues
<1>2. /\ Base(user) \in {2048, 3072, 4096, 6144}
      /\ 100 * user <= 2048 * Base(user)
  BY BaseValues
<1>3. 2048 * Base(user) <= FreeTableA[r] * Base(user)
  BY <1>1, <1>2
<1>4. QED
  BY <1>1, <1>2, <1>3 DEF GateA

(* The answer follows the percentages exactly.                             *)
THEOREM ExactAnswer == PolicySpec => []AnswerIsExact
<1> DEFINE Recorded ==
      askPc = "answered" => enough = HasEnough(row, userSegments, delta, spare)
<1>1. PolicyInit => Recorded
  BY DEF PolicyInit
<1>2. Recorded /\ [PolicyNext]_policyVars => Recorded'
  BY DEF PolicyNext, Ask, ReadSelector0, ReadSelector1, Decide, TakeAnswer,
         Select, policyVars, argVars
<1>3. PolicyTypeOK /\ DeltaFits /\ Recorded => AnswerIsExact
  <2> SUFFICES ASSUME PolicyTypeOK, DeltaFits, Recorded,
                      askPc = "answered", row \in Row
               PROVE  enough = (GateA(row, userSegments, spare)
                                  \/ GateB(row, delta, spare))
    BY DEF AnswerIsExact, GateA, GateB
  <2>1. userSegments \in Nat /\ delta \in Nat /\ spare \in Nat
    BY DEF PolicyTypeOK
  <2>2. QED
    BY <2>1, GatesAreExact DEF HasEnough, DeltaFits
<1>4. QED
  BY <1>1, <1>2, <1>3, PolicyTypeCorrect, DeltaAlwaysFits, PTL DEF PolicySpec

(* A larger row is never stricter on the volumes of these devices.         *)
THEOREM LargerRowsWilling == PolicySpec => []LargerRowsAreMoreWilling
<1>1. PolicyTypeOK /\ DeltaFits => LargerRowsAreMoreWilling
  <2> SUFFICES ASSUME PolicyTypeOK, DeltaFits, row \in Row,
                      spare <= userSegments, userSegments <= 125829,
                      NEW r \in row..7,
                      HasEnough(row, userSegments, delta, spare)
               PROVE  HasEnough(r, userSegments, delta, spare)
    BY DEF LargerRowsAreMoreWilling
  <2>1. userSegments \in Nat /\ delta \in Nat /\ spare \in Nat
    BY DEF PolicyTypeOK
  <2>2. r \in Row /\ row <= r
    BY DEF Row
  <2>3. GateA(row, userSegments, spare) \/ GateB(row, delta, spare)
    BY <2>1, GatesAreExact DEF DeltaFits
  <2>4. ASSUME GateA(row, userSegments, spare)
        PROVE  GateA(r, userSegments, spare)
    <3>1. row >= 4
      BY <2>1, <2>4, FirstGateShut DEF Row
    <3>2. FreeTableA[r] <= FreeTableA[row]
      BY <2>2, <3>1, TablesFall
    <3>3. /\ FreeTableA[r] \in Nat /\ FreeTableA[row] \in Nat
          /\ Base(userSegments) \in {2048, 3072, 4096, 6144}
      BY <2>1, <2>2, TableValues, BaseValues
    <3>4. QED
      BY <2>1, <2>4, <3>2, <3>3 DEF GateA
  <2>5. ASSUME GateB(row, delta, spare)
        PROVE  GateB(r, delta, spare)
    <3>1. FreeTableB[r] <= FreeTableB[row]
      BY <2>2, TablesFall
    <3>2. FreeTableB[r] \in {80, 70, 60} /\ FreeTableB[row] \in {80, 70, 60}
      BY <2>2, TableValues
    <3>3. QED
      BY <2>1, <2>5, <3>1, <3>2 DEF GateB
  <2>6. QED
    BY <2>1, <2>2, <2>3, <2>4, <2>5, GatesAreExact DEF DeltaFits
<1>2. QED
  BY <1>1, PolicyTypeCorrect, DeltaAlwaysFits, PTL
=============================================================================
