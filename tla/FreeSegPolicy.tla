---------------------------- MODULE FreeSegPolicy ----------------------------
(***************************************************************************)
(* tran_has_enough_free_segment(): the predicate that the worker's urgent  *)
(* path asks.  It compares the free segments above the reserve with two    *)
(* thresholds taken from tables; the row of the tables is the larger of    *)
(* two selector bytes (global + 0x890 and + 0x894), which are read one     *)
(* after the other while other code may store to them.  The arithmetic is  *)
(* that of uint32_t.                                                       *)
(***************************************************************************)
EXTENDS Integers

CONSTANTS
  Word,             (* bound: values of a uint32_t; 2^32 in the code       *)
  BlocksPerSegment, (* 1 << log_blocks                                     *)
  UserBlocks,       (* values of sbi->user_block_count                     *)
  SitBlocks,        (* values of the SIT word at + 0x10                    *)
  SegmentCounts,    (* values of the free and of the reserved segments     *)
  Selectors         (* values of a selector byte                           *)

ASSUME WordAssumption == Word \in Nat /\ Word > 4096 * 6144
ASSUME BlocksAssumption == BlocksPerSegment \in Nat \ {0}
(* With 512 blocks to a segment a word of blocks is so few segments that   *)
(* the products of the second table fit a word as well.                    *)
ASSUME SegmentsAssumption == 80 * ((Word - 1) \div BlocksPerSegment) < Word
ASSUME CountsAssumption ==
  UserBlocks \union SitBlocks \union SegmentCounts \subseteq 0..(Word - 1)
ASSUME SelectorsAssumption == Selectors \subseteq 0..255

VARIABLES
  selector0, selector1,  (* the bytes at global + 0x890 and + 0x894        *)
  askPc,         (* where the call stands                                  *)
  userSegments,  (* local user_segments                                    *)
  delta,         (* local delta                                            *)
  spare,         (* local free_minus_reserved                              *)
  row,           (* local a, then row                                      *)
  enough,        (* the answer                                             *)
  short,         (* history: there were fewer free than reserved segments  *)
  highestRow     (* history: the largest selector in force during the call *)

argVars == <<userSegments, delta, spare, short>>
policyVars == <<selector0, selector1, askPc, argVars, row, enough, highestRow>>

(* A faulty variant: the difference is signed.                             *)
BugSigned(a, b) == a - b

(* uint32_t subtraction and multiplication.                                *)
Minus(a, b) == IF a >= b THEN a - b ELSE a - b + Word
Times(a, b) == (a * b) % Word

Larger(a, b) == IF a > b THEN a ELSE b

Row == 0..7
FreeTableA == [r \in Row |->
  CASE r = 0 -> 2048 [] r = 1 -> 3072 [] r \in {2, 3} -> 4096
    [] r \in 4..6 -> 100 [] r = 7 -> 80]
(* A faulty variant: the second table is read from its end.                *)
BugTableReversed == [r \in Row |->
  CASE r \in 0..1 -> 60 [] r \in 2..4 -> 70 [] r \in 5..7 -> 80]

FreeTableB == [r \in Row |->
  CASE r \in 0..2 -> 80 [] r \in 3..5 -> 70 [] r \in 6..7 -> 60]

(* user >> 13 selects a row of the first table; from 2^15 on it is 6144.   *)
Base(user) == IF user >= 32768 THEN 6144 ELSE FreeTableA[user \div 8192]

ThresholdA(r, user) == Times(FreeTableA[r], Base(user)) \div 100

(* A faulty variant: the division comes first.                             *)
BugDivideFirst(r, used) == FreeTableB[r] * (used \div 100)

ThresholdB(r, used) == Times(FreeTableB[r], used) \div 100

(* A row beyond the tables is never enough.                                *)
HasEnough(r, user, unused, above) ==
  /\ r \in Row
  /\ above > ThresholdA(r, user) \/ above > ThresholdB(r, unused)

PolicyInit ==
  /\ selector0 \in Selectors /\ selector1 \in Selectors
  /\ askPc = "idle"
  /\ userSegments = 0 /\ delta = 0 /\ spare = 0 /\ row = 0
  /\ enough = FALSE /\ short = FALSE
  /\ highestRow = 0

(* The caller passes what it has read; the volume holds no more blocks     *)
(* than it has for users.                                                  *)
Ask(user, sit, free, reserved) ==
  /\ askPc = "idle" /\ askPc' = "selector0"
  /\ sit <= user
  /\ userSegments' = user \div BlocksPerSegment
  /\ delta' = Minus(user \div BlocksPerSegment, sit \div BlocksPerSegment)
  /\ spare' = Minus(free, reserved)
  /\ short' = (free < reserved)
  /\ highestRow' = Larger(selector0, selector1)
  /\ UNCHANGED <<selector0, selector1, row, enough>>

ReadSelector0 ==
  /\ askPc = "selector0" /\ askPc' = "selector1"
  /\ row' = selector0
  /\ UNCHANGED <<selector0, selector1, argVars, enough, highestRow>>

(* A faulty variant: the selectors add up.                                 *)
BugAddSelectors ==
  /\ askPc = "selector1" /\ askPc' = "decide"
  /\ row' = row + selector1
  /\ UNCHANGED <<selector0, selector1, argVars, enough, highestRow>>

ReadSelector1 ==
  /\ askPc = "selector1" /\ askPc' = "decide"
  /\ row' = Larger(row, selector1)
  /\ UNCHANGED <<selector0, selector1, argVars, enough, highestRow>>

Decide ==
  /\ askPc = "decide" /\ askPc' = "answered"
  /\ enough' = HasEnough(row, userSegments, delta, spare)
  /\ UNCHANGED <<selector0, selector1, argVars, row, highestRow>>

(* The caller has used the answer, and the locals are dead.                *)
TakeAnswer ==
  /\ askPc = "answered" /\ askPc' = "idle"
  /\ userSegments' = 0 /\ delta' = 0 /\ spare' = 0 /\ row' = 0
  /\ enough' = FALSE /\ short' = FALSE
  /\ highestRow' = 0
  /\ UNCHANGED <<selector0, selector1>>

(* The owner of the selector bytes, which is not recovered.                *)
Select(value0, value1) ==
  /\ value0 = selector0 \/ value1 = selector1
  /\ selector0' = value0 /\ selector1' = value1
  /\ highestRow' = IF askPc = "idle" THEN 0
                   ELSE Larger(highestRow, Larger(value0, value1))
  /\ UNCHANGED <<askPc, argVars, row, enough>>

PolicyNext ==
  \/ \E user \in UserBlocks, sit \in SitBlocks,
        free \in SegmentCounts, reserved \in SegmentCounts :
       Ask(user, sit, free, reserved)
  \/ ReadSelector0 \/ ReadSelector1 \/ Decide \/ TakeAnswer
  \/ \E value0 \in Selectors, value1 \in Selectors : Select(value0, value1)

PolicySpec == PolicyInit /\ [][PolicyNext]_policyVars

-----------------------------------------------------------------------------
PolicyTypeOK ==
  /\ selector0 \in Selectors /\ selector1 \in Selectors
  /\ askPc \in {"idle", "selector0", "selector1", "decide", "answered"}
  /\ {userSegments, delta, spare} \subseteq 0..(Word - 1)
  /\ row \in 0..255 /\ highestRow \in 0..255
  /\ enough \in BOOLEAN /\ short \in BOOLEAN

(* Where the reserve is covered, the answer is the exact comparison of the *)
(* two percentages, for every row of the tables: the divisions truncate,   *)
(* and the products and differences are those of words, but none of it     *)
(* ever changes the answer.                                                *)
AnswerIsExact ==
  askPc = "answered" /\ ~short /\ row \in Row =>
    enough = \/ 100 * spare > FreeTableA[row] * Base(userSegments)
             \/ 100 * spare > FreeTableB[row] * delta

(* A selector pair that changes between the two reads can make the answer  *)
(* follow a pair that never was, but never a row above those in force      *)
(* during the call.                                                        *)
RowWasInForce ==
  /\ askPc \in {"selector1", "decide", "answered"} => row <= highestRow
  /\ askPc # "idle" => Larger(selector0, selector1) <= highestRow

(* Up to the last row, a larger selector only makes the policy more        *)
(* willing, on every volume below 125829 segments, although the first      *)
(* table rises from row 0 to row 3: there its gate never opens.            *)
LargerRowsAreMoreWilling ==
  askPc = "decide" /\ row \in Row /\ spare <= userSegments
    /\ userSegments <= 125829 =>
    \A r \in row..7 :
      HasEnough(row, userSegments, delta, spare) =>
        HasEnough(r, userSegments, delta, spare)

(* "the helper returns true when F - R > first_table[A] * B / 100", or the *)
(* same with the second table (x683-transsion-gc-policy-state-machine,     *)
(* section 6): with fewer free than reserved segments it does not.         *)
ShortageIsNotEnough ==
  askPc = "answered" /\ short /\ row \in Row => ~enough
=============================================================================
