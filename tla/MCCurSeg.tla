------------------------------ MODULE MCCurSeg ------------------------------
(* Three logs, the second the one with the rule of its own, and a segment  *)
(* more than they hold.                                                    *)
EXTENDS CurSeg, TLC

CONSTANTS s1, s2, s3, s4

MCSegments == {s1, s2, s3, s4}
MCSymmetry == Permutations(MCSegments)
=============================================================================
