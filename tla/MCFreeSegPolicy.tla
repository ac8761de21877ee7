-------------------------- MODULE MCFreeSegPolicy --------------------------
(* Volumes on both sides of every step of the base value, free counts on   *)
(* both sides of the thresholds, selectors in each part of the tables and  *)
(* beyond them.  A word is of 31 bits, the widest that TLC counts.         *)
EXTENDS FreeSegPolicy

MCUserBlocks == {5120, 5120000, 16776960, 16777216, 64512000}
MCSitBlocks == {0, 1280, 1024000, 51200000}
MCSegmentCounts == {0, 1, 9, 2049, 6145, 28000, 126000}
MCSelectors == {0, 3, 7, 8}
=============================================================================
