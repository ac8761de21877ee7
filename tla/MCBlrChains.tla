----------------------------- MODULE MCBlrChains -----------------------------
(* Two registers, pages of two words, an image of seven words: one more    *)
(* than a BLR and its window.                                              *)
EXTENDS BlrChains

Ins(op, width, rd, rn, imm) ==
  [op |-> op, width |-> width, rd |-> rd, rn |-> rn, imm |-> imm]

MCWords ==
  {Ins("adrp", 64, 0, 0, 0), Ins("adrp", 64, 0, 0, 3), Ins("add", 64, 0, 0, 4),
   Ins("ldr", 64, 0, 0, 1), Ins("ldr", 32, 1, 0, 1), Ins("other", 64, 0, 0, 0),
   Ins("blr", 64, 0, 0, 0), Ins("blr", 64, 0, 1, 0)}
MCWideWords == {word \in MCWords : word.width = 64}
MCRegisters == {0, 1}
=============================================================================
