------------------------------ MODULE BlrChains ------------------------------
(***************************************************************************)
(* resolve_x683_blr_static.py: for each BLR of the image the tool looks    *)
(* for ADRP + ADD + LDR in the words before it, computes the slot the LDR  *)
(* reads and looks the contents up among the function starts.              *)
(*                                                                         *)
(* The image is whatever it is: a word is chosen when it is reached, and   *)
(* so is the place where a function starts.  Addresses are bytes counted   *)
(* from base.  A SUB never passes the mask of addi() and is one of the     *)
(* other words; a 32-bit ADD and a 32-bit LDR pass.                        *)
(***************************************************************************)
EXTENDS Integers, SequencesExt

CONSTANTS
  Words,       (* instructions: [op, width, rd, rn, imm]                   *)
  Registers,   (* the registers they name                                  *)
  PageBytes,   (* 4096 in the code                                         *)
  ImmBits,     (* width of the page offset in an ADRP; 21 in the code      *)
  limit        (* bytes in the image                                       *)

Ops == {"adrp", "add", "ldr", "blr", "other"}
ASSUME ChainAssumption ==
  /\ Words \subseteq [op : Ops, width : {32, 64}, rd : Registers, rn : Registers,
                      imm : Nat]
  /\ PageBytes \in Nat \ {0} /\ ImmBits \in Nat \ {0} /\ limit \in Nat

VARIABLES
  off,      (* where the function starts                                   *)
  words,    (* its words up to the scan                                    *)
  static,   (* chains found                                                *)
  exact,    (* chains that lead to a function start                        *)
  site,     (* the site appended last to the list of sites                 *)
  regs      (* history: what the registers hold before each of words       *)

vars == <<off, words, static, exact, site, regs>>

NoSite == [blr |-> -1, slot |-> 0, target |-> FALSE, exact |-> FALSE]
pos == off + 4 * Len(words)

sx(x, bits) == IF x >= 2^(bits - 1) THEN x - 2^bits ELSE x

adrp(word, pc) == (pc - (pc % PageBytes)) + sx(word.imm, ImmBits) * PageBytes
ldrOffset(word) == word.imm * (IF word.width = 64 THEN 8 ELSE 4)

(* The first word the tool looks at: five before the BLR, in the function. *)
WindowStart(before) == IF Len(before) > 5 THEN Len(before) - 4 ELSE 1

(* Faulty variant: a chain that ends at the BLR is missed.                 *)
BugLastStart(before) == Len(before) - 3
LastStart(before) == Len(before) - 2

(* Where a chain into register rn starts, in the words before the BLR.     *)
Chains(before, rn) ==
  {j \in WindowStart(before)..LastStart(before) :
     LET rd == before[j].rd IN
     /\ before[j].op = "adrp" /\ before[j + 1].op = "add" /\ before[j + 2].op = "ldr"
     /\ before[j + 1].rd = rd /\ before[j + 1].rn = rd
     /\ before[j + 2].rd = rn /\ before[j + 2].rn = rd}

FirstOf(S) == CHOOSE j \in S : \A k \in S : j <= k

(* Faulty variant: the page is taken from the BLR.                         *)
BugSlot(j) == adrp(words[j], pos) + words[j + 1].imm + ldrOffset(words[j + 2])
Slot(j) ==
  adrp(words[j], off + 4 * (j - 1)) + words[j + 1].imm + ldrOffset(words[j + 2])

InImage(slot) == 0 <= slot /\ slot <= limit - 8

-----------------------------------------------------------------------------
(* What the words do when they are executed one after the other: a         *)
(* register holds an address, the contents of one, or anything.            *)

Unknown == [holds |-> "anything", at |-> 0]
Address(at) == [holds |-> "address", at |-> at]
Contents(at) == [holds |-> "contents", at |-> at]

(* The registers after the i-th word, which found them as in file.         *)
Execute(file, i) ==
  LET word == words[i]
      from == file[word.rn]
      wide == word.width = 64 /\ from.holds = "address"
  IN  CASE word.op = "adrp" ->
             [file EXCEPT ![word.rd] = Address(adrp(word, off + 4 * (i - 1)))]
        [] word.op = "add" ->
             [file EXCEPT ![word.rd] = IF wide THEN Address(from.at + word.imm)
                                               ELSE Unknown]
        [] word.op = "ldr" ->
             [file EXCEPT ![word.rd] = IF wide
                                       THEN Contents(from.at + ldrOffset(word))
                                       ELSE Unknown]
        [] word.op = "other" -> [file EXCEPT ![word.rd] = Unknown]
        [] word.op = "blr" -> [r \in Registers |-> Unknown]

(* One word more: the history goes on by what the word before it does.     *)
Record ==
  regs' = Append(regs, IF words = <<>> THEN [r \in Registers |-> Unknown]
                       ELSE Execute(Last(regs), Len(words)))

-----------------------------------------------------------------------------
Init == /\ off \in {4 * k : k \in 0..(limit \div 4)} /\ words = <<>>
        /\ static = 0 /\ exact = 0 /\ site = NoSite /\ regs = <<>>

(* The contents of the slot are a function start or not.                   *)
Report(j, isStart) ==
  /\ isStart => InImage(Slot(j))
  /\ static' = static + 1
  /\ exact' = IF isStart THEN exact + 1 ELSE exact
  /\ site' = [blr |-> pos, slot |-> Slot(j), target |-> InImage(Slot(j)),
              exact |-> isStart]

ScanBlr(word) ==
  /\ word.op = "blr" /\ pos < limit /\ words' = Append(words, word) /\ Record
  /\ LET chains == Chains(words, word.rn) IN
     \/ chains = {} /\ UNCHANGED <<static, exact, site>>
     \/ chains # {} /\ \E isStart \in BOOLEAN : Report(FirstOf(chains), isStart)
  /\ UNCHANGED off

ScanOther(word) ==
  /\ word.op # "blr" /\ pos < limit /\ words' = Append(words, word) /\ Record
  /\ UNCHANGED <<off, static, exact, site>>

StartFunction ==
  /\ words # <<>> /\ pos < limit
  /\ off' = pos /\ words' = <<>> /\ regs' = <<>>
  /\ UNCHANGED <<static, exact, site>>

Next == \/ \E word \in Words : ScanBlr(word) \/ ScanOther(word)
        \/ StartFunction

Spec == Init /\ [][Next]_vars

-----------------------------------------------------------------------------
(* Properties *)

(* What the BLR at the end of words jumps to.                              *)
JumpsTo == regs[Len(words)][Last(words).rn]

Reported == words # <<>> /\ site.blr = pos - 4

(* The three words before the BLR are such a chain.                        *)
Compact ==
  LET n == Len(words) IN
  n > 3 /\ LET a == words[n - 3]
               b == words[n - 2]
               c == words[n - 1]
           IN  /\ a.op = "adrp" /\ b.op = "add" /\ c.op = "ldr"
               /\ b.rd = a.rd /\ b.rn = a.rd /\ c.rn = a.rd /\ c.rd = words[n].rn
               /\ b.width = 64 /\ c.width = 64

(* A chain that ends right before its BLR is always found, whatever stands *)
(* before it in the window, and the slot reported is what the BLR reads:   *)
(* the page of the ADRP, not of another word, its sign, and the scale of   *)
(* the LDR.                                                                *)
CompactChainFound ==
  words # <<>> /\ Last(words).op = "blr" /\ Compact =>
    Reported /\ JumpsTo = Contents(site.slot)

(* "a recoverable static ADRP + ADD + LDR chain feeding the BLR register"  *)
(* (x683-blr-analysis-2026-08-20, line 17): the register of a reported BLR *)
(* holds the contents of the slot.                                         *)
ChainFeedsBlr == Reported => JumpsTo = Contents(site.slot)

(* Does the word write r?  A call may write any register.                  *)
Writes(word, r) == word.op = "blr" \/ word.rd = r

(* The reported chain does feed the BLR if its words are 64 bits wide and  *)
(* none of the words between the LDR and the BLR writes the register.      *)
QuietChainFeedsBlr ==
  Reported =>
    LET rn == Last(words).rn
        j == FirstOf(Chains(Front(words), rn))
    IN  /\ words[j + 1].width = 64 /\ words[j + 2].width = 64
        /\ \A k \in (j + 3)..(Len(words) - 1) : ~Writes(words[k], rn)
        => JumpsTo = Contents(site.slot)
=============================================================================
