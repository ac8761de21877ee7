------------------------------ MODULE ToolProofs ------------------------------
(***************************************************************************)
(* Two of the analysis tools.                                              *)
(*                                                                         *)
(* The BLR chain resolver, for any alphabet of words, any registers, any   *)
(* page size and width of the page offset, and images of any length: three *)
(* things are tied together, the words, the history of the registers,      *)
(* which is their execution word by word, and the site reported last,      *)
(* which belongs to the word before pos exactly if that word is a BLR with *)
(* a chain in its window.                                                  *)
(*                                                                         *)
(* The device tree reader, for any names, bytes, values and blocks: the    *)
(* paths it keeps are closed upwards, the text of a value says what the    *)
(* value says, the text of the tree holds each property in its node, and   *)
(* the text of a conformant block is the block, line by line.  Its loops   *)
(* carry a state along a sequence; what they compute is shown by induction *)
(* over the sequence, and what the walk over the tree writes by induction  *)
(* from the children to their node: both stand here as an inclusion of     *)
(* sets (SequencesByInduction, TreeByInduction).                           *)
(***************************************************************************)
EXTENDS BlrChains, FdtReader, SequenceTheorems, WellFoundedInduction, TLAPS

(***************************************************************************)
(* The BLR chain resolver                                                  *)
(***************************************************************************)
Value == [holds : {"anything", "address", "contents"}, at : Int]
File == [Registers -> Value]

ChainTypeOK ==
  /\ off \in 0..limit /\ words \in Seq(Words)
  /\ static \in Nat /\ exact \in 0..static
  /\ site \in [blr : Int, slot : Int, target : BOOLEAN, exact : BOOLEAN]
  /\ site.exact => site.target
  /\ regs \in Seq(File) /\ Len(regs) = Len(words)

(* Each entry of the history is what the word before it makes of the last. *)
HistoryInv == \A i \in 1..(Len(words) - 1) : regs[i + 1] = Execute(regs[i], i)

(* The last site is that of the last word, or of an earlier one.           *)
SiteInv ==
  /\ site.blr < pos
  /\ words # <<>> =>
       LET chains == Chains(Front(words), Last(words).rn) IN
       /\ Reported <=> Last(words).op = "blr" /\ chains # {}
       /\ Reported => site.slot = Slot(FirstOf(chains))

-----------------------------------------------------------------------------
(* A word has an operation, registers and an offset that is not negative.  *)
LEMMA WordFields ==
  ASSUME NEW word \in Words
  PROVE  /\ word.op \in Ops /\ word.width \in {32, 64} /\ word.imm \in Nat
         /\ word.rd \in Registers /\ word.rn \in Registers
<1>1. word \in [op : Ops, width : {32, 64}, rd : Registers, rn : Registers,
                imm : Nat]
  BY ChainAssumption
<1>2. QED
  BY <1>1

(* Appending a word leaves the words before it alone.                      *)
LEMMA AppendedWord ==
  ASSUME NEW S, NEW s \in Seq(S), NEW x \in S
  PROVE  /\ Append(s, x) \in Seq(S) /\ Append(s, x) # <<>>
         /\ Len(Append(s, x)) = Len(s) + 1
         /\ \A i \in 1..Len(s) : Append(s, x)[i] = s[i]
         /\ Last(Append(s, x)) = x
         /\ Front(Append(s, x)) = s
<1>1. /\ Append(s, x) \in Seq(S) /\ Append(s, x) # <<>>
      /\ Len(Append(s, x)) = Len(s) + 1
      /\ \A i \in 1..Len(s) : Append(s, x)[i] = s[i]
      /\ Append(s, x)[Len(s) + 1] = x
  BY AppendProperties
<1>2. Last(Append(s, x)) = x
  BY <1>1 DEF Last
<1> DEFINE t == Append(s, x)
<1>3. Len(s) \in Nat /\ \A i \in 1..Len(s) : s[i] \in S
  BY LenProperties, ElementOfSeq
<1>4. Front(t) = SubSeq(t, 1, Len(s))
  BY <1>1, <1>3 DEF Front
<1> HIDE DEF t
<1>5. \A i \in 1..Len(s) : t[i] = s[i]
  BY <1>1 DEF t
<1>6. /\ SubSeq(t, 1, Len(s)) \in Seq(S)
      /\ Len(SubSeq(t, 1, Len(s))) = IF 1 <= Len(s) THEN Len(s) - 1 + 1 ELSE 0
      /\ \A i \in 1..(Len(s) - 1 + 1) : SubSeq(t, 1, Len(s))[i] = t[1 + i - 1]
  <2>1. \A i \in 1..Len(s) : t[i] \in S
    BY <1>3, <1>5
  <2>2. QED
    BY <1>3, <2>1, SubSeqProperties
<1>7. SubSeq(t, 1, Len(s)) = s
  <2>1. Len(SubSeq(t, 1, Len(s))) = Len(s)
    BY <1>3, <1>6
  <2>2. \A i \in 1..Len(s) : SubSeq(t, 1, Len(s))[i] = s[i]
    BY <1>3, <1>5, <1>6
  <2>3. QED
    BY <1>6, <2>1, <2>2, SeqEqual
<1>8. QED
  BY <1>1, <1>2, <1>4, <1>7 DEF t

(* The values are typed.                                                   *)
LEMMA PageIsANumber ==
  ASSUME NEW word \in Words, NEW pc \in Int
  PROVE  adrp(word, pc) \in Int /\ ldrOffset(word) \in Nat
<1>1. word.imm \in Nat /\ PageBytes \in Nat \ {0} /\ ImmBits \in Nat \ {0}
  BY WordFields, ChainAssumption
<1>2. \A n \in Nat : 2^n \in Int
  OBVIOUS
<1>3. 2^ImmBits \in Int
  BY <1>1, <1>2
<1>4. sx(word.imm, ImmBits) \in Int
  BY <1>1, <1>3 DEF sx
<1> DEFINE page == pc % PageBytes
           offset == sx(word.imm, ImmBits)
<1>5. page \in Int
  BY <1>1
<1> HIDE DEF page, offset
<1>6. (pc - page) + offset * PageBytes \in Int
  BY <1>1, <1>4, <1>5 DEF offset
<1>7. adrp(word, pc) \in Int
  BY <1>6 DEF adrp, page, offset
<1>8. ldrOffset(word) \in Nat
  BY <1>1 DEF ldrOffset
<1>9. QED
  BY <1>7, <1>8

-----------------------------------------------------------------------------
(* The words of a chain, and how far it can lie before the BLR: at most    *)
(* two words fit between the LDR and the BLR.                              *)
LEMMA ChainWords ==
  ASSUME NEW before \in Seq(Words), NEW rn, NEW j \in Chains(before, rn)
  PROVE  /\ j \in 1..(Len(before) - 2) /\ Len(before) - 4 <= j
         /\ before[j].op = "adrp"
         /\ before[j + 1].op = "add" /\ before[j + 2].op = "ldr"
         /\ before[j + 1].rd = before[j].rd /\ before[j + 1].rn = before[j].rd
         /\ before[j + 2].rd = rn /\ before[j + 2].rn = before[j].rd
<1>1. Len(before) \in Nat
  BY LenProperties
<1>2. j \in WindowStart(before)..LastStart(before)
  BY DEF Chains
<1>3. j \in 1..(Len(before) - 2) /\ Len(before) - 4 <= j
  BY <1>1, <1>2 DEF WindowStart, LastStart
<1>4. QED
  BY <1>3 DEF Chains

(* Three places are in the window, so that one of those where a chain      *)
(* starts is the first.                                                    *)
LEMMA FirstChain ==
  ASSUME NEW before \in Seq(Words), NEW rn, Chains(before, rn) # {}
  PROVE  /\ FirstOf(Chains(before, rn)) \in Chains(before, rn)
         /\ \A k \in Chains(before, rn) : FirstOf(Chains(before, rn)) <= k
<1> DEFINE S == Chains(before, rn)
           a == WindowStart(before)
<1>1. a \in Nat /\ \A k \in S : k = a \/ k = a + 1 \/ k = a + 2
  <2>1. Len(before) \in Nat
    BY LenProperties
  <2>2. S \subseteq WindowStart(before)..LastStart(before)
    BY DEF Chains
  <2>3. QED
    BY <2>1, <2>2 DEF WindowStart, LastStart
<1>2. S # {}
  OBVIOUS
<1> HIDE DEF S, a
<1>3. \E j \in S : \A k \in S : j <= k
  <2>1. CASE a \in S
    BY <1>1, <2>1
  <2>2. CASE a \notin S /\ a + 1 \in S
    BY <1>1, <2>2
  <2>3. CASE a \notin S /\ a + 1 \notin S
    BY <1>1, <1>2, <2>3
  <2>4. QED
    BY <2>1, <2>2, <2>3
<1>4. FirstOf(S) \in S /\ \A k \in S : FirstOf(S) <= k
  BY <1>3 DEF FirstOf
<1>5. QED
  BY <1>4 DEF S

(* The slot of a chain is a number, and stays what it is when words are    *)
(* appended.                                                               *)
LEMMA SlotOfChain ==
  ASSUME ChainTypeOK, NEW j \in 1..(Len(words) - 2)
  PROVE  Slot(j) \in Int
<1>1. words \in Seq(Words) /\ off \in Int
  BY ChainAssumption DEF ChainTypeOK
<1>2. Len(words) \in Nat
  BY <1>1, LenProperties
<1>3. j \in 1..Len(words) /\ j + 1 \in 1..Len(words) /\ j + 2 \in 1..Len(words)
  BY <1>2
<1>4. words[j] \in Words /\ words[j + 1] \in Words /\ words[j + 2] \in Words
  BY <1>1, <1>3, ElementOfSeq
<1>5. words[j + 1].imm \in Nat
  BY <1>4, WordFields
<1>6. off + 4 * (j - 1) \in Int
  BY <1>1, <1>3
<1>7. /\ adrp(words[j], off + 4 * (j - 1)) \in Int
      /\ ldrOffset(words[j + 2]) \in Nat
  BY <1>4, <1>6, PageIsANumber
<1>8. QED
  BY <1>5, <1>7 DEF Slot

(* Executing a word makes a register file of a register file: it writes    *)
(* one register, or all if the word is a call.                             *)
LEMMA ExecuteTyped ==
  ASSUME ChainTypeOK, NEW file \in File, NEW i \in 1..Len(words)
  PROVE  Execute(file, i) \in File
<1> DEFINE word == words[i]
           from == file[word.rn]
           wide == word.width = 64 /\ from.holds = "address"
<1>1. words \in Seq(Words) /\ off \in Int /\ i \in Int
  BY ChainAssumption DEF ChainTypeOK
<1>2. word \in Words
  BY <1>1, ElementOfSeq
<1> HIDE DEF word
<1>3. /\ word.op \in Ops /\ word.imm \in Nat
      /\ word.rd \in Registers /\ word.rn \in Registers
  BY <1>2, WordFields
<1>4. from \in Value
  BY <1>3 DEF File
<1>5. from.at \in Int
  BY <1>4 DEF Value
<1> HIDE DEF from
<1>6. adrp(word, off + 4 * (i - 1)) \in Int /\ ldrOffset(word) \in Nat
  BY <1>1, <1>2, PageIsANumber
<1>7. /\ Unknown \in Value
      /\ Address(adrp(word, off + 4 * (i - 1))) \in Value
      /\ Address(from.at + word.imm) \in Value
      /\ Contents(from.at + ldrOffset(word)) \in Value
  BY <1>3, <1>5, <1>6 DEF Unknown, Address, Contents, Value
<1>8. \A v \in Value : [file EXCEPT ![word.rd] = v] \in File
  BY DEF File
<1>9. [r \in Registers |-> Unknown] \in File
  BY <1>7 DEF File
<1>10. \/ word.op = "blr" /\ Execute(file, i) = [r \in Registers |-> Unknown]
       \/ \E v \in Value : Execute(file, i) = [file EXCEPT ![word.rd] = v]
  <2>1. CASE word.op = "adrp"
    BY <1>7, <2>1 DEF Execute, word
  <2>2. CASE word.op = "add"
    BY <1>7, <2>2 DEF Execute, word, from
  <2>3. CASE word.op = "ldr"
    BY <1>7, <2>3 DEF Execute, word, from
  <2>4. CASE word.op = "other"
    BY <1>7, <2>4 DEF Execute, word
  <2>5. CASE word.op = "blr"
    BY <2>5 DEF Execute, word
  <2>6. QED
    BY <1>3, <2>1, <2>2, <2>3, <2>4, <2>5 DEF Ops
<1>11. QED
  BY <1>8, <1>9, <1>10

-----------------------------------------------------------------------------
(* The history goes on by the execution of the last word.                  *)
LEMMA RecordKeepsHistory ==
  ASSUME ChainTypeOK, HistoryInv, NEW word \in Words,
         words' = Append(words, word), Record, UNCHANGED off
  PROVE  /\ words' \in Seq(Words) /\ Len(words') = Len(words) + 1
         /\ regs' \in Seq(File) /\ Len(regs') = Len(words')
         /\ HistoryInv'
<1> DEFINE n == Len(words)
           next == IF words = <<>> THEN [r \in Registers |-> Unknown]
                   ELSE Execute(Last(regs), n)
<1>1. words \in Seq(Words) /\ regs \in Seq(File) /\ Len(regs) = n /\ n \in Nat
  BY LenProperties DEF ChainTypeOK
<1>2. words # <<>> => n \in 1..n /\ Last(regs) = regs[n] /\ regs[n] \in File
  BY <1>1, EmptySeq, ElementOfSeq DEF Last
<1>3. next \in File
  <2>1. [r \in Registers |-> Unknown] \in File
    BY DEF File, Unknown, Value
  <2>2. words # <<>> => Execute(Last(regs), n) \in File
    BY <1>2, ExecuteTyped
  <2>3. QED
    BY <2>1, <2>2
<1>4. /\ words' \in Seq(Words) /\ Len(words') = n + 1
      /\ \A i \in 1..n : words'[i] = words[i]
  BY <1>1, AppendedWord
<1>5. regs' = Append(regs, next)
  BY DEF Record
<1> HIDE DEF next
<1>6. /\ regs' \in Seq(File) /\ Len(regs') = n + 1
      /\ \A i \in 1..n : regs'[i] = regs[i]
      /\ regs'[n + 1] = next
  BY <1>1, <1>3, <1>5, AppendProperties
<1>7. ASSUME NEW i \in 1..n PROVE regs'[i + 1] = Execute(regs[i], i)'
  <2>0. PICK file : file = regs[i]
    OBVIOUS
  <2>1. Execute(file, i)' = Execute(file, i)
    BY <1>4 DEF Execute
  <2>2. Execute(regs[i], i)' = Execute(regs[i], i)
    <3>1. regs'[i] = file
      BY <1>6, <2>0
    <3>2. QED
      BY <2>0, <2>1, <3>1
  <2>3. CASE i = n
    <3>1. words # <<>>
      BY <1>1, EmptySeq
    <3>2. next = Execute(regs[n], n)
      BY <1>2, <3>1 DEF next
    <3>3. QED
      BY <1>6, <2>2, <2>3, <3>2
  <2>4. CASE i # n
    <3>1. i \in 1..(n - 1) /\ i + 1 \in 1..n
      BY <1>1, <2>4
    <3>2. regs[i + 1] = Execute(regs[i], i)
      BY <3>1 DEF HistoryInv
    <3>3. QED
      BY <1>6, <2>2, <3>1, <3>2
  <2>5. QED
    BY <2>3, <2>4
<1>8. HistoryInv'
  <2>1. Len(words') - 1 = n
    BY <1>1, <1>4
  <2>2. QED
    BY <1>7, <2>1 DEF HistoryInv
<1>9. QED
  BY <1>4, <1>6, <1>8

(* Types and history.                                                      *)
LEMMA ChainTypeNext ==
  ChainTypeOK /\ HistoryInv /\ [Next]_vars => ChainTypeOK' /\ HistoryInv'
<1> SUFFICES ASSUME ChainTypeOK, HistoryInv, [Next]_vars
             PROVE  ChainTypeOK' /\ HistoryInv'
  OBVIOUS
<1>1. Len(words) \in Nat /\ off \in Nat /\ limit \in Nat
      /\ words \in Seq(Words) /\ off <= limit
  BY ChainAssumption, LenProperties DEF ChainTypeOK
<1>2. ASSUME NEW word \in Words, ScanBlr(word)
      PROVE  ChainTypeOK' /\ HistoryInv'
  <2>1. words' = Append(words, word) /\ Record /\ UNCHANGED off
    BY <1>2 DEF ScanBlr
  <2>2. /\ words' \in Seq(Words)
        /\ regs' \in Seq(File) /\ Len(regs') = Len(words') /\ HistoryInv'
    BY <2>1, RecordKeepsHistory
  <2>3. CASE UNCHANGED <<static, exact, site>>
    BY <2>1, <2>2, <2>3 DEF ChainTypeOK
  <2>4. ASSUME NEW isStart \in BOOLEAN, Chains(words, word.rn) # {},
               Report(FirstOf(Chains(words, word.rn)), isStart)
        PROVE  ChainTypeOK'
    <3> DEFINE j == FirstOf(Chains(words, word.rn))
    <3>1. j \in Chains(words, word.rn)
      BY <1>1, <2>4, FirstChain
    <3>2. j \in 1..(Len(words) - 2)
      BY <1>1, <3>1, ChainWords
    <3>3. Slot(j) \in Int
      BY <3>2, SlotOfChain
    <3> HIDE DEF j
    <3>4. pos \in Int /\ InImage(Slot(j)) \in BOOLEAN
      BY <1>1 DEF pos, InImage
    <3>5. /\ isStart => InImage(Slot(j))
          /\ static' = static + 1
             /\ exact' = IF isStart THEN exact + 1 ELSE exact
          /\ site'
               = [blr |-> pos, slot |-> Slot(j), target |-> InImage(Slot(j)),
                      exact |-> isStart]
      BY <2>4 DEF Report, j
    <3>6. static' \in Nat /\ exact' \in 0..static'
      BY <3>5 DEF ChainTypeOK
    <3>7. /\ site' \in [blr : Int, slot : Int, target : BOOLEAN, exact : BOOLEAN]
          /\ site'.exact => site'.target
      BY <3>3, <3>4, <3>5
    <3>8. QED
      BY <2>1, <2>2, <3>6, <3>7 DEF ChainTypeOK
  <2>5. QED
    BY <1>2, <2>2, <2>3, <2>4 DEF ScanBlr
<1>3. ASSUME NEW word \in Words, ScanOther(word)
      PROVE  ChainTypeOK' /\ HistoryInv'
  <2>1. /\ words' = Append(words, word) /\ Record
        /\ UNCHANGED <<off, static, exact, site>>
    BY <1>3 DEF ScanOther
  <2>2. /\ words' \in Seq(Words)
        /\ regs' \in Seq(File) /\ Len(regs') = Len(words') /\ HistoryInv'
    BY <2>1, RecordKeepsHistory
  <2>3. QED
    BY <2>1, <2>2 DEF ChainTypeOK
<1>4. CASE StartFunction
  <2>1. /\ pos < limit /\ off' = pos /\ words' = <<>> /\ regs' = <<>>
        /\ UNCHANGED <<static, exact, site>>
    BY <1>4 DEF StartFunction
  <2>2. off' \in 0..limit
    BY <1>1, <2>1 DEF pos
  <2>3. <<>> \in Seq(Words) /\ <<>> \in Seq(File) /\ Len(<<>>) = 0
    BY EmptySeq
  <2>4. HistoryInv'
    BY <2>1, <2>3 DEF HistoryInv
  <2>5. QED
    BY <2>1, <2>2, <2>3, <2>4 DEF ChainTypeOK
<1>5. CASE UNCHANGED vars
  <2>1. UNCHANGED <<off, words, static, exact, site, regs>>
    BY <1>5 DEF vars
  <2>2. ASSUME NEW file, NEW i PROVE Execute(file, i)' = Execute(file, i)
    BY <2>1 DEF Execute
  <2>3. HistoryInv'
    BY <2>1, <2>2 DEF HistoryInv
  <2>4. QED
    BY <2>1, <2>3 DEF ChainTypeOK
<1>6. QED
  BY <1>2, <1>3, <1>4, <1>5 DEF Next

(* The site belongs to the last word exactly if that is a BLR with a chain *)
(* before it; an older site keeps its place.                               *)
LEMMA SiteNext == ChainTypeOK /\ SiteInv /\ [Next]_vars => SiteInv'
<1> SUFFICES ASSUME ChainTypeOK, SiteInv, [Next]_vars PROVE SiteInv'
  OBVIOUS
<1>1. /\ Len(words) \in Nat /\ off \in Int /\ words \in Seq(Words)
      /\ site.blr \in Int /\ site.blr < pos
  BY ChainAssumption, LenProperties DEF ChainTypeOK, SiteInv
<1>2. pos \in Int
  BY <1>1 DEF pos
<1>3. ASSUME NEW word \in Words, words' = Append(words, word), UNCHANGED off
      PROVE  /\ words' # <<>> /\ Last(words') = word /\ Front(words') = words
             /\ pos' = pos + 4
             /\ \A j \in 1..(Len(words) - 2) : Slot(j)' = Slot(j)
  <2>1. /\ words' # <<>> /\ Last(words') = word /\ Front(words') = words
        /\ Len(words') = Len(words) + 1
        /\ \A i \in 1..Len(words) : words'[i] = words[i]
    BY <1>1, <1>3, AppendedWord
  <2>2. pos' = pos + 4
    BY <1>1, <1>3, <2>1 DEF pos
  <2>3. ASSUME NEW j \in 1..(Len(words) - 2) PROVE Slot(j)' = Slot(j)
    <3>1. j \in 1..Len(words) /\ j + 1 \in 1..Len(words)
          /\ j + 2 \in 1..Len(words)
      BY <1>1
    <3>2. words'[j] = words[j] /\ words'[j + 1] = words[j + 1]
          /\ words'[j + 2] = words[j + 2]
      BY <2>1, <3>1
    <3>3. QED
      BY <1>3, <3>2 DEF Slot
  <2>4. QED
    BY <2>1, <2>2, <2>3
<1>4. ASSUME NEW word \in Words, words' = Append(words, word),
             UNCHANGED <<off, site>>,
             word.op # "blr" \/ Chains(words, word.rn) = {}
      PROVE  SiteInv'
  <2>1. words' # <<>> /\ Last(words') = word /\ Front(words') = words
        /\ pos' = pos + 4
    BY <1>3, <1>4
  <2>2. site'.blr < pos' /\ site'.blr # pos' - 4
    BY <1>1, <1>2, <1>4, <2>1
  <2>3. ~Reported'
    BY <2>2 DEF Reported
  <2>4. QED
    BY <1>4, <2>1, <2>2, <2>3 DEF SiteInv
<1>5. ASSUME NEW word \in Words, ScanBlr(word) PROVE SiteInv'
  <2> DEFINE chains == Chains(words, word.rn)
  <2>1. CASE chains = {}
    BY <1>4, <1>5, <2>1 DEF ScanBlr
  <2>2. CASE chains # {}
    <3>1. /\ words' = Append(words, word) /\ UNCHANGED off /\ word.op = "blr"
          /\ \E isStart \in BOOLEAN : Report(FirstOf(chains), isStart)
      BY <1>5, <2>2 DEF ScanBlr
    <3>2. PICK j : j = FirstOf(chains)
      OBVIOUS
    <3>3. /\ site'.blr = pos /\ site'.slot = Slot(j)
          /\ j \in 1..(Len(words) - 2)
      BY <1>1, <2>2, <3>1, <3>2, FirstChain, ChainWords DEF Report
    <3>4. /\ words' # <<>> /\ Last(words') = word /\ Front(words') = words
          /\ pos' = pos + 4
             /\ \A i \in 1..(Len(words) - 2) : Slot(i)' = Slot(i)
      BY <1>3, <3>1
    <3>5. Reported' /\ site'.blr < pos'
      BY <1>2, <3>3, <3>4 DEF Reported
    <3>6. Chains(Front(words), Last(words).rn)' = chains
      BY <3>4 DEF Chains, WindowStart, LastStart
    <3>7. FirstOf(Chains(Front(words), Last(words).rn))' = j
      BY <3>2, <3>6 DEF FirstOf
    <3> HIDE DEF chains
    <3>8. Slot(j)' = Slot(j)
      BY <3>3, <3>4
    <3>9. site'.slot = Slot(FirstOf(Chains(Front(words), Last(words).rn)))'
      BY <3>3, <3>7, <3>8
    <3>10. QED
      BY <2>2, <3>1, <3>4, <3>5, <3>6, <3>9 DEF SiteInv
  <2>3. QED
    BY <2>1, <2>2
<1>6. ASSUME NEW word \in Words, ScanOther(word) PROVE SiteInv'
  BY <1>4, <1>6 DEF ScanOther
<1>7. CASE StartFunction
  <2>1. words' = <<>> /\ off' = pos /\ UNCHANGED site
    BY <1>7 DEF StartFunction
  <2>2. Len(<<>>) = 0
    BY EmptySeq
  <2>3. pos' = pos
    BY <1>2, <2>1, <2>2 DEF pos
  <2>4. QED
    BY <1>1, <2>1, <2>3 DEF SiteInv
<1>8. CASE UNCHANGED vars
  BY <1>8 DEF vars, SiteInv, Reported, pos, Slot
<1>9. QED
  BY <1>5, <1>6, <1>7, <1>8 DEF Next

-----------------------------------------------------------------------------
(* After a chain of 64-bit words the register holds the contents of the    *)
(* slot: ADRP and ADD leave the address, and LDR reads there.              *)
LEMMA ChainLoads ==
  ASSUME ChainTypeOK, HistoryInv, NEW j \in 1..(Len(words) - 3),
         words[j].op = "adrp", words[j + 1].op = "add",
         words[j + 2].op = "ldr",
         words[j + 1].rd = words[j].rd, words[j + 1].rn = words[j].rd,
         words[j + 2].rn = words[j].rd,
         words[j + 1].width = 64, words[j + 2].width = 64
  PROVE  regs[j + 3][words[j + 2].rd] = Contents(Slot(j))
<1> DEFINE a == words[j]
           b == words[j + 1]
           c == words[j + 2]
           page == adrp(a, off + 4 * (j - 1))
<1>1. Len(words) \in Nat /\ words \in Seq(Words) /\ regs \in Seq(File)
      /\ Len(regs) = Len(words)
  BY LenProperties DEF ChainTypeOK
<1>2. /\ j \in 1..Len(words) /\ j + 1 \in 1..Len(words)
         /\ j + 2 \in 1..Len(words)
      /\ j \in 1..(Len(words) - 1) /\ j + 1 \in 1..(Len(words) - 1)
      /\ j + 2 \in 1..(Len(words) - 1) /\ (j + 1) + 1 = j + 2
         /\ (j + 2) + 1 = j + 3
  BY <1>1
<1>3. /\ regs[j] \in File /\ regs[j + 1] \in File /\ regs[j + 2] \in File
      /\ a.rd \in Registers /\ c.rd \in Registers
  BY <1>1, <1>2, ElementOfSeq, WordFields
<1>4. /\ regs[j + 1] = Execute(regs[j], j)
      /\ regs[j + 2] = Execute(regs[j + 1], j + 1)
      /\ regs[j + 3] = Execute(regs[j + 2], j + 2)
  BY <1>2 DEF HistoryInv
<1>5. regs[j + 1][a.rd] = Address(page)
  <2>1. regs[j + 1] = [regs[j] EXCEPT ![a.rd] = Address(page)]
    BY <1>4 DEF Execute
  <2>2. QED
    BY <1>3, <2>1 DEF File
<1>6. regs[j + 2][a.rd] = Address(page + b.imm)
  <2>1. /\ Address(page).holds = "address" /\ Address(page).at = page
    BY DEF Address
  <2>2. regs[j + 2] = [regs[j + 1] EXCEPT ![a.rd] = Address(page + b.imm)]
    BY <1>4, <1>5, <2>1 DEF Execute
  <2>3. QED
    BY <1>3, <2>2 DEF File
<1>7. regs[j + 3][c.rd] = Contents(page + b.imm + ldrOffset(c))
  <2>1. /\ Address(page + b.imm).holds = "address"
        /\ Address(page + b.imm).at = page + b.imm
    BY DEF Address
  <2>2. regs[j + 3]
          = [regs[j + 2] EXCEPT ![c.rd] = Contents(page + b.imm + ldrOffset(c))]
    BY <1>4, <1>6, <2>1 DEF Execute
  <2>3. QED
    BY <1>3, <2>2 DEF File
<1>8. QED
  BY <1>7 DEF Slot

(* A word leaves a register alone that it does not write.                  *)
LEMMA QuietWord ==
  ASSUME ChainTypeOK, HistoryInv, NEW k \in 1..(Len(words) - 1),
         NEW r \in Registers,
         ~Writes(words[k], r)
  PROVE  regs[k + 1][r] = regs[k][r]
<1>1. Len(words) \in Nat /\ words \in Seq(Words) /\ regs \in Seq(File)
      /\ Len(regs) = Len(words)
  BY LenProperties DEF ChainTypeOK
<1>2. k \in 1..Len(words)
  BY <1>1
<1>3. words[k] \in Words /\ regs[k] \in File
  BY <1>1, <1>2, ElementOfSeq
<1>4. words[k].op \in Ops /\ words[k].rd \in Registers
  BY <1>3, WordFields
<1>5. words[k].op # "blr" /\ words[k].rd # r
  BY DEF Writes
<1>6. regs[k + 1] = Execute(regs[k], k)
  BY DEF HistoryInv
<1>7. ASSUME NEW v PROVE [regs[k] EXCEPT ![words[k].rd] = v][r] = regs[k][r]
  BY <1>3, <1>5 DEF File
<1>8. \E v : Execute(regs[k], k) = [regs[k] EXCEPT ![words[k].rd] = v]
  <2>1. CASE words[k].op = "adrp"
    BY <2>1 DEF Execute
  <2>2. CASE words[k].op = "add"
    BY <2>2 DEF Execute
  <2>3. CASE words[k].op = "ldr"
    BY <2>3 DEF Execute
  <2>4. CASE words[k].op = "other"
    BY <2>4 DEF Execute
  <2>5. QED
    BY <1>4, <1>5, <2>1, <2>2, <2>3, <2>4 DEF Ops
<1>9. QED
  BY <1>6, <1>7, <1>8

(* The words before the last one, and the last.                            *)
LEMMA WordsBefore ==
  ASSUME ChainTypeOK, words # <<>>
  PROVE  /\ Len(words) \in Nat \ {0} /\ Last(words) = words[Len(words)]
         /\ Last(words) \in Words
         /\ Front(words) \in Seq(Words) /\ Len(Front(words)) = Len(words) - 1
         /\ \A i \in 1..(Len(words) - 1) : Front(words)[i] = words[i]
<1>1. words \in Seq(Words) /\ Len(words) \in Nat \ {0}
  BY EmptySeq DEF ChainTypeOK
<1>2. Last(words) = words[Len(words)] /\ Last(words) \in Words
  BY <1>1, ElementOfSeq DEF Last
<1> DEFINE n == Len(words) - 1
<1>3. n \in Nat /\ \A i \in 1..n : words[i] \in Words
  BY <1>1, ElementOfSeq
<1>4. Front(words) = SubSeq(words, 1, n)
  BY DEF Front
<1> HIDE DEF n
<1>5. /\ SubSeq(words, 1, n) \in Seq(Words)
      /\ Len(SubSeq(words, 1, n)) = IF 1 <= n THEN n - 1 + 1 ELSE 0
      /\ \A i \in 1..(n - 1 + 1) : SubSeq(words, 1, n)[i] = words[1 + i - 1]
  BY <1>3, SubSeqProperties
<1>6. /\ Len(SubSeq(words, 1, n)) = n
      /\ \A i \in 1..n : SubSeq(words, 1, n)[i] = words[i]
  BY <1>3, <1>5
<1>7. QED
  BY <1>1, <1>2, <1>4, <1>5, <1>6 DEF n

-----------------------------------------------------------------------------
(* The last site is the one of the last word, or an older one, and the     *)
(* history is the execution of the words, in every state.                  *)
LEMMA ChainInvariant == Spec => [](ChainTypeOK /\ HistoryInv /\ SiteInv)
<1>1. Init => ChainTypeOK /\ HistoryInv /\ SiteInv
  <2> SUFFICES ASSUME Init PROVE ChainTypeOK /\ HistoryInv /\ SiteInv
    OBVIOUS
  <2>1. PICK k \in 0..(limit \div 4) : off = 4 * k
    BY DEF Init
  <2>2. off \in 0..limit
    BY <2>1, ChainAssumption
  <2>3. <<>> \in Seq(Words) /\ <<>> \in Seq(File) /\ Len(<<>>) = 0
    BY EmptySeq
  <2>4. /\ words = <<>> /\ regs = <<>> /\ static = 0 /\ exact = 0
           /\ site = NoSite
    BY DEF Init
  <2>5. ChainTypeOK
    BY <2>2, <2>3, <2>4 DEF ChainTypeOK, NoSite
  <2>6. HistoryInv
    BY <2>3, <2>4 DEF HistoryInv
  <2>7. SiteInv
    BY <2>2, <2>3, <2>4, ChainAssumption DEF SiteInv, NoSite, pos
  <2>8. QED
    BY <2>5, <2>6, <2>7
<1>2. ChainTypeOK /\ HistoryInv /\ SiteInv /\ [Next]_vars
        => (ChainTypeOK /\ HistoryInv /\ SiteInv)'
  BY ChainTypeNext, SiteNext
<1>3. QED
  BY <1>1, <1>2, PTL DEF Spec

(* Types, and the two counters: no more exact targets than chains, and a   *)
(* target only where the slot lies in the image.                           *)
THEOREM ChainTypeCorrect == Spec => []ChainTypeOK
  BY ChainInvariant, PTL

(* A reported chain of 64-bit words whose register is left alone up to the *)
(* BLR feeds it.                                                           *)
THEOREM QuietChainFeeds == Spec => []QuietChainFeedsBlr
<1>1. ChainTypeOK /\ HistoryInv /\ SiteInv => QuietChainFeedsBlr
  <2> SUFFICES ASSUME ChainTypeOK, HistoryInv, SiteInv, Reported,
                      NEW rn, rn = Last(words).rn,
                      NEW j, j = FirstOf(Chains(Front(words), rn)),
                      words[j + 1].width = 64, words[j + 2].width = 64,
                      \A k \in (j + 3)..(Len(words) - 1) : ~Writes(words[k], rn)
               PROVE  JumpsTo = Contents(site.slot)
    BY DEF QuietChainFeedsBlr
  <2> DEFINE n == Len(words)
             before == Front(words)
  <2>1. words # <<>> /\ Chains(before, rn) # {} /\ site.slot = Slot(j)
    BY DEF Reported, SiteInv
  <2>2. /\ n \in Nat \ {0} /\ Last(words) = words[n] /\ Last(words) \in Words
        /\ before \in Seq(Words) /\ Len(before) = n - 1
        /\ \A i \in 1..(n - 1) : before[i] = words[i]
    BY <2>1, WordsBefore
  <2> HIDE DEF n, before
  <2>3. j \in Chains(before, rn)
    BY <2>1, <2>2, FirstChain DEF before
  <2>4. /\ j \in 1..(Len(before) - 2) /\ Len(before) - 4 <= j
        /\ before[j].op = "adrp"
        /\ before[j + 1].op = "add" /\ before[j + 2].op = "ldr"
        /\ before[j + 1].rd = before[j].rd /\ before[j + 1].rn = before[j].rd
        /\ before[j + 2].rd = rn /\ before[j + 2].rn = before[j].rd
    BY <2>2, <2>3, ChainWords
  <2>5. /\ j \in 1..(n - 3) /\ n - 5 <= j
        /\ j \in 1..(n - 1) /\ j + 1 \in 1..(n - 1) /\ j + 2 \in 1..(n - 1)
    BY <2>2, <2>4
  <2>6. /\ words[j].op = "adrp" /\ words[j + 1].op = "add"
           /\ words[j + 2].op = "ldr"
        /\ words[j + 1].rd = words[j].rd /\ words[j + 1].rn = words[j].rd
        /\ words[j + 2].rd = rn /\ words[j + 2].rn = words[j].rd
    BY <2>2, <2>4, <2>5
  <2>7. regs[j + 3][rn] = Contents(Slot(j))
    <3>1. regs[j + 3][words[j + 2].rd] = Contents(Slot(j))
      BY <2>5, <2>6, ChainLoads DEF n
    <3>2. QED
      BY <2>6, <3>1
  <2>8. rn \in Registers
    BY <2>2, WordFields
  <2>9. JumpsTo = regs[n][rn]
    BY DEF JumpsTo, n
  <2>10. ASSUME NEW k \in (j + 3)..(n - 1) PROVE regs[k + 1][rn] = regs[k][rn]
    <3>1. k \in 1..(n - 1)
      BY <2>2, <2>5
    <3>2. ~Writes(words[k], rn)
      BY <2>10 DEF n
    <3>3. QED
      BY <2>8, <3>1, <3>2, QuietWord DEF n
  <2>11. regs[n][rn] = regs[j + 3][rn]
    <3>1. CASE n = j + 3
      BY <3>1
    <3>2. CASE n = j + 4
      <4>1. j + 3 \in (j + 3)..(n - 1) /\ (j + 3) + 1 = n
        BY <2>5, <3>2
      <4>2. QED
        BY <2>10, <4>1
    <3>3. CASE n = j + 5
      <4>1. /\ j + 3 \in (j + 3)..(n - 1) /\ (j + 3) + 1 = j + 4
            /\ j + 4 \in (j + 3)..(n - 1) /\ (j + 4) + 1 = n
        BY <2>5, <3>3
      <4>2. QED
        BY <2>10, <4>1
    <3>4. n = j + 3 \/ n = j + 4 \/ n = j + 5
      <4>1. n \in Int /\ j \in Int /\ j <= n - 3 /\ n - 5 <= j
        BY <2>2, <2>5
      <4>2. QED
        BY <4>1
    <3>5. QED
      BY <3>1, <3>2, <3>3, <3>4
  <2>12. QED
    BY <2>1, <2>7, <2>9, <2>11
<1>2. QED
  BY <1>1, ChainInvariant, PTL

(* A chain that ends right before its BLR is the first one of the window,  *)
(* is reported, and feeds the BLR.                                         *)
THEOREM CompactChainsFound == Spec => []CompactChainFound
<1>1. ChainTypeOK /\ HistoryInv /\ SiteInv => CompactChainFound
  <2> SUFFICES ASSUME ChainTypeOK, HistoryInv, SiteInv,
                      words # <<>>, Last(words).op = "blr", Compact
               PROVE  Reported /\ JumpsTo = Contents(site.slot)
    BY DEF CompactChainFound
  <2> DEFINE n == Len(words)
             before == Front(words)
             rn == Last(words).rn
  <2>1. /\ n \in Nat \ {0} /\ Last(words) = words[n]
        /\ before \in Seq(Words) /\ Len(before) = n - 1
        /\ \A i \in 1..(n - 1) : before[i] = words[i]
    BY WordsBefore
  <2>2. /\ n > 3
        /\ words[n - 3].op = "adrp" /\ words[n - 2].op = "add"
           /\ words[n - 1].op = "ldr"
        /\ words[n - 2].rd = words[n - 3].rd
           /\ words[n - 2].rn = words[n - 3].rd
        /\ words[n - 1].rn = words[n - 3].rd /\ words[n - 1].rd = rn
        /\ words[n - 2].width = 64 /\ words[n - 1].width = 64
    BY <2>1 DEF Compact
  <2> HIDE DEF before, n, rn
  <2>3. PICK j : j = n - 3
    OBVIOUS
  <2>4. /\ j \in 1..(n - 3) /\ j + 1 = n - 2 /\ j + 2 = n - 1 /\ j + 3 = n
        /\ before[j] = words[j] /\ before[j + 1] = words[j + 1]
        /\ before[j + 2] = words[j + 2]
    BY <2>1, <2>2, <2>3
  <2>5. j \in WindowStart(before)..LastStart(before)
    BY <2>1, <2>2, <2>3 DEF WindowStart, LastStart
  <2>6. j \in Chains(before, rn)
    BY <2>2, <2>3, <2>4, <2>5 DEF Chains
  <2>7. ASSUME NEW k \in Chains(before, rn) PROVE k = j
    <3>1. /\ k \in 1..(Len(before) - 2) /\ Len(before) - 4 <= k
          /\ before[k].op = "adrp" /\ before[k + 1].op = "add"
             /\ before[k + 2].op = "ldr"
      BY <2>1, ChainWords
    <3>2. k = n - 3 \/ k + 1 = n - 3 \/ k + 2 = n - 3
      BY <2>1, <3>1
    <3>3. before[n - 3].op = "adrp"
      BY <2>2, <2>3, <2>4
    <3>4. QED
      BY <2>3, <3>1, <3>2, <3>3
  <2>8. FirstOf(Chains(before, rn)) = j
    BY <2>1, <2>6, <2>7, FirstChain
  <2>9. Reported /\ site.slot = Slot(j)
    BY <2>6, <2>8 DEF SiteInv, before, rn
  <2>10. regs[j + 3][rn] = Contents(Slot(j))
    <3>1. /\ words[j].op = "adrp" /\ words[j + 1].op = "add"
             /\ words[j + 2].op = "ldr"
          /\ words[j + 1].rd = words[j].rd /\ words[j + 1].rn = words[j].rd
          /\ words[j + 2].rd = rn /\ words[j + 2].rn = words[j].rd
          /\ words[j + 1].width = 64 /\ words[j + 2].width = 64
      BY <2>2, <2>3, <2>4
    <3>2. regs[j + 3][words[j + 2].rd] = Contents(Slot(j))
      BY <2>4, <3>1, ChainLoads DEF n
    <3>3. QED
      BY <3>1, <3>2
  <2>11. JumpsTo = regs[n][rn]
    BY DEF JumpsTo, n, rn
  <2>12. QED
    BY <2>4, <2>9, <2>10, <2>11
<1>2. QED
  BY <1>1, ChainInvariant, PTL

-----------------------------------------------------------------------------
(***************************************************************************)
(* Induction, and what a loop over a sequence computes                     *)
(***************************************************************************)
(* A set of numbers that is not empty has a least one.                     *)
LEMMA LeastNumber ==
  ASSUME NEW S, S \subseteq Nat, S # {}
  PROVE  \E x \in S : \A y \in S : x <= y
<1>1. IsWellFoundedOn(OpToRel(<, Nat), Nat)
  BY NatLessThanWellFounded
<1>2. PICK x \in S : \A y \in S : ~(<<y, x>> \in OpToRel(<, Nat))
  BY <1>1, WFMin
<1>3. ASSUME NEW y \in S PROVE x <= y
  <2>1. <<y, x>> \notin OpToRel(<, Nat)
    BY <1>2
  <2>2. ~(y < x)
    BY <2>1 DEF OpToRel
  <2>3. QED BY <2>2
<1>4. QED BY <1>3

(* Induction, over a set of numbers instead of a predicate.                *)
LEMMA NumbersByInduction ==
  ASSUME NEW T, 0 \in T, \A n \in Nat : n \in T => n + 1 \in T
  PROVE  Nat \subseteq T
<1> DEFINE S == Nat \ T
<1>1. ASSUME S # {} PROVE FALSE
  <2>1. PICK x \in S : \A y \in S : x <= y
    BY <1>1, LeastNumber
  <2>2. x # 0 /\ x \in Nat
    OBVIOUS
  <2>3. x - 1 \in Nat /\ ~(x <= x - 1) /\ (x - 1) + 1 = x
    BY <2>2
  <2>4. x - 1 \in T
    BY <2>1, <2>3
  <2>5. QED
    BY <2>3, <2>4
<1>2. QED
  BY <1>1

(* The same over sequences.                                                *)
LEMMA SequencesByInduction ==
  ASSUME NEW B, NEW T, <<>> \in T,
         \A s \in Seq(B) : s \in T => \A x \in B : Append(s, x) \in T
  PROVE  Seq(B) \subseteq T
<1> DEFINE L == {n \in Nat : \A s \in Seq(B) : Len(s) = n => s \in T}
<1>1. 0 \in L
  BY EmptySeq
<1>2. ASSUME NEW n \in Nat, n \in L PROVE n + 1 \in L
  <2>1. ASSUME NEW s \in Seq(B), Len(s) = n + 1 PROVE s \in T
    <3> DEFINE t == SubSeq(s, 1, n)
    <3>1. \A i \in 1..(n + 1) : s[i] \in B
      BY <2>1, ElementOfSeq
    <3>2. /\ t \in Seq(B) /\ Len(t) = n /\ \A i \in 1..n : t[i] = s[i]
      BY <3>1, SubSeqProperties
    <3> HIDE DEF t
    <3>3. t \in T
      BY <1>2, <3>2
    <3>4. s[n + 1] \in B
      BY <3>1
    <3>5. /\ Append(t, s[n + 1]) \in Seq(B) /\ Len(Append(t, s[n + 1])) = n + 1
          /\ \A i \in 1..n : Append(t, s[n + 1])[i] = t[i]
          /\ Append(t, s[n + 1])[n + 1] = s[n + 1]
      BY <3>2, <3>4, AppendProperties
    <3>6. Append(t, s[n + 1]) = s
      BY <2>1, <3>2, <3>5, SeqEqual
    <3>7. QED
      BY <3>2, <3>3, <3>4, <3>6
  <2>2. QED
    BY <2>1
<1> HIDE DEF L
<1>3. Nat \subseteq L
  BY <1>1, <1>2, NumbersByInduction
<1>4. ASSUME NEW s \in Seq(B) PROVE s \in T
  <2>1. Len(s) \in L
    BY <1>3, LenProperties
  <2>2. QED
    BY <2>1 DEF L
<1>5. QED
  BY <1>4

(* The states a loop goes through; there are such states for every         *)
(* sequence.                                                               *)
IsRun(run, step, start, s) ==
  run = [n \in 0..Len(s) |-> IF n = 0 THEN start ELSE step[<<run[n - 1], s[n]>>]]

(* The recursive function of a loop exists, one step at a time.            *)
LEMMA RunExists ==
  ASSUME NEW step, NEW start, NEW B
  PROVE  \A s \in Seq(B) : \E run : IsRun(run, step, start, s)
<1> DEFINE Runs(s, run) == IsRun(run, step, start, s)
           T == {s \in Seq(B) : \E run : Runs(s, run)}
<1>1. <<>> \in T
  <2>1. Runs(<<>>, [n \in 0..0 |-> start])
    BY EmptySeq DEF IsRun
  <2>2. QED BY <2>1, EmptySeq
<1>2. ASSUME NEW s \in Seq(B), s \in T, NEW x \in B PROVE Append(s, x) \in T
  <2>1. PICK run : Runs(s, run)
    BY <1>2
  <2> DEFINE t == Append(s, x)
             more == [n \in 0..Len(t) |-> IF n = Len(t) THEN step[<<run[n - 1], x>>]
                                                  ELSE run[n]]
  <2>2. /\ t \in Seq(B) /\ Len(t) = Len(s) + 1 /\ Len(s) \in Nat
        /\ \A i \in 1..Len(s) : t[i] = s[i]
        /\ t[Len(t)] = x
    BY AppendProperties, LenProperties
  <2>3. ASSUME NEW n \in 0..Len(t)
        PROVE  more[n] = IF n = 0 THEN start ELSE step[<<more[n - 1], t[n]>>]
    <3>1. CASE n = 0
      BY <2>1, <2>2, <3>1 DEF IsRun
    <3>2. CASE n \in 1..Len(s)
      <4>1. n - 1 \in 0..Len(s) /\ n # Len(t) /\ n - 1 # Len(t)
            /\ n - 1 \in 0..Len(t) /\ n # 0 /\ n \in 0..Len(s)
        BY <2>2, <3>2
      <4>2. more[n] = run[n] /\ more[n - 1] = run[n - 1] /\ t[n] = s[n]
        BY <2>2, <3>2, <4>1
      <4>3. run[n] = step[<<run[n - 1], s[n]>>]
        BY <2>1, <4>1 DEF IsRun
      <4>4. QED
        BY <4>1, <4>2, <4>3
    <3>3. CASE n = Len(t)
      BY <2>2, <3>3
    <3>4. n = 0 \/ n \in 1..Len(s) \/ n = Len(t)
      BY <2>2
    <3>5. QED
      BY <3>1, <3>2, <3>3, <3>4
  <2>4. Runs(t, more)
    BY <2>3 DEF IsRun
  <2>5. QED
    BY <2>2, <2>4
<1> HIDE DEF T
<1>3. Seq(B) \subseteq T
  BY <1>1, <1>2, SequencesByInduction
<1>4. QED
  BY <1>3 DEF T

(* What a loop computes: the start for no element, and a step more for one *)
(* element more.                                                           *)
LEMMA OneStepMore ==
  ASSUME NEW step, NEW start, NEW B, NEW s \in Seq(B), NEW x \in B
  PROVE  /\ RunOver(step, start, <<>>) = start
         /\ RunOver(step, start, Append(s, x))
              = step[<<RunOver(step, start, s), x>>]
<1> DEFINE Runs(u, run) == IsRun(run, step, start, u)
           Run(u) == CHOOSE run : Runs(u, run)
           t == Append(s, x)
<1>1. \A u \in Seq(B) : RunOver(step, start, u) = Run(u)[Len(u)]
  BY DEF RunOver, IsRun
<1>2. \A u \in Seq(B) : Runs(u, Run(u))
  BY RunExists
<1>3. /\ t \in Seq(B) /\ Len(t) = Len(s) + 1 /\ Len(s) \in Nat
      /\ \A i \in 1..Len(s) : t[i] = s[i]
      /\ t[Len(t)] = x
  BY AppendProperties, LenProperties
<1>4. \A u \in Seq(B) : \A n \in 0..Len(u) :
        Run(u)[n] = IF n = 0 THEN start ELSE step[<<Run(u)[n - 1], u[n]>>]
  <2>1. ASSUME NEW u, NEW run, Runs(u, run), NEW n \in 0..Len(u)
        PROVE  run[n] = IF n = 0 THEN start ELSE step[<<run[n - 1], u[n]>>]
    BY <2>1 DEF IsRun
  <2> HIDE DEF Runs, Run
  <2>2. QED
    BY <1>2, <2>1
<1> HIDE DEF Runs, Run, t
<1>5. \A n \in 0..Len(s) : Run(t)[n] = Run(s)[n]
  <2> DEFINE T == {n \in Nat : n <= Len(s) => Run(t)[n] = Run(s)[n]}
  <2>1. 0 \in T
    <3>1. 0 \in 0..Len(s) /\ 0 \in 0..Len(t) /\ s \in Seq(B)
      BY <1>3
    <3>2. Run(t)[0] = start /\ Run(s)[0] = start
      BY <1>3, <1>4, <3>1
    <3>3. QED
      BY <3>2
  <2>2. ASSUME NEW n \in Nat, n \in T PROVE n + 1 \in T
    <3>1. CASE n + 1 <= Len(s)
      <4>1. n + 1 \in 0..Len(s) /\ n + 1 \in 0..Len(t) /\ n + 1 # 0
            /\ (n + 1) - 1 = n
        BY <1>3, <3>1
      <4>2. n + 1 \in 1..Len(s) /\ n <= Len(s)
        BY <1>3, <3>1
      <4>3. Run(t)[n] = Run(s)[n] /\ t[n + 1] = s[n + 1]
        BY <1>3, <2>2, <4>2
      <4>4. /\ Run(t)[n + 1] = step[<<Run(t)[n], t[n + 1]>>]
            /\ Run(s)[n + 1] = step[<<Run(s)[n], s[n + 1]>>]
        BY <1>3, <1>4, <4>1
      <4>5. QED
        BY <4>3, <4>4
    <3>2. QED
      BY <3>1
  <2> HIDE DEF T
  <2>3. Nat \subseteq T
    BY <2>1, <2>2, NumbersByInduction
  <2>4. QED
    BY <1>3, <2>3 DEF T
<1>6. Run(t)[Len(t)] = step[<<Run(s)[Len(s)], x>>]
  <2>1. Len(t) \in 0..Len(t) /\ Len(t) # 0 /\ Len(t) - 1 = Len(s)
        /\ Len(s) \in 0..Len(s)
    BY <1>3
  <2>2. Run(t)[Len(t)] = step[<<Run(t)[Len(s)], t[Len(t)]>>]
    BY <1>3, <1>4, <2>1
  <2>3. QED
    BY <1>3, <1>5, <2>1, <2>2
<1>7. RunOver(step, start, <<>>) = start
  <2>1. <<>> \in Seq(B) /\ Len(<<>>) = 0
    BY EmptySeq
  <2>2. 0 \in 0..Len(<<>>)
    BY <2>1
  <2>3. QED
    BY <1>1, <1>4, <2>1, <2>2
<1>8. QED
  BY <1>1, <1>3, <1>6, <1>7 DEF t

-----------------------------------------------------------------------------
(***************************************************************************)
(* The device tree reader                                                  *)
(***************************************************************************)
(* What Append does, and how it stands with concatenation and ToSet.       *)
LEMMA AppendFacts ==
  ASSUME NEW B, NEW s \in Seq(B), NEW x \in B
  PROVE  /\ Append(s, x) \in Seq(B)
         /\ Append(s, x) # <<>>
         /\ ToSet(Append(s, x)) = ToSet(s) \cup {x}
         /\ Last(Append(s, x)) = x
         /\ Front(Append(s, x)) = s
<1>1. /\ Append(s, x) \in Seq(B) /\ Len(Append(s, x)) = Len(s) + 1
         /\ Len(s) \in Nat
      /\ \A i \in 1..Len(s) : Append(s, x)[i] = s[i]
      /\ Append(s, x)[Len(s) + 1] = x
      /\ DOMAIN s = 1..Len(s) /\ DOMAIN Append(s, x) = 1..(Len(s) + 1)
  BY AppendProperties, LenProperties
<1>2. Append(s, x) # <<>>
  BY <1>1, EmptySeq
<1>3. ToSet(Append(s, x)) = ToSet(s) \cup {x}
  BY <1>1 DEF ToSet
<1>4. Last(Append(s, x)) = x
  BY <1>1 DEF Last
<1>5. Front(Append(s, x)) = s
  <2>1. Front(Append(s, x)) = SubSeq(Append(s, x), 1, Len(s))
    BY <1>1 DEF Front
  <2>2. \A i \in 1..Len(s) : Append(s, x)[i] \in B
    BY <1>1, ElementOfSeq
  <2>3. /\ SubSeq(Append(s, x), 1, Len(s)) \in Seq(B)
        /\ Len(SubSeq(Append(s, x), 1, Len(s))) = Len(s)
        /\ \A i \in 1..Len(s) : SubSeq(Append(s, x), 1, Len(s))[i] = s[i]
    BY <1>1, <2>2, SubSeqProperties
  <2>4. QED
    BY <2>1, <2>3, SeqEqual
<1>6. QED
  BY <1>1, <1>2, <1>3, <1>4, <1>5

(* Appending to the second of two sequences is appending to both.          *)
LEMMA AppendToConcat ==
  ASSUME NEW B, NEW s \in Seq(B), NEW t \in Seq(B), NEW x \in B
  PROVE  /\ s \o t \in Seq(B)
         /\ s \o Append(t, x) = Append(s \o t, x)
<1>1. /\ s \o t \in Seq(B) /\ Len(s \o t) = Len(s) + Len(t)
      /\ \A i \in 1..(Len(s) + Len(t)) :
           (s \o t)[i] = IF i <= Len(s) THEN s[i] ELSE t[i - Len(s)]
  BY ConcatProperties
<1>2. /\ Append(t, x) \in Seq(B) /\ Len(Append(t, x)) = Len(t) + 1
      /\ \A i \in 1..Len(t) : Append(t, x)[i] = t[i]
      /\ Append(t, x)[Len(t) + 1] = x
  BY AppendProperties
<1>3. QED
  BY <1>1, <1>2, LenProperties

(* Texts put together are a text.                                          *)
LEMMA TextConcat ==
  \A s, t \in Text : \A x \in Byte : s \o Append(t, x) = Append(s \o t, x)
BY AppendToConcat DEF Text

(* The empty sequence is a sequence of anything and holds nothing.         *)
LEMMA EmptyFacts ==
  /\ \A B : <<>> \in Seq(B)
  /\ ToSet(<<>>) = {}
  /\ Len(<<>>) = 0
<1>1. /\ \A B : <<>> \in Seq(B)
      /\ Len(<<>>) = 0
  BY EmptySeq
<1>2. DOMAIN <<>> = {}
  BY <1>1, LenProperties
<1>3. ToSet(<<>>) = {}
  BY <1>2 DEF ToSet
<1>4. QED
  BY <1>1, <1>3

(* A sequence of elements of a set, and the set of its elements.           *)
LEMMA InRange ==
  ASSUME NEW B, NEW s \in Seq(B)
  PROVE  /\ ToSet(s) \subseteq B
         /\ \A i \in DOMAIN s : s[i] \in ToSet(s)
         /\ \A C : ToSet(s) \subseteq C => s \in Seq(C)
<1>1. /\ Len(s) \in Nat /\ DOMAIN s = 1..Len(s) /\ s \in [1..Len(s) -> B]
      /\ \A i \in 1..Len(s) : s[i] \in B
  BY LenProperties, ElementOfSeq
<1>2. ToSet(s) = {s[i] : i \in 1..Len(s)}
  BY <1>1 DEF ToSet
<1>3. ASSUME NEW C, ToSet(s) \subseteq C PROVE s \in Seq(C)
  <2>1. \A i \in 1..Len(s) : s[i] \in C
    BY <1>2, <1>3
  <2>2. s \in [1..Len(s) -> C]
    BY <1>1, <2>1
  <2>3. QED
    BY <1>1, <2>2, SeqDef
<1>4. QED
  BY <1>1, <1>2, <1>3

(* The steps of the loops of fmt(), without their domains.                 *)
SplitState == [parts : Seq(Text), last : Text]

(* The three special bytes are bytes, and differ.                          *)
LEMMA Bytes255 ==
  /\ NUL \in Byte /\ Quote \in Byte /\ Backslash \in Byte
  /\ Quote # Backslash /\ NUL # Backslash /\ NUL # Quote
BY DEF NUL, Quote, Backslash, Byte

(* One step of the split: a NUL ends the part that is being read.          *)
LEMMA SplitOnce ==
  ASSUME NEW s \in SplitState, NEW x \in Byte
  PROVE  SplitStep[<<s, x>>] =
           IF x = NUL THEN [parts |-> Append(s.parts, s.last), last |-> <<>>]
                      ELSE [parts |-> s.parts, last |-> Append(s.last, x)]
<1>1. <<s, x>> \in SplitState \X Byte
  OBVIOUS
<1>2. QED
  BY <1>1 DEF SplitStep, SplitState

(* One step of the escape: a quote gets a backslash before it.             *)
LEMMA EscapeOnce ==
  ASSUME NEW p \in Text, NEW x \in Byte
  PROVE  EscapeStep[<<p, x>>] =
           IF x = Quote THEN Append(Append(p, Backslash), Quote)
             ELSE Append(p, x)
<1>1. <<p, x>> \in Text \X Byte
  OBVIOUS
<1>2. QED
  BY <1>1 DEF EscapeStep

Unescaping == [escape : BOOLEAN, bytes : Text]

(* One step of the reading of an escaped text.                             *)
LEMMA UnescapeOnce ==
  ASSUME NEW u \in Unescaping, NEW x \in Byte
  PROVE  UnescapeStep[<<u, x>>] =
           IF x = Backslash /\ ~u.escape
           THEN [escape |-> TRUE, bytes |-> u.bytes]
           ELSE [escape |-> FALSE, bytes |-> Append(u.bytes, x)]
<1>1. <<u, x>> \in Unescaping \X Byte
  OBVIOUS
<1>2. QED
  BY <1>1 DEF UnescapeStep, Unescaping

(* One step that puts the strings of a value together again.               *)
LEMMA StringOnce ==
  ASSUME NEW t \in Text, NEW p \in Text
  PROVE  StringStep[<<t, p>>] = t \o Append(Unescaped(p), NUL)
<1>1. <<t, p>> \in Text \X Text
  OBVIOUS
<1>2. QED
  BY <1>1 DEF StringStep

(* A string without a backslash comes back from its escaped form.          *)
LEMMA EscapeIsReversible ==
  ASSUME NEW part \in Text, Backslash \notin ToSet(part)
  PROVE  Escaped(part) \in Text /\ Unescaped(Escaped(part)) = part
<1> DEFINE Plain == [escape |-> FALSE, bytes |-> <<>>]
           Meant(t) == RunOver(UnescapeStep, Plain, t)
           Back(p) == /\ Escaped(p) \in Text
                      /\ Meant(Escaped(p)) = [escape |-> FALSE, bytes |-> p]
           T == {p \in Text : Backslash \notin ToSet(p) => Back(p)}
<1>1. <<>> \in T
  <2>1. Escaped(<<>>) = <<>>
    BY OneStepMore, EmptyFacts, Bytes255 DEF Escaped, Text
  <2>2. Meant(<<>>) = Plain
    BY OneStepMore, EmptyFacts, Bytes255 DEF Text
  <2>3. QED
    BY <2>1, <2>2, EmptyFacts DEF Text
<1>2. ASSUME NEW p \in Text, p \in T, NEW x \in Byte PROVE Append(p, x) \in T
  <2>1. Append(p, x) \in Text
    BY AppendFacts DEF Text
  <2>2. ASSUME Backslash \notin ToSet(Append(p, x)) PROVE Back(Append(p, x))
    <3>1. Backslash \notin ToSet(p) /\ x # Backslash
      BY <2>2, AppendFacts DEF Text
    <3>2. Back(p)
      BY <1>2, <3>1
    <3>3. Escaped(Append(p, x)) = EscapeStep[<<Escaped(p), x>>]
      BY OneStepMore DEF Escaped, Text
    <3> DEFINE e == Escaped(p)
               half == [escape |-> TRUE, bytes |-> p]
               whole == [escape |-> FALSE, bytes |-> p]
               more == [escape |-> FALSE, bytes |-> Append(p, x)]
    <3>4. /\ e \in Text /\ Meant(e) = whole
          /\ \A t \in Text : \A b \in Byte :
               Meant(Append(t, b)) = UnescapeStep[<<Meant(t), b>>]
      BY <3>2, OneStepMore DEF Text
    <3>5. /\ Escaped(Append(p, x)) = EscapeStep[<<e, x>>]
          /\ \A t \in Text : \A b \in Byte : Append(t, b) \in Text
      BY <3>3, AppendFacts DEF Text
    <3>6. half \in Unescaping /\ whole \in Unescaping
      BY DEF Unescaping
    <3>7. /\ x # Backslash => UnescapeStep[<<whole, x>>] = more
          /\ UnescapeStep[<<whole, Backslash>>] = half
          /\ UnescapeStep[<<half, x>>] = more
      BY <3>6, UnescapeOnce, Bytes255
    <3>8. EscapeStep[<<e, x>>] =
            IF x = Quote THEN Append(Append(e, Backslash), Quote)
              ELSE Append(e, x)
      BY <3>4, EscapeOnce
    <3> HIDE DEF e, half, whole, more, Meant
    <3>9. CASE x = Quote
      <4>1. Meant(Append(e, Backslash)) = half
        BY <3>4, <3>7, Bytes255
      <4>2. Meant(Append(Append(e, Backslash), Quote)) = more
        BY <3>4, <3>5, <3>7, <3>9, <4>1, Bytes255
      <4>3. Append(Append(e, Backslash), Quote) \in Text
        BY <3>4, <3>5, Bytes255
      <4>4. QED
        BY <3>5, <3>8, <3>9, <4>2, <4>3 DEF more
    <3>10. CASE x # Quote
      <4>1. Meant(Append(e, x)) = more /\ Append(e, x) \in Text
        BY <3>1, <3>4, <3>5, <3>7
      <4>2. QED
        BY <3>5, <3>8, <3>10, <4>1 DEF more
    <3>11. QED
      BY <3>9, <3>10
  <2>3. QED
    BY <2>1, <2>2
<1> HIDE DEF T
<1>3. part \in T
  BY <1>1, <1>2, SequencesByInduction DEF Text
<1>4. Back(part)
  BY <1>3 DEF T
<1>5. QED
  BY <1>4 DEF Unescaped

SplitRun(value) == RunOver(SplitStep, [parts |-> <<>>, last |-> <<>>], value)
Joined(parts) == RunOver(StringStep, <<>>, Strings(parts))

(* The strings of one part more are one string more.                       *)
LEMMA StringsOfAppend ==
  ASSUME NEW parts \in Seq(Text), NEW p \in Text,
         \A i \in DOMAIN parts : Escaped(parts[i]) \in Text,
         Escaped(p) \in Text
  PROVE  /\ Strings(parts) \in Seq(Text)
         /\ Strings(Append(parts, p)) = Append(Strings(parts), Escaped(p))
<1>1. /\ Append(parts, p) \in Seq(Text)
         /\ Len(Append(parts, p)) = Len(parts) + 1
      /\ \A i \in 1..Len(parts) : Append(parts, p)[i] = parts[i]
      /\ Append(parts, p)[Len(parts) + 1] = p
      /\ Len(parts) \in Nat /\ DOMAIN parts = 1..Len(parts)
      /\ DOMAIN Append(parts, p) = 1..(Len(parts) + 1)
  BY AppendProperties, LenProperties
<1>2. Strings(parts) \in Seq(Text) /\ Len(Strings(parts)) = Len(parts)
  <2> DEFINE e(i) == Escaped(parts[i])
  <2>1. \A i \in 1..Len(parts) : e(i) \in Text
    BY <1>1
  <2>2. Strings(parts) = [i \in 1..Len(parts) |-> e(i)]
    BY <1>1 DEF Strings
  <2> HIDE DEF e
  <2>3. [i \in 1..Len(parts) |-> e(i)] \in [1..Len(parts) -> Text]
    BY <2>1
  <2>4. QED
    BY <1>1, <2>2, <2>3, SeqDef, LenProperties
<1>3. /\ Append(Strings(parts), Escaped(p)) \in Seq(Text)
      /\ Len(Append(Strings(parts), Escaped(p))) = Len(parts) + 1
      /\ \A i \in 1..Len(parts) :
           Append(Strings(parts), Escaped(p))[i] = Strings(parts)[i]
      /\ Append(Strings(parts), Escaped(p))[Len(parts) + 1] = Escaped(p)
  BY <1>2, AppendProperties
<1>4. \A i \in 1..(Len(parts) + 1) :
        Append(Strings(parts), Escaped(p))[i] = Escaped(Append(parts, p)[i])
  <2>1. \A i \in 1..Len(parts) : Strings(parts)[i] = Escaped(parts[i])
    BY <1>1 DEF Strings
  <2>2. \A i \in 1..(Len(parts) + 1) : i \in 1..Len(parts)
        \/ i = Len(parts) + 1
    BY <1>1
  <2>3. QED
    BY <1>1, <1>3, <2>1, <2>2
<1>5. Strings(Append(parts, p)) = Append(Strings(parts), Escaped(p))
  <2>1. Strings(Append(parts, p))
          = [i \in 1..(Len(parts) + 1) |-> Escaped(Append(parts, p)[i])]
    BY <1>1 DEF Strings
  <2>2. DOMAIN Append(Strings(parts), Escaped(p)) = 1..(Len(parts) + 1)
    BY <1>3, LenProperties
  <2>3. Append(Strings(parts), Escaped(p))
          = [i \in 1..(Len(parts) + 1) |-> Append(Strings(parts), Escaped(p))[i]]
    BY <1>3, <2>2, LenProperties
  <2>4. QED
    BY <1>4, <2>1, <2>3
<1>6. QED
  BY <1>2, <1>5

(* split("\0") loses nothing: the parts, each escaped, read back and given *)
(* its terminator, and what stands after the last terminator are the       *)
(* value, if there is no backslash in it.                                  *)
SplitInv(value) ==
  LET split == SplitRun(value) IN
  /\ split \in SplitState
  /\ Backslash \notin ToSet(split.last)
  /\ \A i \in DOMAIN split.parts : Escaped(split.parts[i]) \in Text
  /\ Joined(split.parts) \in Text
  /\ Joined(split.parts) \o split.last = value
  /\ value # <<>> => (split.last = <<>> <=> Last(value) = NUL)

(* The parts of a value, each with a NUL behind it but the last, are the   *)
(* value.                                                                  *)
LEMMA SplitLosesNothing ==
  ASSUME NEW value \in Text, Backslash \notin ToSet(value)
  PROVE  SplitInv(value)
<1> DEFINE T == {v \in Text : Backslash \notin ToSet(v) => SplitInv(v)}
           Start == [parts |-> <<>>, last |-> <<>>]
<1>1. <<>> \in T
  <2>1. SplitRun(<<>>) = Start
    BY OneStepMore, EmptyFacts, Bytes255 DEF SplitRun, Text
  <2>2. Strings(<<>>) = <<>>
    BY EmptyFacts DEF Strings
  <2>3. Joined(<<>>) = <<>>
    BY <2>2, OneStepMore, EmptyFacts DEF Joined, Text
  <2>4. /\ <<>> \in Text /\ <<>> \in Seq(Text) /\ <<>> \o <<>> = <<>>
        /\ DOMAIN <<>> = {}
    BY EmptyFacts, ConcatEmptySeq DEF Text
  <2>5. Start \in SplitState
    BY <2>4 DEF SplitState
  <2>6. Start.parts = <<>> /\ Start.last = <<>>
    OBVIOUS
  <2> HIDE DEF Start
  <2>7. SplitInv(<<>>)
    BY <2>1, <2>3, <2>4, <2>5, <2>6, EmptyFacts DEF SplitInv
  <2>8. QED
    BY <2>4, <2>7
<1>2. ASSUME NEW v \in Text, v \in T, NEW x \in Byte PROVE Append(v, x) \in T
  <2> DEFINE w == Append(v, x)
             s == SplitRun(v)
             t == SplitRun(w)
  <2>1. w \in Text /\ ToSet(w) = ToSet(v) \cup {x} /\ Last(w) = x
    BY AppendFacts DEF Text
  <2>2. ASSUME Backslash \notin ToSet(w) PROVE SplitInv(w)
    <3>1. Backslash \notin ToSet(v) /\ x # Backslash
      BY <2>1, <2>2
    <3>2. /\ s \in SplitState
          /\ Backslash \notin ToSet(s.last)
          /\ \A i \in DOMAIN s.parts : Escaped(s.parts[i]) \in Text
          /\ Joined(s.parts) \in Text
          /\ Joined(s.parts) \o s.last = v
      BY <1>2, <3>1 DEF SplitInv
    <3>3. t = SplitStep[<<s, x>>]
      BY OneStepMore DEF SplitRun, Text
    <3>4. t = IF x = NUL
            THEN [parts |-> Append(s.parts, s.last), last |-> <<>>]
                         ELSE [parts |-> s.parts, last |-> Append(s.last, x)]
      BY <3>2, <3>3, SplitOnce
    <3>5. s.parts \in Seq(Text) /\ s.last \in Text
      BY <3>2 DEF SplitState
    <3> DEFINE ps == s.parts
               l == s.last
    <3> HIDE DEF s, w, t
    <3>6. CASE x = NUL
      <4>1. t = [parts |-> Append(ps, l), last |-> <<>>]
        BY <3>4, <3>6
      <4>2. Escaped(l) \in Text /\ Unescaped(Escaped(l)) = l
        BY <3>2, <3>5, EscapeIsReversible
      <4>3. /\ Strings(ps) \in Seq(Text)
            /\ Strings(Append(ps, l)) = Append(Strings(ps), Escaped(l))
        BY <3>2, <3>5, <4>2, StringsOfAppend
      <4>4. Joined(Append(ps, l)) = StringStep[<<Joined(ps), Escaped(l)>>]
        BY <4>2, <4>3, OneStepMore DEF Joined
      <4>5. Joined(Append(ps, l)) = Joined(ps) \o Append(l, NUL)
        BY <3>2, <4>2, <4>4, StringOnce
      <4>6. Joined(Append(ps, l)) = w
        <5>1. Joined(ps) \o Append(l, NUL) = Append(Joined(ps) \o l, NUL)
          BY <3>2, <3>5, TextConcat, Bytes255
        <5>2. QED
          BY <3>2, <3>6, <4>5, <5>1 DEF w
      <4>7. /\ Append(ps, l) \in Seq(Text)
               /\ DOMAIN Append(ps, l) = 1..(Len(ps) + 1)
            /\ \A i \in 1..Len(ps) : Append(ps, l)[i] = ps[i]
            /\ Append(ps, l)[Len(ps) + 1] = l
            /\ DOMAIN ps = 1..Len(ps) /\ Len(ps) \in Nat
        BY <3>5, AppendProperties, LenProperties
      <4>8. \A i \in DOMAIN Append(ps, l) : Escaped(Append(ps, l)[i]) \in Text
        BY <3>2, <4>2, <4>7
      <4>9. /\ <<>> \in Text /\ w \o <<>> = w /\ Backslash \notin ToSet(<<>>)
        BY <2>1, EmptyFacts, ConcatEmptySeq DEF Text
      <4>10. t \in SplitState /\ t.parts = Append(ps, l) /\ t.last = <<>>
        BY <4>1, <4>7, <4>9 DEF SplitState
      <4>11. QED
        BY <2>1, <3>6, <4>6, <4>8, <4>9, <4>10 DEF SplitInv, t
    <3>7. CASE x # NUL
      <4>1. t = [parts |-> ps, last |-> Append(l, x)]
        BY <3>4, <3>7
      <4>2. Append(l, x) \in Text /\ ToSet(Append(l, x)) = ToSet(l) \cup {x}
        BY <3>5, AppendFacts DEF Text
      <4>3. Joined(ps) \o Append(l, x) = w
        <5>1. Joined(ps) \o Append(l, x) = Append(Joined(ps) \o l, x)
          BY <3>2, <3>5, TextConcat
        <5>2. QED
          BY <3>2, <5>1 DEF w
      <4>4. t \in SplitState /\ t.parts = ps /\ t.last = Append(l, x)
        BY <3>5, <4>1, <4>2 DEF SplitState
      <4>5. t.last # <<>> /\ Last(w) # NUL
        <5>1. \A u \in Text : \A y \in Byte : Append(u, y) # <<>>
          BY AppendProperties DEF Text
        <5>2. Append(l, x) # <<>>
          BY <3>5, <5>1, Zenon
        <5>3. QED
          BY <2>1, <3>7, <4>4, <5>2
      <4>6. QED
        BY <3>1, <3>2, <4>2, <4>3, <4>4, <4>5 DEF SplitInv, t
    <3>8. QED
      BY <3>6, <3>7
  <2>3. QED
    BY <2>1, <2>2
<1> HIDE DEF T
<1>3. value \in T
  BY <1>1, <1>2, SequencesByInduction DEF Text
<1>4. QED
  BY <1>3 DEF T

(* fmt() loses no byte of a value, under every name: the text stands for   *)
(* the value, or for the value with the terminator it lacked, if no        *)
(* backslash stands in a string.                                           *)
LEMMA FmtLosesNothing ==
  ASSUME NEW name, NEW value \in Text
  PROVE  \/ BytesOf(Fmt(name, value)) = value
         \/ /\ Fmt(name, value).form = "strings" /\ Last(value) # NUL
            /\ BytesOf(Fmt(name, value)) = Append(value, NUL)
         \/ /\ Fmt(name, value).form = "strings"
            /\ Backslash \in ToSet(value)
<1> DEFINE parts == StringParts(value)
           strings == /\ value # <<>> /\ name \in StringProps /\ parts # <<>>
                      /\ \A i \in DOMAIN parts : IsText(parts[i])
<1>1. CASE value = <<>>
  <2>1. Fmt(name, value) = [form |-> "none", text |-> <<>>]
    BY <1>1 DEF Fmt
  <2>2. QED
    BY <1>1, <2>1 DEF BytesOf
<1>2. CASE strings
  <2>1. Fmt(name, value) = [form |-> "strings", text |-> Strings(parts)]
    <3> HIDE DEF parts
    <3>1. QED
      BY <1>2 DEF Fmt, parts
  <2>2. ASSUME Last(value) = NUL, Backslash \notin ToSet(value)
        PROVE  BytesOf(Fmt(name, value)) = value
    <3> DEFINE split == SplitRun(value)
    <3>1. SplitInv(value)
      BY <2>2, SplitLosesNothing
    <3>2. /\ split \in SplitState /\ split.last = <<>>
          /\ Joined(split.parts) \in Text
             /\ Joined(split.parts) \o split.last = value
      BY <1>2, <2>2, <3>1 DEF SplitInv
    <3>3. split.parts \in Seq(Text) /\ split.last \in Text
      BY <3>2 DEF SplitState
    <3>4. SplitAtNul(value) = Append(split.parts, split.last)
      BY DEF SplitAtNul, SplitRun
    <3>5. Last(SplitAtNul(value)) = <<>>
          /\ Front(SplitAtNul(value)) = split.parts
      BY <3>2, <3>3, <3>4, AppendFacts
    <3>6. parts = split.parts
      BY <3>5 DEF StringParts
    <3>7. Joined(split.parts) = value
      BY <3>2, ConcatEmptySeq DEF Text
    <3>8. BytesOf(Fmt(name, value)) = Joined(parts)
      BY <2>1 DEF BytesOf, Joined
    <3>9. QED
      BY <3>6, <3>7, <3>8
  <2>3. ASSUME Last(value) # NUL, Backslash \notin ToSet(value)
        PROVE  BytesOf(Fmt(name, value)) = Append(value, NUL)
    <3> DEFINE split == SplitRun(value)
               ps == split.parts
               l == split.last
    <3>1. SplitInv(value)
      BY <2>3, SplitLosesNothing
    <3>2. /\ split \in SplitState /\ l # <<>>
          /\ Backslash \notin ToSet(l)
          /\ \A i \in DOMAIN ps : Escaped(ps[i]) \in Text
          /\ Joined(ps) \in Text /\ Joined(ps) \o l = value
      BY <1>2, <2>3, <3>1 DEF SplitInv
    <3>3. ps \in Seq(Text) /\ l \in Text
      BY <3>2 DEF SplitState
    <3>4. SplitAtNul(value) = Append(ps, l)
      BY DEF SplitAtNul, SplitRun
    <3> HIDE DEF ps, l, split
    <3>5. Last(SplitAtNul(value)) = l
      BY <3>3, <3>4, AppendFacts
    <3>6. parts = Append(ps, l)
      BY <3>2, <3>4, <3>5 DEF StringParts
    <3>7. Escaped(l) \in Text /\ Unescaped(Escaped(l)) = l
      BY <3>2, <3>3, EscapeIsReversible
    <3>8. /\ Strings(ps) \in Seq(Text)
          /\ Strings(Append(ps, l)) = Append(Strings(ps), Escaped(l))
      BY <3>2, <3>3, <3>7, StringsOfAppend
    <3>9. Joined(Append(ps, l)) = StringStep[<<Joined(ps), Escaped(l)>>]
      BY <3>7, <3>8, OneStepMore DEF Joined
    <3>10. Joined(Append(ps, l)) = Joined(ps) \o Append(l, NUL)
      BY <3>2, <3>7, <3>9, StringOnce
    <3>11. Joined(ps) \o Append(l, NUL) = Append(Joined(ps) \o l, NUL)
      BY <3>2, <3>3, TextConcat, Bytes255
    <3>12. BytesOf(Fmt(name, value)) = Joined(parts)
      BY <2>1 DEF BytesOf, Joined
    <3>13. QED
      BY <3>2, <3>6, <3>10, <3>11, <3>12
  <2>4. QED
    BY <2>1, <2>2, <2>3
<1>3. CASE value # <<>> /\ ~strings
  <2> DEFINE form == IF Len(value) % 4 = 0 THEN "cells" ELSE "bytes"
  <2>1. Fmt(name, value) = [form |-> form, text |-> value]
    <3> HIDE DEF parts
    <3>1. QED
      BY <1>3 DEF Fmt, parts
  <2>2. form # "strings"
    OBVIOUS
  <2>3. QED
    BY <2>1, <2>2 DEF BytesOf
<1>4. QED
  BY <1>1, <1>2, <1>3

(* Paths are sequences of parts, and the path below a path has the parts   *)
(* of one name more.                                                       *)
LEMMA PathOfAppend ==
  /\ Path(<<>>) = <<>>
  /\ \A names \in Seq(NodeNames) :
       /\ Path(names) \in Seq(NodeNames)
       /\ \A name \in NodeNames :
            Path(Append(names, name)) = Path(names) \o Parts[name]
<1> DEFINE T == {s \in Seq(NodeNames) : Path(s) \in Seq(NodeNames)}
<1>1. Path(<<>>) = <<>>
  BY OneStepMore, EmptyFacts DEF Path
<1>2. ASSUME NEW s \in Seq(NodeNames), s \in T, NEW x \in NodeNames
      PROVE  /\ Path(Append(s, x)) = Path(s) \o Parts[x]
             /\ Append(s, x) \in T
  <2>1. Path(Append(s, x)) = JoinStep[<<Path(s), x>>]
    <3>1. RunOver(JoinStep, <<>>, Append(s, x))
            = JoinStep[<<RunOver(JoinStep, <<>>, s), x>>]
      <4>1. \A B : \A u \in Seq(B) : \A y \in B :
              RunOver(JoinStep, <<>>, Append(u, y))
                = JoinStep[<<RunOver(JoinStep, <<>>, u), y>>]
        BY OneStepMore
      <4>2. QED
        BY <4>1, Zenon
    <3>2. QED
      BY <3>1, Zenon DEF Path
  <2>2. <<Path(s), x>> \in Seq(NodeNames) \X NodeNames
    BY <1>2
  <2>3. Path(Append(s, x)) = Path(s) \o Parts[x]
    BY <2>1, <2>2 DEF JoinStep, Paths
  <2>4. Append(s, x) \in Seq(NodeNames)
        /\ Path(s) \o Parts[x] \in Seq(NodeNames)
    <3>1. Parts[x] \in Seq(NodeNames) /\ Path(s) \in Seq(NodeNames)
      BY <1>2, FdtAssumption
    <3>2. QED
      BY <3>1, AppendProperties, ConcatProperties
  <2>5. QED
    BY <1>2, <2>3, <2>4
<1>3. <<>> \in T
  BY <1>1, EmptyFacts
<1> HIDE DEF T
<1>4. \A s \in Seq(NodeNames) : s \in T
  BY <1>2, <1>3, SequencesByInduction
<1>5. \A s \in Seq(NodeNames) : Path(s) \in Seq(NodeNames)
  BY <1>4 DEF T
<1>6. QED
  BY <1>1, <1>2, <1>4, <1>5

(* The names that are one part of a path or none, the parts with a name,   *)
(* and the paths made of these.                                            *)
Simple == {name \in NodeNames : PlainName(name)}
Named == NodeNames \ {""}
PlainPaths == Seq(Named)

(* They are paths.                                                         *)
LEMMA PlainPathsArePaths == PlainPaths \subseteq Paths
<1>1. ASSUME NEW p \in PlainPaths PROVE p \in Paths
  <2>1. Len(p) \in Nat /\ p \in [1..Len(p) -> Named]
    BY SeqDef, LenProperties DEF PlainPaths
  <2>2. p \in [1..Len(p) -> NodeNames]
    BY <2>1 DEF Named
  <2>3. QED
    BY <2>1, <2>2, SeqDef DEF Paths
<1>2. QED
  BY <1>1

(* Without slashes the path below a path is one name longer or, when the   *)
(* name is empty, the same.                                                *)
LEMMA PlainPathOfAppend ==
  /\ Path(<<>>) = <<>>
  /\ \A names \in Seq(Simple) :
       /\ Path(names) \in PlainPaths
       /\ \A name \in Simple :
            Path(Append(names, name)) =
              IF name = "" THEN Path(names) ELSE Append(Path(names), name)
<1> DEFINE T == {s \in Seq(Simple) : Path(s) \in PlainPaths}
<1>1. Path(<<>>) = <<>>
  BY PathOfAppend
<1>2. ASSUME NEW s \in Seq(Simple), s \in T, NEW x \in Simple
      PROVE  /\ Path(Append(s, x)) = IF x = "" THEN Path(s)
                  ELSE Append(Path(s), x)
             /\ Append(s, x) \in T
  <2>1. s \in Seq(NodeNames) /\ x \in NodeNames
    <3>1. Len(s) \in Nat /\ s \in [1..Len(s) -> Simple]
      BY SeqDef, LenProperties
    <3>2. s \in [1..Len(s) -> NodeNames]
      BY <3>1 DEF Simple
    <3>3. QED
      BY <3>1, <3>2, SeqDef DEF Simple
  <2>2. Path(Append(s, x)) = Path(s) \o Parts[x]
    BY <2>1, PathOfAppend
  <2>3. Path(s) \in Seq(Named)
    BY <1>2 DEF PlainPaths
  <2>4. CASE x = ""
    <3>1. Parts[x] = <<>>
      BY <2>4 DEF Simple, PlainName
    <3>2. Path(s) \o <<>> = Path(s)
      BY <2>3, ConcatEmptySeq
    <3>3. QED
      BY <1>2, <2>2, <2>3, <2>4, <3>1, <3>2, AppendProperties DEF PlainPaths
  <2>5. CASE x # ""
    <3>1. Parts[x] = <<x>> /\ x \in Named
      BY <2>1, <2>5 DEF Simple, PlainName, Named
    <3>2. Path(s) \o <<x>> = Append(Path(s), x)
      BY <2>3, <3>1, AppendIsConcat
    <3>3. Append(Path(s), x) \in PlainPaths /\ Append(s, x) \in Seq(Simple)
      BY <1>2, <2>3, <3>1, AppendProperties DEF PlainPaths
    <3>4. QED
      BY <2>2, <2>5, <3>1, <3>2, <3>3
  <2>6. QED
    BY <2>4, <2>5
<1>3. <<>> \in T
  BY <1>1, EmptyFacts DEF PlainPaths
<1> HIDE DEF T
<1>4. \A s \in Seq(Simple) : s \in T
  BY <1>2, <1>3, SequencesByInduction
<1>5. \A s \in Seq(Simple) : Path(s) \in PlainPaths
  BY <1>4 DEF T
<1>6. QED
  BY <1>1, <1>2, <1>4, <1>5

(* The parent of a path without slashes in its parts is one part shorter.  *)
LEMMA ParentIsFront ==
  ASSUME NEW x \in PlainPaths, x # <<>>
  PROVE  ParentOf(x) = Front(x)
<1> DEFINE named == {i \in DOMAIN x : x[i] # ""}
<1>1. /\ Len(x) \in Nat \ {0} /\ DOMAIN x = 1..Len(x)
      /\ \A i \in 1..Len(x) : x[i] \in Named
  BY EmptySeq, LenProperties, ElementOfSeq DEF PlainPaths
<1>2. named = 1..Len(x)
  BY <1>1 DEF Named
<1> HIDE DEF named
<1>3. Min(named) = 1
  <2>1. 1 \in named /\ \A y \in named : 1 <= y
    BY <1>1, <1>2
  <2>2. \A m \in named : (\A y \in named : m <= y) => m = 1
    BY <1>1, <1>2
  <2>3. QED
    BY <2>1, <2>2 DEF Min
<1>4. Max(named) = Len(x)
  <2>1. Len(x) \in named /\ \A y \in named : Len(x) >= y
    BY <1>1, <1>2
  <2>2. ASSUME NEW m \in named, \A y \in named : m >= y PROVE m = Len(x)
    <3>1. m >= Len(x)
      BY <2>1, <2>2
    <3>2. m \in 1..Len(x)
      BY <1>2, <2>2
    <3>3. Len(x) \in Int
      BY <1>1
    <3>4. m \in Int /\ m <= Len(x)
      BY <3>2, <3>3
    <3>5. QED
      BY <3>1, <3>3, <3>4
  <2>3. QED
    BY <2>1, <2>2 DEF Max
<1>5. SubSeq(x, 1, Len(x)) = x
  BY SubSeqFull DEF PlainPaths
<1>6. named # {}
  BY <1>1, <1>2
<1>7. Stripped(x) = x
  BY <1>3, <1>4, <1>5, <1>6 DEF Stripped, named
<1>8. QED
  BY <1>7 DEF ParentOf

(* The tokens that can be read.                                            *)
AnyToken == {Begin(name) : name \in NodeNames} \cup {End}
            \cup {Prop(name, value) : name \in PropNames, value \in Values}

FdtTypeOK == /\ stack \in Seq(NodeNames)
             /\ nodes \in Seq(Paths)
             /\ props \in Seq(Property)
             /\ block \in Seq(AnyToken)

(* The path of every open node, and of every node above it, is that of a   *)
(* node that was read.                                                     *)
OpenInv == \A k \in 0..Len(stack) : Path(SubSeq(stack, 1, k)) \in Known(nodes)

(* The node above each node, and the node of each property, was read.      *)
AboveInv == /\ \A path \in ToSet(nodes) :
                 path # <<>> => Front(path) \in Known(nodes)
            /\ \A i \in DOMAIN props : props[i].path \in Known(nodes)

PlainInv == /\ stack \in Seq(Simple)
            /\ nodes \in Seq(PlainPaths)
            /\ OpenInv /\ AboveInv

FdtInv == FdtTypeOK /\ (PlainNames => PlainInv)

(* One token more: there was no slash before it and there is none in it.   *)
LEMMA PlainBefore ==
  ASSUME NEW token, token \in AnyToken, block \in Seq(AnyToken),
         block' = Append(block, token), PlainNames'
  PROVE  /\ PlainNames
         /\ token.tag = "begin" => PlainName(token.name)
<1>1. /\ Len(block) \in Nat /\ DOMAIN block = 1..Len(block)
      /\ DOMAIN block' = 1..(Len(block) + 1)
      /\ \A k \in 1..Len(block) : block'[k] = block[k]
      /\ block'[Len(block) + 1] = token
  BY AppendProperties, LenProperties
<1>2. \A k \in 1..(Len(block) + 1) :
        block'[k].tag = "begin" => PlainName(block'[k].name)
  BY <1>1 DEF PlainNames, PlainName
<1>3. \A k \in 1..Len(block) : k \in 1..(Len(block) + 1)
  BY <1>1
<1>4. Len(block) + 1 \in 1..(Len(block) + 1)
  BY <1>1
<1>5. PlainNames
  BY <1>1, <1>2, <1>3 DEF PlainNames
<1>6. QED
  BY <1>1, <1>2, <1>4, <1>5

(* The first elements stay when an element is appended.                    *)
LEMMA FirstOfAppend ==
  ASSUME NEW B, NEW s \in Seq(B), NEW x \in B, NEW k \in 0..Len(s)
  PROVE  SubSeq(Append(s, x), 1, k) = SubSeq(s, 1, k)
<1> DEFINE t == Append(s, x)
<1>1. /\ Len(s) \in Nat /\ t \in Seq(B) /\ Len(t) = Len(s) + 1
      /\ \A i \in 1..Len(s) : t[i] = s[i] /\ s[i] \in B
  BY AppendProperties, LenProperties, ElementOfSeq
<1> HIDE DEF t
<1>2. \A i \in 1..k : t[i] = s[i] /\ s[i] \in B /\ t[i] \in B
  BY <1>1
<1>3. /\ SubSeq(s, 1, k) \in Seq(B) /\ SubSeq(t, 1, k) \in Seq(B)
      /\ Len(SubSeq(s, 1, k)) = k /\ Len(SubSeq(t, 1, k)) = k
      /\ \A i \in 1..k : SubSeq(s, 1, k)[i] = s[i] /\ SubSeq(t, 1, k)[i] = t[i]
  BY <1>1, <1>2, SubSeqProperties
<1>4. QED
  BY <1>2, <1>3, SeqEqual DEF t

(* The first elements stay when the last one is taken off.                 *)
LEMMA FirstOfFront ==
  ASSUME NEW B, NEW s \in Seq(B), s # <<>>, NEW k \in 0..Len(s) - 1
  PROVE  /\ Front(s) \in Seq(B) /\ Len(Front(s)) = Len(s) - 1
         /\ SubSeq(Front(s), 1, k) = SubSeq(s, 1, k)
<1> DEFINE t == Front(s)
<1>1. Len(s) \in Nat \ {0} /\ \A i \in 1..Len(s) : s[i] \in B
  BY EmptySeq, LenProperties, ElementOfSeq
<1>2. t = SubSeq(s, 1, Len(s) - 1)
  BY DEF Front
<1>3. /\ t \in Seq(B) /\ Len(t) = Len(s) - 1
      /\ \A i \in 1..Len(s) - 1 : t[i] = s[i]
  <2> DEFINE n == Len(s) - 1
  <2>1. n \in Nat /\ 1 \in Int /\ n \in Int /\ \A i \in 1..n : s[i] \in B
    BY <1>1
  <2> HIDE DEF n
  <2>2. /\ SubSeq(s, 1, n) \in Seq(B)
        /\ Len(SubSeq(s, 1, n)) = IF 1 <= n THEN n - 1 + 1 ELSE 0
        /\ \A i \in 1..n - 1 + 1 : SubSeq(s, 1, n)[i] = s[1 + i - 1]
    BY <2>1, SubSeqProperties
  <2>3. /\ Len(SubSeq(s, 1, n)) = n
        /\ \A i \in 1..n : SubSeq(s, 1, n)[i] = s[i]
    BY <2>1, <2>2
  <2>4. QED
    BY <1>2, <2>2, <2>3 DEF n
<1> HIDE DEF t
<1>4. \A i \in 1..k : t[i] = s[i] /\ s[i] \in B /\ t[i] \in B
  BY <1>1, <1>3
<1>5. /\ SubSeq(s, 1, k) \in Seq(B) /\ SubSeq(t, 1, k) \in Seq(B)
      /\ Len(SubSeq(s, 1, k)) = k /\ Len(SubSeq(t, 1, k)) = k
      /\ \A i \in 1..k : SubSeq(s, 1, k)[i] = s[i] /\ SubSeq(t, 1, k)[i] = t[i]
  BY <1>1, <1>4, SubSeqProperties
<1>6. SubSeq(t, 1, k) = SubSeq(s, 1, k)
  BY <1>4, <1>5, SeqEqual
<1>7. QED
  BY <1>3, <1>6 DEF t

(* Every value the parser can meet is a text.                              *)
LEMMA ValuesAreText == Values \subseteq Text
<1>1. ASSUME NEW v \in Values PROVE v \in Text
  <2>1. PICK m \in 0..ValueSize : v \in [1..m -> Bytes]
    BY <1>1, FdtAssumption DEF Values, SeqOf
  <2>2. m \in Nat /\ Bytes \subseteq Byte
    BY <2>1, FdtAssumption DEF Byte
  <2>3. v \in [1..m -> Byte]
    BY <2>1, <2>2
  <2>4. QED
    BY <2>2, <2>3, SeqDef DEF Text
<1>2. QED
  BY <1>1

(* The invariant of the parser holds before the first token.               *)
LEMMA FdtInitInv == FdtInit => FdtInv
<1> SUFFICES ASSUME FdtInit PROVE FdtInv
  OBVIOUS
<1>1. stack = <<>> /\ nodes = <<>> /\ props = <<>> /\ block = <<>>
  BY DEF FdtInit
<1>2. FdtTypeOK
  BY <1>1, EmptyFacts DEF FdtTypeOK
<1>3. OpenInv
  <2>1. ASSUME NEW k \in 0..Len(stack)
        PROVE Path(SubSeq(stack, 1, k)) \in Known(nodes)
    <3>1. k = 0
      BY <1>1, EmptyFacts
    <3>2. SubSeq(stack, 1, k) = <<>>
      BY <3>1, SubSeqEmpty
    <3>3. Path(<<>>) = <<>>
      BY PathOfAppend
    <3>4. QED
      BY <3>2, <3>3 DEF Known
  <2>2. QED
    BY <2>1 DEF OpenInv
<1>4. AboveInv
  <2>1. ToSet(nodes) = {} /\ DOMAIN props = {}
    BY <1>1, EmptyFacts, LenProperties
  <2>2. QED
    BY <2>1 DEF AboveInv
<1>5. stack \in Seq(Simple) /\ nodes \in Seq(PlainPaths)
  BY <1>1, EmptyFacts
<1>6. QED
  BY <1>2, <1>3, <1>4, <1>5 DEF FdtInv, PlainInv

(* The path of the node that is open is known.                             *)
LEMMA HereIsKnown ==
  ASSUME PlainInv
  PROVE  Path(stack) \in Known(nodes) /\ Path(stack) \in PlainPaths
<1>1. stack \in Seq(Simple) /\ OpenInv
  BY DEF PlainInv
<1>2. Len(stack) \in Nat /\ SubSeq(stack, 1, Len(stack)) = stack
  BY <1>1, LenProperties, SubSeqFull, Zenon
<1>3. Len(stack) \in 0..Len(stack)
  BY <1>2
<1>4. Path(stack) \in Known(nodes)
  BY <1>1, <1>2, <1>3 DEF OpenInv
<1>5. QED
  BY <1>1, <1>4, PlainPathOfAppend, Zenon

(* Every token keeps the types of what is read.                            *)
LEMMA FdtStepType == FdtTypeOK /\ [FdtNext]_fdtVars => FdtTypeOK'
<1> SUFFICES ASSUME FdtTypeOK, [FdtNext]_fdtVars PROVE FdtTypeOK'
  OBVIOUS
<1>1. /\ stack \in Seq(NodeNames) /\ nodes \in Seq(Paths)
      /\ props \in Seq(Property) /\ block \in Seq(AnyToken)
  BY DEF FdtTypeOK
<1>2. ASSUME NEW name \in NodeNames, OpenNode(name) PROVE FdtTypeOK'
  <2>1. /\ stack' = Append(stack, name) /\ nodes' = Append(nodes, Path(stack'))
        /\ props' = props /\ block' = Append(block, Begin(name))
    BY <1>2 DEF OpenNode, Read
  <2>2. stack' \in Seq(NodeNames)
    BY <1>1, <2>1, AppendProperties
  <2>3. Path(stack') \in Paths
    BY <2>2, PathOfAppend DEF Paths
  <2>4. nodes' \in Seq(Paths)
    BY <1>1, <2>1, <2>3, AppendProperties
  <2>5. block' \in Seq(AnyToken)
    <3>1. Begin(name) \in AnyToken
      BY DEF AnyToken
    <3>2. QED
      BY <1>1, <2>1, <3>1, AppendProperties
  <2>6. QED
    BY <1>1, <2>1, <2>2, <2>4, <2>5 DEF FdtTypeOK
<1>3. ASSUME CloseNode PROVE FdtTypeOK'
  <2>1. /\ nodes' = nodes /\ props' = props /\ block' = Append(block, End)
        /\ stack' = stack \/ (stack # <<>> /\ stack' = Front(stack))
    BY <1>3 DEF CloseNode, Read
  <2>2. block' \in Seq(AnyToken)
    <3>1. End \in AnyToken
      BY DEF AnyToken
    <3>2. QED
      BY <1>1, <2>1, <3>1, AppendProperties
  <2>3. stack # <<>> => Front(stack) \in Seq(NodeNames)
    <3>1. ASSUME stack # <<>> PROVE Front(stack) \in Seq(NodeNames)
      <4>1. Len(stack) \in Nat \ {0}
        BY <1>1, <3>1, EmptySeq
      <4>2. 0 \in 0..Len(stack) - 1
        BY <4>1
      <4>3. QED
        BY <1>1, <3>1, <4>2, FirstOfFront
    <3>2. QED
      BY <3>1
  <2>4. QED
    BY <1>1, <2>1, <2>2, <2>3 DEF FdtTypeOK
<1>4. ASSUME NEW value \in Values, NEW name \in PropNames,
             ReadProperty(name, value)
      PROVE  FdtTypeOK'
  <2>1. /\ stack' = stack /\ nodes' = nodes
        /\ props' = Append(props, [path |-> Path(stack), name |-> name,
                                   value |-> value])
        /\ block' = Append(block, Prop(name, value))
    BY <1>4 DEF ReadProperty, Read
  <2>2. [path |-> Path(stack), name |-> name, value |-> value] \in Property
    <3>1. Path(stack) \in Paths
      BY <1>1, PathOfAppend DEF Paths
    <3>2. QED
      BY <3>1, ValuesAreText DEF Property
  <2>3. Prop(name, value) \in AnyToken
    BY DEF AnyToken
  <2>4. props' \in Seq(Property) /\ block' \in Seq(AnyToken)
    BY <1>1, <2>1, <2>2, <2>3, AppendProperties
  <2>5. QED
    BY <1>1, <2>1, <2>4 DEF FdtTypeOK
<1>5. CASE UNCHANGED <<stack, nodes, props, block>>
  BY <1>1, <1>5 DEF FdtTypeOK
<1>6. QED
  BY <1>2, <1>3, <1>4, <1>5
  DEF FdtNext, fdtVars, Nop, EndOfBlock, BadName, BadToken, Reject

(* As long as no name holds a slash, it keeps the rest of the invariant.   *)
LEMMA PlainStepInv ==
  FdtTypeOK /\ PlainInv /\ [FdtNext]_fdtVars =>
    \/ PlainInv'
    \/ \E name \in NodeNames : OpenNode(name) /\ ~PlainName(name)
<1> SUFFICES ASSUME FdtTypeOK, PlainInv, [FdtNext]_fdtVars,
                    \A name \in NodeNames : OpenNode(name) => PlainName(name)
             PROVE  PlainInv'
  OBVIOUS
<1>1. /\ stack \in Seq(Simple) /\ nodes \in Seq(PlainPaths)
      /\ props \in Seq(Property)
      /\ OpenInv /\ AboveInv
  BY DEF PlainInv, FdtTypeOK
<1>2. Path(stack) \in Known(nodes) /\ Path(stack) \in PlainPaths
  BY HereIsKnown
<1>3. ASSUME NEW name \in NodeNames, OpenNode(name) PROVE PlainInv'
  <2> DEFINE above == Path(stack)
             below == Path(Append(stack, name))
  <2>1. /\ stack' = Append(stack, name) /\ nodes' = Append(nodes, below)
        /\ props' = props
    BY <1>3 DEF OpenNode
  <2>2. name \in Simple
    BY <1>3 DEF Simple
  <2>3. below = IF name = "" THEN above ELSE Append(above, name)
    BY <1>1, <2>2, PlainPathOfAppend, Zenon
  <2>4. Append(stack, name) \in Seq(Simple)
    BY <1>1, <2>2, AppendProperties, Zenon
  <2>5. below \in PlainPaths
    BY <2>4, PlainPathOfAppend, Zenon
  <2>6. ToSet(nodes') = ToSet(nodes) \cup {below}
        /\ nodes' \in Seq(PlainPaths)
    BY <1>1, <2>1, <2>5, AppendFacts, Zenon
  <2>7. OpenInv'
    <3>1. Len(stack) \in Nat /\ Len(stack') = Len(stack) + 1
      BY <1>1, <2>1, <2>2, AppendProperties, LenProperties
    <3>2. ASSUME NEW k \in 0..Len(stack')
          PROVE  Path(SubSeq(stack', 1, k)) \in Known(nodes) \cup {below}
      <4>1. CASE k \in 0..Len(stack)
        <5>1. SubSeq(Append(stack, name), 1, k) = SubSeq(stack, 1, k)
          BY <1>1, <2>2, <4>1, FirstOfAppend, Zenon
        <5>2. Path(SubSeq(stack, 1, k)) \in Known(nodes)
          BY <1>1, <4>1 DEF OpenInv
        <5>3. QED
          BY <2>1, <5>1, <5>2
      <4>2. CASE k = Len(stack')
        <5>1. SubSeq(stack', 1, k) = stack'
          BY <2>1, <2>4, <4>2, SubSeqFull, Zenon
        <5>2. QED
          BY <2>1, <5>1
      <4>3. k \in 0..Len(stack) \/ k = Len(stack')
        BY <3>1
      <4>4. QED
        BY <4>1, <4>2, <4>3
    <3>3. Known(nodes)' = Known(nodes) \cup {below}
      BY <2>6 DEF Known
    <3>4. QED
      BY <3>2, <3>3 DEF OpenInv
  <2>8. AboveInv'
    <3>1. ASSUME below # <<>> PROVE Front(below) \in Known(nodes)
      <4>1. CASE name = ""
        <5>1. below \in ToSet(nodes)
          BY <1>2, <2>3, <3>1, <4>1 DEF Known
        <5>2. QED
          BY <1>1, <3>1, <5>1 DEF AboveInv, Known
      <4>2. CASE name # ""
        <5>1. name \in Named /\ above \in Seq(Named)
          BY <1>2, <4>2 DEF Named, PlainPaths
        <5>2. Front(Append(above, name)) = above
          BY <5>1, AppendFacts, Zenon
        <5>3. QED
          BY <1>2, <2>3, <4>2, <5>2
      <4>3. QED
        BY <4>1, <4>2
    <3> HIDE DEF below, above
    <3>2. \A path \in ToSet(nodes) : path # <<>>
            => Front(path) \in Known(nodes)
      BY <1>1 DEF AboveInv, Known
    <3>3. \A i \in DOMAIN props : props[i].path \in Known(nodes)
      BY <1>1 DEF AboveInv, Known
    <3>4. Known(nodes) \subseteq {<<>>} \cup ToSet(nodes')
      BY <2>6 DEF Known
    <3>5. \A path \in ToSet(nodes') : path # <<>>
            => Front(path) \in {<<>>} \cup ToSet(nodes')
      BY <2>6, <3>1, <3>2, <3>4
    <3>6. \A i \in DOMAIN props' : props'[i].path \in {<<>>} \cup ToSet(nodes')
      BY <2>1, <3>3, <3>4
    <3>7. QED
      BY <3>5, <3>6 DEF AboveInv, Known
  <2>9. QED
    BY <2>1, <2>4, <2>6, <2>7, <2>8 DEF PlainInv
<1>4. ASSUME CloseNode PROVE PlainInv'
  <2>1. /\ nodes' = nodes /\ props' = props
        /\ (stack = <<>> /\ stack' = stack)
           \/ (stack # <<>> /\ stack' = Front(stack))
    BY <1>4 DEF CloseNode
  <2>2. AboveInv'
    BY <1>1, <2>1 DEF AboveInv, Known
  <2>3. CASE stack = <<>> /\ stack' = stack
    BY <1>1, <2>1, <2>2, <2>3 DEF PlainInv, OpenInv, Known
  <2>4. CASE stack # <<>> /\ stack' = Front(stack)
    <3>1. Len(stack) \in Nat \ {0}
      BY <1>1, <2>4, EmptySeq, Zenon
    <3>2. \A k \in 0..Len(stack) - 1 :
            /\ Front(stack) \in Seq(Simple)
               /\ Len(Front(stack)) = Len(stack) - 1
            /\ SubSeq(Front(stack), 1, k) = SubSeq(stack, 1, k)
      BY <1>1, <2>4, FirstOfFront, Zenon
    <3>3. 0 \in 0..Len(stack) - 1
      BY <3>1
    <3>4. Front(stack) \in Seq(Simple) /\ Len(Front(stack)) = Len(stack) - 1
      BY <3>2, <3>3
    <3>5. ASSUME NEW k \in 0..Len(stack')
          PROVE Path(SubSeq(stack', 1, k)) \in Known(nodes)
      <4>1. k \in 0..Len(stack) - 1 /\ k \in 0..Len(stack)
        BY <2>4, <3>1, <3>4
      <4>2. SubSeq(stack', 1, k) = SubSeq(stack, 1, k)
        BY <2>4, <3>2, <4>1
      <4>3. QED
        BY <1>1, <4>1, <4>2 DEF OpenInv
    <3>6. OpenInv'
      BY <2>1, <3>5 DEF OpenInv, Known
    <3>7. QED
      BY <1>1, <2>1, <2>2, <2>4, <3>4, <3>6 DEF PlainInv
  <2>5. QED
    BY <2>1, <2>3, <2>4
<1>5. ASSUME NEW value \in Values, NEW name \in PropNames,
             ReadProperty(name, value)
      PROVE  PlainInv'
  <2> DEFINE prop == [path |-> Path(stack), name |-> name, value |-> value]
  <2>1. stack' = stack /\ nodes' = nodes /\ props' = Append(props, prop)
    BY <1>5 DEF ReadProperty
  <2>2. prop \in Property /\ prop.path \in Known(nodes)
    BY <1>2, ValuesAreText, PlainPathsArePaths DEF Property
  <2> HIDE DEF prop
  <2>3. /\ props' \in Seq(Property) /\ Len(props') = Len(props) + 1
        /\ Len(props) \in Nat
        /\ \A i \in 1..Len(props) : props'[i] = props[i]
        /\ props'[Len(props) + 1] = prop
        /\ DOMAIN props = 1..Len(props)
    BY <1>1, <2>1, <2>2, AppendProperties, LenProperties
  <2>4. OpenInv'
    BY <1>1, <2>1 DEF OpenInv, Known
  <2>5. AboveInv'
    <3>1. DOMAIN props' = 1..(Len(props) + 1)
      BY <2>3, LenProperties
    <3>2. \A i \in DOMAIN props : props[i].path \in Known(nodes)
      BY <1>1 DEF AboveInv, Known
    <3>3. \A i \in 1..(Len(props) + 1) : i \in 1..Len(props)
          \/ i = Len(props) + 1
      BY <2>3
    <3>4. ASSUME NEW i \in DOMAIN props' PROVE props'[i].path \in Known(nodes)
      <4>1. i \in 1..Len(props) \/ i = Len(props) + 1
        BY <3>1, <3>3
      <4>2. CASE i \in 1..Len(props)
        <5>1. props'[i] = props[i] /\ props[i].path \in Known(nodes)
          BY <2>3, <3>2, <4>2
        <5>2. QED
          BY <5>1
      <4>3. CASE i = Len(props) + 1
        <5>1. props'[i] = prop
          BY <2>3, <4>3
        <5>2. QED
          BY <2>2, <5>1
      <4>4. QED
        BY <4>1, <4>2, <4>3
    <3>5. QED
      BY <1>1, <2>1, <3>4 DEF AboveInv, Known
  <2>6. QED
    BY <1>1, <2>1, <2>4, <2>5 DEF PlainInv
<1>6. CASE UNCHANGED <<stack, nodes, props>>
  BY <1>1, <1>6 DEF PlainInv, OpenInv, Known, AboveInv
<1>7. QED
  BY <1>3, <1>4, <1>5, <1>6
  DEF FdtNext, fdtVars, Nop, EndOfBlock, BadName, BadToken, Reject

(* No slash after a step: none before it, and none in the name it read.    *)
LEMMA PlainStep ==
  ASSUME FdtTypeOK, [FdtNext]_fdtVars, PlainNames'
  PROVE  /\ PlainNames
         /\ \A name \in NodeNames : OpenNode(name) => PlainName(name)
<1>1. block \in Seq(AnyToken)
  BY DEF FdtTypeOK
<1>2. ASSUME NEW token \in AnyToken, Read(token)
      PROVE  PlainNames /\ (token.tag = "begin" => PlainName(token.name))
  <2>1. block' = Append(block, token)
    BY <1>2 DEF Read
  <2>2. QED
    BY <1>1, <2>1, PlainBefore
<1>3. ASSUME NEW name \in NodeNames, OpenNode(name)
      PROVE  PlainNames /\ PlainName(name)
  <2>1. Begin(name) \in AnyToken /\ Read(Begin(name))
    BY <1>3 DEF AnyToken, OpenNode
  <2>2. Begin(name).tag = "begin" /\ Begin(name).name = name
    BY DEF Begin
  <2>3. QED
    BY <1>2, <2>1, <2>2
<1>4. ASSUME CloseNode PROVE PlainNames
  <2>1. End \in AnyToken /\ Read(End)
    BY <1>4 DEF AnyToken, CloseNode
  <2>2. QED
    BY <1>2, <2>1
<1>5. ASSUME NEW value \in Values, NEW name \in PropNames,
             ReadProperty(name, value)
      PROVE  PlainNames
  <2>1. Prop(name, value) \in AnyToken /\ Read(Prop(name, value))
    BY <1>5 DEF AnyToken, ReadProperty
  <2>2. QED
    BY <1>2, <2>1
<1>6. ASSUME block' = block PROVE PlainNames
  BY <1>6 DEF PlainNames, PlainName
<1>7. PlainNames
  BY <1>3, <1>4, <1>5, <1>6
  DEF FdtNext, fdtVars, Nop, EndOfBlock, BadName, BadToken, Reject
<1>8. QED
  BY <1>3, <1>7

(* Every token keeps the invariant of the parser.                          *)
LEMMA FdtStepInv == FdtInv /\ [FdtNext]_fdtVars => FdtInv'
<1> SUFFICES ASSUME FdtInv, [FdtNext]_fdtVars PROVE FdtInv'
  OBVIOUS
<1>1. FdtTypeOK /\ FdtTypeOK'
  BY FdtStepType DEF FdtInv
<1>2. ASSUME PlainNames' PROVE PlainInv'
  <2>1. /\ PlainNames
        /\ \A name \in NodeNames : OpenNode(name) => PlainName(name)
    BY <1>1, <1>2, PlainStep
  <2>2. PlainInv
    BY <2>1 DEF FdtInv
  <2>3. QED
    BY <1>1, <2>1, <2>2, PlainStepInv
<1>3. QED
  BY <1>1, <1>2 DEF FdtInv

(* The invariant of the parser holds in every state.                       *)
LEMMA FdtInvariant == FdtSpec => []FdtInv
<1>1. QED
  BY FdtInitInv, FdtStepInv, PTL DEF FdtSpec

(* fmt(): the text of a value, compiled again, is the value, for values of *)
(* every length and every list of names that are taken for strings.  A     *)
(* list of strings that lacks its last terminator gains it and nothing     *)
(* else; of strings with a backslash nothing is said.                      *)
THEOREM ValuesSurvive == FdtSpec => []FormatIsReversible
<1>1. FdtInv => FormatIsReversible
  <2> SUFFICES ASSUME FdtInv, props # <<>> PROVE FormatIsReversible
    BY DEF FormatIsReversible
  <2> DEFINE prop == Last(props)
  <2>1. prop \in Property
    <3>1. props \in Seq(Property) /\ props # <<>>
      BY DEF FdtInv, FdtTypeOK
    <3>2. Len(props) \in 1..Len(props)
      BY <3>1, EmptySeq
    <3>3. props[Len(props)] \in Property
      BY <3>1, <3>2, ElementOfSeq
    <3>4. QED
      BY <3>3 DEF Last
  <2>2. prop.value \in Text
    BY <2>1 DEF Property
  <2> HIDE DEF prop
  <2>3. \/ BytesOf(Fmt(prop.name, prop.value)) = prop.value
        \/ /\ Fmt(prop.name, prop.value).form = "strings"
           /\ Last(prop.value) # NUL
           /\ BytesOf(Fmt(prop.name, prop.value)) = Append(prop.value, NUL)
        \/ /\ Fmt(prop.name, prop.value).form = "strings"
           /\ Backslash \in ToSet(prop.value)
    BY <2>2, FmtLosesNothing
  <2>4. QED
    BY <2>3 DEF FormatIsReversible, prop
<1>2. QED
  BY <1>1, FdtInvariant, PTL

(* The parser: in a block without a slash in a name, the node above a node *)
(* and the node of a property were opened before, so that the walk from    *)
(* the root meets them.                                                    *)
THEOREM WalkReachesAll == FdtSpec => []NothingOrphaned
<1>1. FdtInv => NothingOrphaned
  <2> SUFFICES ASSUME FdtInv, PlainNames
               PROVE  /\ \A path \in ToSet(nodes) :
                           path # <<>> => ParentOf(path) \in Known(nodes)
                      /\ \A i \in DOMAIN props : props[i].path \in Known(nodes)
    BY DEF NothingOrphaned
  <2>1. nodes \in Seq(PlainPaths) /\ AboveInv
    BY DEF FdtInv, PlainInv
  <2>2. ToSet(nodes) \subseteq PlainPaths
    BY <2>1, InRange
  <2>3. QED
    BY <2>1, <2>2, ParentIsFront DEF AboveInv
<1>2. QED
  BY <1>1, FdtInvariant, PTL

-----------------------------------------------------------------------------
(***************************************************************************)
(* render(): what its loops collect                                        *)
(***************************************************************************)
(* A loop over nothing, and over one sequence after another.               *)
LEMMA RunOfNone ==
  ASSUME NEW step, NEW start
  PROVE  RunOver(step, start, <<>>) = start
<1>1. <<>> \in Seq({0}) /\ 0 \in {0}
  BY EmptySeq
<1>2. QED
  BY <1>1, OneStepMore

(* A loop over two sequences goes over the second from where it left the   *)
(* first.                                                                  *)
LEMMA RunOfConcat ==
  ASSUME NEW step, NEW start, NEW B, NEW s \in Seq(B), NEW t \in Seq(B)
  PROVE  RunOver(step, start, s \o t)
           = RunOver(step, RunOver(step, start, s), t)
<1> DEFINE Run(a, u) == RunOver(step, a, u)
           T == {u \in Seq(B) : Run(start, s \o u) = Run(Run(start, s), u)}
<1>1. <<>> \in T
  <2>1. <<>> \in Seq(B) /\ s \o <<>> = s
    BY EmptySeq, ConcatEmptySeq
  <2>2. Run(Run(start, s), <<>>) = Run(start, s)
    BY RunOfNone
  <2> HIDE DEF Run
  <2>3. QED
    BY <2>1, <2>2
<1>2. ASSUME NEW u \in Seq(B), u \in T, NEW x \in B PROVE Append(u, x) \in T
  <2>1. /\ s \o u \in Seq(B) /\ s \o Append(u, x) = Append(s \o u, x)
        /\ Append(u, x) \in Seq(B)
    BY AppendToConcat, AppendProperties
  <2>2. \A a : \A v \in Seq(B) : Run(a, Append(v, x)) = step[<<Run(a, v), x>>]
    BY OneStepMore
  <2> HIDE DEF Run
  <2>3. Run(start, Append(s \o u, x)) = step[<<Run(start, s \o u), x>>]
    BY <2>1, <2>2
  <2>4. Run(Run(start, s), Append(u, x)) = step[<<Run(Run(start, s), u), x>>]
    BY <2>2
  <2>5. QED
    BY <1>2, <2>1, <2>3, <2>4
<1> HIDE DEF T
<1>3. t \in T
  BY <1>1, <1>2, SequencesByInduction
<1>4. QED
  BY <1>3 DEF T

(* A loop that stays in a set.                                             *)
LEMMA RunTyped ==
  ASSUME NEW step, NEW S, NEW start \in S, NEW B,
         \A r \in S : \A x \in B : step[<<r, x>>] \in S,
         NEW s \in Seq(B)
  PROVE  RunOver(step, start, s) \in S
<1> DEFINE Run(u) == RunOver(step, start, u)
           T == {u \in Seq(B) : Run(u) \in S}
<1>1. <<>> \in T
  BY RunOfNone, EmptySeq
<1>2. ASSUME NEW u \in Seq(B), u \in T, NEW x \in B PROVE Append(u, x) \in T
  <2>1. Run(Append(u, x)) = step[<<Run(u), x>>] /\ Append(u, x) \in Seq(B)
    BY OneStepMore, AppendProperties
  <2> HIDE DEF Run
  <2>2. QED
    BY <1>2, <2>1
<1> HIDE DEF T
<1>3. s \in T
  BY <1>1, <1>2, SequencesByInduction
<1>4. QED
  BY <1>3 DEF T

(* A sequence with a function applied to each element.                     *)
Mapped(g, s) == [i \in DOMAIN s |-> g[s[i]]]

(* Its elements have the type of the function.                             *)
LEMMA MappedType ==
  ASSUME NEW B, NEW C, NEW g, \A x \in B : g[x] \in C, NEW s \in Seq(B)
  PROVE  Mapped(g, s) \in Seq(C)
<1>1. /\ DOMAIN s = 1..Len(s) /\ Len(s) \in Nat
      /\ \A i \in 1..Len(s) : s[i] \in B
  BY LenProperties, ElementOfSeq
<1>2. Mapped(g, s) \in [1..Len(s) -> C]
  BY <1>1 DEF Mapped
<1>3. QED
  BY <1>1, <1>2, SeqDef

(* It is as long as the sequence, element by element.                      *)
LEMMA MappedFacts ==
  ASSUME NEW B, NEW g, NEW s \in Seq(B)
  PROVE  /\ Mapped(g, <<>>) = <<>>
         /\ Len(Mapped(g, s)) = Len(s)
         /\ \A i \in 1..Len(s) : Mapped(g, s)[i] = g[s[i]]
<1>1. Mapped(g, <<>>) = <<>>
  BY EmptyFacts DEF Mapped
<1>2. /\ DOMAIN s = 1..Len(s) /\ Len(s) \in Nat
  BY LenProperties
<1>3. PICK C : C = {g[y] : y \in B}
  OBVIOUS
<1>4. \A y \in B : g[y] \in C
  BY <1>3
<1>5. Mapped(g, s) \in Seq(C)
  BY <1>4, MappedType
<1>6. /\ DOMAIN Mapped(g, s) = 1..Len(s)
      /\ \A i \in 1..Len(s) : Mapped(g, s)[i] = g[s[i]]
  BY <1>2 DEF Mapped
<1>7. Len(Mapped(g, s)) = Len(s)
  BY <1>2, <1>5, <1>6, LenProperties
<1>8. QED
  BY <1>1, <1>6, <1>7

(* One element more gives one result more.                                 *)
LEMMA MappedAppend ==
  ASSUME NEW B, NEW g, NEW s \in Seq(B), NEW x \in B
  PROVE  Mapped(g, Append(s, x)) = Append(Mapped(g, s), g[x])
<1> DEFINE a == Append(s, x)
           b == Append(Mapped(g, s), g[x])
<1>1. PICK C : C = {g[y] : y \in B}
  OBVIOUS
<1>2. \A y \in B : g[y] \in C
  BY <1>1
<1>3. /\ a \in Seq(B) /\ Len(a) = Len(s) + 1 /\ Len(s) \in Nat
      /\ \A i \in 1..Len(s) : a[i] = s[i]
      /\ a[Len(s) + 1] = x
  BY AppendProperties, LenProperties
<1> HIDE DEF a
<1>4. /\ Len(Mapped(g, s)) = Len(s) /\ Len(Mapped(g, a)) = Len(a)
      /\ \A i \in 1..Len(s) : Mapped(g, s)[i] = g[s[i]]
      /\ \A i \in 1..Len(a) : Mapped(g, a)[i] = g[a[i]]
  BY <1>3, MappedFacts
<1>5. Mapped(g, s) \in Seq(C) /\ Mapped(g, a) \in Seq(C)
  BY <1>2, <1>3, MappedType
<1>6. /\ b \in Seq(C) /\ Len(b) = Len(s) + 1
      /\ \A i \in 1..Len(s) : b[i] = Mapped(g, s)[i]
      /\ b[Len(s) + 1] = g[x]
  BY <1>2, <1>4, <1>5, AppendProperties
<1> HIDE DEF b
<1>7. ASSUME NEW i \in 1..Len(a) PROVE Mapped(g, a)[i] = b[i]
  <2>1. i \in 1..Len(s) \/ i = Len(s) + 1
    BY <1>3
  <2>2. Mapped(g, a)[i] = g[a[i]]
    BY <1>4
  <2>3. CASE i \in 1..Len(s)
    BY <1>3, <1>4, <1>6, <2>2, <2>3
  <2>4. CASE i = Len(s) + 1
    BY <1>3, <1>6, <2>2, <2>4
  <2>5. QED
    BY <2>1, <2>3, <2>4
<1>8. QED
  BY <1>3, <1>4, <1>5, <1>6, <1>7, SeqEqual DEF a, b

-----------------------------------------------------------------------------
(* By() and Children(): the elements of a sequence that stand at a path.   *)

(* One step of the loop that collects the children of a path.              *)
LEMMA ChildStepIs ==
  ASSUME NEW path, NEW s \in Seq(PlainPaths), NEW x \in PlainPaths
  PROVE  ChildStep(path)[<<s, x>>] =
           IF x # <<>> /\ Front(x) = path THEN Append(s, x) ELSE s
<1>1. s \in Seq(Paths) /\ x \in Paths
  <2>1. ToSet(s) \subseteq Paths
    BY InRange, PlainPathsArePaths
  <2>2. QED
    BY <2>1, InRange, PlainPathsArePaths
<1>2. <<s, x>> \in Seq(Paths) \X Paths
  BY <1>1
<1>3. ChildStep(path)[<<s, x>>] =
        IF x # <<>> /\ ParentOf(x) = path THEN Append(s, x) ELSE s
  BY <1>2 DEF ChildStep
<1>4. QED
  BY <1>3, ParentIsFront

(* A node is appended to the children of the path one name above it.       *)
LEMMA ChildrenFacts ==
  ASSUME NEW path
  PROVE  /\ Children(<<>>, path) = <<>>
         /\ \A ns \in Seq(PlainPaths) :
              /\ Children(ns, path) \in Seq(PlainPaths)
              /\ \A x \in PlainPaths :
                   Children(Append(ns, x), path) =
                     IF x # <<>> /\ Front(x) = path
                     THEN Append(Children(ns, path), x) ELSE Children(ns, path)
<1> DEFINE step == ChildStep(path)
<1>1. Children(<<>>, path) = <<>>
  BY RunOfNone DEF Children
<1>2. \A s \in Seq(PlainPaths) : \A x \in PlainPaths :
        step[<<s, x>>] = IF x # <<>>
        /\ Front(x) = path THEN Append(s, x) ELSE s
  BY ChildStepIs
<1>3. \A s \in Seq(PlainPaths) : \A x \in PlainPaths : Append(s, x) \in Seq(PlainPaths)
  BY AppendProperties
<1>4. <<>> \in Seq(PlainPaths)
  BY EmptySeq
<1> HIDE DEF step
<1>5. ASSUME NEW ns \in Seq(PlainPaths)
      PROVE  RunOver(step, <<>>, ns) \in Seq(PlainPaths)
  <2>1. \A s \in Seq(PlainPaths) : \A x \in PlainPaths : step[<<s, x>>] \in Seq(PlainPaths)
    BY <1>2, <1>3
  <2>2. QED
    BY <1>4, <2>1, RunTyped
<1>6. ASSUME NEW ns \in Seq(PlainPaths), NEW x \in PlainPaths
      PROVE  RunOver(step, <<>>, Append(ns, x))
               = step[<<RunOver(step, <<>>, ns), x>>]
  BY OneStepMore
<1>7. \A ns \in Seq(PlainPaths) : Children(ns, path) = RunOver(step, <<>>, ns)
  BY DEF Children, step
<1>8. \A ns \in Seq(PlainPaths) : \A x \in PlainPaths :
        Children(Append(ns, x), path) = RunOver(step, <<>>, Append(ns, x))
  BY DEF Children, step
<1>9. ASSUME NEW ns \in Seq(PlainPaths)
      PROVE  /\ Children(ns, path) \in Seq(PlainPaths)
             /\ \A x \in PlainPaths :
                  Children(Append(ns, x), path) =
                    IF x # <<>> /\ Front(x) = path
                    THEN Append(Children(ns, path), x) ELSE Children(ns, path)
  <2>1. Children(ns, path) \in Seq(PlainPaths)
    BY <1>5, <1>7
  <2>2. ASSUME NEW x \in PlainPaths
        PROVE  Children(Append(ns, x), path) = step[<<Children(ns, path), x>>]
    BY <1>6, <1>7, <1>8
  <2>3. QED
    BY <1>2, <2>1, <2>2
<1>10. QED
  BY <1>1, <1>9

(* The children of a path are the nodes one name below it.                 *)
LEMMA ChildrenAre ==
  ASSUME NEW path, NEW ns \in Seq(PlainPaths)
  PROVE  ToSet(Children(ns, path))
           = {c \in ToSet(ns) : c # <<>> /\ Front(c) = path}
<1> DEFINE Good(s) == {c \in ToSet(s) : c # <<>> /\ Front(c) = path}
           T == {s \in Seq(PlainPaths) : ToSet(Children(s, path)) = Good(s)}
<1>1. <<>> \in T
  BY ChildrenFacts, EmptyFacts
<1>2. ASSUME NEW s \in Seq(PlainPaths), s \in T, NEW x \in PlainPaths
      PROVE Append(s, x) \in T
  <2>1. /\ Children(s, path) \in Seq(PlainPaths)
        /\ Children(Append(s, x), path) =
             IF x # <<>> /\ Front(x) = path
             THEN Append(Children(s, path), x) ELSE Children(s, path)
    BY ChildrenFacts
  <2>2. Append(s, x) \in Seq(PlainPaths) /\ ToSet(Append(s, x)) = ToSet(s) \cup {x}
    BY AppendFacts
  <2>3. ToSet(Append(Children(s, path), x)) = ToSet(Children(s, path)) \cup {x}
    BY <2>1, AppendFacts
  <2>4. QED
    BY <1>2, <2>1, <2>2, <2>3
<1> HIDE DEF T
<1>3. ns \in T
  BY <1>1, <1>2, SequencesByInduction
<1>4. QED
  BY <1>3 DEF T

(* No element twice.                                                       *)
Distinct(s) == \A i, j \in DOMAIN s : s[i] = s[j] => i = j

(* An element appended to a sequence without repetition must be new.       *)
LEMMA DistinctAppend ==
  ASSUME NEW B, NEW s \in Seq(B), NEW x \in B
  PROVE  Distinct(Append(s, x)) <=> Distinct(s) /\ x \notin ToSet(s)
<1> DEFINE a == Append(s, x)
<1>1. /\ Len(s) \in Nat /\ DOMAIN s = 1..Len(s) /\ DOMAIN a = 1..(Len(s) + 1)
      /\ \A i \in 1..Len(s) : a[i] = s[i]
      /\ a[Len(s) + 1] = x
  BY AppendProperties, LenProperties
<1> HIDE DEF a
<1>2. \A i \in 1..(Len(s) + 1) : i \in 1..Len(s) \/ i = Len(s) + 1
  BY <1>1
<1>3. \A i \in 1..Len(s) : i \in 1..(Len(s) + 1) /\ i # Len(s) + 1
  BY <1>1
<1>4. Len(s) + 1 \in 1..(Len(s) + 1)
  BY <1>1
<1>5. ToSet(s) = {s[i] : i \in 1..Len(s)}
  BY <1>1 DEF ToSet
<1>6. Distinct(a) => Distinct(s) /\ x \notin ToSet(s)
  BY <1>1, <1>3, <1>4, <1>5 DEF Distinct
<1>7. Distinct(s) /\ x \notin ToSet(s) => Distinct(a)
  BY <1>1, <1>2, <1>5 DEF Distinct
<1>8. QED
  BY <1>6, <1>7 DEF a

(* A property is appended to those of its path and to no others.           *)
LEMMA ByFacts ==
  ASSUME NEW path
  PROVE  /\ By(<<>>, path) = <<>>
         /\ \A ps \in Seq(Property) :
              /\ By(ps, path) \in Seq(Property)
              /\ \A x \in Property :
                   By(Append(ps, x), path) =
                     IF x.path = path THEN Append(By(ps, path), x)
                       ELSE By(ps, path)
<1> DEFINE step == ByStep(path)
<1>1. By(<<>>, path) = <<>>
  BY RunOfNone DEF By
<1>2. ASSUME NEW s \in Seq(Property), NEW x \in Property
      PROVE  step[<<s, x>>] = IF x.path = path THEN Append(s, x) ELSE s
  <2>1. <<s, x>> \in Seq(Property) \X Property
    OBVIOUS
  <2>2. QED
    BY <2>1 DEF ByStep
<1>3. \A s \in Seq(Property) : \A x \in Property : Append(s, x) \in Seq(Property)
  BY AppendProperties
<1>4. <<>> \in Seq(Property)
  BY EmptySeq
<1> HIDE DEF step
<1>5. ASSUME NEW ps \in Seq(Property)
      PROVE  RunOver(step, <<>>, ps) \in Seq(Property)
  <2>1. \A s \in Seq(Property) : \A x \in Property :
          step[<<s, x>>] \in Seq(Property)
    BY <1>2, <1>3
  <2>2. QED
    BY <1>4, <2>1, RunTyped
<1>6. ASSUME NEW ps \in Seq(Property), NEW x \in Property
      PROVE  RunOver(step, <<>>, Append(ps, x))
               = step[<<RunOver(step, <<>>, ps), x>>]
  BY OneStepMore
<1>7. \A ps : By(ps, path) = RunOver(step, <<>>, ps)
  BY DEF By, step
<1>8. ASSUME NEW ps \in Seq(Property)
      PROVE  /\ By(ps, path) \in Seq(Property)
             /\ \A x \in Property :
                  By(Append(ps, x), path) =
                    IF x.path = path THEN Append(By(ps, path), x)
                      ELSE By(ps, path)
  <2>1. By(ps, path) \in Seq(Property)
    BY <1>5, <1>7
  <2>2. ASSUME NEW x \in Property
        PROVE  By(Append(ps, x), path) = step[<<By(ps, path), x>>]
    BY <1>6, <1>7
  <2>3. QED
    BY <1>2, <2>1, <2>2
<1>9. QED
  BY <1>1, <1>8

(* Nothing stands at a path that nothing was read at.                      *)
LEMMA ByNone ==
  ASSUME NEW path, NEW ps \in Seq(Property),
         \A i \in DOMAIN ps : ps[i].path # path
  PROVE  By(ps, path) = <<>>
<1> DEFINE None(s) == \A i \in DOMAIN s : s[i].path # path
           T == {s \in Seq(Property) : None(s) => By(s, path) = <<>>}
<1>1. <<>> \in T
  BY ByFacts, EmptySeq
<1>2. ASSUME NEW s \in Seq(Property), s \in T, NEW x \in Property
      PROVE  Append(s, x) \in T
  <2>1. /\ Append(s, x) \in Seq(Property) /\ Len(s) \in Nat
        /\ DOMAIN s = 1..Len(s) /\ DOMAIN Append(s, x) = 1..(Len(s) + 1)
        /\ \A i \in 1..Len(s) : Append(s, x)[i] = s[i]
        /\ Append(s, x)[Len(s) + 1] = x
    BY AppendProperties, LenProperties
  <2>2. None(Append(s, x)) => None(s) /\ x.path # path
    BY <2>1
  <2>3. By(Append(s, x), path) =
          IF x.path = path THEN Append(By(s, path), x) ELSE By(s, path)
    BY ByFacts
  <2> HIDE DEF None
  <2>4. QED
    BY <1>2, <2>1, <2>2, <2>3
<1> HIDE DEF T
<1>3. ps \in T
  BY <1>1, <1>2, SequencesByInduction
<1>4. QED
  BY <1>3 DEF T

(* The children of a node differ if the nodes below the root do.           *)
DistinctBelow(s) ==
  \A i, j \in DOMAIN s : i # j /\ s[i] = s[j] => s[i] = <<>>

(* So must a path below the root, if no path below the root stands twice.  *)
LEMMA DistinctBelowAppend ==
  ASSUME NEW s \in Seq(PlainPaths), NEW x \in PlainPaths, DistinctBelow(Append(s, x))
  PROVE  DistinctBelow(s) /\ (x = <<>> \/ x \notin ToSet(s))
<1> DEFINE a == Append(s, x)
<1>1. /\ Len(s) \in Nat /\ DOMAIN s = 1..Len(s) /\ DOMAIN a = 1..(Len(s) + 1)
      /\ \A i \in 1..Len(s) : a[i] = s[i]
      /\ a[Len(s) + 1] = x
  BY AppendProperties, LenProperties
<1>2. DistinctBelow(a)
  OBVIOUS
<1> HIDE DEF a
<1>3. \A i \in 1..Len(s) : i \in 1..(Len(s) + 1) /\ i # Len(s) + 1
  BY <1>1
<1>4. Len(s) + 1 \in 1..(Len(s) + 1)
  BY <1>1
<1>5. DistinctBelow(s)
  BY <1>1, <1>2, <1>3 DEF DistinctBelow
<1>6. ASSUME x \in ToSet(s) PROVE x = <<>>
  <2>1. PICK i \in 1..Len(s) : s[i] = x
    BY <1>1, <1>6 DEF ToSet
  <2>2. QED
    BY <1>1, <1>2, <1>3, <1>4, <2>1 DEF DistinctBelow
<1>7. QED
  BY <1>5, <1>6

(* Then no child stands twice among the children of a path.                *)
LEMMA ChildrenDistinct ==
  ASSUME NEW path, NEW ns \in Seq(PlainPaths), DistinctBelow(ns)
  PROVE  Distinct(Children(ns, path))
<1> DEFINE T == {s \in Seq(PlainPaths) : DistinctBelow(s) => Distinct(Children(s, path))}
<1>1. <<>> \in T
  <2>1. DOMAIN <<>> = {} /\ <<>> \in Seq(PlainPaths)
    BY EmptySeq, LenProperties
  <2>2. QED
    BY <2>1, ChildrenFacts DEF Distinct
<1>2. ASSUME NEW s \in Seq(PlainPaths), s \in T, NEW x \in PlainPaths
      PROVE Append(s, x) \in T
  <2>1. Append(s, x) \in Seq(PlainPaths)
    BY AppendProperties
  <2>2. ASSUME DistinctBelow(Append(s, x))
        PROVE Distinct(Children(Append(s, x), path))
    <3>1. DistinctBelow(s) /\ (x = <<>> \/ x \notin ToSet(s))
      BY <2>2, DistinctBelowAppend
    <3>2. /\ Children(s, path) \in Seq(PlainPaths)
          /\ Children(Append(s, x), path) =
               IF x # <<>> /\ Front(x) = path
               THEN Append(Children(s, path), x) ELSE Children(s, path)
      BY ChildrenFacts
    <3>3. ToSet(Children(s, path))
            = {c \in ToSet(s) : c # <<>> /\ Front(c) = path}
      BY ChildrenAre
    <3>4. Distinct(Append(Children(s, path), x))
            <=> Distinct(Children(s, path))
            /\ x \notin ToSet(Children(s, path))
      BY <3>2, DistinctAppend
    <3>5. Distinct(Children(s, path))
      BY <1>2, <3>1
    <3>6. QED
      BY <3>1, <3>2, <3>3, <3>4, <3>5
  <2>3. QED
    BY <2>1, <2>2
<1> HIDE DEF T
<1>3. ns \in T
  BY <1>1, <1>2, SequencesByInduction
<1>4. QED
  BY <1>3 DEF T

-----------------------------------------------------------------------------
(* The lines that are written.                                             *)
LEMMA EscapedIsText ==
  ASSUME NEW part \in Text
  PROVE  Escaped(part) \in Text
<1>1. \A t \in Text : \A x \in Byte : Append(t, x) \in Text
  BY AppendProperties DEF Text
<1>2. \A t \in Text : \A x \in Byte : EscapeStep[<<t, x>>] \in Text
  BY <1>1, EscapeOnce, Bytes255
<1>3. <<>> \in Text
  BY EmptySeq DEF Text
<1>4. part \in Seq(Byte)
  BY DEF Text
<1>5. RunOver(EscapeStep, <<>>, part) \in Text
  BY <1>2, <1>3, <1>4, RunTyped
<1>6. QED
  BY <1>5 DEF Escaped

(* The parts of a value are texts.                                         *)
LEMMA PartsAreTexts ==
  ASSUME NEW value \in Text
  PROVE  StringParts(value) \in Seq(Text)
<1> DEFINE Start == [parts |-> <<>>, last |-> <<>>]
           split == SplitRun(value)
<1>1. \A t \in Text : \A x \in Byte : Append(t, x) \in Text
  BY AppendProperties DEF Text
<1>2. \A t \in Seq(Text) : \A x \in Text : Append(t, x) \in Seq(Text)
  BY AppendProperties
<1>3. <<>> \in Text /\ <<>> \in Seq(Text)
  BY EmptySeq DEF Text
<1>4. Start \in SplitState
  BY <1>3 DEF SplitState
<1>5. ASSUME NEW s \in SplitState, NEW x \in Byte
      PROVE  SplitStep[<<s, x>>] \in SplitState
  <2>1. s.parts \in Seq(Text) /\ s.last \in Text
    BY DEF SplitState
  <2>2. Append(s.parts, s.last) \in Seq(Text) /\ Append(s.last, x) \in Text
    BY <1>1, <1>2, <2>1
  <2>3. /\ [parts |-> Append(s.parts, s.last), last |-> <<>>] \in SplitState
        /\ [parts |-> s.parts, last |-> Append(s.last, x)] \in SplitState
    BY <1>3, <2>1, <2>2 DEF SplitState
  <2>4. QED
    BY <2>3, SplitOnce
<1>6. split \in SplitState
  <2>1. value \in Seq(Byte)
    BY DEF Text
  <2> HIDE DEF Start
  <2>2. RunOver(SplitStep, Start, value) \in SplitState
    BY <1>4, <1>5, <2>1, RunTyped
  <2>3. QED
    BY <2>2 DEF SplitRun, Start
<1>7. split.parts \in Seq(Text) /\ split.last \in Text
  BY <1>6 DEF SplitState
<1>8. SplitAtNul(value) = Append(split.parts, split.last)
  BY DEF SplitAtNul, SplitRun
<1> HIDE DEF split
<1>9. /\ SplitAtNul(value) \in Seq(Text)
      /\ Front(SplitAtNul(value)) = split.parts
  BY <1>7, <1>8, AppendFacts
<1>10. QED
  BY <1>7, <1>9 DEF StringParts

(* fmt() returns one of its forms.                                         *)
LEMMA FmtIsFormatted ==
  ASSUME NEW name, NEW value \in Text
  PROVE  Fmt(name, value) \in Formatted
<1> DEFINE parts == StringParts(value)
<1>1. parts \in Seq(Text)
  BY PartsAreTexts
<1> HIDE DEF parts
<1>2. Strings(parts) \in Seq(Text)
  <2> DEFINE e(i) == Escaped(parts[i])
  <2>1. Len(parts) \in Nat /\ DOMAIN parts = 1..Len(parts)
    BY <1>1, LenProperties
  <2>2. \A i \in 1..Len(parts) : e(i) \in Text
    BY <1>1, EscapedIsText, ElementOfSeq
  <2>3. Strings(parts) = [i \in 1..Len(parts) |-> e(i)]
    BY <2>1 DEF Strings
  <2> HIDE DEF e
  <2>4. [i \in 1..Len(parts) |-> e(i)] \in [1..Len(parts) -> Text]
    BY <2>2
  <2>5. QED
    BY <2>1, <2>3, <2>4, SeqDef
<1>3. <<>> \in Text
  BY EmptySeq DEF Text
<1> DEFINE form == IF Len(value) % 4 = 0 THEN "cells" ELSE "bytes"
<1>4. /\ [form |-> "none", text |-> <<>>] \in Formatted
      /\ [form |-> "strings", text |-> Strings(parts)] \in Formatted
      /\ [form |-> form, text |-> value] \in Formatted
  BY <1>2, <1>3 DEF Formatted
<1>5. \/ Fmt(name, value) = [form |-> "none", text |-> <<>>]
      \/ Fmt(name, value) = [form |-> "strings", text |-> Strings(parts)]
      \/ Fmt(name, value) = [form |-> form, text |-> value]
  BY DEF Fmt, parts
<1>6. QED
  BY <1>4, <1>5

(* The line of a property, as a function of the property.                  *)
PropLineOf == [x \in Property |-> PropLine(x.name, x.value)]

(* What render() writes are lines.                                         *)
LEMMA LinesAreLines ==
  /\ CloseLine \in Line
  /\ \A path \in PlainPaths : OpenLine(path) \in Line
  /\ \A x \in Property : PropLineOf[x] \in Line
<1>1. CloseLine \in Line
  BY DEF CloseLine, Line
<1>2. ASSUME NEW path \in PlainPaths PROVE OpenLine(path) \in Line
  <2>1. path # <<>> => Last(path) \in Named
    <3>1. ASSUME path # <<>> PROVE path[Len(path)] \in Named
      <4>1. Len(path) \in 1..Len(path)
        BY <3>1, EmptySeq DEF PlainPaths
      <4>2. \A B : \A s \in Seq(B) : \A i \in 1..Len(s) : s[i] \in B
        BY ElementOfSeq
      <4>3. QED
        BY <4>1, <4>2, Zenon DEF PlainPaths
    <3>2. QED
      BY <3>1 DEF Last
  <2> DEFINE name == IF path = <<>> THEN "/" ELSE Last(path)
  <2>3. name \in Named \cup {"/"}
    BY <2>1
  <2> HIDE DEF name
  <2>4. [line |-> "open", name |-> name] \in Line
    BY <2>3 DEF Line, Named
  <2>5. QED
    BY <2>4 DEF OpenLine, name
<1>3. ASSUME NEW x \in Property PROVE PropLineOf[x] \in Line
  <2>1. x.name \in PropNames /\ x.value \in Text
    BY DEF Property
  <2>2. Fmt(x.name, x.value) \in Formatted
    BY <2>1, FmtIsFormatted
  <2>3. PropLine(x.name, x.value) \in Line
    BY <2>1, <2>2 DEF PropLine, Line
  <2>4. QED
    BY <2>3 DEF PropLineOf
<1>4. QED
  BY <1>1, <1>2, <1>3

(* A sequence of one element, and a loop over it.                          *)
LEMMA SingleFacts ==
  ASSUME NEW B, NEW x \in B
  PROVE  /\ <<x>> \in Seq(B) /\ <<x>> = Append(<<>>, x) /\ Len(<<x>>) = 1
         /\ \A step, start : RunOver(step, start, <<x>>) = step[<<start, x>>]
<1>1. <<>> \in Seq(B) /\ <<x>> \in Seq(B) /\ Len(<<x>>) = 1
  BY EmptySeq
<1>2. <<x>> = Append(<<>>, x)
  OBVIOUS
<1>3. ASSUME NEW step, NEW start
      PROVE  RunOver(step, start, <<x>>) = step[<<start, x>>]
  <2>1. /\ RunOver(step, start, <<>>) = start
        /\ \A s \in Seq(B) : RunOver(step, start, Append(s, x))
                                = step[<<RunOver(step, start, s), x>>]
    BY OneStepMore, RunOfNone
  <2>2. QED
    BY <1>1, <1>2, <2>1
<1>4. QED
  BY <1>1, <1>2, <1>3

(* The path above a path that is not empty.                                *)
LEMMA FrontFacts ==
  ASSUME NEW c \in PlainPaths, c # <<>>
  PROVE  /\ Len(c) \in Nat \ {0}
         /\ Front(c) \in PlainPaths /\ Len(Front(c)) = Len(c) - 1
         /\ \A i \in 1..Len(c) - 1 : Front(c)[i] = c[i]
         /\ Last(c) = c[Len(c)] /\ Last(c) \in Named
         /\ c = Append(Front(c), Last(c))
<1>1. c \in Seq(Named) /\ Len(c) \in Nat \ {0}
  BY EmptySeq DEF PlainPaths
<1>2. PICK s \in Seq(Named), x \in Named : c = Append(s, x)
  BY <1>1, SequenceEmptyOrAppend
<1>3. Front(c) = s /\ Last(c) = x
  BY <1>2, AppendFacts
<1>4. /\ Len(c) = Len(s) + 1 /\ \A i \in 1..Len(s) : c[i] = s[i]
      /\ c[Len(s) + 1] = x /\ Len(s) \in Nat
  BY <1>2, AppendProperties, LenProperties
<1>5. QED
  BY <1>1, <1>2, <1>3, <1>4 DEF PlainPaths

(* What emit() can be called with are paths, the root among them.          *)
LEMMA KnownIsPaths ==
  ASSUME NEW ns \in Seq(PlainPaths)
  PROVE  /\ Known(ns) \subseteq PlainPaths /\ ToSet(ns) \subseteq Known(ns)
         /\ <<>> \in Known(ns) /\ <<>> \in PlainPaths
         /\ \A p \in PlainPaths : Len(p) \in Nat
<1>1. <<>> \in PlainPaths /\ \A p \in PlainPaths : Len(p) \in Nat
  BY EmptySeq, LenProperties DEF PlainPaths
<1>2. QED
  BY <1>1, InRange DEF Known

(* The children of a node are one name longer than the node.               *)
LEMMA ChildFacts ==
  ASSUME NEW ns \in Seq(PlainPaths), NEW p \in PlainPaths,
         NEW c \in ToSet(Children(ns, p))
  PROVE  /\ c \in ToSet(ns) /\ c \in Known(ns) /\ c \in PlainPaths /\ c # <<>>
         /\ Front(c) = p /\ Len(c) = Len(p) + 1
<1>1. c \in ToSet(ns) /\ c # <<>> /\ Front(c) = p
  BY ChildrenAre
<1>2. c \in Known(ns) /\ c \in PlainPaths
  BY <1>1, KnownIsPaths
<1>3. Len(Front(c)) = Len(c) - 1 /\ Len(c) \in Nat
  BY <1>1, <1>2, FrontFacts
<1>4. QED
  BY <1>1, <1>2, <1>3

(* The paths are bounded in length, so that the walk ends.                 *)
LEMMA LengthsBounded ==
  ASSUME NEW ns \in Seq(PlainPaths)
  PROVE  \E m \in Nat : \A p \in Known(ns) : Len(p) < m
<1> DEFINE Bounded(s) == \E m \in Nat : \A p \in Known(s) : Len(p) < m
           T == {s \in Seq(PlainPaths) : Bounded(s)}
<1>1. <<>> \in T
  <2>1. <<>> \in Seq(PlainPaths) /\ Known(<<>>) = {<<>>} /\ Len(<<>>) = 0
    BY EmptyFacts DEF Known
  <2>2. Bounded(<<>>)
    <3>1. \A p \in Known(<<>>) : Len(p) < 1
      BY <2>1
    <3>2. QED
      BY <3>1
  <2>3. QED
    BY <2>1, <2>2
<1>2. ASSUME NEW s \in Seq(PlainPaths), s \in T, NEW x \in PlainPaths
      PROVE Append(s, x) \in T
  <2>1. /\ Append(s, x) \in Seq(PlainPaths)
        /\ ToSet(Append(s, x)) = ToSet(s) \cup {x}
    BY AppendFacts
  <2>2. PICK m \in Nat : \A p \in Known(s) : Len(p) < m
    BY <1>2
  <2>3. Len(x) \in Nat /\ \A p \in Known(s) : Len(p) \in Nat
    BY KnownIsPaths
  <2>4. \A p \in Known(Append(s, x)) : p \in Known(s) \/ p = x
    BY <2>1 DEF Known
  <2> DEFINE k == m + Len(x) + 1
  <2>5. k \in Nat /\ \A p \in Known(Append(s, x)) : Len(p) < k
    BY <2>2, <2>3, <2>4
  <2>6. QED
    BY <2>1, <2>5
<1> HIDE DEF T
<1>3. ns \in T
  BY <1>1, <1>2, SequencesByInduction
<1>4. QED
  BY <1>3 DEF T

(* Induction over the tree, from the children to their node.               *)
LEMMA TreeByInduction ==
  ASSUME NEW ns \in Seq(PlainPaths), NEW T,
         \A p \in Known(ns) : (\A c \in ToSet(Children(ns, p)) : c \in T)
           => p \in T
  PROVE  Known(ns) \subseteq T
<1>1. PICK m \in Nat : \A p \in Known(ns) : Len(p) < m
  BY LengthsBounded
<1> DEFINE L == {n \in Nat : \A p \in Known(ns) : m <= Len(p) + n => p \in T}
<1>2. \A p \in Known(ns) : Len(p) \in Nat /\ p \in PlainPaths
  BY KnownIsPaths
<1>3. 0 \in L
  BY <1>1, <1>2
<1>4. ASSUME NEW n \in Nat, n \in L PROVE n + 1 \in L
  <2>1. ASSUME NEW p \in Known(ns), m <= Len(p) + (n + 1) PROVE p \in T
    <3>1. ASSUME NEW c \in ToSet(Children(ns, p)) PROVE c \in T
      <4>1. c \in Known(ns) /\ Len(c) = Len(p) + 1
        BY <1>2, ChildFacts
      <4>2. m <= Len(c) + n
        BY <1>2, <2>1, <4>1
      <4>3. QED
        BY <1>4, <4>1, <4>2
    <3>2. QED
      BY <3>1
  <2>2. QED
    BY <2>1
<1> HIDE DEF L
<1>5. m \in L
  BY <1>3, <1>4, NumbersByInduction
<1>6. QED
  BY <1>2, <1>5 DEF L

-----------------------------------------------------------------------------
(* emit(): what it writes for a node, in terms of what it writes for the   *)
(* children of the node.                                                   *)
OwnLines(ps, path) == Mapped(PropLineOf, By(ps, path))
InnerLines(e, cs) == RunOver(EmitStep, <<>>, Mapped(e, cs))
NodeLines(e, ns, ps, path) ==
  <<OpenLine(path)>> \o OwnLines(ps, path) \o InnerLines(e, Children(ns, path))
    \o <<CloseLine>>

IsEmit(e, ns, ps) ==
  e = [path \in Known(ns) |->
        LET own == By(ps, path)
            inner == Children(ns, path)
        IN  <<OpenLine(path)>>
            \o [i \in DOMAIN own |-> PropLine(own[i].name, own[i].value)]
            \o RunOver(EmitStep, <<>>, [i \in DOMAIN inner |-> e[inner[i]]])
            \o <<CloseLine>>]

(* A property adds its line to those of its own node and to no others.     *)
LEMMA OwnLinesFacts ==
  ASSUME NEW path, NEW ps \in Seq(Property)
  PROVE  /\ OwnLines(ps, path) \in Seq(Line)
         /\ OwnLines(ps, path) =
              [i \in DOMAIN By(ps, path) |->
                 PropLine(By(ps, path)[i].name, By(ps, path)[i].value)]
         /\ \A x \in Property :
              OwnLines(Append(ps, x), path) =
                IF x.path = path THEN Append(OwnLines(ps, path), PropLineOf[x])
                                 ELSE OwnLines(ps, path)
<1>1. /\ By(ps, path) \in Seq(Property)
      /\ \A x \in Property :
           By(Append(ps, x), path) =
             IF x.path = path THEN Append(By(ps, path), x) ELSE By(ps, path)
  BY ByFacts
<1>2. \A x \in Property : PropLineOf[x] \in Line
  BY LinesAreLines
<1>3. /\ OwnLines(ps, path) \in Seq(Line)
      /\ \A x \in Property :
           Mapped(PropLineOf, Append(By(ps, path), x))
             = Append(OwnLines(ps, path), PropLineOf[x])
  <2> DEFINE g == PropLineOf
             own == By(ps, path)
  <2>1. own \in Seq(Property) /\ \A x \in Property : g[x] \in Line
    BY <1>1, <1>2
  <2> HIDE DEF g, own
  <2>2. Mapped(g, own) \in Seq(Line)
    BY <2>1, MappedType
  <2>3. \A x \in Property : Mapped(g, Append(own, x))
          = Append(Mapped(g, own), g[x])
    BY <2>1, MappedAppend
  <2>4. QED
    BY <2>2, <2>3 DEF OwnLines, g, own
<1> DEFINE own == By(ps, path)
<1>4. OwnLines(ps, path)
        = [i \in DOMAIN own |-> PropLine(own[i].name, own[i].value)]
  <2>1. ASSUME NEW i \in DOMAIN own
        PROVE  PropLineOf[own[i]] = PropLine(own[i].name, own[i].value)
    <3>1. own[i] \in Property
      BY <1>1, InRange
    <3>2. QED
      BY <3>1 DEF PropLineOf
  <2>2. OwnLines(ps, path) = [i \in DOMAIN own |-> PropLineOf[own[i]]]
    BY DEF OwnLines, Mapped
  <2> HIDE DEF own
  <2>3. QED
    BY <2>1, <2>2
<1>5. ASSUME NEW x \in Property
      PROVE  OwnLines(Append(ps, x), path) =
                IF x.path = path THEN Append(OwnLines(ps, path), PropLineOf[x])
                                 ELSE OwnLines(ps, path)
  BY <1>1, <1>3 DEF OwnLines
<1>6. QED
  BY <1>3, <1>4, <1>5

(* The lines of one child more follow those of the children before it.     *)
LEMMA InnerLinesFacts ==
  ASSUME NEW e, NEW C, \A c \in C : e[c] \in Seq(Line)
  PROVE  /\ InnerLines(e, <<>>) = <<>>
         /\ \A cs \in Seq(C) :
              /\ InnerLines(e, cs) \in Seq(Line)
              /\ \A c \in C :
                   InnerLines(e, Append(cs, c)) = InnerLines(e, cs) \o e[c]
<1>1. \A s, t \in Seq(Line) : EmitStep[<<s, t>>] = s \o t
      /\ s \o t \in Seq(Line)
  <2>1. ASSUME NEW s \in Seq(Line), NEW t \in Seq(Line)
        PROVE  EmitStep[<<s, t>>] = s \o t /\ s \o t \in Seq(Line)
    <3>1. <<s, t>> \in Seq(Line) \X Seq(Line)
      OBVIOUS
    <3>2. s \o t \in Seq(Line)
      BY ConcatProperties
    <3>3. EmitStep[<<s, t>>] = s \o t
      BY <3>1 DEF EmitStep
    <3>4. QED
      BY <3>2, <3>3
  <2>2. QED
    BY <2>1
<1>2. <<>> \in Seq(Line) /\ <<>> \in Seq(C)
  BY EmptySeq
<1>3. Mapped(e, <<>>) = <<>>
  BY <1>2, MappedFacts
<1>4. InnerLines(e, <<>>) = <<>>
  BY <1>3, RunOfNone DEF InnerLines
<1>5. ASSUME NEW cs \in Seq(C)
      PROVE  /\ InnerLines(e, cs) \in Seq(Line)
             /\ \A c \in C : InnerLines(e, Append(cs, c))
                  = InnerLines(e, cs) \o e[c]
  <2>1. /\ Mapped(e, cs) \in Seq(Seq(Line))
        /\ \A c \in C : Mapped(e, Append(cs, c)) = Append(Mapped(e, cs), e[c])
    <3>1. \A c \in C : Mapped(e, Append(cs, c)) = Append(Mapped(e, cs), e[c])
      BY MappedAppend
    <3>2. Mapped(e, cs) \in Seq(Seq(Line))
      BY MappedType
    <3>3. QED
      BY <3>1, <3>2
  <2>2. InnerLines(e, cs) \in Seq(Line)
    <3>1. \A s \in Seq(Line) : \A t \in Seq(Line) : EmitStep[<<s, t>>] \in Seq(Line)
      BY <1>1
    <3>2. QED
      BY <1>2, <2>1, <3>1, RunTyped DEF InnerLines
  <2>3. ASSUME NEW c \in C
        PROVE InnerLines(e, Append(cs, c)) = InnerLines(e, cs) \o e[c]
    <3>1. RunOver(EmitStep, <<>>, Append(Mapped(e, cs), e[c]))
            = EmitStep[<<RunOver(EmitStep, <<>>, Mapped(e, cs)), e[c]>>]
      BY <2>1, OneStepMore
    <3>2. InnerLines(e, Append(cs, c)) = EmitStep[<<InnerLines(e, cs), e[c]>>]
      BY <2>1, <3>1 DEF InnerLines
    <3>3. QED
      BY <1>1, <2>2, <3>2
  <2>4. QED
    BY <2>2, <2>3
<1>6. QED
  BY <1>4, <1>5

(* The lines of a node depend on the lines of its children alone.          *)
LEMMA NodeLinesAgree ==
  ASSUME NEW ns \in Seq(PlainPaths), NEW ps, NEW p, NEW e, NEW f,
         \A c \in ToSet(Children(ns, p)) : e[c] = f[c]
  PROVE  NodeLines(e, ns, ps, p) = NodeLines(f, ns, ps, p)
<1> DEFINE cs == Children(ns, p)
<1>1. cs \in Seq(PlainPaths)
  BY ChildrenFacts
<1>2. \A i \in DOMAIN cs : cs[i] \in ToSet(cs)
  BY <1>1, InRange
<1>3. Mapped(e, cs) = Mapped(f, cs)
  <2> HIDE DEF cs
  <2>1. \A i \in DOMAIN cs : e[cs[i]] = f[cs[i]]
    BY <1>2 DEF cs
  <2>2. QED
    BY <2>1 DEF Mapped
<1>4. QED
  BY <1>3 DEF NodeLines, InnerLines

(* The equation of emit(), in these terms.                                 *)
LEMMA IsEmitFacts ==
  ASSUME NEW ns \in Seq(PlainPaths), NEW ps \in Seq(Property), NEW e
  PROVE  IsEmit(e, ns, ps) <=> e
           = [p \in Known(ns) |-> NodeLines(e, ns, ps, p)]
<1>1. ASSUME NEW path
      PROVE  NodeLines(e, ns, ps, path) =
               (<<OpenLine(path)>>
                \o [i \in DOMAIN By(ps, path) |->
                      PropLine(By(ps, path)[i].name, By(ps, path)[i].value)]
                \o RunOver(EmitStep, <<>>, [i \in DOMAIN Children(ns, path) |->
                                              e[Children(ns, path)[i]]])
                \o <<CloseLine>>)
  BY OwnLinesFacts DEF NodeLines, InnerLines, Mapped
<1>2. QED
  BY <1>1 DEF IsEmit

(* Some function satisfies the equation: it is built from the leaves up,   *)
(* by induction on the length of the paths.                                *)
LEMMA EmitExists ==
  ASSUME NEW ns \in Seq(PlainPaths), NEW ps \in Seq(Property)
  PROVE  \E e : IsEmit(e, ns, ps)
<1>1. PICK m \in Nat : \A p \in Known(ns) : Len(p) < m
  BY LengthsBounded
<1> DEFINE Body(e, p) == NodeLines(e, ns, ps, p)
           Good(e, n) == \A p \in Known(ns) : m <= Len(p) + n
             => e[p] = Body(e, p)
           L == {n \in Nat : \E e : Good(e, n)}
<1>2. \A p \in Known(ns) : Len(p) \in Nat /\ p \in PlainPaths
  BY KnownIsPaths
<1>3. \A p \in Known(ns) : \A c \in ToSet(Children(ns, p)) :
        c \in Known(ns) /\ Len(c) = Len(p) + 1
  BY <1>2, ChildFacts
<1>4. \A p, e, f : (\A c \in ToSet(Children(ns, p)) : e[c] = f[c])
        => Body(e, p) = Body(f, p)
  BY NodeLinesAgree
<1> HIDE DEF Body
<1>5. 0 \in L
  BY <1>1, <1>2
<1>6. ASSUME NEW n \in Nat, n \in L PROVE n + 1 \in L
  <2>1. PICK e : Good(e, n)
    BY <1>6
  <2> DEFINE f == [p \in Known(ns) |-> Body(e, p)]
  <2>2. \A p \in Known(ns) : m <= Len(p) + n => f[p] = e[p]
    BY <2>1
  <2>3. ASSUME NEW p \in Known(ns), m <= Len(p) + (n + 1)
        PROVE f[p] = Body(f, p)
    <3>1. ASSUME NEW c \in ToSet(Children(ns, p)) PROVE e[c] = f[c]
      <4>1. c \in Known(ns) /\ Len(c) = Len(p) + 1
        BY <1>3
      <4>2. m <= Len(c) + n
        BY <1>2, <2>3, <4>1
      <4>3. QED
        BY <2>2, <4>1, <4>2
    <3>2. Body(e, p) = Body(f, p)
      BY <1>4, <3>1
    <3>3. QED
      BY <3>2
  <2>4. Good(f, n + 1)
    BY <2>3
  <2> HIDE DEF f, Good
  <2>5. QED
    BY <2>4
<1> HIDE DEF L
<1>7. m \in L
  BY <1>5, <1>6, NumbersByInduction
<1>8. PICK e : Good(e, m)
  BY <1>7 DEF L
<1> DEFINE f == [p \in Known(ns) |-> Body(e, p)]
<1>9. ASSUME NEW p \in Known(ns) PROVE f[p] = Body(f, p)
  <2>1. \A q \in Known(ns) : f[q] = e[q]
    BY <1>2, <1>8
  <2>2. Body(e, p) = Body(f, p)
    BY <1>3, <1>4, <2>1
  <2>3. QED
    BY <2>2
<1>10. f = [p \in Known(ns) |-> Body(f, p)]
  BY <1>9
<1>11. IsEmit(f, ns, ps)
  BY <1>10, IsEmitFacts DEF Body
<1>12. QED
  BY <1>11

(* So emit() writes for each node what its equation says, and these are    *)
(* lines.                                                                  *)
LEMMA EmitFacts ==
  ASSUME NEW ns \in Seq(PlainPaths), NEW ps \in Seq(Property)
  PROVE  \A p \in Known(ns) :
           /\ Emit(ns, ps)[p] = NodeLines(Emit(ns, ps), ns, ps, p)
           /\ Emit(ns, ps)[p] \in Seq(Line)
<1> DEFINE e == Emit(ns, ps)
<1>1. IsEmit(e, ns, ps)
  <2>1. e = CHOOSE f : IsEmit(f, ns, ps)
    BY DEF Emit, IsEmit
  <2>2. QED
    BY <2>1, EmitExists
<1> HIDE DEF e
<1>2. \A p \in Known(ns) : e[p] = NodeLines(e, ns, ps, p)
  BY <1>1, IsEmitFacts
<1> DEFINE T == {p \in Known(ns) : e[p] \in Seq(Line)}
<1>3. ASSUME NEW p \in Known(ns), \A c \in ToSet(Children(ns, p)) : c \in T
      PROVE  p \in T
  <2> DEFINE C == ToSet(Children(ns, p))
             inner == InnerLines(e, Children(ns, p))
  <2>1. Children(ns, p) \in Seq(C)
    BY ChildrenFacts, InRange
  <2>2. \A c \in C : e[c] \in Seq(Line)
    BY <1>3
  <2> HIDE DEF C
  <2>3. inner \in Seq(Line)
    BY <2>1, <2>2, InnerLinesFacts
  <2>4. OwnLines(ps, p) \in Seq(Line)
    BY OwnLinesFacts
  <2>5. <<OpenLine(p)>> \in Seq(Line) /\ <<CloseLine>> \in Seq(Line)
    BY KnownIsPaths, LinesAreLines, SingleFacts
  <2> HIDE DEF inner
  <2>6. \A s, t \in Seq(Line) : s \o t \in Seq(Line)
    BY ConcatProperties
  <2>7. <<OpenLine(p)>> \o OwnLines(ps, p) \o inner \o <<CloseLine>> \in Seq(Line)
    BY <2>3, <2>4, <2>5, <2>6
  <2>8. QED
    BY <1>2, <2>7 DEF inner, NodeLines
<1> HIDE DEF T
<1>4. Known(ns) \subseteq T
  BY <1>3, TreeByInduction
<1>5. QED
  BY <1>2, <1>4 DEF T, e

-----------------------------------------------------------------------------
(* A path below another, or the same.                                      *)
Under(p, q) == Len(p) <= Len(q) /\ \A i \in 1..Len(p) : p[i] = q[i]

(* Being below is reflexive and transitive, and the root is above all.     *)
LEMMA UnderFacts ==
  ASSUME NEW p \in PlainPaths, NEW q \in PlainPaths
  PROVE  /\ Under(<<>>, q) /\ Under(q, q)
         /\ Under(p, q) /\ p # q => Len(p) < Len(q)
         /\ Len(q) < Len(p) => ~Under(p, q)
         /\ \A r \in PlainPaths : Under(p, q) /\ Under(q, r) => Under(p, r)
<1>1. /\ Len(p) \in Nat /\ Len(q) \in Nat /\ \A r \in PlainPaths : Len(r) \in Nat
      /\ <<>> \in PlainPaths /\ Len(<<>>) = 0
  BY EmptySeq, KnownIsPaths, LenProperties DEF PlainPaths
<1>2. Under(<<>>, q) /\ Under(q, q)
  BY <1>1 DEF Under
<1>3. ASSUME Under(p, q), p # q PROVE Len(p) < Len(q)
  <2>1. CASE Len(p) = Len(q)
    <3>1. \A i \in 1..Len(p) : p[i] = q[i]
      BY <1>3 DEF Under
    <3>2. p = q
      BY <2>1, <3>1, SeqEqual DEF PlainPaths
    <3>3. QED
      BY <1>3, <3>2
  <2>2. QED
    BY <1>1, <1>3, <2>1 DEF Under
<1>4. Len(q) < Len(p) => ~Under(p, q)
  BY <1>1 DEF Under
<1>5. ASSUME NEW r \in PlainPaths, Under(p, q), Under(q, r) PROVE Under(p, r)
  BY <1>1, <1>5 DEF Under
<1>6. QED
  BY <1>2, <1>3, <1>4, <1>5

(* A path is below another if its parent is, and two siblings have nothing *)
(* below both.                                                             *)
LEMMA UnderFront ==
  ASSUME NEW p \in PlainPaths, NEW q \in PlainPaths, q # <<>>
  PROVE  /\ Under(q, p) => Under(Front(q), p)
         /\ Under(p, Front(q)) => Under(p, q)
         /\ Under(p, q) /\ p # q => Under(p, Front(q))
         /\ p # <<>> /\ Front(p) = Front(q) =>
              \A r \in PlainPaths : Under(p, r) /\ Under(q, r) => p = q
<1> DEFINE f == Front(q)
<1>1. /\ Len(p) \in Nat /\ Len(q) \in Nat \ {0} /\ f \in PlainPaths
      /\ Len(f) = Len(q) - 1 /\ \A i \in 1..Len(q) - 1 : f[i] = q[i]
  BY FrontFacts, KnownIsPaths
<1>2. Under(p, q) /\ p # q => Len(p) < Len(q)
  BY UnderFacts
<1>3. ASSUME p # <<>>, Front(p) = f, NEW r \in PlainPaths, Under(p, r), Under(q, r)
      PROVE  p = q
  <2>1. Len(p) \in Nat \ {0} /\ Len(Front(p)) = Len(p) - 1
    BY <1>3, FrontFacts
  <2>2. Len(p) = Len(q)
    BY <1>1, <1>3, <2>1
  <2>3. \A i \in 1..Len(p) : p[i] = q[i]
    BY <1>3, <2>2 DEF Under
  <2>4. QED
    BY <2>2, <2>3, SeqEqual DEF PlainPaths
<1> HIDE DEF f
<1>4. /\ Under(q, p) => Under(f, p)
      /\ Under(p, f) => Under(p, q)
      /\ Under(p, q) /\ p # q => Under(p, f)
  BY <1>1, <1>2 DEF Under
<1>5. QED
  BY <1>3, <1>4 DEF f

(* Every node has its parent above it.                                     *)
Closed(ns) == \A path \in ToSet(ns) : path # <<>> => Front(path) \in Known(ns)

(* What is known below a node is the node and what is below its children.  *)
LEMMA BelowNode ==
  ASSUME NEW ns \in Seq(PlainPaths), Closed(ns), NEW p \in Known(ns)
  PROVE  /\ \A q \in Known(ns) :
              Under(p, q) <=> q = p
              \/ \E c \in ToSet(Children(ns, p)) : Under(c, q)
         /\ \A c \in ToSet(Children(ns, p)) : ~Under(c, p)
<1>1. /\ Known(ns) \subseteq PlainPaths /\ ToSet(ns) \subseteq Known(ns)
      /\ \A r \in PlainPaths : Len(r) \in Nat
      /\ \A q \in Known(ns) : q # <<>> => q \in ToSet(ns)
  BY KnownIsPaths DEF Known
<1>2. \A c \in ToSet(Children(ns, p)) :
        c \in PlainPaths /\ c # <<>> /\ Front(c) = p /\ Len(c) = Len(p) + 1
  BY <1>1, ChildFacts
<1>3. \A c \in ToSet(ns) : c # <<>>
      /\ Front(c) = p => c \in ToSet(Children(ns, p))
  BY ChildrenAre
<1>4. \A c \in ToSet(Children(ns, p)) : ~Under(c, p)
  BY <1>1, <1>2, UnderFacts
<1>5. ASSUME NEW q \in Known(ns), NEW c \in ToSet(Children(ns, p)), Under(c, q)
      PROVE  Under(p, q)
  BY <1>1, <1>2, <1>5, UnderFront
<1> DEFINE Has(q) == \E c \in ToSet(Children(ns, p)) : Under(c, q)
           L == {n \in Nat : \A q \in Known(ns) :
                               Len(q) = n /\ Under(p, q) /\ q # p => Has(q)}
<1>6. 0 \in L
  <2>1. ASSUME NEW q \in Known(ns), Len(q) = 0, Under(p, q), q # p PROVE FALSE
    BY <1>1, <2>1, UnderFacts
  <2>2. QED
    BY <2>1
<1>7. ASSUME NEW n \in Nat, n \in L PROVE n + 1 \in L
  <2>1. ASSUME NEW q \in Known(ns), Len(q) = n + 1, Under(p, q), q # p
        PROVE Has(q)
    <3>1. q # <<>> /\ q \in PlainPaths /\ q \in ToSet(ns)
      BY <1>1, <2>1, EmptyFacts
    <3>2. Len(Front(q)) = n /\ Front(q) \in PlainPaths /\ Front(q) \in Known(ns)
      BY <2>1, <3>1, FrontFacts DEF Closed
    <3>3. CASE Front(q) = p
      BY <1>3, <3>1, <3>3, UnderFacts
    <3>4. CASE Front(q) # p
      <4>1. Under(p, Front(q))
        BY <1>1, <2>1, <3>1, UnderFront
      <4>2. PICK c \in ToSet(Children(ns, p)) : Under(c, Front(q))
        BY <1>7, <3>2, <3>4, <4>1
      <4>3. Under(c, q)
        BY <1>2, <3>1, <4>2, UnderFront
      <4>4. QED
        BY <4>3
    <3>5. QED
      BY <3>3, <3>4
  <2> HIDE DEF Has
  <2>2. QED
    BY <2>1
<1> HIDE DEF L
<1>8. Nat \subseteq L
  BY <1>6, <1>7, NumbersByInduction
<1>9. ASSUME NEW q \in Known(ns), Under(p, q), q # p PROVE Has(q)
  <2>1. Len(q) \in L
    BY <1>1, <1>8
  <2> HIDE DEF Has
  <2>2. QED
    BY <1>9, <2>1 DEF L
<1>10. Under(p, p)
  BY <1>1, UnderFacts
<1>11. QED
  BY <1>4, <1>5, <1>9, <1>10

-----------------------------------------------------------------------------
(* Reading the text again.                                                 *)
At(p, f) == [at |-> p, found |-> f]
Up(p) == IF p = <<>> THEN <<>> ELSE Front(p)

(* A property that is found adds its line to those of its path alone.      *)
LEMMA LinesAtFacts ==
  ASSUME NEW q
  PROVE  /\ LinesAt(<<>>, q) = <<>>
         /\ \A f \in Seq(Found) :
              /\ LinesAt(f, q) \in Seq(Line)
              /\ \A x \in Found :
                   LinesAt(Append(f, x), q) =
                     IF x.path = q THEN Append(LinesAt(f, q), x.line)
                                   ELSE LinesAt(f, q)
<1> DEFINE step == HereStep(q)
<1>1. LinesAt(<<>>, q) = <<>>
  BY RunOfNone DEF LinesAt
<1>2. ASSUME NEW s \in Seq(Line), NEW x \in Found
      PROVE  step[<<s, x>>] = IF x.path = q THEN Append(s, x.line) ELSE s
  <2>1. <<s, x>> \in Seq(Line) \X Found
    OBVIOUS
  <2>2. QED
    BY <2>1 DEF HereStep
<1>3. \A s \in Seq(Line) : \A x \in Found : Append(s, x.line) \in Seq(Line)
  <2>1. \A x \in Found : x.line \in Line
    BY DEF Found
  <2>2. \A s \in Seq(Line) : \A l \in Line : Append(s, l) \in Seq(Line)
    BY AppendProperties
  <2>3. QED
    BY <2>1, <2>2
<1>4. <<>> \in Seq(Line)
  BY EmptySeq
<1> HIDE DEF step
<1>5. ASSUME NEW f \in Seq(Found)
      PROVE  RunOver(step, <<>>, f) \in Seq(Line)
  <2>1. \A s \in Seq(Line) : \A x \in Found : step[<<s, x>>] \in Seq(Line)
    BY <1>2, <1>3
  <2>2. QED
    BY <1>4, <2>1, RunTyped
<1>6. ASSUME NEW f \in Seq(Found), NEW x \in Found
      PROVE  RunOver(step, <<>>, Append(f, x))
               = step[<<RunOver(step, <<>>, f), x>>]
  BY OneStepMore
<1>7. \A f : LinesAt(f, q) = RunOver(step, <<>>, f)
  BY DEF LinesAt, step
<1>8. ASSUME NEW f \in Seq(Found)
      PROVE  /\ LinesAt(f, q) \in Seq(Line)
             /\ \A x \in Found :
                  LinesAt(Append(f, x), q) =
                    IF x.path = q THEN Append(LinesAt(f, q), x.line)
                                  ELSE LinesAt(f, q)
  <2>1. LinesAt(f, q) \in Seq(Line)
    BY <1>5, <1>7
  <2>2. ASSUME NEW x \in Found
        PROVE  LinesAt(Append(f, x), q) = step[<<LinesAt(f, q), x>>]
    BY <1>6, <1>7
  <2>3. QED
    BY <1>2, <2>1, <2>2
<1>9. QED
  BY <1>1, <1>8

(* What one line does.                                                     *)
LEMMA RereadOnce ==
  ASSUME NEW p \in PlainPaths, NEW f \in Seq(Found)
  PROVE  /\ RereadStep[<<At(Up(p), f), OpenLine(p)>>] = At(p, f)
         /\ RereadStep[<<At(p, f), CloseLine>>] = At(Up(p), f)
         /\ \A x \in Property :
              /\ [path |-> p, line |-> PropLineOf[x]] \in Found
              /\ RereadStep[<<At(p, f), PropLineOf[x]>>]
                   = At(p, Append(f, [path |-> p, line |-> PropLineOf[x]]))
<1> DEFINE State == [at : Paths, found : Seq(Found)]
<1>1. Up(p) \in PlainPaths
  <2>1. <<>> \in PlainPaths
    BY EmptySeq DEF PlainPaths
  <2>2. p # <<>> => Front(p) \in PlainPaths
    BY FrontFacts
  <2>3. QED
    BY <2>1, <2>2 DEF Up
<1>2. At(p, f) \in State /\ At(Up(p), f) \in State
  BY <1>1, PlainPathsArePaths DEF At
<1>3. /\ OpenLine(p) \in Line /\ CloseLine \in Line
      /\ \A x \in Property : PropLineOf[x] \in Line
  BY LinesAreLines
<1>4. ASSUME NEW t \in State, NEW l \in Line
      PROVE  RereadStep[<<t, l>>] =
               CASE l.line = "open" ->
                      [at |-> IF l.name = "/" THEN <<>> ELSE Append(t.at, l.name),
                       found |-> t.found]
                 [] l.line = "close" ->
                      [at |-> IF t.at = <<>> THEN <<>> ELSE Front(t.at),
                       found |-> t.found]
                 [] l.line = "prop" ->
                      [at |-> t.at,
                       found |-> Append(t.found, [path |-> t.at, line |-> l])]
  <2>1. <<t, l>> \in State \X Line
    OBVIOUS
  <2>2. QED
    BY <2>1 DEF RereadStep
<1>5. RereadStep[<<At(Up(p), f), OpenLine(p)>>] = At(p, f)
  <2> DEFINE name == IF p = <<>> THEN "/" ELSE Last(p)
             back == IF name = "/" THEN <<>> ELSE Append(Up(p), name)
  <2>1. OpenLine(p).line = "open" /\ OpenLine(p).name = name
    BY DEF OpenLine
  <2>2. back = p
    <3>1. CASE p = <<>>
      BY <3>1
    <3>2. CASE p # <<>>
      <4>1. Last(p) \in Named /\ p = Append(Front(p), Last(p))
        BY <3>2, FrontFacts
      <4>2. Last(p) # "/"
        BY <4>1, FdtAssumption DEF Named
      <4>3. QED
        BY <3>2, <4>1, <4>2 DEF Up
    <3>3. QED
      BY <3>1, <3>2
  <2>3. At(Up(p), f).at = Up(p) /\ At(Up(p), f).found = f
    BY DEF At
  <2> HIDE DEF name
  <2>4. RereadStep[<<At(Up(p), f), OpenLine(p)>>] = [at |-> back, found |-> f]
    BY <1>2, <1>3, <1>4, <2>1, <2>3
  <2>5. QED
    BY <2>2, <2>4 DEF At
<1>6. RereadStep[<<At(p, f), CloseLine>>] = At(Up(p), f)
  <2>1. CloseLine.line = "close" /\ At(p, f).at = p /\ At(p, f).found = f
    BY DEF CloseLine, At
  <2> DEFINE t == At(p, f)
             l == CloseLine
  <2>2. t \in State /\ l \in Line /\ l.line = "close"
    BY <1>2, <1>3, <2>1
  <2> HIDE DEF t, l, State
  <2>3. RereadStep[<<t, l>>]
          = [at |-> IF t.at = <<>> THEN <<>> ELSE Front(t.at), found |-> t.found]
    BY <1>4, <2>2
  <2>4. QED
    BY <2>1, <2>3 DEF At, Up, t, l
<1>7. ASSUME NEW x \in Property
      PROVE  /\ [path |-> p, line |-> PropLineOf[x]] \in Found
             /\ RereadStep[<<At(p, f), PropLineOf[x]>>]
                   = At(p, Append(f, [path |-> p, line |-> PropLineOf[x]]))
  <2>1. PropLineOf[x].line = "prop"
    BY DEF PropLineOf, PropLine
  <2>2. At(p, f).at = p /\ At(p, f).found = f
    BY DEF At
  <2>3. PropLineOf[x] \in Line
    BY <1>3
  <2>4. RereadStep[<<At(p, f), PropLineOf[x]>>]
          = [at |-> p, found |-> Append(f, [path |-> p, line |-> PropLineOf[x]])]
    BY <1>2, <1>4, <2>1, <2>2, <2>3
  <2>5. QED
    BY <2>3, <2>4, PlainPathsArePaths DEF At, Found
<1>8. QED
  BY <1>5, <1>6, <1>7

-----------------------------------------------------------------------------
(***************************************************************************)
(* Reading the text again: the lines of a node, read where the node        *)
(* stands, find the properties of all nodes below it once                  *)
(***************************************************************************)
(* What the nodes of a set contribute to the lines found at a path.        *)
Share(ps, D, q) == IF q \in D THEN OwnLines(ps, q) ELSE <<>>

(* Reading s at p finds the properties of the nodes in D, and ends at p.   *)
Reads(ns, ps, s, p, D) ==
  \A f \in Seq(Found) : \E g \in Seq(Found) :
    /\ RunOver(RereadStep, At(p, f), s) = At(p, g)
    /\ \A q \in Known(ns) : LinesAt(g, q) = LinesAt(f, q) \o Share(ps, D, q)

(* Nothing read, nothing found.                                            *)
LEMMA ReadsNothing ==
  ASSUME NEW ns, NEW ps \in Seq(Property), NEW p
  PROVE  Reads(ns, ps, <<>>, p, {})
<1>1. ASSUME NEW f \in Seq(Found)
      PROVE  /\ RunOver(RereadStep, At(p, f), <<>>) = At(p, f)
             /\ \A q \in Known(ns) : LinesAt(f, q)
                  = LinesAt(f, q) \o Share(ps, {}, q)
  <2>1. RunOver(RereadStep, At(p, f), <<>>) = At(p, f)
    BY RunOfNone
  <2>2. ASSUME NEW q PROVE LinesAt(f, q) = LinesAt(f, q) \o Share(ps, {}, q)
    <3>1. LinesAt(f, q) \in Seq(Line)
      BY LinesAtFacts
    <3>2. LinesAt(f, q) \o <<>> = LinesAt(f, q)
      BY <3>1, ConcatEmptySeq
    <3>3. QED
      BY <3>2 DEF Share
  <2>3. QED
    BY <2>1, <2>2
<1>2. QED
  BY <1>1 DEF Reads

(* Two texts that are read one after the other find the properties of both *)
(* sets of nodes.                                                          *)
LEMMA ReadsMore ==
  ASSUME NEW ns, NEW ps \in Seq(Property), NEW p, NEW D, NEW E, D \cap E = {},
         NEW s \in Seq(Line), NEW t \in Seq(Line),
         Reads(ns, ps, s, p, D), Reads(ns, ps, t, p, E)
  PROVE  Reads(ns, ps, s \o t, p, D \cup E)
<1>1. ASSUME NEW f \in Seq(Found)
      PROVE  \E g \in Seq(Found) :
               /\ RunOver(RereadStep, At(p, f), s \o t) = At(p, g)
               /\ \A q \in Known(ns) :
                    LinesAt(g, q) = LinesAt(f, q) \o Share(ps, D \cup E, q)
  <2>1. PICK g \in Seq(Found) :
          /\ RunOver(RereadStep, At(p, f), s) = At(p, g)
          /\ \A q \in Known(ns) : LinesAt(g, q)
               = LinesAt(f, q) \o Share(ps, D, q)
    BY DEF Reads
  <2>2. PICK h \in Seq(Found) :
          /\ RunOver(RereadStep, At(p, g), t) = At(p, h)
          /\ \A q \in Known(ns) : LinesAt(h, q)
               = LinesAt(g, q) \o Share(ps, E, q)
    BY DEF Reads
  <2>3. RunOver(RereadStep, At(p, f), s \o t)
          = RunOver(RereadStep, RunOver(RereadStep, At(p, f), s), t)
    BY RunOfConcat
  <2>4. RunOver(RereadStep, At(p, f), s \o t) = At(p, h)
    BY <2>1, <2>2, <2>3
  <2>5. ASSUME NEW q \in Known(ns)
        PROVE  LinesAt(h, q) = LinesAt(f, q) \o Share(ps, D \cup E, q)
    <3>1. LinesAt(f, q) \in Seq(Line)
      BY LinesAtFacts
    <3>2. /\ LinesAt(g, q) = LinesAt(f, q) \o Share(ps, D, q)
          /\ LinesAt(h, q) = LinesAt(g, q) \o Share(ps, E, q)
          /\ LinesAt(g, q) \in Seq(Line)
      BY <2>1, <2>2, LinesAtFacts
    <3>3. LinesAt(f, q) \o <<>> = LinesAt(f, q)
          /\ LinesAt(g, q) \o <<>> = LinesAt(g, q)
      BY <3>1, <3>2, ConcatEmptySeq
    <3>4. CASE q \in D
      <4>1. q \notin E /\ q \in D \cup E
        BY <3>4
      <4>2. QED
        BY <3>2, <3>3, <3>4, <4>1 DEF Share
    <3>5. CASE q \notin D
      <4>1. q \in D \cup E <=> q \in E
        BY <3>5
      <4>2. QED
        BY <3>2, <3>3, <3>5, <4>1 DEF Share
    <3>6. QED
      BY <3>4, <3>5
  <2>6. QED
    BY <2>4, <2>5
<1>2. QED
  BY <1>1 DEF Reads

(* The lines of the properties of a node.                                  *)
LEMMA ReadsOwn ==
  ASSUME NEW ns, NEW ps \in Seq(Property), NEW p \in PlainPaths
  PROVE  Reads(ns, ps, OwnLines(ps, p), p, {p})
<1> DEFINE Lines(bs) == Mapped(PropLineOf, bs)
           More(q, bs) == IF q = p THEN Lines(bs) ELSE <<>>
           Good(bs, f, g) ==
             /\ RunOver(RereadStep, At(p, f), Lines(bs)) = At(p, g)
             /\ \A q \in Known(ns) : LinesAt(g, q)
                  = LinesAt(f, q) \o More(q, bs)
           T == {bs \in Seq(Property) :
                   \A f \in Seq(Found) : \E g \in Seq(Found) : Good(bs, f, g)}
<1>1. <<>> \in T
  <2>1. <<>> \in Seq(Property) /\ Lines(<<>>) = <<>>
    BY EmptySeq, MappedFacts
  <2>2. ASSUME NEW f \in Seq(Found) PROVE Good(<<>>, f, f)
    <3>1. \A q : LinesAt(f, q) \o <<>> = LinesAt(f, q)
      <4>1. \A q : LinesAt(f, q) \in Seq(Line)
        BY LinesAtFacts
      <4>2. \A s \in Seq(Line) : s \o <<>> = s
        BY ConcatEmptySeq
      <4>3. QED
        BY <4>1, <4>2
    <3>2. RunOver(RereadStep, At(p, f), <<>>) = At(p, f)
      BY RunOfNone
    <3>3. \A q : More(q, <<>>) = <<>>
      BY <2>1
    <3> HIDE DEF More, Lines
    <3>4. QED
      BY <2>1, <3>1, <3>2, <3>3
  <2> HIDE DEF Good
  <2>3. QED
    BY <2>1, <2>2
<1>2. ASSUME NEW bs \in Seq(Property), bs \in T, NEW x \in Property
      PROVE  Append(bs, x) \in T
  <2>1. Append(bs, x) \in Seq(Property)
    BY AppendProperties
  <2>2. \A y \in Property : PropLineOf[y] \in Line
    BY LinesAreLines
  <2>3. Lines(bs) \in Seq(Line)
    BY <2>2, MappedType
  <2>4. Lines(Append(bs, x)) = Append(Lines(bs), PropLineOf[x])
    BY MappedAppend
  <2>5. ASSUME NEW f \in Seq(Found)
        PROVE  \E g \in Seq(Found) : Good(Append(bs, x), f, g)
    <3>1. PICK g \in Seq(Found) : Good(bs, f, g)
      BY <1>2
    <3> DEFINE found == [path |-> p, line |-> PropLineOf[x]]
               h == Append(g, found)
    <3>2. found \in Found /\ RereadStep[<<At(p, g), PropLineOf[x]>>] = At(p, h)
      BY RereadOnce
    <3>3. h \in Seq(Found)
      BY <3>2, AppendProperties
    <3>4. RunOver(RereadStep, At(p, f), Append(Lines(bs), PropLineOf[x]))
            = RereadStep[<<RunOver(RereadStep, At(p, f), Lines(bs)), PropLineOf[x]>>]
      BY <2>2, <2>3, OneStepMore
    <3>5. RunOver(RereadStep, At(p, f), Lines(Append(bs, x))) = At(p, h)
      BY <2>4, <3>1, <3>2, <3>4
    <3>6. found.path = p /\ found.line = PropLineOf[x]
      OBVIOUS
    <3> HIDE DEF h, found, Lines
    <3>7. ASSUME NEW q \in Known(ns)
          PROVE  LinesAt(h, q) = LinesAt(f, q) \o More(q, Append(bs, x))
      <4>1. /\ LinesAt(f, q) \in Seq(Line)
            /\ LinesAt(h, q) = IF p = q
                 THEN Append(LinesAt(g, q), PropLineOf[x])
                                        ELSE LinesAt(g, q)
        <5>1. /\ LinesAt(f, q) \in Seq(Line)
              /\ \A y \in Found : LinesAt(Append(g, y), q) =
                   IF y.path = q THEN Append(LinesAt(g, q), y.line)
                     ELSE LinesAt(g, q)
          BY LinesAtFacts
        <5>2. QED
          BY <3>2, <3>6, <5>1 DEF h
      <4>2. LinesAt(f, q) \o Append(Lines(bs), PropLineOf[x])
              = Append(LinesAt(f, q) \o Lines(bs), PropLineOf[x])
        BY <2>2, <2>3, <4>1, AppendToConcat
      <4>3. LinesAt(g, q) = LinesAt(f, q) \o More(q, bs)
        BY <3>1
      <4>4. QED
        BY <2>4, <4>1, <4>2, <4>3
    <3>8. Good(Append(bs, x), f, h)
      BY <3>5, <3>7
    <3> HIDE DEF Good
    <3>9. QED
      BY <3>3, <3>8
  <2> HIDE DEF Good
  <2>6. QED
    BY <2>1, <2>5
<1> HIDE DEF T
<1>3. By(ps, p) \in T
  BY <1>1, <1>2, SequencesByInduction, ByFacts
<1>4. \A f \in Seq(Found) : \E g \in Seq(Found) : Good(By(ps, p), f, g)
  BY <1>3 DEF T
<1>5. Lines(By(ps, p)) = OwnLines(ps, p)
  BY DEF OwnLines
<1>6. \A q : More(q, By(ps, p)) = Share(ps, {p}, q)
  BY <1>5 DEF Share
<1> HIDE DEF More, Lines
<1>7. QED
  BY <1>4, <1>5, <1>6 DEF Reads

(* The lines of some children of a node, if each reads as it should.       *)
LEMMA ReadsChildren ==
  ASSUME NEW ns \in Seq(PlainPaths), NEW ps \in Seq(Property), NEW p \in PlainPaths,
         NEW e,
         NEW cs \in Seq(PlainPaths), Distinct(cs),
         \A c \in ToSet(cs) :
           /\ c # <<>> /\ Front(c) = p
           /\ e[c] \in Seq(Line)
           /\ Reads(ns, ps, e[c], p, {q \in Known(ns) : Under(c, q)})
  PROVE  Reads(ns, ps, InnerLines(e, cs), p,
               {q \in Known(ns) : \E c \in ToSet(cs) : Under(c, q)})
<1> DEFINE C == ToSet(cs)
           Below(c) == {q \in Known(ns) : Under(c, q)}
           All(s) == {q \in Known(ns) : \E c \in ToSet(s) : Under(c, q)}
           T == {s \in Seq(C) : Distinct(s) => Reads(ns, ps, InnerLines(e, s), p, All(s))}
<1>1. /\ cs \in Seq(C) /\ C \subseteq PlainPaths /\ Known(ns) \subseteq PlainPaths
  BY InRange, KnownIsPaths
<1>2. /\ \A c \in C : e[c] \in Seq(Line) /\ Reads(ns, ps, e[c], p, Below(c))
      /\ \A c \in C : c # <<>> /\ Front(c) = p /\ c \in PlainPaths
  BY <1>1
<1>3. Distinct(cs)
  OBVIOUS
<1> HIDE DEF C
<1>4. /\ InnerLines(e, <<>>) = <<>>
      /\ \A s \in Seq(C) :
           /\ InnerLines(e, s) \in Seq(Line)
           /\ \A c \in C : InnerLines(e, Append(s, c))
                = InnerLines(e, s) \o e[c]
  BY <1>2, InnerLinesFacts
<1>5. <<>> \in T
  <2>1. <<>> \in Seq(C) /\ All(<<>>) = {}
    BY EmptyFacts
  <2>2. Reads(ns, ps, <<>>, p, {})
    BY ReadsNothing
  <2> HIDE DEF All
  <2>3. QED
    BY <1>4, <2>1, <2>2
<1>6. ASSUME NEW s \in Seq(C), s \in T, NEW c \in C PROVE Append(s, c) \in T
  <2>1. Append(s, c) \in Seq(C) /\ ToSet(Append(s, c)) = ToSet(s) \cup {c}
    BY AppendFacts
  <2>2. ASSUME Distinct(Append(s, c))
        PROVE  Reads(ns, ps, InnerLines(e, Append(s, c)), p, All(Append(s, c)))
    <3>1. Distinct(s) /\ c \notin ToSet(s)
      BY <2>2, DistinctAppend
    <3>2. Reads(ns, ps, InnerLines(e, s), p, All(s))
      BY <1>6, <3>1
    <3>3. All(s) \cap Below(c) = {}
      <4>1. ASSUME NEW q \in Known(ns), NEW d \in ToSet(s), Under(d, q),
                   Under(c, q)
            PROVE  FALSE
        <5>1. d \in C
          BY InRange
        <5>2. c = d
          BY <1>1, <1>2, <4>1, <5>1, UnderFront
        <5>3. QED
          BY <3>1, <5>2
      <4>2. QED
        BY <4>1
    <3>4. All(Append(s, c)) = All(s) \cup Below(c)
      BY <2>1
    <3>5. Reads(ns, ps, e[c], p, Below(c)) /\ e[c] \in Seq(Line)
      BY <1>2
    <3>6. /\ InnerLines(e, s) \in Seq(Line)
          /\ InnerLines(e, Append(s, c)) = InnerLines(e, s) \o e[c]
      BY <1>4
    <3> HIDE DEF All, Below
    <3>7. Reads(ns, ps, InnerLines(e, s) \o e[c], p, All(s) \cup Below(c))
      BY <3>2, <3>3, <3>5, <3>6, ReadsMore
    <3>8. QED
      BY <3>4, <3>6, <3>7
  <2> HIDE DEF All
  <2>3. QED
    BY <2>1, <2>2
<1> HIDE DEF T
<1>7. cs \in T
  BY <1>1, <1>5, <1>6, SequencesByInduction
<1>8. Reads(ns, ps, InnerLines(e, cs), p, All(cs))
  BY <1>3, <1>7 DEF T
<1>9. QED
  BY <1>8

(* The lines of a node, read at its parent: those of all nodes below it.   *)
LEMMA ReadsNode ==
  ASSUME NEW ns \in Seq(PlainPaths), NEW ps \in Seq(Property),
         Closed(ns), DistinctBelow(ns)
  PROVE  \A p \in Known(ns) :
           Reads(ns, ps, Emit(ns, ps)[p], Up(p), {q \in Known(ns) : Under(p, q)})
<1> DEFINE e == Emit(ns, ps)
           Below(p) == {q \in Known(ns) : Under(p, q)}
           T == {p \in Known(ns) : Reads(ns, ps, e[p], Up(p), Below(p))}
<1>1. \A p \in Known(ns) : e[p] = NodeLines(e, ns, ps, p) /\ e[p] \in Seq(Line)
  BY EmitFacts
<1>2. Known(ns) \subseteq PlainPaths
  BY KnownIsPaths
<1> HIDE DEF e
<1>3. ASSUME NEW p \in Known(ns), \A c \in ToSet(Children(ns, p)) : c \in T
      PROVE  p \in T
  <2> DEFINE cs == Children(ns, p)
             own == OwnLines(ps, p)
             inner == InnerLines(e, cs)
             Deeper == {q \in Known(ns) : \E c \in ToSet(cs) : Under(c, q)}
             first == <<OpenLine(p)>>
             last == <<CloseLine>>
  <2>1. p \in PlainPaths /\ cs \in Seq(PlainPaths) /\ Distinct(cs)
    BY <1>2, ChildrenFacts, ChildrenDistinct
  <2>2. \A c \in ToSet(cs) : c # <<>> /\ Front(c) = p /\ c \in Known(ns)
    BY <2>1, ChildFacts
  <2>3. \A c \in ToSet(cs) : e[c] \in Seq(Line)
        /\ Reads(ns, ps, e[c], p, Below(c))
    <3>1. \A c \in ToSet(cs) : Up(c) = p
      BY <2>2 DEF Up
    <3>2. QED
      BY <1>1, <1>3, <2>2, <3>1
  <2>4. inner \in Seq(Line)
    <3>1. cs \in Seq(ToSet(cs))
      BY <2>1, InRange
    <3> HIDE DEF cs
    <3>2. QED
      BY <2>3, <3>1, InnerLinesFacts
  <2>5. Reads(ns, ps, inner, p, Deeper)
    <3> HIDE DEF cs
    <3>1. QED
      BY <2>1, <2>2, <2>3, ReadsChildren
  <2>6. own \in Seq(Line) /\ Reads(ns, ps, own, p, {p})
    BY <2>1, OwnLinesFacts, ReadsOwn
  <2>7. {p} \cap Deeper = {} /\ {p} \cup Deeper = Below(p)
    BY BelowNode
  <2>8. /\ first \in Seq(Line) /\ last \in Seq(Line)
        /\ \A st : RunOver(RereadStep, st, first)
             = RereadStep[<<st, OpenLine(p)>>]
        /\ \A st : RunOver(RereadStep, st, last)
             = RereadStep[<<st, CloseLine>>]
    BY <2>1, LinesAreLines, SingleFacts
  <2>9. e[p] = first \o own \o inner \o last
    BY <1>1 DEF NodeLines
  <2> HIDE DEF own, inner, Deeper, first, last, cs, Below
  <2>10. Reads(ns, ps, own \o inner, p, Below(p)) /\ own \o inner \in Seq(Line)
    <3>1. Reads(ns, ps, own \o inner, p, {p} \cup Deeper)
      BY <2>4, <2>5, <2>6, <2>7, ReadsMore
    <3>2. own \o inner \in Seq(Line)
      BY <2>4, <2>6, ConcatProperties
    <3>3. QED
      BY <2>7, <3>1, <3>2
  <2>11. e[p] = (first \o (own \o inner)) \o last
         /\ first \o (own \o inner) \in Seq(Line)
    <3>1. (first \o own) \o inner = first \o (own \o inner)
      BY <2>4, <2>6, <2>8, ConcatAssociative
    <3>2. first \o (own \o inner) \in Seq(Line)
      BY <2>8, <2>10, ConcatProperties
    <3>3. QED
      BY <2>9, <3>1, <3>2
  <2> DEFINE middle == own \o inner
  <2>12. middle \in Seq(Line) /\ e[p] = (first \o middle) \o last
        /\ first \o middle \in Seq(Line)
    BY <2>10, <2>11
  <2> HIDE DEF middle
  <2>13. ASSUME NEW f \in Seq(Found)
         PROVE  \E g \in Seq(Found) :
                  /\ RunOver(RereadStep, At(Up(p), f), e[p]) = At(Up(p), g)
                  /\ \A q \in Known(ns) :
                       LinesAt(g, q) = LinesAt(f, q) \o Share(ps, Below(p), q)
    <3>1. PICK g \in Seq(Found) :
            /\ RunOver(RereadStep, At(p, f), middle) = At(p, g)
            /\ \A q \in Known(ns) :
                 LinesAt(g, q) = LinesAt(f, q) \o Share(ps, Below(p), q)
      BY <2>10 DEF Reads, middle
    <3>2. RunOver(RereadStep, At(Up(p), f), first) = At(p, f)
      BY <2>1, <2>8, RereadOnce
    <3>3. RunOver(RereadStep, At(p, g), last) = At(Up(p), g)
      BY <2>1, <2>8, RereadOnce
    <3>4. \A st : \A s, t \in Seq(Line) :
            RunOver(RereadStep, st, s \o t)
              = RunOver(RereadStep, RunOver(RereadStep, st, s), t)
      BY RunOfConcat
    <3>5. RunOver(RereadStep, At(Up(p), f), first \o middle) = At(p, g)
      BY <2>8, <2>12, <3>1, <3>2, <3>4
    <3>6. RunOver(RereadStep, At(Up(p), f), e[p]) = At(Up(p), g)
      <4>1. RunOver(RereadStep, At(Up(p), f), (first \o middle) \o last)
              = RunOver(RereadStep, At(p, g), last)
        <5> DEFINE start == first \o middle
        <5>1. start \in Seq(Line)
              /\ RunOver(RereadStep, At(Up(p), f), start) = At(p, g)
          BY <2>12, <3>5
        <5> HIDE DEF start
        <5>2. RunOver(RereadStep, At(Up(p), f), start \o last)
                = RunOver(RereadStep, At(p, g), last)
          BY <2>8, <3>4, <5>1
        <5>3. QED
          BY <5>2 DEF start
      <4>2. QED
        BY <2>12, <3>3, <4>1
    <3>7. QED
      BY <3>1, <3>6
  <2>14. Reads(ns, ps, e[p], Up(p), Below(p))
    BY <2>13 DEF Reads
  <2>15. QED
    BY <2>14
<1> HIDE DEF T
<1>4. Known(ns) \subseteq T
  BY <1>3, TreeByInduction
<1>5. QED
  BY <1>4 DEF T, e

(* The properties as they were read, with the paths they were read at.     *)
LEMMA AsReadAt ==
  ASSUME NEW ps \in Seq(Property), NEW q
  PROVE  LinesAt([i \in DOMAIN ps |->
                    [path |-> ps[i].path, line |-> PropLine(ps[i].name, ps[i].value)]], q)
           = OwnLines(ps, q)
<1> DEFINE g == [x \in Property |-> [path |-> x.path, line |-> PropLineOf[x]]]
           T == {s \in Seq(Property) : LinesAt(Mapped(g, s), q) = OwnLines(s, q)}
<1>1. \A x \in Property : g[x] \in Found /\ g[x].path = x.path
      /\ g[x].line = PropLineOf[x]
  <2>1. \A x \in Property : x.path \in Paths /\ PropLineOf[x] \in Line
    BY LinesAreLines DEF Property
  <2>2. QED
    BY <2>1 DEF Found
<1>2. [i \in DOMAIN ps |->
         [path |-> ps[i].path, line |-> PropLine(ps[i].name, ps[i].value)]]
           = Mapped(g, ps)
  <2>1. ASSUME NEW i \in DOMAIN ps
        PROVE  g[ps[i]] = [path |-> ps[i].path,
                           line |-> PropLine(ps[i].name, ps[i].value)]
    <3>1. ps[i] \in Property
      BY InRange
    <3>2. QED
      BY <3>1 DEF PropLineOf
  <2> HIDE DEF g
  <2>2. QED
    BY <2>1 DEF Mapped
<1> HIDE DEF g
<1>3. <<>> \in T
  <2>1. <<>> \in Seq(Property) /\ Mapped(g, <<>>) = <<>>
        /\ Mapped(PropLineOf, <<>>) = <<>>
    BY EmptySeq, MappedFacts
  <2>2. QED
    BY <2>1, LinesAtFacts, ByFacts DEF OwnLines
<1>4. ASSUME NEW s \in Seq(Property), s \in T, NEW x \in Property
      PROVE  Append(s, x) \in T
  <2>1. Append(s, x) \in Seq(Property)
    BY AppendProperties
  <2>2. Mapped(g, s) \in Seq(Found)
    BY <1>1, MappedType
  <2>3. Mapped(g, Append(s, x)) = Append(Mapped(g, s), g[x])
    BY MappedAppend
  <2>4. LinesAt(Append(Mapped(g, s), g[x]), q)
          = IF x.path = q THEN Append(LinesAt(Mapped(g, s), q), PropLineOf[x])
                          ELSE LinesAt(Mapped(g, s), q)
    <3>1. \A y \in Found : LinesAt(Append(Mapped(g, s), y), q) =
            IF y.path = q THEN Append(LinesAt(Mapped(g, s), q), y.line)
                          ELSE LinesAt(Mapped(g, s), q)
      BY <2>2, LinesAtFacts
    <3>2. QED
      BY <1>1, <3>1
  <2>5. OwnLines(Append(s, x), q)
          = IF x.path = q THEN Append(OwnLines(s, q), PropLineOf[x])
            ELSE OwnLines(s, q)
    BY OwnLinesFacts
  <2>6. QED
    BY <1>4, <2>1, <2>3, <2>4, <2>5
<1> HIDE DEF T
<1>5. ps \in T
  BY <1>3, <1>4, SequencesByInduction
<1>6. QED
  BY <1>2, <1>5 DEF T

(* render(): of a block without a slash in a name, however ill-formed it   *)
(* is otherwise, a reader of the text finds at each node the lines of its  *)
(* properties, each once and in the order they were read, unless two nodes *)
(* below the root share a path.  Reread() of the whole text is read at the *)
(* root; what is below the root is everything.                             *)
THEOREM PropertiesFound == FdtSpec => []PropertiesSurvive
<1>1. FdtInv => PropertiesSurvive
  <2> SUFFICES ASSUME FdtInv, PlainNames, DistinctPaths,
                      NEW q \in Known(nodes)
               PROVE  LinesAt(Reread, q) = LinesAt(AsRead, q)
    BY DEF PropertiesSurvive
  <2> DEFINE all == {r \in Known(nodes) : Under(<<>>, r)}
  <2>1. nodes \in Seq(PlainPaths) /\ props \in Seq(Property)
    BY DEF FdtInv, FdtTypeOK, PlainInv
  <2>2. Closed(nodes) /\ DistinctBelow(nodes)
    BY DEF FdtInv, PlainInv, AboveInv, Closed, DistinctPaths, DistinctBelow
  <2>3. <<>> \in Known(nodes) /\ Up(<<>>) = <<>> /\ q \in all
    BY <2>1, KnownIsPaths, UnderFacts DEF Up
  <2>4. Reads(nodes, props, Render, <<>>, all)
    BY <2>1, <2>2, <2>3, ReadsNode DEF Render
  <2> HIDE DEF all
  <2>5. <<>> \in Seq(Found)
    BY EmptySeq
  <2>6. PICK g \in Seq(Found) :
          /\ RunOver(RereadStep, At(<<>>, <<>>), Render) = At(<<>>, g)
          /\ \A r \in Known(nodes) :
               LinesAt(g, r) = LinesAt(<<>>, r) \o Share(props, all, r)
    BY <2>4, <2>5 DEF Reads
  <2>7. Reread = g
    BY <2>6 DEF Reread, At
  <2>8. OwnLines(props, q) \in Seq(Line) /\ LinesAt(<<>>, q) = <<>>
    BY <2>1, OwnLinesFacts, LinesAtFacts
  <2>9. LinesAt(g, q) = OwnLines(props, q)
    BY <2>3, <2>6, <2>8, ConcatEmptySeq DEF Share
  <2>10. LinesAt(AsRead, q) = OwnLines(props, q)
    BY <2>1, AsReadAt DEF AsRead
  <2>11. QED
    BY <2>7, <2>9, <2>10
<1>2. QED
  BY <1>1, FdtInvariant, PTL

-----------------------------------------------------------------------------
(***************************************************************************)
(* The text of a conformant block: while the block is read, the text it    *)
(* would give is known up to the closing lines of the nodes still open     *)
(***************************************************************************)
(* Concatenation, kept from being expanded.                                *)
Cat(s, t) == s \o t

(* Types of a concatenation, and the empty sequence in it.                 *)
LEMMA CatFacts ==
  ASSUME NEW B, NEW s \in Seq(B), NEW t \in Seq(B)
  PROVE  /\ Cat(s, t) \in Seq(B)
         /\ Cat(s, <<>>) = s /\ Cat(<<>>, s) = s
BY ConcatProperties, ConcatEmptySeq DEF Cat

(* Brackets do not matter.                                                 *)
LEMMA CatAssociative ==
  ASSUME NEW B, NEW s \in Seq(B), NEW t \in Seq(B), NEW u \in Seq(B)
  PROVE  Cat(Cat(s, t), u) = Cat(s, Cat(t, u))
BY ConcatAssociative DEF Cat

Closes(n) == [i \in 1..n |-> CloseLine]

(* One closing line more stands at either end.                             *)
LEMMA ClosesFacts ==
  ASSUME NEW n \in Nat
  PROVE  /\ Closes(n) \in Seq(Line)
         /\ Closes(0) = <<>> /\ Closes(1) = <<CloseLine>>
         /\ Closes(n + 1) = Cat(Closes(n), <<CloseLine>>)
         /\ Closes(n + 1) = Cat(<<CloseLine>>, Closes(n))
<1>1. CloseLine \in Line /\ <<CloseLine>> \in Seq(Line)
  BY LinesAreLines, SingleFacts
<1>2. ASSUME NEW m \in Nat
      PROVE  /\ Closes(m) \in Seq(Line) /\ Len(Closes(m)) = m
             /\ \A i \in 1..m : Closes(m)[i] = CloseLine
  <2>1. Closes(m) \in [1..m -> Line]
        /\ \A i \in 1..m : Closes(m)[i] = CloseLine
    BY <1>1 DEF Closes
  <2>2. Closes(m) \in Seq(Line)
    BY <2>1, SeqDef
  <2>3. DOMAIN Closes(m) = 1..m
    BY DEF Closes
  <2>4. Len(Closes(m)) = m
    BY <2>2, <2>3, LenProperties
  <2>5. QED
    BY <2>1, <2>2, <2>4
<1> DEFINE one == <<CloseLine>>
<1>3. one \in Seq(Line) /\ Len(one) = 1 /\ one[1] = CloseLine
  BY <1>1
<1> HIDE DEF one
<1>4. Closes(0) = <<>>
  BY <1>2, EmptySeq
<1>5. Closes(1) = one
  BY <1>2, <1>3, SeqEqual
<1> DEFINE c == Closes(n)
           d == Closes(n + 1)
<1>6. /\ c \in Seq(Line) /\ Len(c) = n /\ \A i \in 1..n : c[i] = CloseLine
      /\ d \in Seq(Line) /\ Len(d) = n + 1
         /\ \A i \in 1..n + 1 : d[i] = CloseLine
  BY <1>2
<1> HIDE DEF c, d
<1>7. d = Cat(c, one)
  <2> DEFINE e == Cat(c, one)
  <2>1. /\ e \in Seq(Line) /\ Len(e) = Len(c) + Len(one)
        /\ \A i \in 1..Len(c) + Len(one) :
             e[i] = IF i <= Len(c) THEN c[i] ELSE one[i - Len(c)]
    BY <1>3, <1>6, ConcatProperties DEF Cat
  <2> HIDE DEF e
  <2>2. ASSUME NEW i \in 1..n + 1 PROVE e[i] = CloseLine
    <3>1. e[i] = IF i <= n THEN c[i] ELSE one[i - n]
      BY <1>3, <1>6, <2>1
    <3>2. CASE i <= n
      BY <1>6, <3>1, <3>2
    <3>3. CASE i = n + 1
      BY <1>3, <3>1, <3>3
    <3>4. QED
      BY <3>2, <3>3
  <2>3. Len(e) = n + 1
    BY <1>3, <1>6, <2>1
  <2>4. d = e
    BY <1>6, <2>1, <2>2, <2>3, SeqEqual
  <2>5. QED
    BY <2>4 DEF e
<1>8. d = Cat(one, c)
  <2> DEFINE e == Cat(one, c)
  <2>1. /\ e \in Seq(Line) /\ Len(e) = Len(one) + Len(c)
        /\ \A i \in 1..Len(one) + Len(c) :
             e[i] = IF i <= Len(one) THEN one[i] ELSE c[i - Len(one)]
    BY <1>3, <1>6, ConcatProperties DEF Cat
  <2> HIDE DEF e
  <2>2. ASSUME NEW i \in 1..n + 1 PROVE e[i] = CloseLine
    <3>1. e[i] = IF i <= 1 THEN one[i] ELSE c[i - 1]
      BY <1>3, <1>6, <2>1
    <3>2. CASE i = 1
      BY <1>3, <3>1, <3>2
    <3>3. CASE i # 1
      BY <1>6, <3>1, <3>3
    <3>4. QED
      BY <3>2, <3>3
  <2>3. Len(e) = n + 1
    BY <1>3, <1>6, <2>1
  <2>4. d = e
    BY <1>6, <2>1, <2>2, <2>3, SeqEqual
  <2>5. QED
    BY <2>4 DEF e
<1>9. QED
  BY <1>4, <1>5, <1>6, <1>7, <1>8 DEF c, d, one

(* Two of the ways to put five sequences together.                         *)
LEMMA Regroup ==
  ASSUME NEW B, NEW a \in Seq(B), NEW i \in Seq(B), NEW y \in Seq(B),
         NEW k \in Seq(B), NEW c \in Seq(B)
  PROVE  Cat(Cat(a, Cat(i, Cat(y, k))), c) = Cat(Cat(Cat(a, i), y), Cat(k, c))
<1>1. Cat(a, i) \in Seq(B) /\ Cat(y, k) \in Seq(B)
      /\ Cat(Cat(a, i), y) \in Seq(B)
  BY CatFacts
<1>2. Cat(a, Cat(i, Cat(y, k))) = Cat(Cat(a, i), Cat(y, k))
  BY <1>1, CatAssociative
<1>3. Cat(Cat(a, i), Cat(y, k)) = Cat(Cat(Cat(a, i), y), k)
  BY <1>1, CatAssociative
<1>4. Cat(Cat(Cat(Cat(a, i), y), k), c) = Cat(Cat(Cat(a, i), y), Cat(k, c))
  BY <1>1, CatAssociative
<1>5. QED
  BY <1>2, <1>3, <1>4

(* Lines of nodes that do not stand above P are the same whatever changes  *)
(* at P.                                                                   *)
SameBut(ns, ps, ms, qs, P) ==
  \A p \in Known(ns) : /\ p \in Known(ms)
                       /\ p # P => /\ Children(ms, p) = Children(ns, p)
                                   /\ By(qs, p) = By(ps, p)

(* A change at P alone leaves the lines of every node that is not above P  *)
(* as they were: shown from the children to their node.                    *)
LEMMA EmitSame ==
  ASSUME NEW ns \in Seq(PlainPaths), NEW ps \in Seq(Property),
         NEW ms \in Seq(PlainPaths), NEW qs \in Seq(Property),
         NEW P \in PlainPaths, SameBut(ns, ps, ms, qs, P)
  PROVE  \A p \in Known(ns) :
           ~Under(p, P) => Emit(ms, qs)[p] = Emit(ns, ps)[p]
<1> DEFINE e == Emit(ns, ps)
           f == Emit(ms, qs)
           T == {p \in Known(ns) : ~Under(p, P) => f[p] = e[p]}
<1>1. /\ \A p \in Known(ns) : e[p] = NodeLines(e, ns, ps, p)
      /\ \A p \in Known(ms) : f[p] = NodeLines(f, ms, qs, p)
  BY EmitFacts
<1>2. Known(ns) \subseteq PlainPaths
  BY KnownIsPaths
<1> HIDE DEF e, f
<1>3. ASSUME NEW p \in Known(ns), \A c \in ToSet(Children(ns, p)) : c \in T
      PROVE  p \in T
  <2>1. ASSUME ~Under(p, P) PROVE f[p] = e[p]
    <3>1. p # P
      BY <2>1, UnderFacts
    <3>2. p \in Known(ms) /\ Children(ms, p) = Children(ns, p)
          /\ By(qs, p) = By(ps, p)
      BY <3>1 DEF SameBut
    <3>3. NodeLines(f, ms, qs, p) = NodeLines(f, ns, ps, p)
      BY <3>2 DEF NodeLines, OwnLines
    <3>4. ASSUME NEW c \in ToSet(Children(ns, p)) PROVE f[c] = e[c]
      <4>1. c \in PlainPaths /\ c # <<>> /\ Front(c) = p
        BY <1>2, ChildFacts
      <4>2. ~Under(c, P)
        BY <2>1, <4>1, UnderFront
      <4>3. QED
        BY <1>3, <4>2
    <3>5. NodeLines(f, ns, ps, p) = NodeLines(e, ns, ps, p)
      BY <3>4, NodeLinesAgree
    <3>6. QED
      BY <1>1, <3>2, <3>3, <3>5
  <2>2. QED
    BY <2>1
<1> HIDE DEF T
<1>4. Known(ns) \subseteq T
  BY <1>3, TreeByInduction
<1>5. QED
  BY <1>4 DEF T, e, f

(* The path to P leads through the last child of each node.                *)
OnPath(ns, P) ==
  \A q \in Known(ns) : q # <<>>
  /\ Under(q, P) => Last(Children(ns, Front(q))) = q

(* A sequence of several elements is its front and its last.               *)
LEMMA InnerOfLast ==
  ASSUME NEW ns \in Seq(PlainPaths), DistinctBelow(ns), NEW q \in PlainPaths,
         NEW c \in ToSet(Children(ns, q)), c = Last(Children(ns, q))
  PROVE  \E ds \in Seq(PlainPaths) :
           /\ Children(ns, q) = Append(ds, c) /\ c \notin ToSet(ds)
           /\ ToSet(ds) \subseteq ToSet(Children(ns, q))
<1> DEFINE cs == Children(ns, q)
<1>1. cs \in Seq(PlainPaths) /\ Distinct(cs)
  BY ChildrenFacts, ChildrenDistinct
<1>2. cs # <<>>
  BY EmptyFacts
<1> HIDE DEF cs
<1>3. PICK ds \in Seq(PlainPaths), d \in PlainPaths : cs = Append(ds, d)
  BY <1>1, <1>2, SequenceEmptyOrAppend
<1>4. Last(cs) = d /\ ToSet(cs) = ToSet(ds) \cup {d}
  BY <1>3, AppendFacts
<1>5. d \notin ToSet(ds)
  BY <1>1, <1>3, DistinctAppend
<1>6. QED
  BY <1>3, <1>4, <1>5 DEF cs

(* The lines L are new: in those of node P, and in the whole text, before  *)
(* the closing lines of P and of the nodes above it.                       *)
GrowsBy(ns, ps, ms, qs, P, L) ==
  \E X \in Seq(Line) : /\ Emit(ns, ps)[P] = Cat(X, <<CloseLine>>)
                       /\ Emit(ms, qs)[P] = Cat(Cat(X, L), <<CloseLine>>)
TextGrowsBy(ns, ps, ms, qs, P, L) ==
  \E Y \in Seq(Line) :
    /\ Emit(ns, ps)[<<>>] = Cat(Y, Closes(Len(P) + 1))
    /\ Emit(ms, qs)[<<>>] = Cat(Cat(Y, L), Closes(Len(P) + 1))

(* If the path to P leads through last children, lines that are new before *)
(* the closing line of P are new in the whole text before the closing      *)
(* lines of P and of the nodes above it: shown from P upwards.             *)
LEMMA InsertedAtEnd ==
  ASSUME NEW ns \in Seq(PlainPaths), NEW ps \in Seq(Property),
         NEW ms \in Seq(PlainPaths), NEW qs \in Seq(Property),
         NEW P \in Known(ns), SameBut(ns, ps, ms, qs, P),
         Closed(ns), DistinctBelow(ns), OnPath(ns, P),
         NEW L \in Seq(Line), GrowsBy(ns, ps, ms, qs, P, L)
  PROVE  TextGrowsBy(ns, ps, ms, qs, P, L)
<1> DEFINE e == Emit(ns, ps)
           f == Emit(ms, qs)
           Split(q, j) == \E Y \in Seq(Line) :
                            /\ e[q] = Cat(Y, Closes(j + 1))
                            /\ f[q] = Cat(Cat(Y, L), Closes(j + 1))
           N == {j \in Nat : \A q \in Known(ns) :
                   Under(q, P) /\ Len(q) + j = Len(P) => Split(q, j)}
<1>1. /\ \A p \in Known(ns) : e[p] = NodeLines(e, ns, ps, p)
         /\ e[p] \in Seq(Line)
      /\ \A p \in Known(ms) : f[p] = NodeLines(f, ms, qs, p)
         /\ f[p] \in Seq(Line)
  BY EmitFacts
<1>2. /\ Known(ns) \subseteq PlainPaths /\ P \in PlainPaths
         /\ \A p \in PlainPaths : Len(p) \in Nat
      /\ <<>> \in Known(ns) /\ Len(<<>>) = 0
  BY KnownIsPaths, EmptyFacts
<1>3. \A p \in Known(ns) : ~Under(p, P) => f[p] = e[p]
  BY <1>2, EmitSame
<1>4. PICK X \in Seq(Line) : /\ e[P] = Cat(X, <<CloseLine>>)
                            /\ f[P] = Cat(Cat(X, L), <<CloseLine>>)
  BY DEF GrowsBy
<1> HIDE DEF e, f
<1>5. 0 \in N
  <2>1. ASSUME NEW q \in Known(ns), Under(q, P), Len(q) + 0 = Len(P)
        PROVE Split(q, 0)
    <3>1. q = P
      BY <1>2, <2>1, UnderFacts
    <3>2. Closes(0 + 1) = <<CloseLine>>
      BY ClosesFacts
    <3>3. QED
      BY <1>4, <3>1, <3>2
  <2> HIDE DEF Split
  <2>2. QED
    BY <2>1
<1>6. ASSUME NEW j \in Nat, j \in N PROVE j + 1 \in N
  <2>1. ASSUME NEW q \in Known(ns), Under(q, P), Len(q) + (j + 1) = Len(P)
        PROVE  Split(q, j + 1)
    <3>1. q # P /\ q \in PlainPaths
      BY <1>2, <2>1
    <3>2. PICK c \in ToSet(Children(ns, q)) : Under(c, P)
      BY <2>1, <3>1, BelowNode
    <3>3. c \in Known(ns) /\ c \in PlainPaths /\ c # <<>> /\ Front(c) = q
          /\ Len(c) = Len(q) + 1
      BY <3>1, ChildFacts
    <3>4. Last(Children(ns, q)) = c
      BY <3>2, <3>3 DEF OnPath
    <3>5. PICK ds \in Seq(PlainPaths) :
            /\ Children(ns, q) = Append(ds, c) /\ c \notin ToSet(ds)
            /\ ToSet(ds) \subseteq ToSet(Children(ns, q))
      BY <3>1, <3>4, InnerOfLast
    <3>6. PICK Y \in Seq(Line) : /\ e[c] = Cat(Y, Closes(j + 1))
                                 /\ f[c] = Cat(Cat(Y, L), Closes(j + 1))
      <4>1. Len(c) + j = Len(P)
        BY <1>2, <2>1, <3>1, <3>3
      <4>2. Split(c, j)
        BY <1>6, <3>2, <3>3, <4>1
      <4>3. QED
        BY <4>2
    <3>7. \A d \in ToSet(ds) : d \in Known(ns) /\ f[d] = e[d]
      <4>1. ASSUME NEW d \in ToSet(ds) PROVE d \in Known(ns) /\ ~Under(d, P)
        <5>1. d \in Known(ns) /\ d \in PlainPaths /\ d # <<>> /\ Front(d) = q
              /\ d # c
          BY <3>1, <3>5, ChildFacts
        <5>2. QED
          BY <1>2, <3>2, <3>3, <5>1, UnderFront
      <4>2. QED
        BY <1>3, <4>1
    <3> DEFINE A == Cat(<<OpenLine(q)>>, OwnLines(ps, q))
               I == InnerLines(e, ds)
               K == Closes(j + 1)
               one == <<CloseLine>>
    <3>8. A \in Seq(Line) /\ one \in Seq(Line) /\ K \in Seq(Line)
          /\ j + 1 \in Nat
      <4>1. <<OpenLine(q)>> \in Seq(Line) /\ OwnLines(ps, q) \in Seq(Line)
        BY <3>1, LinesAreLines, SingleFacts, OwnLinesFacts
      <4>2. <<CloseLine>> \in Seq(Line)
        BY LinesAreLines, SingleFacts
      <4>3. A \in Seq(Line)
        BY <4>1, CatFacts
      <4>4. j + 1 \in Nat
        OBVIOUS
      <4>5. K \in Seq(Line)
        BY <4>4, ClosesFacts
      <4>6. QED
        BY <4>2, <4>3, <4>4, <4>5
    <3>9. /\ I \in Seq(Line) /\ InnerLines(e, Children(ns, q)) = Cat(I, e[c])
          /\ InnerLines(f, Children(ns, q)) = Cat(I, f[c])
      <4> DEFINE C == ToSet(ds) \cup {c}
      <4>1. ds \in Seq(C) /\ c \in C
        BY InRange
      <4>2. \A d \in C : e[d] \in Seq(Line) /\ f[d] \in Seq(Line)
        <5>1. \A d \in C : d \in Known(ns) /\ d \in Known(ms)
          BY <3>3, <3>7 DEF SameBut
        <5>2. QED
          BY <1>1, <5>1
      <4>3. \A i \in DOMAIN ds : f[ds[i]] = e[ds[i]]
        BY <3>7, InRange
      <4>4. Mapped(f, ds) = Mapped(e, ds)
        BY <4>3 DEF Mapped
      <4>5. InnerLines(f, ds) = I
        BY <4>4 DEF InnerLines
      <4> HIDE DEF C
      <4>6. I \in Seq(Line) /\ InnerLines(e, Append(ds, c)) = Cat(I, e[c])
        BY <4>1, <4>2, InnerLinesFacts DEF Cat
      <4>7. InnerLines(f, Append(ds, c)) = Cat(InnerLines(f, ds), f[c])
        BY <4>1, <4>2, InnerLinesFacts DEF Cat
      <4>8. QED
        BY <3>5, <4>5, <4>6, <4>7
    <3>10. e[q] = Cat(Cat(A, InnerLines(e, Children(ns, q))), one)
      BY <1>1 DEF NodeLines, Cat
    <3>11. f[q] = Cat(Cat(A, InnerLines(f, Children(ns, q))), one)
      <4>1. /\ q \in Known(ms) /\ Children(ms, q) = Children(ns, q)
            /\ By(qs, q) = By(ps, q)
        BY <3>1 DEF SameBut
      <4>2. QED
        BY <1>1, <4>1 DEF NodeLines, OwnLines, Cat
    <3> HIDE DEF A, I, K, one
    <3>12. e[q] = Cat(Cat(A, Cat(I, Cat(Y, K))), one)
      BY <3>6, <3>9, <3>10 DEF K
    <3>13. f[q] = Cat(Cat(A, Cat(I, Cat(Cat(Y, L), K))), one)
      BY <3>6, <3>9, <3>11 DEF K
    <3>14. Closes((j + 1) + 1) = Cat(K, one)
      BY <3>8, ClosesFacts DEF K, one
    <3> DEFINE Z == Cat(Cat(A, I), Y)
    <3>15. Z \in Seq(Line) /\ e[q] = Cat(Z, Closes((j + 1) + 1))
      <4>1. Cat(A, I) \in Seq(Line)
        BY <3>8, <3>9, CatFacts
      <4>2. Z \in Seq(Line)
        BY <4>1, CatFacts
      <4>3. Cat(Cat(A, Cat(I, Cat(Y, K))), one)
              = Cat(Cat(Cat(A, I), Y), Cat(K, one))
        BY <3>8, <3>9, Regroup
      <4>4. QED
        BY <3>12, <3>14, <4>2, <4>3
    <3>16. f[q] = Cat(Cat(Z, L), Closes((j + 1) + 1))
      <4>1. Cat(Y, L) \in Seq(Line) /\ Cat(A, I) \in Seq(Line)
        BY <3>8, <3>9, CatFacts
      <4>2. Cat(Cat(A, I), Cat(Y, L)) = Cat(Z, L)
        BY <4>1, CatAssociative
      <4>3. Cat(Cat(A, Cat(I, Cat(Cat(Y, L), K))), one)
              = Cat(Cat(Cat(A, I), Cat(Y, L)), Cat(K, one))
        BY <3>8, <3>9, <4>1, Regroup
      <4>4. QED
        BY <3>13, <3>14, <4>2, <4>3
    <3> HIDE DEF Z
    <3>17. QED
      BY <3>15, <3>16
  <2> HIDE DEF Split
  <2>2. QED
    BY <2>1
<1> HIDE DEF N
<1>7. Len(P) \in N
  BY <1>2, <1>5, <1>6, NumbersByInduction
<1>8. Under(<<>>, P) /\ Len(<<>>) + Len(P) = Len(P)
  BY <1>2, UnderFacts
<1>9. Split(<<>>, Len(P))
  <2> HIDE DEF Split
  <2>1. QED
    BY <1>2, <1>7, <1>8 DEF N
<1>10. QED
  BY <1>9 DEF e, f, TextGrowsBy

(* What stands before the same end is the same.                            *)
LEMMA CancelRight ==
  ASSUME NEW B, NEW s \in Seq(B), NEW t \in Seq(B), NEW u \in Seq(B),
         Cat(s, u) = Cat(t, u)
  PROVE  s = t
<1>1. \A S : \A a, b, v \in Seq(S) : a \o v = b \o v => a = b
  BY ConcatSimplifications, Zenon
<1>2. s \o u = t \o u
  BY DEF Cat
<1> HIDE DEF Cat
<1>3. QED
  BY <1>1, <1>2, Zenon

(* The lines of a node, opened, with their types.                          *)
LEMMA EmitParts ==
  ASSUME NEW ns \in Seq(PlainPaths), NEW ps \in Seq(Property), NEW p \in Known(ns)
  PROVE  /\ <<OpenLine(p)>> \in Seq(Line) /\ <<CloseLine>> \in Seq(Line)
         /\ OwnLines(ps, p) \in Seq(Line)
         /\ InnerLines(Emit(ns, ps), Children(ns, p)) \in Seq(Line)
         /\ Emit(ns, ps)[p] =
              Cat(Cat(Cat(<<OpenLine(p)>>, OwnLines(ps, p)),
                      InnerLines(Emit(ns, ps), Children(ns, p))),
                      <<CloseLine>>)
<1> DEFINE e == Emit(ns, ps)
           cs == Children(ns, p)
<1>1. e[p] = NodeLines(e, ns, ps, p) /\ \A q \in Known(ns) : e[q] \in Seq(Line)
  BY EmitFacts
<1>2. p \in PlainPaths /\ Known(ns) \subseteq PlainPaths
  BY KnownIsPaths
<1>3. <<OpenLine(p)>> \in Seq(Line) /\ <<CloseLine>> \in Seq(Line)
  BY <1>2, LinesAreLines, SingleFacts
<1>4. cs \in Seq(PlainPaths) /\ ToSet(cs) \subseteq Known(ns)
  BY <1>2, ChildrenFacts, ChildFacts
<1> HIDE DEF e, cs
<1>5. cs \in Seq(Known(ns))
  BY <1>4, InRange
<1>6. InnerLines(e, cs) \in Seq(Line)
  BY <1>1, <1>5, InnerLinesFacts
<1>7. QED
  BY <1>1, <1>3, <1>6, OwnLinesFacts DEF NodeLines, Cat, e, cs

(* The lines of a node with nothing in it.                                 *)
LEMMA LeafLines ==
  ASSUME NEW ns \in Seq(PlainPaths), NEW ps \in Seq(Property), NEW p \in Known(ns),
         Children(ns, p) = <<>>, By(ps, p) = <<>>
  PROVE  Emit(ns, ps)[p] = Cat(<<OpenLine(p)>>, <<CloseLine>>)
<1> DEFINE e == Emit(ns, ps)
           open == <<OpenLine(p)>>
           close == <<CloseLine>>
<1>1. /\ open \in Seq(Line) /\ close \in Seq(Line)
      /\ e[p] = Cat(Cat(Cat(open, OwnLines(ps, p)),
                        InnerLines(e, Children(ns, p))), close)
  BY EmitParts
<1>2. OwnLines(ps, p) = <<>>
  BY EmptyFacts, MappedFacts DEF OwnLines
<1>3. InnerLines(e, Children(ns, p)) = <<>>
  <2>1. Mapped(e, <<>>) = <<>>
    BY EmptyFacts, MappedFacts
  <2>2. QED
    BY <2>1, RunOfNone DEF InnerLines
<1> HIDE DEF e, open, close
<1>4. Cat(Cat(open, <<>>), <<>>) = open
  BY <1>1, CatFacts
<1>5. QED
  BY <1>1, <1>2, <1>3, <1>4 DEF e, open, close

(* A property of the innermost open node appears before the closing lines  *)
(* if nothing stands below the node.                                       *)
LEMMA PropertyAdded ==
  ASSUME NEW ns \in Seq(PlainPaths), NEW ps \in Seq(Property), NEW P \in Known(ns),
         Closed(ns), DistinctBelow(ns), OnPath(ns, P), Children(ns, P) = <<>>,
         NEW x \in Property, x.path = P
  PROVE  TextGrowsBy(ns, ps, ns, Append(ps, x), P, <<PropLineOf[x]>>)
<1> DEFINE qs == Append(ps, x)
           e == Emit(ns, ps)
           f == Emit(ns, qs)
           open == <<OpenLine(P)>>
           own == OwnLines(ps, P)
           close == <<CloseLine>>
           L == <<PropLineOf[x]>>
           X == Cat(open, own)
<1>1. qs \in Seq(Property)
  BY AppendProperties
<1>2. L \in Seq(Line)
  BY LinesAreLines, SingleFacts
<1>3. SameBut(ns, ps, ns, qs, P)
  <2>1. ASSUME NEW p, p # P PROVE By(qs, p) = By(ps, p)
    BY <2>1, ByFacts
  <2>2. QED
    BY <2>1 DEF SameBut
<1>4. /\ open \in Seq(Line) /\ own \in Seq(Line) /\ close \in Seq(Line)
      /\ e[P] = Cat(Cat(Cat(open, own), InnerLines(e, Children(ns, P))), close)
  BY EmitParts
<1>5. f[P] = Cat(Cat(Cat(open, OwnLines(qs, P)), InnerLines(f, Children(ns, P))), close)
  BY <1>1, EmitParts
<1>6. InnerLines(e, Children(ns, P)) = <<>>
      /\ InnerLines(f, Children(ns, P)) = <<>>
  <2>1. Mapped(e, <<>>) = <<>> /\ Mapped(f, <<>>) = <<>>
    BY EmptyFacts, MappedFacts
  <2>2. QED
    BY <2>1, RunOfNone DEF InnerLines
<1>7. OwnLines(qs, P) = Cat(own, L)
  <2>1. OwnLines(qs, P) = Append(own, PropLineOf[x])
    BY OwnLinesFacts
  <2>2. own \in Seq(Line) /\ PropLineOf[x] \in Line
    BY <1>4, LinesAreLines
  <2> HIDE DEF own
  <2>3. Append(own, PropLineOf[x]) = own \o L
    BY <2>2, AppendIsConcat
  <2>4. QED
    BY <2>1, <2>3 DEF Cat
<1> HIDE DEF e, f, open, own, close, L, qs
<1>8. X \in Seq(Line) /\ Cat(own, L) \in Seq(Line)
  BY <1>2, <1>4, CatFacts
<1>9. e[P] = Cat(X, close)
  BY <1>4, <1>6, <1>8, CatFacts
<1>10. f[P] = Cat(Cat(X, L), close)
  <2>1. Cat(open, Cat(own, L)) = Cat(X, L)
    BY <1>2, <1>4, CatAssociative
  <2>2. Cat(X, L) \in Seq(Line)
    BY <1>2, <1>8, CatFacts
  <2> HIDE DEF X
  <2>3. Cat(Cat(X, L), <<>>) = Cat(X, L)
    BY <2>2, CatFacts
  <2>4. QED
    BY <1>5, <1>6, <1>7, <2>1, <2>3
<1> HIDE DEF X
<1>11. GrowsBy(ns, ps, ns, qs, P, L)
  BY <1>8, <1>9, <1>10 DEF GrowsBy, e, f, close
<1>12. TextGrowsBy(ns, ps, ns, qs, P, L)
  BY <1>1, <1>2, <1>3, <1>11, InsertedAtEnd
<1>13. QED
  BY <1>12 DEF L, qs

(* A node opened in node P: nothing stands in it yet, it is the last child *)
(* of P, and its two lines appear before the closing lines of P.           *)
LEMMA NodeAdded ==
  ASSUME NEW ns \in Seq(PlainPaths), NEW ps \in Seq(Property), NEW P \in Known(ns),
         NEW name \in Named, Closed(ns), OnPath(ns, P),
         DistinctBelow(Append(ns, Append(P, name))),
         \A i \in DOMAIN ps : ps[i].path \in Known(ns)
  PROVE  /\ Append(P, name) \in PlainPaths
         /\ Children(Append(ns, Append(P, name)), Append(P, name)) = <<>>
         /\ OnPath(Append(ns, Append(P, name)), Append(P, name))
         /\ TextGrowsBy(ns, ps, Append(ns, Append(P, name)), ps, P,
                        Cat(<<OpenLine(Append(P, name))>>, <<CloseLine>>))
<1> DEFINE x == Append(P, name)
           ms == Append(ns, x)
           e == Emit(ns, ps)
           f == Emit(ms, ps)
           open == <<OpenLine(P)>>
           own == OwnLines(ps, P)
           inner == InnerLines(e, Children(ns, P))
           close == <<CloseLine>>
           L == Cat(<<OpenLine(x)>>, <<CloseLine>>)
           X == Cat(Cat(open, own), inner)
<1>1. /\ P \in PlainPaths /\ Known(ns) \subseteq PlainPaths
         /\ ToSet(ns) \subseteq Known(ns)
      /\ \A p \in PlainPaths : Len(p) \in Nat
  BY KnownIsPaths
<1>2. x \in PlainPaths /\ x # <<>> /\ Front(x) = P /\ Len(x) = Len(P) + 1
  BY <1>1, AppendFacts, AppendProperties DEF PlainPaths
<1> HIDE DEF x
<1>3. /\ ms \in Seq(PlainPaths) /\ ToSet(ms) = ToSet(ns) \cup {x}
      /\ Known(ms) = Known(ns) \cup {x}
  <2>1. ms \in Seq(PlainPaths) /\ ToSet(ms) = ToSet(ns) \cup {x}
    BY <1>2, AppendFacts
  <2>2. QED
    BY <2>1 DEF Known
<1>4. DistinctBelow(ns) /\ x \notin Known(ns)
  <2>1. DistinctBelow(ms)
    BY DEF x
  <2> HIDE DEF ms
  <2>2. DistinctBelow(ns) /\ (x = <<>> \/ x \notin ToSet(ns))
    BY <1>2, <2>1, DistinctBelowAppend DEF ms
  <2>3. QED
    BY <1>2, <2>2 DEF Known
<1>5. /\ Children(ms, P) = Append(Children(ns, P), x)
      /\ \A p : p # P => Children(ms, p) = Children(ns, p)
  BY <1>2, ChildrenFacts
<1> HIDE DEF ms
<1>6. Children(ms, x) = <<>>
  <2>1. ToSet(Children(ms, x)) = {c \in ToSet(ms) : c # <<>> /\ Front(c) = x}
    BY <1>3, ChildrenAre
  <2>2. ASSUME NEW c \in ToSet(ms), c # <<>>, Front(c) = x PROVE FALSE
    <3>1. CASE c = x
      BY <1>1, <1>2, <2>2, <3>1
    <3>2. CASE c \in ToSet(ns)
      BY <1>4, <2>2, <3>2 DEF Closed
    <3>3. QED
      BY <1>3, <3>1, <3>2
  <2>3. Children(ms, x) \in Seq(PlainPaths)
    BY <1>3, ChildrenFacts
  <2>4. \A i \in DOMAIN Children(ms, x) : Children(ms, x)[i] \in ToSet(Children(ms, x))
    BY <2>3, InRange
  <2>5. DOMAIN Children(ms, x) = {}
    BY <2>1, <2>2, <2>4
  <2> DEFINE cs == Children(ms, x)
  <2>6. cs \in Seq(PlainPaths) /\ DOMAIN cs = {}
    BY <2>3, <2>5
  <2> HIDE DEF cs
  <2>7. Len(cs) = 0
    BY <2>6, LenProperties
  <2>8. cs = <<>>
    BY <2>6, <2>7, EmptySeq
  <2>9. QED
    BY <2>8 DEF cs
<1>7. OnPath(ms, x)
  <2>1. ASSUME NEW q \in Known(ms), q # <<>>, Under(q, x)
        PROVE  Last(Children(ms, Front(q))) = q
    <3>1. CASE q = x
      <4>1. Children(ns, P) \in Seq(PlainPaths)
        BY ChildrenFacts
      <4>2. Last(Append(Children(ns, P), x)) = x
        BY <1>2, <4>1, AppendFacts
      <4>3. QED
        BY <1>2, <1>5, <3>1, <4>2
    <3>2. CASE q # x
      <4>1. q \in Known(ns) /\ q \in PlainPaths
        BY <1>1, <1>3, <3>2
      <4>2. Under(q, P)
        BY <1>2, <2>1, <3>2, <4>1, UnderFront
      <4>3. Last(Children(ns, Front(q))) = q
        BY <2>1, <4>1, <4>2 DEF OnPath
      <4>4. Len(Front(q)) = Len(q) - 1 /\ Len(q) \in Nat /\ Len(P) \in Nat
        BY <1>1, <2>1, <4>1, FrontFacts
      <4>5. Len(q) <= Len(P)
        BY <4>2 DEF Under
      <4>6. Front(q) # P
        BY <4>4, <4>5
      <4>7. QED
        BY <1>5, <4>3, <4>6
    <3>3. QED
      BY <3>1, <3>2
  <2>2. QED
    BY <2>1 DEF OnPath
<1>8. SameBut(ns, ps, ms, ps, P)
  BY <1>3, <1>5 DEF SameBut
<1>9. /\ open \in Seq(Line) /\ own \in Seq(Line) /\ inner \in Seq(Line)
      /\ close \in Seq(Line) /\ e[P] = Cat(X, close)
  BY EmitParts
<1>10. f[P] = Cat(Cat(Cat(open, own), InnerLines(f, Children(ms, P))), close)
  BY <1>3, EmitParts
<1>11. f[x] = L
  <2>1. \A i \in DOMAIN ps : ps[i].path # x
    BY <1>4
  <2>2. By(ps, x) = <<>>
    BY <2>1, ByNone
  <2>3. x \in Known(ms)
    BY <1>3
  <2>4. QED
    BY <1>3, <1>6, <2>2, <2>3, LeafLines
<1>12. L \in Seq(Line)
  BY <1>2, <1>9, LinesAreLines, SingleFacts, CatFacts
<1>13. InnerLines(f, Children(ms, P)) = Cat(inner, L)
  <2> DEFINE cs == Children(ns, P)
  <2>1. \A c \in ToSet(cs) : c \in Known(ns) /\ ~Under(c, P)
    BY <1>1, ChildFacts, BelowNode
  <2>2. \A p \in Known(ns) : ~Under(p, P) => f[p] = e[p]
    BY <1>1, <1>3, <1>8, EmitSame
  <2>3. cs \in Seq(PlainPaths) /\ ToSet(cs) \subseteq Known(ns)
    BY <2>1, ChildrenFacts
  <2>4. cs \in Seq(Known(ms)) /\ x \in Known(ms)
    <3>1. ToSet(cs) \subseteq Known(ms) /\ x \in Known(ms)
      BY <1>3, <2>3
    <3> HIDE DEF cs
    <3>2. QED
      BY <2>3, <3>1, InRange
  <2>5. \A p \in Known(ms) : f[p] \in Seq(Line)
    BY <1>3, EmitFacts
  <2> HIDE DEF cs, f, e
  <2>6. InnerLines(f, Append(cs, x)) = InnerLines(f, cs) \o f[x]
    BY <2>4, <2>5, InnerLinesFacts
  <2>7. Mapped(f, cs) = Mapped(e, cs)
    <3>1. \A i \in DOMAIN cs : cs[i] \in ToSet(cs)
      BY <2>3, InRange
    <3>2. \A i \in DOMAIN cs : f[cs[i]] = e[cs[i]]
      BY <2>1, <2>2, <3>1
    <3>3. QED
      BY <3>2 DEF Mapped
  <2>8. InnerLines(f, cs) = inner
    BY <2>7 DEF InnerLines, cs
  <2>9. Children(ms, P) = Append(cs, x)
    BY <1>5 DEF cs
  <2>10. QED
    BY <1>11, <2>6, <2>8, <2>9 DEF Cat
<1> HIDE DEF e, f, open, own, inner, close, L
<1>14. f[P] = Cat(Cat(X, L), close)
  <2>1. Cat(open, own) \in Seq(Line)
    BY <1>9, CatFacts
  <2>2. Cat(Cat(open, own), Cat(inner, L)) = Cat(X, L)
    BY <1>9, <1>12, <2>1, CatAssociative
  <2>3. QED
    BY <1>10, <1>13, <2>2
<1>15. X \in Seq(Line)
  <2>1. Cat(open, own) \in Seq(Line)
    BY <1>9, CatFacts
  <2>2. QED
    BY <1>9, <2>1, CatFacts
<1> HIDE DEF X
<1>16. GrowsBy(ns, ps, ms, ps, P, L)
  BY <1>9, <1>14, <1>15 DEF GrowsBy, e, f, close
<1>17. TextGrowsBy(ns, ps, ms, ps, P, L)
  BY <1>3, <1>4, <1>8, <1>12, <1>16, InsertedAtEnd
<1>18. QED
  BY <1>2, <1>6, <1>7, <1>17 DEF L, ms, x

-----------------------------------------------------------------------------
(* The block that was read, and the lines it stands for.                   *)
Token == {Begin(name) : name \in Simple} \cup {End}
         \cup {Prop(t[1], t[2]) : t \in PropNames \X Text}
LineFun == [t \in Token |-> LineOf(t)]
LinesOf(b) == Mapped(LineFun, b)

(* The tokens and their tags.                                              *)
LEMMA TokenFacts ==
  /\ \A name \in Simple : /\ Begin(name) \in Token
     /\ Begin(name).tag = "begin"
                             /\ Begin(name).name = name
  /\ End \in Token /\ End.tag = "end"
  /\ \A name \in PropNames : \A value \in Text :
       Prop(name, value) \in Token /\ Prop(name, value).tag = "prop"
  /\ \A t \in Token : t.tag \in Tag
<1>1. \A name \in PropNames : \A value \in Text : Prop(name, value) \in Token
  <2>1. ASSUME NEW name \in PropNames, NEW value \in Text
        PROVE  Prop(name, value) \in Token
    <3>1. <<name, value>> \in PropNames \X Text
      OBVIOUS
    <3>2. Prop(<<name, value>>[1], <<name, value>>[2]) = Prop(name, value)
      OBVIOUS
    <3>3. QED
      BY <3>1, <3>2 DEF Token
  <2>2. QED
    BY <2>1
<1>2. \A name \in Simple : Begin(name).tag = "begin"
      /\ Begin(name).name = name
  BY DEF Begin
<1>3. \A name, value : Prop(name, value).tag = "prop"
  BY DEF Prop
<1>4. End.tag = "end"
  BY DEF End
<1>5. (\A name \in Simple : Begin(name) \in Token) /\ End \in Token
  BY DEF Token
<1>6. \A t \in Token : t.tag \in Tag
  <2>1. ASSUME NEW t \in Token PROVE t.tag \in {"begin", "end", "prop"}
    BY <1>2, <1>3, <1>4 DEF Token
  <2>2. QED
    BY <2>1 DEF Tag
<1>7. QED
  BY <1>1, <1>2, <1>3, <1>4, <1>5, <1>6

(* The line of each kind of token is the line emit() writes for it.        *)
LEMMA LineOfFacts ==
  /\ \A t \in Token : LineFun[t] \in Line
  /\ \A name \in Simple :
       /\ name = "" => LineFun[Begin(name)] = OpenLine(<<>>)
       /\ name # "" => \A P \in PlainPaths :
            LineFun[Begin(name)] = OpenLine(Append(P, name))
  /\ LineFun[End] = CloseLine
  /\ \A x \in Property : LineFun[Prop(x.name, x.value)] = PropLineOf[x]
<1>1. ASSUME NEW name \in Simple
      PROVE  /\ LineFun[Begin(name)] =
                  [line |-> "open", name |-> IF name = "" THEN "/" ELSE name]
             /\ LineFun[Begin(name)] \in Line
  <2>1. LineFun[Begin(name)] =
          [line |-> "open", name |-> IF name = "" THEN "/" ELSE name]
    BY TokenFacts DEF LineFun, LineOf
  <2>2. (IF name = "" THEN "/" ELSE name) \in Simple \cup {"/"}
    OBVIOUS
  <2>3. \A n \in Simple \cup {"/"} : [line |-> "open", name |-> n] \in Line
    BY DEF Line, Simple
  <2>4. QED
    BY <2>1, <2>2, <2>3
<1>2. ASSUME NEW name \in Simple
      PROVE  /\ name = "" => LineFun[Begin(name)] = OpenLine(<<>>)
             /\ name # "" => \A P \in PlainPaths :
                  LineFun[Begin(name)] = OpenLine(Append(P, name))
  <2>1. CASE name = ""
    BY <1>1, <2>1 DEF OpenLine
  <2>2. ASSUME name # "", NEW P \in PlainPaths
        PROVE  LineFun[Begin(name)] = OpenLine(Append(P, name))
    <3>1. name \in Named /\ P \in Seq(Named)
      BY <2>2 DEF Named, Simple, PlainPaths
    <3>2. Last(Append(P, name)) = name /\ Append(P, name) # <<>>
      BY <3>1, AppendFacts
    <3>3. QED
      BY <1>1, <2>2, <3>2 DEF OpenLine
  <2>3. QED
    BY <2>1, <2>2
<1>3. LineFun[End] = CloseLine /\ LineFun[End] \in Line
  BY TokenFacts, LinesAreLines DEF LineFun, LineOf
<1>4. ASSUME NEW name \in PropNames, NEW value \in Text
      PROVE  /\ LineFun[Prop(name, value)] = PropLine(name, value)
             /\ LineFun[Prop(name, value)] \in Line
  <2>1. LineFun[Prop(name, value)] = LineOf(Prop(name, value))
    BY TokenFacts DEF LineFun
  <2>2. LineOf(Prop(name, value)) = PropLine(name, value)
    BY DEF LineOf, Prop
  <2>3. PropLine(name, value) \in Line
    BY FmtIsFormatted DEF PropLine, Line
  <2>4. QED
    BY <2>1, <2>2, <2>3
<1>5. \A x \in Property : LineFun[Prop(x.name, x.value)] = PropLineOf[x]
  BY <1>4 DEF PropLineOf, Property
<1>6. \A t \in Token : LineFun[t] \in Line
  <2> HIDE DEF LineFun
  <2>1. ASSUME NEW t \in PropNames \X Text
        PROVE LineFun[Prop(t[1], t[2])] \in Line
    BY <1>4
  <2>2. QED
    BY <1>1, <1>3, <2>1 DEF Token
<1>7. QED
  BY <1>2, <1>3, <1>5, <1>6

(* One token more is one line more.                                        *)
LEMMA LinesOfAppend ==
  ASSUME NEW b \in Seq(Token), NEW t \in Token
  PROVE  /\ LinesOf(b) \in Seq(Line) /\ LinesOf(<<>>) = <<>>
         /\ LinesOf(Append(b, t)) = Cat(LinesOf(b), <<LineFun[t]>>)
<1>1. \A u \in Token : LineFun[u] \in Line
  BY LineOfFacts
<1> HIDE DEF LineFun
<1>2. LinesOf(b) \in Seq(Line)
  BY <1>1, MappedType DEF LinesOf
<1>3. LinesOf(Append(b, t)) = Append(LinesOf(b), LineFun[t])
  BY MappedAppend DEF LinesOf
<1>4. LinesOf(<<>>) = <<>>
  BY EmptyFacts, MappedFacts DEF LinesOf
<1> DEFINE s == LinesOf(b)
           y == LineFun[t]
<1>5. s \in Seq(Line) /\ y \in Line /\ LinesOf(Append(b, t)) = Append(s, y)
  BY <1>1, <1>2, <1>3
<1> HIDE DEF s, y
<1>6. Append(s, y) = Cat(s, <<y>>)
  BY <1>5, AppendIsConcat DEF Cat
<1>7. QED
  BY <1>4, <1>5, <1>6 DEF s, y

(* The depth after the first k tokens.                                     *)
Tags(b, k) == [i \in 1..k |-> b[i].tag]
DepthOf(b, k) == RunOver(DepthStep, 0, Tags(b, k))

(* The depth moves with the last token, and the depths before it stay.     *)
LEMMA DepthFacts ==
  ASSUME NEW b \in Seq(Token), NEW t \in Token
  PROVE  /\ DepthOf(<<>>, 0) = 0
         /\ \A k \in 0..Len(b) : /\ DepthOf(b, k) \in Int
                                 /\ DepthOf(Append(b, t), k) = DepthOf(b, k)
         /\ DepthOf(Append(b, t), Len(b) + 1) =
              CASE t.tag = "begin" -> DepthOf(b, Len(b)) + 1
                [] t.tag = "end" -> DepthOf(b, Len(b)) - 1
                [] t.tag = "prop" -> DepthOf(b, Len(b))
<1> DEFINE a == Append(b, t)
           n == Len(b)
<1>1. /\ n \in Nat /\ Len(a) = n + 1 /\ a[n + 1] = t
      /\ \A i \in 1..n : a[i] = b[i] /\ b[i] \in Token
  BY AppendProperties, LenProperties, ElementOfSeq
<1>2. \A u \in Token : u.tag \in Tag
  BY TokenFacts
<1> HIDE DEF a, n
<1>3. \A k \in 0..n : Tags(b, k) \in Seq(Tag) /\ Tags(a, k) = Tags(b, k)
  <2>1. ASSUME NEW k \in 0..n PROVE Tags(b, k) \in Seq(Tag)
    <3>1. k \in Nat /\ \A i \in 1..k : b[i].tag \in Tag
      BY <1>1, <1>2
    <3>2. Tags(b, k) \in [1..k -> Tag]
      BY <3>1 DEF Tags
    <3>3. QED
      BY <3>1, <3>2, SeqDef
  <2>2. ASSUME NEW k \in 0..n PROVE Tags(a, k) = Tags(b, k)
    BY <1>1 DEF Tags
  <2>3. QED
    BY <2>1, <2>2
<1>4. \A r \in Int : \A x \in Tag : DepthStep[<<r, x>>] \in Int
  BY DEF DepthStep, Tag
<1>5. \A k \in 0..n : DepthOf(b, k) \in Int
  <2> HIDE DEF DepthStep
  <2>1. ASSUME NEW k \in 0..n PROVE DepthOf(b, k) \in Int
    <3>1. Tags(b, k) \in Seq(Tag) /\ 0 \in Int
      BY <1>3
    <3>2. QED
      BY <1>4, <3>1, RunTyped DEF DepthOf
  <2>2. QED
    BY <2>1
<1>6. Tags(a, n + 1) = Append(Tags(b, n), t.tag)
  <2> DEFINE s == Tags(b, n)
             x == t.tag
  <2>1. s \in Seq(Tag) /\ x \in Tag /\ Len(s) = n
        /\ \A i \in 1..n : s[i] = b[i].tag
    <3>1. s \in Seq(Tag) /\ x \in Tag
      BY <1>1, <1>2, <1>3
    <3>2. DOMAIN s = 1..n /\ \A i \in 1..n : s[i] = b[i].tag
      BY DEF Tags
    <3> HIDE DEF s
    <3>3. QED
      BY <1>1, <3>1, <3>2, LenProperties
  <2> HIDE DEF s, x
  <2>2. /\ Append(s, x) \in Seq(Tag) /\ Len(Append(s, x)) = n + 1
        /\ \A i \in 1..n : Append(s, x)[i] = b[i].tag
        /\ Append(s, x)[n + 1] = x
    BY <2>1, AppendProperties
  <2> DEFINE u == Tags(a, n + 1)
  <2>3. /\ u = [i \in 1..n + 1 |-> a[i].tag]
        /\ \A i \in 1..n : u[i] = b[i].tag
        /\ u[n + 1] = x
    BY <1>1 DEF Tags, x
  <2>4. u \in Seq(Tag) /\ Len(u) = n + 1
    <3>1. \A i \in 1..n + 1 : a[i] \in Token
      BY <1>1
    <3>2. u \in [1..n + 1 -> Tag] /\ n + 1 \in Nat
      BY <1>1, <1>2, <2>3, <3>1
    <3>3. u \in Seq(Tag) /\ DOMAIN u = 1..n + 1
      BY <3>2, SeqDef
    <3> HIDE DEF u
    <3>4. QED
      BY <3>2, <3>3, LenProperties
  <2> HIDE DEF u
  <2>5. \A i \in 1..n + 1 : u[i] = Append(s, x)[i]
    <3>1. \A i \in 1..n + 1 : i \in 1..n \/ i = n + 1
      BY <1>1
    <3>2. QED
      BY <2>2, <2>3, <3>1
  <2>6. u = Append(s, x)
    BY <2>2, <2>4, <2>5, SeqEqual
  <2>7. QED
    BY <2>6 DEF u, s, x
<1>7. DepthOf(a, n + 1) = DepthStep[<<DepthOf(b, n), t.tag>>]
  <2>1. Tags(b, n) \in Seq(Tag) /\ t.tag \in Tag
    BY <1>1, <1>2, <1>3
  <2> DEFINE u == Tags(b, n)
             y == t.tag
  <2>2. u \in Seq(Tag) /\ y \in Tag /\ Tags(a, n + 1) = Append(u, y)
    BY <1>6, <2>1
  <2> HIDE DEF u, y, DepthStep
  <2>3. RunOver(DepthStep, 0, Append(u, y))
          = DepthStep[<<RunOver(DepthStep, 0, u), y>>]
    BY <2>2, OneStepMore
  <2>4. QED
    BY <2>2, <2>3 DEF DepthOf, u, y
<1>8. DepthOf(<<>>, 0) = 0
  <2>1. Tags(<<>>, 0) = <<>>
    BY EmptyFacts DEF Tags
  <2>2. QED
    BY <2>1, RunOfNone DEF DepthOf
<1>9. DepthOf(b, n) \in Int /\ t.tag \in Tag
  BY <1>1, <1>2, <1>5
<1>10. DepthOf(a, n + 1) =
         CASE t.tag = "begin" -> DepthOf(b, n) + 1
           [] t.tag = "end" -> DepthOf(b, n) - 1
           [] t.tag = "prop" -> DepthOf(b, n)
  BY <1>7, <1>9 DEF DepthStep
<1>11. \A k \in 0..n : DepthOf(a, k) = DepthOf(b, k)
  BY <1>3 DEF DepthOf
<1>12. QED
  BY <1>5, <1>8, <1>10, <1>11 DEF a, n

(* A block that can still become a conformant one.                         *)
PrefixOK(b, ns) ==
  /\ DistinctBelow(ns)
  /\ b # <<>> => b[1] = Begin("")
  /\ \A k \in 1..Len(b) - 1 : DepthOf(b, k) # 0
  /\ \A k \in 2..Len(b) :
       /\ b[k].tag = "begin" => b[k].name # ""
       /\ b[k].tag = "prop" => b[k - 1].tag \in {"begin", "prop"}

(* A block with one token more can become a conformant one only if it      *)
(* could before, and the token suits it.                                   *)
LEMMA PrefixFacts ==
  ASSUME NEW b \in Seq(Token), NEW t \in Token, NEW ns, NEW ms,
         DistinctBelow(ms) => DistinctBelow(ns), PrefixOK(Append(b, t), ms)
  PROVE  /\ PrefixOK(b, ns) /\ DistinctBelow(ms)
         /\ b = <<>> => t = Begin("")
         /\ b # <<>> => /\ DepthOf(b, Len(b)) # 0
                        /\ t.tag = "begin" => t.name # ""
                        /\ t.tag = "prop" => Last(b).tag \in {"begin", "prop"}
<1> DEFINE a == Append(b, t)
           n == Len(b)
<1>1. /\ n \in Nat /\ Len(a) = n + 1 /\ a[n + 1] = t /\ a # <<>>
      /\ \A i \in 1..n : a[i] = b[i]
  BY AppendProperties, LenProperties, AppendFacts
<1>2. \A k \in 0..n : DepthOf(a, k) = DepthOf(b, k)
  BY DepthFacts
<1>3. b = <<>> <=> n = 0
  BY EmptySeq
<1>4. Last(b) = b[n]
  BY DEF Last
<1> HIDE DEF a, n
<1>5. PrefixOK(a, ms)
  BY DEF a
<1>6. /\ DistinctBelow(ms) /\ a[1] = Begin("")
      /\ \A k \in 1..n : DepthOf(a, k) # 0
      /\ \A k \in 2..n + 1 :
           /\ a[k].tag = "begin" => a[k].name # ""
           /\ a[k].tag = "prop" => a[k - 1].tag \in {"begin", "prop"}
  <2>1. Len(a) - 1 = n /\ Len(a) = n + 1
    BY <1>1
  <2>2. /\ DistinctBelow(ms) /\ a[1] = Begin("")
        /\ \A k \in 1..Len(a) - 1 : DepthOf(a, k) # 0
        /\ \A k \in 2..Len(a) :
             /\ a[k].tag = "begin" => a[k].name # ""
             /\ a[k].tag = "prop" => a[k - 1].tag \in {"begin", "prop"}
    BY <1>1, <1>5, Zenon DEF PrefixOK
  <2>3. QED
    BY <2>1, <2>2, Zenon
<1>7. \A k \in 1..n : DepthOf(b, k) # 0
  <2>1. \A k \in 1..n : k \in 0..n
    BY <1>1
  <2>2. QED
    BY <1>2, <1>6, <2>1, Zenon
<1>8. \A k \in 2..n : /\ b[k].tag = "begin" => b[k].name # ""
                      /\ b[k].tag = "prop"
                           => b[k - 1].tag \in {"begin", "prop"}
  <2>1. \A k \in 2..n : k \in 2..n + 1 /\ a[k] = b[k] /\ a[k - 1] = b[k - 1]
    BY <1>1
  <2>2. QED
    BY <1>6, <2>1
<1>9. b # <<>> => b[1] = Begin("")
  <2>1. n # 0 => 1 \in 1..n
    BY <1>1
  <2>2. n # 0 => a[1] = b[1]
    BY <1>1, <2>1
  <2>3. QED
    BY <1>3, <1>6, <2>2, Zenon
<1>10. PrefixOK(b, ns)
  <2>1. Len(b) = n
    BY DEF n
  <2>2. \A k \in 1..n - 1 : k \in 1..n
    BY <1>1
  <2>3. QED
    BY <1>6, <1>7, <1>8, <1>9, <2>1, <2>2 DEF PrefixOK
<1>11. b = <<>> => t = Begin("")
  <2>1. n = 0 => a[1] = t
    BY <1>1
  <2>2. QED
    BY <1>3, <1>6, <2>1, Zenon
<1>12. ASSUME b # <<>>
       PROVE  /\ DepthOf(b, n) # 0
              /\ t.tag = "begin" => t.name # ""
              /\ t.tag = "prop" => Last(b).tag \in {"begin", "prop"}
  <2>1. n \in 1..n /\ n + 1 \in 2..n + 1 /\ (n + 1) - 1 = n
    BY <1>1, <1>3, <1>12
  <2>2. a[n + 1] = t /\ a[(n + 1) - 1] = Last(b)
    BY <1>1, <1>4, <2>1
  <2>3. QED
    BY <1>6, <1>7, <2>1, <2>2
<1>13. QED
  BY <1>6, <1>10, <1>11, <1>12 DEF n

(* What the nodes and properties say of the block while it is read: the    *)
(* text they would give is the text of the tokens, and then one closing    *)
(* line for each open node.                                                *)
Innermost(b, st, ns) ==
  b # <<>>
  /\ Last(b).tag \in {"begin", "prop"} => Children(ns, Path(st)) = <<>>
Levels(st) == \A k \in 1..Len(st) : Len(Path(SubSeq(st, 1, k))) = k - 1
TextSoFar(b, st, ns, ps) ==
  b # <<>> => Emit(ns, ps)[<<>>] = Cat(LinesOf(b), Closes(Len(st)))
Nothing(b, st, ns, ps) == b = <<>> => st = <<>> /\ ns = <<>> /\ ps = <<>>

TreeInv(b, st, ns, ps) ==
  PrefixOK(b, ns) => /\ Nothing(b, st, ns, ps)
                     /\ TextSoFar(b, st, ns, ps)
                     /\ Levels(st)
                     /\ OnPath(ns, Path(st))
                     /\ Innermost(b, st, ns)

(* The state of the parser, as far as it matters here.                     *)
Parsed(b, st, ns, ps) ==
  /\ b \in Seq(Token) /\ st \in Seq(Simple)
  /\ ns \in Seq(PlainPaths) /\ ps \in Seq(Property)
  /\ DepthOf(b, Len(b)) = Len(st)
  /\ Path(st) \in Known(ns) /\ Closed(ns)
  /\ \A i \in DOMAIN ps : ps[i].path \in Known(ns)

(* Below the root every open node has a name, so the path is one shorter   *)
(* than the stack.                                                         *)
LEMMA WholeStack ==
  ASSUME NEW st \in Seq(Simple), st # <<>>, Levels(st)
  PROVE  Len(st) \in Nat /\ Len(Path(st)) + 1 = Len(st)
<1>1. Len(st) \in Nat /\ Len(st) # 0 /\ SubSeq(st, 1, Len(st)) = st
  BY LenProperties, EmptySeq, SubSeqFull, Zenon
<1>2. Len(st) \in 1..Len(st)
  BY <1>1
<1>3. Len(Path(SubSeq(st, 1, Len(st)))) = Len(st) - 1
  BY <1>2 DEF Levels
<1>4. Path(st) \in Seq(Named)
  BY PlainPathOfAppend DEF PlainPaths
<1>5. Len(Path(st)) \in Nat
  BY <1>4, LenProperties
<1>6. Len(Path(st)) = Len(st) - 1
  BY <1>1, <1>3, Zenon
<1>7. QED
  BY <1>1, <1>5, <1>6

(* The text before the closing lines is known from the text so far.        *)
LEMMA TextGrows ==
  ASSUME NEW b \in Seq(Token), NEW st \in Seq(Simple),
         NEW ns, NEW ps, NEW ms, NEW qs,
         NEW L \in Seq(Line), b # <<>>, st # <<>>, Levels(st),
         TextSoFar(b, st, ns, ps), TextGrowsBy(ns, ps, ms, qs, Path(st), L)
  PROVE  Emit(ms, qs)[<<>>] = Cat(Cat(LinesOf(b), L), Closes(Len(st)))
<1> DEFINE n == Len(Path(st)) + 1
<1>1. n = Len(st) /\ n \in Nat
  BY WholeStack
<1> HIDE DEF n
<1>2. PICK Y \in Seq(Line) : /\ Emit(ns, ps)[<<>>] = Cat(Y, Closes(n))
                            /\ Emit(ms, qs)[<<>>] = Cat(Cat(Y, L), Closes(n))
  BY DEF TextGrowsBy, n
<1>3. Emit(ns, ps)[<<>>] = Cat(LinesOf(b), Closes(n))
  BY <1>1 DEF TextSoFar
<1>4. LinesOf(b) \in Seq(Line) /\ Closes(n) \in Seq(Line)
  <2>1. \A u \in Token : LineFun[u] \in Line
    BY LineOfFacts
  <2> HIDE DEF LineFun
  <2>2. LinesOf(b) \in Seq(Line)
    BY <2>1, MappedType DEF LinesOf
  <2>3. QED
    BY <1>1, <2>2, ClosesFacts
<1>5. Y = LinesOf(b)
  <2>1. Cat(Y, Closes(n)) = Cat(LinesOf(b), Closes(n))
    BY <1>2, <1>3
  <2>2. QED
    BY <1>4, <2>1, CancelRight
<1>6. QED
  BY <1>1, <1>2, <1>5

(* A property is read in the innermost open node.                          *)
LEMMA PropKeeps ==
  ASSUME NEW b, NEW st, NEW ns, NEW ps, Parsed(b, st, ns, ps),
         TreeInv(b, st, ns, ps),
         NEW name \in PropNames, NEW value \in Text
  PROVE  TreeInv(Append(b, Prop(name, value)), st, ns,
                 Append(ps, [path |-> Path(st), name |-> name, value |-> value]))
<1> DEFINE t == Prop(name, value)
           x == [path |-> Path(st), name |-> name, value |-> value]
           a == Append(b, t)
           qs == Append(ps, x)
<1>1. t \in Token /\ t.tag = "prop"
  BY TokenFacts
<1>2. /\ b \in Seq(Token) /\ st \in Seq(Simple)
      /\ ns \in Seq(PlainPaths) /\ ps \in Seq(Property)
      /\ DepthOf(b, Len(b)) = Len(st)
      /\ Path(st) \in Known(ns) /\ Closed(ns)
  BY DEF Parsed
<1>3. x \in Property /\ x.path = Path(st) /\ PropLineOf[x] = LineFun[t]
  <2>1. Path(st) \in Paths
    BY <1>2, KnownIsPaths, PlainPathsArePaths
  <2>2. x \in Property /\ x.path = Path(st) /\ x.name = name /\ x.value = value
    BY <2>1 DEF Property
  <2> HIDE DEF x
  <2>3. QED
    BY <2>2, LineOfFacts
<1>4. Begin("").tag = "begin"
  BY DEF Begin
<1> HIDE DEF t, x
<1> SUFFICES ASSUME PrefixOK(a, ns)
             PROVE  /\ Nothing(a, st, ns, qs) /\ TextSoFar(a, st, ns, qs)
                    /\ Levels(st) /\ OnPath(ns, Path(st))
                       /\ Innermost(a, st, ns)
  BY DEF TreeInv, t, x
<1>5. /\ PrefixOK(b, ns) /\ DistinctBelow(ns)
      /\ b = <<>> => t = Begin("")
      /\ b # <<>> => /\ DepthOf(b, Len(b)) # 0
                     /\ t.tag = "prop" => Last(b).tag \in {"begin", "prop"}
  BY <1>1, <1>2, PrefixFacts
<1>6. b # <<>> /\ Len(st) # 0 /\ Last(b).tag \in {"begin", "prop"}
  BY <1>1, <1>2, <1>4, <1>5
<1>7. /\ TextSoFar(b, st, ns, ps) /\ Levels(st) /\ OnPath(ns, Path(st))
      /\ Children(ns, Path(st)) = <<>>
  BY <1>5, <1>6 DEF TreeInv, Innermost
<1>8. st # <<>>
  BY <1>6, EmptyFacts
<1>9. TextGrowsBy(ns, ps, ns, qs, Path(st), <<LineFun[t]>>)
  BY <1>2, <1>3, <1>5, <1>7, PropertyAdded
<1>10. <<LineFun[t]>> \in Seq(Line)
  BY <1>1, LineOfFacts, SingleFacts
<1>11. Emit(ns, qs)[<<>>]
         = Cat(Cat(LinesOf(b), <<LineFun[t]>>), Closes(Len(st)))
  <2> DEFINE L == <<LineFun[t]>>
  <2>1. L \in Seq(Line) /\ TextGrowsBy(ns, ps, ns, qs, Path(st), L)
    BY <1>9, <1>10
  <2> HIDE DEF L, qs
  <2>2. Emit(ns, qs)[<<>>] = Cat(Cat(LinesOf(b), L), Closes(Len(st)))
    BY <1>2, <1>6, <1>7, <1>8, <2>1, TextGrows
  <2>3. QED
    BY <2>2 DEF L
<1>12. LinesOf(a) = Cat(LinesOf(b), <<LineFun[t]>>)
  BY <1>1, <1>2, LinesOfAppend
<1>13. a # <<>>
  BY <1>1, <1>2, AppendFacts
<1>14. TextSoFar(a, st, ns, qs)
  BY <1>11, <1>12 DEF TextSoFar
<1>15. Nothing(a, st, ns, qs)
  BY <1>13 DEF Nothing
<1>16. Innermost(a, st, ns)
  BY <1>7 DEF Innermost
<1>17. QED
  BY <1>7, <1>14, <1>15, <1>16

(* The innermost open node is closed.                                      *)
LEMMA CloseKeeps ==
  ASSUME NEW b, NEW st, NEW ns, NEW ps, Parsed(b, st, ns, ps),
         TreeInv(b, st, ns, ps),
         st # <<>>
  PROVE  TreeInv(Append(b, End), Front(st), ns, ps)
<1> DEFINE a == Append(b, End)
           su == Front(st)
<1>1. End \in Token /\ End.tag = "end" /\ LineFun[End] = CloseLine
  BY TokenFacts, LineOfFacts
<1>2. /\ b \in Seq(Token) /\ st \in Seq(Simple) /\ ns \in Seq(PlainPaths)
      /\ DepthOf(b, Len(b)) = Len(st)
  BY DEF Parsed
<1>3. Begin("").tag = "begin"
  BY DEF Begin
<1>4. Len(st) \in Nat \ {0} /\ 0 \in 0..Len(st) - 1
  BY <1>2, EmptySeq, LenProperties
<1>5. \A k \in 0..Len(st) - 1 : /\ su \in Seq(Simple)
      /\ Len(su) = Len(st) - 1
                                /\ SubSeq(su, 1, k) = SubSeq(st, 1, k)
  BY <1>2, FirstOfFront, Zenon
<1>6. su \in Seq(Simple) /\ Len(su) = Len(st) - 1
  BY <1>4, <1>5
<1>7. PICK s \in Seq(Simple), name \in Simple : st = Append(s, name)
  BY <1>2, SequenceEmptyOrAppend
<1>8. su = s
  BY <1>7, AppendFacts
<1> HIDE DEF su
<1> SUFFICES ASSUME PrefixOK(a, ns)
             PROVE  /\ Nothing(a, su, ns, ps) /\ TextSoFar(a, su, ns, ps)
                    /\ Levels(su) /\ OnPath(ns, Path(su))
                       /\ Innermost(a, su, ns)
  BY DEF TreeInv, su
<1>9. PrefixOK(b, ns) /\ (b = <<>> => End = Begin(""))
  BY <1>1, <1>2, PrefixFacts
<1>10. b # <<>>
  BY <1>1, <1>3, <1>9
<1>11. TextSoFar(b, st, ns, ps) /\ Levels(st) /\ OnPath(ns, Path(st))
  BY <1>9 DEF TreeInv
<1>12. a # <<>> /\ Last(a) = End
  BY <1>1, <1>2, AppendFacts
<1>13. Nothing(a, su, ns, ps) /\ Innermost(a, su, ns)
  BY <1>1, <1>12 DEF Nothing, Innermost
<1>14. Levels(su)
  <2>1. ASSUME NEW k \in 1..Len(su) PROVE Len(Path(SubSeq(su, 1, k))) = k - 1
    <3>1. k \in 0..Len(st) - 1 /\ k \in 1..Len(st)
      BY <1>4, <1>6
    <3>2. SubSeq(su, 1, k) = SubSeq(st, 1, k)
      BY <1>5, <3>1
    <3>3. QED
      BY <1>11, <3>1, <3>2 DEF Levels
  <2>2. QED
    BY <2>1 DEF Levels
<1>15. OnPath(ns, Path(su))
  <2>1. Path(su) \in PlainPaths /\ Path(st) \in PlainPaths
    BY <1>2, <1>6, PlainPathOfAppend DEF PlainPaths
  <2>2. Path(st) = IF name = "" THEN Path(su) ELSE Append(Path(su), name)
    BY <1>7, <1>8, PlainPathOfAppend
  <2>3. Under(Path(su), Path(st))
    <3>1. CASE name = ""
      BY <2>1, <2>2, <3>1, UnderFacts
    <3>2. CASE name # ""
      <4>1. name \in Named /\ Path(su) \in Seq(Named)
        BY <1>7, <2>1, <3>2 DEF Named, Simple, PlainPaths
      <4>2. Path(st) # <<>> /\ Front(Path(st)) = Path(su)
        <5>1. \A u \in Seq(Named) : \A y \in Named :
                Append(u, y) # <<>> /\ Front(Append(u, y)) = u
          BY AppendFacts
        <5>2. Path(st) = Append(Path(su), name)
          BY <2>2, <3>2
        <5>3. QED
          BY <4>1, <5>1, <5>2, Zenon
      <4>3. Under(Path(su), Front(Path(st)))
        BY <2>1, <4>2, UnderFacts
      <4>4. QED
        BY <2>1, <4>2, <4>3, UnderFront
    <3>3. QED
      BY <3>1, <3>2
  <2>4. ASSUME NEW q \in Known(ns), Under(q, Path(su)) PROVE Under(q, Path(st))
    <3>1. q \in PlainPaths
      BY <1>2, KnownIsPaths
    <3>2. QED
      BY <2>1, <2>3, <2>4, <3>1, UnderFacts
  <2>5. QED
    BY <1>11, <2>4 DEF OnPath
<1>16. TextSoFar(a, su, ns, ps)
  <2> DEFINE n == Len(su)
             one == <<CloseLine>>
             s1 == LinesOf(b)
             k1 == Closes(n)
  <2>1. n \in Nat /\ Len(st) = n + 1
    BY <1>4, <1>6
  <2> HIDE DEF n
  <2>2. k1 \in Seq(Line) /\ Closes(n + 1) = Cat(one, k1)
    BY <2>1, ClosesFacts
  <2>3. s1 \in Seq(Line) /\ LinesOf(a) = Cat(s1, one)
    BY <1>1, <1>2, LinesOfAppend
  <2>4. one \in Seq(Line)
    BY LinesAreLines, SingleFacts
  <2>5. Emit(ns, ps)[<<>>] = Cat(s1, Closes(n + 1))
    BY <1>10, <1>11, <2>1 DEF TextSoFar
  <2> HIDE DEF one, s1, k1
  <2>6. Emit(ns, ps)[<<>>] = Cat(Cat(s1, one), k1)
    BY <2>2, <2>3, <2>4, <2>5, CatAssociative
  <2>7. QED
    BY <2>3, <2>6 DEF TextSoFar, k1, n
<1>17. QED
  BY <1>13, <1>14, <1>15, <1>16

(* The first node is opened: the root.                                     *)
LEMMA RootOpened ==
  ASSUME NEW name \in Simple, Path(Append(<<>>, name)) = <<>>,
         LineFun[Begin(name)] = OpenLine(<<>>)
  PROVE  /\ TextSoFar(Append(<<>>, Begin(name)), Append(<<>>, name),
                      Append(<<>>, <<>>), <<>>)
         /\ Levels(Append(<<>>, name))
         /\ OnPath(Append(<<>>, <<>>), Path(Append(<<>>, name)))
         /\ Innermost(Append(<<>>, Begin(name)), Append(<<>>, name),
                      Append(<<>>, <<>>))
<1> DEFINE none == <<>>
           b == Append(none, Begin(name))
           s == Append(none, name)
           ns == Append(none, none)
<1>1. /\ none \in Seq(Token) /\ none \in Seq(Simple) /\ none \in PlainPaths
      /\ none \in Seq(PlainPaths) /\ none \in Seq(Property) /\ none \in Seq(Line)
      /\ Len(none) = 0 /\ ToSet(none) = {}
  BY EmptyFacts DEF PlainPaths
<1>2. /\ Path(none) = none /\ By(none, none) = none
         /\ Children(none, none) = none
      /\ Closes(1) = <<CloseLine>> /\ LinesOf(none) = none
      /\ Begin(name) \in Token /\ LineFun[Begin(name)] = OpenLine(none)
  <2>1. Begin(name) \in Token /\ LineFun[Begin(name)] = OpenLine(none)
    BY TokenFacts
  <2>2. LinesOf(none) = none
    BY <1>1, <2>1, LinesOfAppend
  <2>3. Closes(1) = <<CloseLine>>
    BY ClosesFacts
  <2>4. QED
    BY <2>1, <2>2, <2>3, PlainPathOfAppend, ByFacts, ChildrenFacts
<1>3. \A m : Known(m) = {none} \cup ToSet(m)
  BY DEF Known
<1>6. Path(s) = none
  OBVIOUS
<1>4. \A m \in Seq(PlainPaths) : Children(Append(m, none), none) = Children(m, none)
  <2>1. none \in PlainPaths /\ \A m \in Seq(PlainPaths) : \A p \in PlainPaths :
          Children(Append(m, p), none) =
            IF p # <<>> /\ Front(p) = none
            THEN Append(Children(m, none), p) ELSE Children(m, none)
    BY <1>1, ChildrenFacts
  <2>2. none = <<>>
    OBVIOUS
  <2> HIDE DEF none
  <2>3. QED
    BY <2>1, <2>2
<1> HIDE DEF none
<1>5. ns \in Seq(PlainPaths) /\ Known(ns) = {none}
  <2>1. \A m \in Seq(PlainPaths) : \A p \in PlainPaths :
          Append(m, p) \in Seq(PlainPaths)
          /\ ToSet(Append(m, p)) = ToSet(m) \cup {p}
    BY AppendFacts
  <2>2. ns \in Seq(PlainPaths) /\ ToSet(ns) = ToSet(none) \cup {none}
    BY <1>1, <2>1
  <2>3. QED
    BY <1>1, <1>3, <2>2
<1>7. s \in Seq(Simple) /\ Len(s) = 1 /\ SubSeq(s, 1, Len(s)) = s
  <2>1. s \in Seq(Simple) /\ Len(s) = Len(none) + 1
    BY <1>1, AppendProperties
  <2>2. SubSeq(s, 1, Len(s)) = s
    BY <2>1, SubSeqFull, Zenon
  <2>3. Len(s) = 1
    BY <1>1, <2>1
  <2>4. QED
    BY <2>1, <2>2, <2>3, Zenon
<1>8. Children(ns, none) = none
  BY <1>1, <1>2, <1>4
<1>9. LinesOf(b) = <<OpenLine(none)>>
  <2> DEFINE one == <<OpenLine(none)>>
  <2>1. one \in Seq(Line)
    BY <1>1, LinesAreLines, SingleFacts
  <2>2. LinesOf(b) = Cat(none, one)
    BY <1>1, <1>2, LinesOfAppend
  <2> HIDE DEF one
  <2>3. Cat(none, one) = one
    BY <2>1, CatFacts DEF none
  <2>4. QED
    BY <2>2, <2>3 DEF one
<1> HIDE DEF b, s, ns
<1>10. Emit(ns, none)[none] = Cat(<<OpenLine(none)>>, <<CloseLine>>)
  <2>1. Children(ns, none) = <<>> /\ By(none, none) = <<>>
        /\ none \in Known(ns)
    BY <1>2, <1>5, <1>8 DEF none
  <2>2. QED
    BY <1>1, <1>5, <2>1, LeafLines
<1>11. TextSoFar(b, s, ns, none)
  BY <1>2, <1>7, <1>9, <1>10 DEF TextSoFar, none
<1>12. Levels(s)
  <2>1. ASSUME NEW k \in 1..Len(s) PROVE Len(Path(SubSeq(s, 1, k))) = k - 1
    <3>1. k = 1 /\ k = Len(s)
      <4>1. Len(s) = 1
        BY <1>7
      <4>2. k \in 1..1
        BY <2>1, <4>1
      <4>3. QED
        BY <4>1, <4>2
    <3>2. Len(Path(SubSeq(s, 1, k))) = 0
      BY <1>1, <1>6, <1>7, <3>1, Zenon
    <3>3. k - 1 = 0
      BY <3>1
    <3>4. QED
      BY <3>2, <3>3, Zenon
  <2>2. QED
    BY <2>1 DEF Levels
<1>13. OnPath(ns, Path(s)) /\ Innermost(b, s, ns)
  BY <1>5, <1>6, <1>8 DEF OnPath, Innermost, none
<1>14. QED
  BY <1>11, <1>12, <1>13 DEF b, s, ns, none

(* A node is opened: the root, or a node in the innermost open one.        *)
LEMMA OpenKeeps ==
  ASSUME NEW b, NEW st, NEW ns, NEW ps, Parsed(b, st, ns, ps),
         TreeInv(b, st, ns, ps),
         NEW name \in Simple
  PROVE  TreeInv(Append(b, Begin(name)), Append(st, name),
                 Append(ns, Path(Append(st, name))), ps)
<1> DEFINE t == Begin(name)
           a == Append(b, t)
           su == Append(st, name)
           x == Path(su)
           ms == Append(ns, x)
           P == Path(st)
<1>1. /\ t \in Token /\ t.tag = "begin" /\ t.name = name
      /\ name = "" => LineFun[t] = OpenLine(<<>>)
      /\ name # "" => \A Q \in PlainPaths : LineFun[t] = OpenLine(Append(Q, name))
  BY TokenFacts, LineOfFacts
<1>2. /\ b \in Seq(Token) /\ st \in Seq(Simple)
      /\ ns \in Seq(PlainPaths) /\ ps \in Seq(Property)
      /\ DepthOf(b, Len(b)) = Len(st)
      /\ P \in Known(ns) /\ Closed(ns)
      /\ \A i \in DOMAIN ps : ps[i].path \in Known(ns)
  BY DEF Parsed
<1>3. t = Begin("") => name = ""
  BY DEF Begin
<1>4. /\ su \in Seq(Simple) /\ P \in Seq(Named) /\ x \in PlainPaths
      /\ name # "" => x = Append(P, name) /\ name \in Named
  <2>1. su \in Seq(Simple)
    BY <1>2, AppendProperties
  <2>2. P \in PlainPaths /\ x \in PlainPaths
    BY <1>2, <2>1, PlainPathOfAppend
  <2>3. name # "" => x = Append(P, name)
    BY <1>2, PlainPathOfAppend
  <2>4. QED
    BY <2>1, <2>2, <2>3 DEF PlainPaths, Named, Simple
<1> SUFFICES ASSUME PrefixOK(a, ms)
             PROVE  /\ Nothing(a, su, ms, ps) /\ TextSoFar(a, su, ms, ps)
                    /\ Levels(su) /\ OnPath(ms, x) /\ Innermost(a, su, ms)
  BY DEF TreeInv
<1> HIDE DEF t
<1>5. DistinctBelow(ms) => DistinctBelow(ns)
  BY <1>2, <1>4, DistinctBelowAppend
<1>6. /\ PrefixOK(b, ns) /\ DistinctBelow(ms)
      /\ b = <<>> => t = Begin("")
      /\ b # <<>> => /\ DepthOf(b, Len(b)) # 0
                     /\ t.tag = "begin" => t.name # ""
  <2> HIDE DEF ms
  <2>1. QED
    BY <1>1, <1>2, <1>5, PrefixFacts
<1>7. a # <<>>
  BY <1>1, <1>2, AppendFacts
<1>8. /\ Nothing(b, st, ns, ps) /\ TextSoFar(b, st, ns, ps)
      /\ Levels(st) /\ OnPath(ns, P)
  BY <1>6 DEF TreeInv
<1>9. CASE b = <<>>
  <2>1. name = "" /\ st = <<>> /\ ns = <<>> /\ ps = <<>>
    BY <1>3, <1>6, <1>8, <1>9 DEF Nothing
  <2>2. x = <<>>
    BY <1>2, <2>1, PlainPathOfAppend
  <2>3. LineFun[Begin(name)] = OpenLine(<<>>)
        /\ Path(Append(<<>>, name)) = <<>>
    BY <1>1, <2>1, <2>2 DEF t
  <2>4. a = Append(<<>>, Begin(name)) /\ su = Append(<<>>, name)
        /\ ms = Append(<<>>, <<>>)
    BY <1>9, <2>1, <2>2 DEF t
  <2> HIDE DEF a, su, ms
  <2>5. TextSoFar(a, su, ms, ps) /\ Levels(su) /\ OnPath(ms, Path(su))
        /\ Innermost(a, su, ms)
    BY <2>1, <2>3, <2>4, RootOpened
  <2>6. QED
    BY <1>7, <2>5 DEF Nothing
<1>10. CASE b # <<>>
  <2>1. name # "" /\ Len(st) # 0
    BY <1>1, <1>2, <1>6, <1>10
  <2>2. st # <<>>
    BY <2>1, EmptyFacts
  <2>3. x = Append(P, name) /\ name \in Named
    BY <1>4, <2>1
  <2>4. /\ Children(ms, x) = <<>> /\ OnPath(ms, x)
        /\ TextGrowsBy(ns, ps, ms, ps, P, Cat(<<OpenLine(x)>>, <<CloseLine>>))
    <3> HIDE DEF x, P
    <3>1. DistinctBelow(Append(ns, Append(P, name)))
      BY <1>6, <2>3
    <3>2. /\ Children(Append(ns, Append(P, name)), Append(P, name)) = <<>>
          /\ OnPath(Append(ns, Append(P, name)), Append(P, name))
          /\ TextGrowsBy(ns, ps, Append(ns, Append(P, name)), ps, P,
                         Cat(<<OpenLine(Append(P, name))>>, <<CloseLine>>))
      BY <1>2, <1>8, <2>3, <3>1, NodeAdded
    <3>3. QED
      BY <2>3, <3>2
  <2> DEFINE open == <<OpenLine(x)>>
             close == <<CloseLine>>
             n == Len(st)
  <2>5. open \in Seq(Line) /\ close \in Seq(Line)
    BY <1>4, LinesAreLines, SingleFacts
  <2>6. LineFun[t] = OpenLine(x)
    BY <1>1, <1>4, <2>1, <2>3 DEF PlainPaths
  <2>7. LinesOf(b) \in Seq(Line) /\ LinesOf(a) = Cat(LinesOf(b), open)
    BY <1>1, <1>2, <2>6, LinesOfAppend
  <2>8. n \in Nat /\ Len(su) = n + 1 /\ Len(P) + 1 = n /\ Len(x) = n
    <3>1. n \in Nat /\ Len(P) + 1 = n
      BY <1>2, <1>8, <2>2, WholeStack
    <3>2. Len(su) = n + 1
      BY <1>2, AppendProperties
    <3>3. Len(x) = Len(P) + 1
      <4>1. \A u \in Seq(Named) : \A y \in Named :
              Len(Append(u, y)) = Len(u) + 1
        BY AppendProperties
      <4>2. P \in Seq(Named)
        BY <1>4
      <4>3. QED
        BY <2>3, <4>1, <4>2, Zenon
    <3>4. QED
      BY <3>1, <3>2, <3>3
  <2> HIDE DEF ms, x, P, open, close
  <2>9. Emit(ms, ps)[<<>>] = Cat(Cat(LinesOf(b), Cat(open, close)), Closes(n))
    <3> DEFINE L == Cat(open, close)
    <3>1. L \in Seq(Line) /\ TextGrowsBy(ns, ps, ms, ps, Path(st), L)
      BY <2>4, <2>5, CatFacts DEF open, close, P
    <3> HIDE DEF L
    <3>2. Emit(ms, ps)[<<>>] = Cat(Cat(LinesOf(b), L), Closes(Len(st)))
      BY <1>2, <1>8, <1>10, <2>2, <3>1, TextGrows
    <3>3. QED
      BY <3>2 DEF L
  <2>10. TextSoFar(a, su, ms, ps)
    <3> DEFINE s1 == LinesOf(b)
               k1 == Closes(n)
    <3>1. k1 \in Seq(Line) /\ Closes(n + 1) = Cat(close, k1)
      BY <2>8, ClosesFacts DEF close
    <3>2. s1 \in Seq(Line)
      BY <2>7
    <3> HIDE DEF s1, k1
    <3>3. Cat(Cat(s1, Cat(open, close)), k1)
            = Cat(Cat(s1, open), Cat(close, k1))
      <4>1. Cat(Cat(s1, open), close) = Cat(s1, Cat(open, close))
        BY <2>5, <3>2, CatAssociative
      <4>2. Cat(s1, open) \in Seq(Line)
        BY <2>5, <3>2, CatFacts
      <4>3. Cat(Cat(Cat(s1, open), close), k1)
              = Cat(Cat(s1, open), Cat(close, k1))
        BY <2>5, <3>1, <4>2, CatAssociative
      <4>4. QED
        BY <4>1, <4>3
    <3>4. Emit(ms, ps)[<<>>] = Cat(Cat(s1, open), Closes(n + 1))
      BY <2>9, <3>1, <3>3 DEF s1, k1
    <3>5. QED
      BY <2>7, <2>8, <3>4 DEF TextSoFar, s1
  <2>11. Levels(su)
    <3>1. ASSUME NEW k \in 1..n + 1 PROVE Len(Path(SubSeq(su, 1, k))) = k - 1
      <4>1. CASE k \in 1..n
        <5>1. k \in 0..Len(st)
          BY <2>8, <4>1
        <5>2. SubSeq(su, 1, k) = SubSeq(st, 1, k)
          BY <1>2, <5>1, FirstOfAppend
        <5>3. QED
          BY <1>8, <4>1, <5>2 DEF Levels
      <4>2. CASE k = n + 1
        <5>1. SubSeq(su, 1, Len(su)) = su
          BY <1>4, SubSeqFull, Zenon
        <5>2. Len(Path(SubSeq(su, 1, k))) = n
          BY <2>8, <4>2, <5>1 DEF x
        <5>3. QED
          BY <2>8, <4>2, <5>2
      <4>3. QED
        BY <2>8, <4>1, <4>2
    <3>2. QED
      BY <2>8, <3>1 DEF Levels
  <2>12. Innermost(a, su, ms)
    BY <2>4 DEF Innermost, x
  <2>13. QED
    BY <1>7, <2>4, <2>10, <2>11, <2>12 DEF Nothing
<1>11. QED
  BY <1>9, <1>10

(* While a block without slashes is read, the text it would give so far is *)
(* known.                                                                  *)
PlainText ==
  /\ block \in Seq(Token)
  /\ outcome # "IndexError" => /\ DepthOf(block, Len(block)) = Len(stack)
                               /\ TreeInv(block, stack, nodes, props)

TextInv == FdtInv /\ (PlainNames => PlainText)

(* It holds before the first token.                                        *)
LEMMA TextInitInv == FdtInit => TextInv
<1> SUFFICES ASSUME FdtInit PROVE TextInv
  OBVIOUS
<1>1. stack = <<>> /\ nodes = <<>> /\ props = <<>> /\ block = <<>>
  BY DEF FdtInit
<1>2. \A B : <<>> \in Seq(B) /\ Len(<<>>) = 0 /\ ToSet(<<>>) = {}
  BY EmptyFacts
<1>3. <<>> \in Seq(Token) /\ <<>> \in Seq(Simple)
  BY <1>2
<1>4. DepthOf(<<>>, 0) = 0
  <2>1. End \in Token
    BY TokenFacts
  <2>2. QED
    BY <1>3, <2>1, DepthFacts
<1>5. Levels(<<>>)
  BY <1>2 DEF Levels
<1>6. OnPath(<<>>, Path(<<>>))
  BY <1>2 DEF OnPath, Known
<1>7. TreeInv(<<>>, <<>>, <<>>, <<>>)
  BY <1>5, <1>6 DEF TreeInv, Nothing, TextSoFar, Innermost
<1>8. QED
  BY <1>1, <1>2, <1>3, <1>4, <1>7, FdtInitInv DEF TextInv, PlainText

(* Every token keeps it.                                                   *)
LEMMA TextStepInv == TextInv /\ [FdtNext]_fdtVars => TextInv'
<1> SUFFICES ASSUME TextInv, [FdtNext]_fdtVars, PlainNames' PROVE PlainText'
  <2>1. ASSUME TextInv, [FdtNext]_fdtVars PROVE FdtInv'
    BY <2>1, FdtStepInv DEF TextInv
  <2>2. QED
    BY <2>1 DEF TextInv
<1>1. /\ FdtTypeOK /\ PlainInv /\ PlainText
      /\ \A name \in NodeNames : OpenNode(name) => name \in Simple
  <2>1. FdtTypeOK
    BY DEF TextInv, FdtInv
  <2>2. PlainNames /\ \A name \in NodeNames : OpenNode(name) => PlainName(name)
    BY <2>1, PlainStep
  <2>3. QED
    BY <2>1, <2>2 DEF TextInv, FdtInv, Simple
<1>2. block \in Seq(Token) /\ stack \in Seq(Simple)
  BY <1>1 DEF PlainText, PlainInv
<1>3. ASSUME outcome = "reading"
      PROVE  Parsed(block, stack, nodes, props)
             /\ TreeInv(block, stack, nodes, props)
  <2>1. DepthOf(block, Len(block)) = Len(stack)
        /\ TreeInv(block, stack, nodes, props)
    BY <1>1, <1>3 DEF PlainText
  <2>2. Path(stack) \in Known(nodes)
    BY <1>1, HereIsKnown
  <2>3. QED
    BY <1>1, <1>2, <2>1, <2>2
    DEF Parsed, PlainInv, FdtTypeOK, AboveInv, Closed
<1>4. ASSUME NEW t \in Token, block' = Append(block, t), outcome = "reading"
      PROVE  /\ block' \in Seq(Token)
             /\ DepthOf(block', Len(block')) =
                  CASE t.tag = "begin" -> Len(stack) + 1
                    [] t.tag = "end" -> Len(stack) - 1
                    [] t.tag = "prop" -> Len(stack)
  <2>1. Append(block, t) \in Seq(Token)
        /\ Len(Append(block, t)) = Len(block) + 1
    BY <1>2, AppendProperties
  <2>2. DepthOf(block, Len(block)) = Len(stack)
    BY <1>3, <1>4 DEF Parsed
  <2>3. DepthOf(Append(block, t), Len(block) + 1) =
          CASE t.tag = "begin" -> DepthOf(block, Len(block)) + 1
            [] t.tag = "end" -> DepthOf(block, Len(block)) - 1
            [] t.tag = "prop" -> DepthOf(block, Len(block))
    BY <1>2, DepthFacts
  <2>4. QED
    BY <1>4, <2>1, <2>2, <2>3
<1>5. ASSUME NEW name \in Simple, OpenNode(name) PROVE PlainText'
  <2>1. /\ outcome = "reading" /\ block' = Append(block, Begin(name))
        /\ stack' = Append(stack, name)
        /\ nodes' = Append(nodes, Path(Append(stack, name))) /\ props' = props
    BY <1>5 DEF OpenNode, Read
  <2>2. Begin(name) \in Token /\ Begin(name).tag = "begin"
    BY TokenFacts
  <2>3. Len(stack') = Len(stack) + 1
    BY <1>2, <2>1, AppendProperties
  <2>4. block' \in Seq(Token) /\ DepthOf(block', Len(block')) = Len(stack')
    BY <1>4, <2>1, <2>2, <2>3
  <2>5. TreeInv(Append(block, Begin(name)), Append(stack, name),
                Append(nodes, Path(Append(stack, name))), props)
    BY <1>3, <2>1, OpenKeeps
  <2>6. QED
    BY <1>1, <2>1, <2>4, <2>5 DEF PlainText
<1>6. ASSUME CloseNode PROVE PlainText'
  <2>1. /\ outcome = "reading" /\ block' = Append(block, End)
        /\ nodes' = nodes /\ props' = props
        /\ \/ outcome' = "IndexError"
           \/ stack # <<>> /\ stack' = Front(stack)
    BY <1>6 DEF CloseNode, Read
  <2>2. End \in Token /\ End.tag = "end"
    BY TokenFacts
  <2>3. /\ block' \in Seq(Token)
        /\ DepthOf(block', Len(block')) = Len(stack) - 1
    BY <1>4, <2>1, <2>2
  <2>4. CASE outcome' = "IndexError"
    BY <1>1, <2>3, <2>4 DEF PlainText
  <2>5. CASE stack # <<>> /\ stack' = Front(stack)
    <3>1. TreeInv(Append(block, End), Front(stack), nodes, props)
      BY <1>3, <2>1, <2>5, CloseKeeps
    <3>2. Len(Front(stack)) = Len(stack) - 1
      <4>1. Len(stack) \in Nat /\ Len(stack) # 0
        BY <1>2, <2>5, LenProperties, EmptySeq
      <4>2. 0 \in 0..Len(stack) - 1
        BY <4>1
      <4>3. QED
        BY <1>2, <2>5, <4>2, FirstOfFront, Zenon
    <3>3. QED
      BY <1>1, <2>1, <2>3, <2>5, <3>1, <3>2 DEF PlainText
  <2>6. QED
    BY <2>1, <2>4, <2>5
<1>7. ASSUME NEW value \in Values, NEW name \in PropNames,
             ReadProperty(name, value)
      PROVE  PlainText'
  <2> DEFINE x == [path |-> Path(stack), name |-> name, value |-> value]
  <2>1. /\ outcome = "reading" /\ block' = Append(block, Prop(name, value))
        /\ stack' = stack /\ nodes' = nodes /\ props' = Append(props, x)
    BY <1>7 DEF ReadProperty, Read
  <2>2. value \in Text
    BY ValuesAreText
  <2>3. Prop(name, value) \in Token /\ Prop(name, value).tag = "prop"
    BY <2>2, TokenFacts
  <2>4. block' \in Seq(Token) /\ DepthOf(block', Len(block')) = Len(stack)
    BY <1>4, <2>1, <2>3
  <2>5. TreeInv(Append(block, Prop(name, value)), stack, nodes, Append(props, x))
    BY <1>3, <2>1, <2>2, PropKeeps
  <2> HIDE DEF x
  <2>6. QED
    BY <1>1, <2>1, <2>4, <2>5 DEF PlainText
<1>8. ASSUME UNCHANGED <<stack, nodes, props, block>>,
             outcome' # "IndexError" => outcome # "IndexError"
      PROVE  PlainText'
  BY <1>1, <1>8 DEF PlainText
<1>9. CASE EndOfBlock
  BY <1>8, <1>9 DEF EndOfBlock
<1>10. CASE Reject
  BY <1>8, <1>10 DEF Reject
<1>11. CASE UNCHANGED fdtVars
  BY <1>8, <1>11 DEF fdtVars
<1>12. QED
  BY <1>1, <1>5, <1>6, <1>7, <1>9, <1>10, <1>11
  DEF FdtNext, Nop, BadName, BadToken

(* render(): for every conformant block (no name in it holds a slash), of  *)
(* any size, the text has one line for each token, in the order of the     *)
(* block.                                                                  *)
THEOREM TextIsTheTree == FdtSpec => []RenderIsTheTree
<1>1. TextInv => RenderIsTheTree
  <2> SUFFICES ASSUME TextInv, outcome = "parsed", Conformant
               PROVE  Render = [k \in DOMAIN block |-> LineOf(block[k])]
    BY DEF RenderIsTheTree
  <2>1. /\ block \in Seq(Token) /\ DepthOf(block, Len(block)) = Len(stack)
        /\ TreeInv(block, stack, nodes, props)
    BY DEF TextInv, PlainText, Conformant
  <2>2. /\ block # <<>> /\ block[1] = Begin("") /\ DistinctBelow(nodes)
        /\ \A k \in DOMAIN block : DepthOf(block, k) = 0 <=> k = Len(block)
        /\ \A k \in DOMAIN block \ {1} :
             /\ block[k].tag = "begin" => block[k].name # ""
             /\ block[k].tag = "prop" => block[k - 1].tag \in {"begin", "prop"}
    BY DEF Conformant, DistinctPaths, DistinctBelow, Depth, DepthOf, Tags
  <2>3. DOMAIN block = 1..Len(block) /\ Len(block) \in Nat \ {0}
    BY <2>1, <2>2, LenProperties, EmptySeq
  <2>4. PrefixOK(block, nodes)
    <3> DEFINE n == Len(block)
    <3>1. \A k \in 1..n - 1 : k \in 1..n /\ k # n
      <4>1. n \in Nat
        BY <2>3
      <4> HIDE DEF n
      <4>2. QED
        BY <4>1
    <3>2. \A k \in 1..Len(block) - 1 : DepthOf(block, k) # 0
      BY <2>2, <2>3, <3>1
    <3>3. \A k \in 2..Len(block) : k \in DOMAIN block \ {1}
      BY <2>3
    <3>4. QED
      BY <2>2, <3>2, <3>3 DEF PrefixOK
  <2>5. Len(stack) = 0
    <3>1. Len(block) \in DOMAIN block
      <4> DEFINE n == Len(block)
      <4>1. n \in Nat \ {0} /\ DOMAIN block = 1..n
        BY <2>3
      <4> HIDE DEF n
      <4>2. n \in DOMAIN block
        BY <4>1
      <4>3. QED
        BY <4>2 DEF n
    <3>2. QED
      BY <2>1, <2>2, <3>1, Zenon
  <2>6. Render = Cat(LinesOf(block), Closes(0))
    BY <2>1, <2>2, <2>4, <2>5 DEF TreeInv, TextSoFar, Render
  <2>7. Render = LinesOf(block)
    <3>1. End \in Token /\ Closes(0) = <<>>
      BY TokenFacts, ClosesFacts
    <3>2. LinesOf(block) \in Seq(Line)
      BY <2>1, <3>1, LinesOfAppend
    <3>3. QED
      BY <2>6, <3>1, <3>2, CatFacts
  <2>8. \A k \in DOMAIN block : LineFun[block[k]] = LineOf(block[k])
    <3>1. \A k \in DOMAIN block : block[k] \in Token
      BY <2>1, <2>3, ElementOfSeq
    <3>2. QED
      BY <3>1 DEF LineFun
  <2>9. QED
    BY <2>7, <2>8 DEF LinesOf, Mapped
<1>2. QED
  BY <1>1, TextInitInv, TextStepInv, PTL DEF FdtSpec
=============================================================================
