--------------------------- MODULE CallScanProofs ---------------------------
(***************************************************************************)
(* The two scans, for any image, symbols, bases and width of the offset.   *)
(* The invariant says that whatever was counted or linked so far is what   *)
(* the words met so far hold, that is the words from the first start up to *)
(* pos.  It rests on the cut: the pieces between the starts follow each    *)
(* other without gap or overlap, so that the last start up to a word is    *)
(* the function the scan is in, and the owner of a target is the last      *)
(* start up to it.                                                         *)
(***************************************************************************)
EXTENDS CallScan, FiniteSetTheorems, WellFoundedInduction, TLAPS

(* How far either tool has come.                                           *)
CountedTo == IF tool = "executable" THEN pos ELSE limit
LinkedTo == IF tool = "executable" THEN 0
            ELSE IF tool = "graph" THEN pos ELSE limit

(* The image is cut at symbols of some kind, and the scan is in a piece.   *)
ScanTypeOK ==
  /\ image \in [ImageWords -> Word]
  /\ symbols \subseteq Addresses \X Kinds /\ <<Stext, Text>> \in symbols
  /\ tool \in {"executable", "graph", "done"}
  /\ tool # "done" => function \in Funcs /\ pos \in function..EndOf(function)

CountInv ==
  /\ counts = CountsBefore(Starts(Kinds, TextBase), CountedTo)
  /\ callers = CallersBefore(Starts(Kinds, TextBase), CountedTo)

LinkInv == edges = EdgesBefore(Starts({Text}, FixedBase), LinkedTo)

PrintInv ==
  tool = "done" =>
    printed = [functions |-> Cardinality(Starts({Text}, FixedBase)),
               callers |-> Cardinality({edge[2] : edge \in edges})]

-----------------------------------------------------------------------------
(* A set of numbers that is not empty has a least one.                     *)
LEMMA LeastNumber ==
  ASSUME NEW S, S \subseteq Nat, S # {}
  PROVE  \E x \in S : \A y \in S : x <= y
<1>1. IsWellFoundedOn(OpToRel(<, Nat), Nat)
  BY NatLessThanWellFounded
<1>2. PICK x \in S : \A y \in S : ~(<<y, x>> \in OpToRel(<, Nat))
  BY <1>1, WFMin
<1>3. ASSUME NEW y \in S PROVE x <= y
  <2>1. <<y, x>> \notin OpToRel(<, Nat)
    BY <1>2
  <2>2. ~(y < x)
    BY <2>1 DEF OpToRel
  <2>3. QED BY <2>2
<1>4. QED BY <1>3

LEMMA MinOfNumbers ==
  ASSUME NEW S, S \subseteq Nat, S # {}
  PROVE  Min(S) \in S /\ \A y \in S : Min(S) <= y
  BY LeastNumber DEF Min

(* A set of numbers with a bound has a greatest: the least distance to it. *)
LEMMA MaxOfNumbers ==
  ASSUME NEW S, S \subseteq Nat, S # {}, NEW bound \in Nat,
         \A x \in S : x <= bound
  PROVE  Max(S) \in S /\ \A y \in S : y <= Max(S)
<1> DEFINE D == {bound - x : x \in S}
<1>0. PICK x0 \in S : TRUE
  OBVIOUS
<1>1. D \subseteq Nat /\ D # {}
  <2>1. ASSUME NEW d \in D PROVE d \in Nat
    <3>1. PICK x \in S : d = bound - x
      BY <2>1
    <3>2. x \in Nat /\ x <= bound
      OBVIOUS
    <3>3. QED
      BY <3>1, <3>2
  <2>2. bound - x0 \in D
    BY <1>0
  <2>3. QED
    BY <2>1, <2>2
<1>2. PICK d \in D : \A e \in D : d <= e
  BY <1>1, LeastNumber
<1>3. PICK x \in S : d = bound - x
  OBVIOUS
<1>4. \A y \in S : bound - x <= bound - y
  BY <1>2, <1>3
<1>5. \A y \in S : y <= x
  BY <1>4
<1>6. QED
  BY <1>5 DEF Max

-----------------------------------------------------------------------------
(* The starts of either tool: inside the image, and _stext is one of them. *)
LEMMA StartsInImage ==
  ASSUME ScanTypeOK, NEW kinds, Text \in kinds,
         NEW base \in {TextBase, FixedBase}
  PROVE  Starts(kinds, base) \subseteq ImageWords /\ Starts(kinds, base) # {}
<1>1. Stext - base \in ImageWords
  BY ScanAssumption DEF TextBase, ImageWords, limit
<1>2. <<Stext, Text>> \in {t \in symbols : t[2] \in kinds}
  BY DEF ScanTypeOK
<1>3. Stext - base \in Starts(kinds, base)
  BY <1>1, <1>2 DEF Starts
<1>4. QED
  BY <1>3 DEF Starts

LEMMA FuncsInImage ==
  ASSUME ScanTypeOK
  PROVE  Funcs \subseteq ImageWords /\ Funcs # {}
  BY StartsInImage DEF Funcs, Kept, Base

LEMMA ImageIsFinite == limit \in Nat /\ ImageWords \subseteq Nat
  /\ IsFiniteSet(ImageWords)
  BY ScanAssumption, FS_Interval DEF limit, ImageWords

(* The first start.                                                        *)
LEMMA FirstStart ==
  ASSUME NEW starts, starts \subseteq ImageWords, starts # {}
  PROVE  Min(starts) \in starts /\ \A g \in starts : Min(starts) <= g
  BY ImageIsFinite, MinOfNumbers

(* The last start up to a word, for every word from the first start on.    *)
LEMMA LastStart ==
  ASSUME NEW starts, starts \subseteq ImageWords, NEW x \in Int,
         \E f \in starts : f <= x
  PROVE  /\ LastUpTo(starts, x) \in starts /\ LastUpTo(starts, x) <= x
         /\ \A g \in starts : g <= x => g <= LastUpTo(starts, x)
<1> DEFINE S == {f \in starts : f <= x}
<1>0. PICK f \in starts : f <= x
  OBVIOUS
<1>1. S \subseteq Nat /\ f \in S
  BY <1>0, ImageIsFinite
<1> HIDE DEF S
<1>2. Max(S) \in S /\ \A y \in S : y <= Max(S)
  <2>1. x \in Nat
    BY <1>0, <1>1 DEF S
  <2>2. \A y \in S : y <= x
    BY DEF S
  <2>3. QED
    BY <1>1, <2>1, <2>2, MaxOfNumbers
<1>3. LastUpTo(starts, x) = Max(S)
  BY DEF LastUpTo, S
<1>4. QED
  BY <1>2, <1>3 DEF S

(* A piece ends at the next start or at the end of the image.              *)
LEMMA NextStart ==
  ASSUME NEW starts, starts \subseteq ImageWords, NEW f \in starts, NEW e,
         e = Min({limit} \cup {g \in starts : g > f})
  PROVE  /\ e \in {limit} \cup starts
         /\ e \in Nat /\ f < e /\ e <= limit
         /\ \A g \in starts : f < g => e <= g
<1> DEFINE S == {limit} \cup {g \in starts : g > f}
<1>1. limit \in S /\ f < limit
  BY ImageIsFinite DEF ImageWords
<1>2. S \subseteq Nat
  BY ImageIsFinite
<1>3. e = Min(S)
  OBVIOUS
<1> HIDE DEF S
<1>4. e \in S /\ \A y \in S : e <= y
  BY <1>1, <1>2, <1>3, MinOfNumbers
<1>5. e = limit \/ (e \in starts /\ e > f)
  BY <1>4 DEF S
<1>6. \A g \in starts : f < g => g \in S
  BY ImageIsFinite DEF S
<1>7. QED
  BY <1>1, <1>2, <1>4, <1>5, <1>6, ImageIsFinite

LEMMA EndOfPiece ==
  ASSUME Funcs \subseteq ImageWords, NEW f \in Funcs
  PROVE  /\ EndOf(f) \in {limit} \cup Funcs
         /\ EndOf(f) \in Nat /\ f < EndOf(f) /\ EndOf(f) <= limit
         /\ \A g \in Funcs : f < g => EndOf(f) <= g
  BY NextStart DEF EndOf

(* No gap and no overlap: a word belongs to the piece of the last start    *)
(* up to it, and to no other.                                              *)
LEMMA PieceOfWord ==
  ASSUME Funcs \subseteq ImageWords, NEW f \in Funcs, NEW x \in Int,
         f <= x, x < EndOf(f)
  PROVE  LastUpTo(Funcs, x) = f
<1> DEFINE g == LastUpTo(Funcs, x)
<1>1. g \in Funcs /\ g <= x /\ f <= g
  BY LastStart
<1> HIDE DEF g
<1>2. f \in Nat /\ g \in Nat
  BY <1>1, ImageIsFinite
<1>3. EndOf(f) \in Nat /\ (f < g => EndOf(f) <= g)
  BY <1>1, EndOfPiece
<1>4. f = g
  BY <1>1, <1>2, <1>3
<1>5. QED
  BY <1>4 DEF g

(* What bisect_right and the test find: the last start up to the target,   *)
(* if the target lies between the first start and the end of the image.    *)
LEMMA OwnerOfTarget ==
  ASSUME Funcs \subseteq ImageWords, Funcs # {}, NEW x \in Int
  PROVE  Owner(x) = IF x \in Min(Funcs)..(limit - 1) THEN {LastUpTo(Funcs, x)}
                    ELSE {}
<1>1. Min(Funcs) \in Funcs /\ Min(Funcs) \in Nat
      /\ \A g \in Funcs : Min(Funcs) <= g
  BY FirstStart, ImageIsFinite
<1>2. CASE x \in Min(Funcs)..(limit - 1)
  <2> DEFINE f == LastUpTo(Funcs, x)
  <2>1. f \in Funcs /\ f <= x /\ \A g \in Funcs : g <= x => g <= f
    BY <1>1, <1>2, LastStart
  <2> HIDE DEF f
  <2>2. x < EndOf(f)
    <3>1. EndOf(f) \in {limit} \cup Funcs /\ EndOf(f) \in Nat /\ f < EndOf(f)
      BY <2>1, EndOfPiece
    <3>2. EndOf(f) # limit => ~(EndOf(f) <= x)
      BY <2>1, <3>1, ImageIsFinite
    <3>3. QED
      BY <1>2, <3>1, <3>2, ImageIsFinite
  <2>3. \A g \in Funcs : g <= x /\ x < EndOf(g) => g = f
    BY PieceOfWord DEF f
  <2>4. Owner(x) = {f}
    BY <2>1, <2>2, <2>3 DEF Owner
  <2>5. QED
    BY <1>2, <2>4 DEF f
<1>3. CASE x \notin Min(Funcs)..(limit - 1)
  <2>1. ASSUME NEW g \in Funcs PROVE ~(g <= x /\ x < EndOf(g))
    <3>1. EndOf(g) \in Nat /\ EndOf(g) <= limit /\ Min(Funcs) <= g /\ g \in Nat
      BY <1>1, EndOfPiece, ImageIsFinite
    <3>2. QED
      BY <1>1, <1>3, <3>1, ImageIsFinite
  <2>2. QED
    BY <1>3, <2>1 DEF Owner
<1>4. QED
  BY <1>2, <1>3
-----------------------------------------------------------------------------
(* The signed value of the offset is the one number of the range that is   *)
(* congruent to it.                                                        *)
LEMMA SignedIsTheOffset ==
  ASSUME NEW imm \in Imm, NEW d \in -SignBit..(SignBit - 1)
  PROVE  (d - imm) % ImmRange = 0 <=> d = Signed(imm)
<1>1. SignBit \in Nat \ {0} /\ ImmRange = 2 * SignBit /\ ImmRange \in Nat \ {0}
  BY ScanAssumption DEF ImmRange
<1>2. imm \in 0..(ImmRange - 1)
  BY DEF Imm
<1>3. d - imm \in Int /\ d - imm < ImmRange /\ d - imm > -(2 * ImmRange)
  BY <1>1, <1>2
<1>4. (d - imm) % ImmRange = 0 <=> d - imm = 0 \/ d - imm = -ImmRange
  BY <1>1, <1>3
<1>5. QED
  BY <1>1, <1>2, <1>4 DEF Signed

(* The target the tools compute is where the call goes.                    *)
LEMMA TargetIsDestination ==
  ASSUME ScanTypeOK, NEW p \in ImageWords
  PROVE  Destination(p) = Target(p) /\ Target(p) \in Int
<1> DEFINE imm == image[p].imm
<1>1. imm \in Imm
  <2>1. 0 \in Imm
    BY ScanAssumption DEF Imm, ImmRange
  <2>2. image[p] \in Word
    BY DEF ScanTypeOK
  <2>3. QED
    BY <2>1, <2>2 DEF Word
<1> HIDE DEF imm
<1>2. Signed(imm) \in -SignBit..(SignBit - 1)
  BY <1>1, ScanAssumption DEF Imm, ImmRange, Signed
<1>3. (CHOOSE d \in -SignBit..(SignBit - 1) : (d - imm) % ImmRange = 0)
        = Signed(imm)
  <2>1. \A d \in -SignBit..(SignBit - 1) : (d - imm) % ImmRange = 0
                                             <=> d = Signed(imm)
    BY <1>1, SignedIsTheOffset
  <2>2. QED
    BY <1>2, <2>1
<1>4. Destination(p) = p + Signed(imm) /\ Target(p) = p + Signed(imm)
  BY <1>3 DEF Destination, Target, imm
<1>5. Signed(imm) \in Int /\ p \in Int
  BY <1>2, ScanAssumption DEF ImageWords
<1>6. QED
  BY <1>4, <1>5

(* Nothing a word holds changes when neither the image nor the symbols do. *)
LEMMA SameImage ==
  ASSUME UNCHANGED <<image, symbols>>
  PROVE  /\ \A kinds, base : Starts(kinds, base)' = Starts(kinds, base)
         /\ \A starts, end :
            /\ CountsBefore(starts, end)' = CountsBefore(starts, end)
                             /\ CallersBefore(starts, end)'
                                  = CallersBefore(starts, end)
                             /\ EdgesBefore(starts, end)'
                                  = EdgesBefore(starts, end)
<1>1. \A kinds, base : Starts(kinds, base)' = Starts(kinds, base)
  BY DEF Starts
<1>2. \A p : Destination(p)' = Destination(p)
  BY DEF Destination
<1>3. Calls' = Calls
  BY DEF Calls, IsCall
<1>4. ASSUME NEW starts, NEW end
      PROVE  /\ CountsBefore(starts, end)' = CountsBefore(starts, end)
             /\ CallersBefore(starts, end)' = CallersBefore(starts, end)
             /\ EdgesBefore(starts, end)' = EdgesBefore(starts, end)
  <2>1. CallsBefore(starts, end)' = CallsBefore(starts, end)
    BY <1>3 DEF CallsBefore
  <2>2. MappedBefore(starts, end)' = MappedBefore(starts, end)
    BY <1>2, <2>1 DEF MappedBefore
  <2>3. ExactBefore(starts, end)' = ExactBefore(starts, end)
    BY <1>2, <2>1 DEF ExactBefore
  <2>4. BlrBefore(starts, end)' = BlrBefore(starts, end)
    BY DEF BlrBefore
  <2>5. CountsBefore(starts, end)' = CountsBefore(starts, end)
    BY <2>1, <2>2, <2>3, <2>4 DEF CountsBefore
  <2>6. CallersBefore(starts, end)' = CallersBefore(starts, end)
    BY <2>2, <2>3 DEF CallersBefore
  <2>7. EdgesBefore(starts, end)' = EdgesBefore(starts, end)
    BY <1>2, <2>2 DEF EdgesBefore
  <2>8. QED
    BY <2>5, <2>6, <2>7
<1>5. QED
  BY <1>1, <1>4

(* Nothing lies before the first start.                                    *)
LEMMA NothingBefore ==
  ASSUME NEW starts, NEW end, end <= Min(starts), Min(starts) \in Nat,
         end \in Nat
  PROVE  /\ CountsBefore(starts, end) = NoCounts
         /\ CallersBefore(starts, end) = [all |-> {}, exact |-> {}]
         /\ EdgesBefore(starts, end) = {}
<1>0. \A p \in ImageWords : ~(Min(starts) <= p /\ p < end)
  BY ImageIsFinite
<1>1. CallsBefore(starts, end) = {} /\ BlrBefore(starts, end) = {}
  BY <1>0 DEF CallsBefore, BlrBefore, Calls
<1>2. MappedBefore(starts, end) = {} /\ ExactBefore(starts, end) = {}
  BY <1>1 DEF MappedBefore, ExactBefore
<1>3. Cardinality({}) = 0
  BY FS_EmptySet
<1>4. QED
  BY <1>1, <1>2, <1>3
     DEF CountsBefore, CallersBefore, EdgesBefore, NoCounts

(* One word more: it is in the sets that its contents put it in.           *)
LEMMA OneWordMore ==
  ASSUME NEW starts, NEW n \in ImageWords, Min(starts) \in Nat,
         Min(starts) <= n
  PROVE  /\ CallsBefore(starts, n + 1) =
              CallsBefore(starts, n) \cup (IF IsCall(n) THEN {n} ELSE {})
         /\ BlrBefore(starts, n + 1) =
              BlrBefore(starts, n) \cup (IF image[n].op = "blr" THEN {n} ELSE {})
         /\ MappedBefore(starts, n + 1) =
              MappedBefore(starts, n) \cup
                (IF IsCall(n) /\ Destination(n) \in Min(starts)..(limit - 1)
                 THEN {n} ELSE {})
         /\ ExactBefore(starts, n + 1) =
              ExactBefore(starts, n) \cup
                (IF IsCall(n) /\ Destination(n) \in starts THEN {n} ELSE {})
<1>1. \A p \in ImageWords : p < n + 1 <=> p < n \/ p = n
  BY ImageIsFinite
<1>2. CallsBefore(starts, n + 1) =
        CallsBefore(starts, n) \cup (IF IsCall(n) THEN {n} ELSE {})
  BY <1>1 DEF CallsBefore, Calls
<1>3. BlrBefore(starts, n + 1) =
        BlrBefore(starts, n) \cup (IF image[n].op = "blr" THEN {n} ELSE {})
  BY <1>1 DEF BlrBefore
<1>4. MappedBefore(starts, n + 1) =
        MappedBefore(starts, n) \cup
          (IF IsCall(n) /\ Destination(n) \in Min(starts)..(limit - 1)
           THEN {n} ELSE {})
  BY <1>2 DEF MappedBefore
<1>5. ExactBefore(starts, n + 1) =
        ExactBefore(starts, n) \cup
          (IF IsCall(n) /\ Destination(n) \in starts THEN {n} ELSE {})
  BY <1>2 DEF ExactBefore
<1>6. QED
  BY <1>2, <1>3, <1>4, <1>5

(* and is counted once.                                                    *)
LEMMA CountedOnce ==
  ASSUME NEW S, S \subseteq ImageWords, NEW n \in ImageWords, n \notin S,
         NEW condition \in BOOLEAN
  PROVE  Cardinality(S \cup (IF condition THEN {n} ELSE {})) =
           Cardinality(S) + One(condition)
<1>1. IsFiniteSet(S) /\ Cardinality(S) \in Nat
  BY ImageIsFinite, FS_Subset, FS_CardinalityType
<1>2. CASE condition
  BY <1>1, <1>2, FS_AddElement DEF One
<1>3. CASE ~condition
  <2>1. S \cup {} = S
    OBVIOUS
  <2>2. QED
    BY <1>1, <1>3, <2>1 DEF One
<1>4. QED
  BY <1>2, <1>3

-----------------------------------------------------------------------------
(* The word that is scanned lies in the function that is scanned, and a    *)
(* call in it has an owner exactly if it stays inside.                     *)
LEMMA WordIsMet ==
  ASSUME ScanTypeOK, tool # "done", pos < EndOf(function)
  PROVE  /\ pos \in ImageWords /\ Min(Funcs) \in Nat /\ Min(Funcs) <= pos
         /\ LastUpTo(Funcs, pos) = function
         /\ Destination(pos) = Target(pos)
         /\ Owner(Target(pos)) =
              IF Destination(pos) \in Min(Funcs)..(limit - 1)
              THEN {LastUpTo(Funcs, Destination(pos))} ELSE {}
<1>1. Funcs \subseteq ImageWords /\ Funcs # {}
  BY FuncsInImage
<1>2. function \in Funcs /\ pos \in function..EndOf(function)
  BY DEF ScanTypeOK
<1>3. Min(Funcs) \in Funcs /\ Min(Funcs) <= function
  BY <1>1, <1>2, FirstStart
<1>4. Min(Funcs) \in Nat /\ function \in Nat
  BY <1>1, <1>2, <1>3, ImageIsFinite
<1>5. EndOf(function) \in Nat /\ EndOf(function) <= limit
  BY <1>1, <1>2, EndOfPiece
<1>6. pos \in ImageWords /\ pos \in Int /\ function <= pos /\ Min(Funcs) <= pos
  BY <1>2, <1>3, <1>4, <1>5, ImageIsFinite DEF ImageWords
<1>7. LastUpTo(Funcs, pos) = function
  BY <1>1, <1>2, <1>6, PieceOfWord
<1>8. Destination(pos) = Target(pos) /\ Target(pos) \in Int
  BY <1>6, TargetIsDestination
<1>9. QED
  BY <1>1, <1>4, <1>6, <1>7, <1>8, OwnerOfTarget

(* The body of the first loop adds what the word holds.                    *)
LEMMA CountAddsTheWord ==
  ASSUME ScanTypeOK, CountInv, tool = "executable", pos < EndOf(function),
         Count
  PROVE  /\ counts' = CountsBefore(Funcs, pos + 1)
         /\ callers' = CallersBefore(Funcs, pos + 1)
<1> DEFINE call == IsCall(pos)
           mapped == call /\ Destination(pos) \in Min(Funcs)..(limit - 1)
           exact == call /\ Destination(pos) \in Funcs
           blr == image[pos].op = "blr"
           W(condition) == IF condition THEN {pos} ELSE {}
<1>1. /\ pos \in ImageWords /\ Min(Funcs) \in Nat /\ Min(Funcs) <= pos
      /\ LastUpTo(Funcs, pos) = function
      /\ Destination(pos) = Target(pos)
      /\ Owner(Target(pos)) =
           IF Destination(pos) \in Min(Funcs)..(limit - 1)
           THEN {LastUpTo(Funcs, Destination(pos))} ELSE {}
  BY WordIsMet
<1>2. counts = CountsBefore(Funcs, pos) /\ callers = CallersBefore(Funcs, pos)
  BY DEF CountInv, CountedTo, Funcs, Kept, Kinds, Base
<1>3. (Owner(Target(pos)) # {}) <=> Destination(pos) \in Min(Funcs)..(limit - 1)
  BY <1>1
<1>4. /\ counts'
           = [bl |-> counts.bl + One(call), mapped |-> counts.mapped + One(mapped),
              exact |-> counts.exact + One(exact),
              blr |-> counts.blr + One(blr)]
      /\ callers'
           = [all |-> callers.all \cup (IF mapped THEN {function} ELSE {}),
              exact |-> callers.exact \cup (IF exact THEN {function} ELSE {})]
  BY <1>1, <1>3 DEF Count
<1>5. /\ CallsBefore(Funcs, pos + 1) = CallsBefore(Funcs, pos) \cup W(call)
      /\ BlrBefore(Funcs, pos + 1) = BlrBefore(Funcs, pos) \cup W(blr)
      /\ MappedBefore(Funcs, pos + 1) = MappedBefore(Funcs, pos) \cup W(mapped)
      /\ ExactBefore(Funcs, pos + 1) = ExactBefore(Funcs, pos) \cup W(exact)
  BY <1>1, OneWordMore
<1>6. /\ CallsBefore(Funcs, pos) \subseteq ImageWords
         /\ pos \notin CallsBefore(Funcs, pos)
      /\ BlrBefore(Funcs, pos) \subseteq ImageWords
         /\ pos \notin BlrBefore(Funcs, pos)
      /\ MappedBefore(Funcs, pos) \subseteq CallsBefore(Funcs, pos)
      /\ ExactBefore(Funcs, pos) \subseteq CallsBefore(Funcs, pos)
  BY <1>1, ImageIsFinite
  DEF CallsBefore, BlrBefore, MappedBefore, ExactBefore, Calls
<1>7. call \in BOOLEAN /\ mapped \in BOOLEAN /\ exact \in BOOLEAN
      /\ blr \in BOOLEAN
  BY DEF IsCall
<1> HIDE DEF call, mapped, exact, blr
<1>8. counts' = CountsBefore(Funcs, pos + 1)
  <2>1. Cardinality(CallsBefore(Funcs, pos + 1)) =
          Cardinality(CallsBefore(Funcs, pos)) + One(call)
    BY <1>1, <1>5, <1>6, <1>7, CountedOnce
  <2>2. Cardinality(MappedBefore(Funcs, pos + 1)) =
          Cardinality(MappedBefore(Funcs, pos)) + One(mapped)
    <3>1. MappedBefore(Funcs, pos) \subseteq ImageWords
          /\ pos \notin MappedBefore(Funcs, pos)
      BY <1>6
    <3>2. QED
      BY <1>1, <1>5, <1>7, <3>1, CountedOnce
  <2>3. Cardinality(ExactBefore(Funcs, pos + 1)) =
          Cardinality(ExactBefore(Funcs, pos)) + One(exact)
    <3>1. ExactBefore(Funcs, pos) \subseteq ImageWords
          /\ pos \notin ExactBefore(Funcs, pos)
      BY <1>6
    <3>2. QED
      BY <1>1, <1>5, <1>7, <3>1, CountedOnce
  <2>4. Cardinality(BlrBefore(Funcs, pos + 1)) =
          Cardinality(BlrBefore(Funcs, pos)) + One(blr)
    BY <1>1, <1>5, <1>6, <1>7, CountedOnce
  <2>5. QED
    BY <1>2, <1>4, <2>1, <2>2, <2>3, <2>4 DEF CountsBefore
<1>9. callers' = CallersBefore(Funcs, pos + 1)
  <2>1. {LastUpTo(Funcs, p) : p \in MappedBefore(Funcs, pos + 1)} =
          {LastUpTo(Funcs, p) : p \in MappedBefore(Funcs, pos)} \cup
            (IF mapped THEN {function} ELSE {})
    BY <1>1, <1>5
  <2>2. {LastUpTo(Funcs, p) : p \in ExactBefore(Funcs, pos + 1)} =
          {LastUpTo(Funcs, p) : p \in ExactBefore(Funcs, pos)} \cup
            (IF exact THEN {function} ELSE {})
    BY <1>1, <1>5
  <2>3. QED
    BY <1>2, <1>4, <2>1, <2>2 DEF CallersBefore
<1>10. QED
  BY <1>8, <1>9

(* The body of the second loop adds the edge of the word, if it has one.   *)
LEMMA LinkAddsTheWord ==
  ASSUME ScanTypeOK, LinkInv, tool = "graph", pos < EndOf(function), Link
  PROVE  edges' = EdgesBefore(Funcs, pos + 1)
<1> DEFINE mapped == IsCall(pos)
                     /\ Destination(pos) \in Min(Funcs)..(limit - 1)
           Edge(p) == <<LastUpTo(Funcs, p), LastUpTo(Funcs, Destination(p))>>
<1>1. /\ pos \in ImageWords /\ Min(Funcs) \in Nat /\ Min(Funcs) <= pos
      /\ LastUpTo(Funcs, pos) = function
      /\ Owner(Target(pos)) =
           IF Destination(pos) \in Min(Funcs)..(limit - 1)
           THEN {LastUpTo(Funcs, Destination(pos))} ELSE {}
  BY WordIsMet
<1>2. edges = EdgesBefore(Funcs, pos)
  BY DEF LinkInv, LinkedTo, Funcs, Kept, Base
<1>3. edges' = edges \cup (IF mapped THEN {Edge(pos)} ELSE {})
  BY <1>1 DEF Link
<1>4. MappedBefore(Funcs, pos + 1) =
        MappedBefore(Funcs, pos) \cup (IF mapped THEN {pos} ELSE {})
  BY <1>1, OneWordMore
<1>5. \A end : EdgesBefore(Funcs, end)
        = {Edge(p) : p \in MappedBefore(Funcs, end)}
  BY DEF EdgesBefore
<1> HIDE DEF mapped, Edge
<1>6. QED
  BY <1>2, <1>3, <1>4, <1>5

-----------------------------------------------------------------------------
(* Init: the scan stands at the first start and has counted nothing.       *)
LEMMA ScanInit == Init => ScanTypeOK /\ CountInv /\ LinkInv
<1> SUFFICES ASSUME Init PROVE ScanTypeOK /\ CountInv /\ LinkInv
  OBVIOUS
<1>1. tool = "executable" /\ function = Min(Funcs) /\ pos = Min(Funcs)
  BY DEF Init, First
<1>2. Starts(Kinds, TextBase) = Funcs
  BY <1>1 DEF Funcs, Kept, Kinds, Base
<1>3. Funcs \subseteq ImageWords /\ Funcs # {}
  <2>1. Stext - TextBase \in ImageWords
    BY ScanAssumption DEF TextBase, ImageWords, limit
  <2>2. <<Stext, Text>> \in {t \in symbols : t[2] \in Kinds}
    BY DEF Init, Kinds
  <2>3. Stext - TextBase \in Funcs
    BY <1>2, <2>1, <2>2 DEF Starts
  <2>4. QED
    BY <1>2, <2>3 DEF Starts
<1>4. Min(Funcs) \in Funcs
  BY <1>3, FirstStart
<1>5. ScanTypeOK
  <2>1. EndOf(Min(Funcs)) \in Nat /\ Min(Funcs) < EndOf(Min(Funcs))
    BY <1>3, <1>4, EndOfPiece
  <2>2. Min(Funcs) \in Nat
    BY <1>3, <1>4, ImageIsFinite
  <2>3. pos \in function..EndOf(function)
    BY <1>1, <2>1, <2>2
  <2>4. QED
    BY <1>1, <1>4, <2>3 DEF Init, ScanTypeOK
<1>6. Min(Funcs) \in Nat
  BY <1>3, <1>4, ImageIsFinite
<1>7. CountInv
  BY <1>1, <1>2, <1>6, NothingBefore DEF Init, CountInv, CountedTo
<1>8. LinkInv
  <2>1. Min(Starts({Text}, FixedBase)) \in Nat
    BY <1>5, StartsInImage, FirstStart, ImageIsFinite
  <2>2. QED
    BY <1>1, <2>1, NothingBefore DEF Init, LinkInv, LinkedTo
<1>9. QED
  BY <1>5, <1>7, <1>8

(* The place: the scan walks through its piece, goes on at the next one,   *)
(* and the second tool begins at the first start of its own.               *)
LEMMA ScanTypeNext == ScanTypeOK /\ [Next]_vars => ScanTypeOK'
<1> SUFFICES ASSUME ScanTypeOK, [Next]_vars PROVE ScanTypeOK'
  OBVIOUS
<1>1. Funcs \subseteq ImageWords /\ Funcs # {}
  BY FuncsInImage
<1>2. ASSUME UNCHANGED <<image, symbols, tool>>
      PROVE  Funcs' = Funcs /\ \A f : EndOf(f)' = EndOf(f)
  <2>1. Funcs' = Funcs
    BY <1>2 DEF Funcs, Kept, Starts, Base
  <2>2. QED
    BY <2>1 DEF EndOf
<1>3. CASE ScanWord
  <2>1. /\ UNCHANGED <<image, symbols, tool, function>> /\ pos' = pos + 1
        /\ pos < EndOf(function) /\ tool # "done"
    BY <1>3 DEF ScanWord, ScanEnd
  <2>2. function \in Funcs /\ pos \in function..EndOf(function)
    BY <2>1 DEF ScanTypeOK
  <2>3. EndOf(function) \in Nat /\ function \in Nat
    BY <1>1, <2>2, EndOfPiece, ImageIsFinite
  <2>4. pos' \in function..EndOf(function)
    BY <2>1, <2>2, <2>3
  <2>5. Funcs' = Funcs /\ EndOf(function)' = EndOf(function)
    BY <1>2, <2>1 DEF EndOf
  <2>6. QED
    BY <2>1, <2>2, <2>4, <2>5 DEF ScanTypeOK
<1>4. CASE NextFunction
  <2> DEFINE next == EndOf(function)
  <2>1. /\ UNCHANGED <<image, symbols, tool>> /\ function' = next
           /\ pos' = next
        /\ next < limit /\ tool # "done"
    BY <1>4 DEF NextFunction
  <2>2. function \in Funcs
    BY <2>1 DEF ScanTypeOK
  <2>3. next \in {limit} \cup Funcs /\ next \in Nat
    BY <1>1, <2>2, EndOfPiece
  <2>4. next \in Funcs
    BY <2>1, <2>3, ImageIsFinite
  <2> HIDE DEF next
  <2>5. EndOf(next) \in Nat /\ next < EndOf(next)
    BY <1>1, <2>4, EndOfPiece
  <2>6. Funcs' = Funcs /\ EndOf(function)' = EndOf(next)
    BY <1>2, <2>1 DEF EndOf
  <2>7. next \in next..EndOf(next)
    BY <2>3, <2>5
  <2>8. QED
    BY <2>1, <2>4, <2>6, <2>7 DEF ScanTypeOK
<1>5. CASE StartGraph
  <2> DEFINE starts == Starts({Text}, FixedBase)
  <2>1. /\ UNCHANGED <<image, symbols>> /\ tool' = "graph"
        /\ function' = First' /\ pos' = First'
    BY <1>5 DEF StartGraph
  <2>2. Funcs' = starts /\ First' = Min(starts)
    BY <2>1 DEF Funcs, Kept, Starts, First, Base
  <2>3. starts \subseteq ImageWords /\ starts # {}
    BY StartsInImage
  <2> HIDE DEF starts
  <2>4. Min(starts) \in starts
    BY <2>3, FirstStart
  <2>5. PICK end : end = Min({limit} \cup {g \in starts : g > Min(starts)})
    OBVIOUS
  <2>6. end \in Nat /\ Min(starts) < end
    BY <2>3, <2>4, <2>5, NextStart
  <2>7. Min(starts) \in Nat
    BY <2>3, <2>4, ImageIsFinite
  <2>8. EndOf(function)' = end /\ Min(starts) \in Min(starts)..end
    BY <2>1, <2>2, <2>5, <2>6, <2>7 DEF EndOf, limit
  <2>9. QED
    BY <2>1, <2>2, <2>4, <2>5, <2>8 DEF ScanTypeOK
<1>6. CASE WriteGraph
  BY <1>6 DEF WriteGraph, ScanTypeOK
<1>7. CASE UNCHANGED vars
  <2>1. UNCHANGED <<image, symbols, tool, function, pos>>
    BY <1>7 DEF vars
  <2>2. Funcs' = Funcs /\ EndOf(function)' = EndOf(function)
    BY <1>2, <2>1 DEF EndOf
  <2>3. QED
    BY <2>1, <2>2 DEF ScanTypeOK
<1>8. QED
  BY <1>3, <1>4, <1>5, <1>6, <1>7 DEF Next

(* When a tool goes on to the next function, pos is there already; when it *)
(* is finished, pos is the end of the image.                               *)
LEMMA EndOfScan ==
  ASSUME ScanTypeOK, tool # "done", pos >= EndOf(function)
  PROVE  pos = EndOf(function)
<1>1. function \in Funcs /\ pos \in function..EndOf(function)
  BY DEF ScanTypeOK
<1>2. EndOf(function) \in Nat /\ function \in Nat
  BY <1>1, FuncsInImage, EndOfPiece, ImageIsFinite
<1>3. QED
  BY <1>1, <1>2

(* The first tool has counted what the words up to pos hold.               *)
LEMMA CountNext == ScanTypeOK /\ CountInv /\ [Next]_vars => CountInv'
<1> SUFFICES ASSUME ScanTypeOK, CountInv, [Next]_vars PROVE CountInv'
  OBVIOUS
<1>1. UNCHANGED <<image, symbols>>
  BY DEF Next, ScanWord, NextFunction, StartGraph, WriteGraph, vars
<1>2. Starts(Kinds, TextBase)' = Starts(Kinds, TextBase)
  BY <1>1, SameImage
<1>3. ASSUME counts' = CountsBefore(Starts(Kinds, TextBase), CountedTo'),
             callers' = CallersBefore(Starts(Kinds, TextBase), CountedTo')
      PROVE  CountInv'
  <2>1. ASSUME NEW starts, NEW end
        PROVE  /\ CountsBefore(starts, end)' = CountsBefore(starts, end)
               /\ CallersBefore(starts, end)' = CallersBefore(starts, end)
    BY <1>1, SameImage
  <2>2. /\ CountsBefore(Starts(Kinds, TextBase), CountedTo)'
             = CountsBefore(Starts(Kinds, TextBase), CountedTo')
        /\ CallersBefore(Starts(Kinds, TextBase), CountedTo)'
             = CallersBefore(Starts(Kinds, TextBase), CountedTo')
    BY <1>1, <1>2, <2>1
  <2>3. QED
    BY <1>3, <2>2 DEF CountInv
<1>4. ASSUME UNCHANGED <<counts, callers>>, CountedTo' = CountedTo
      PROVE  CountInv'
  BY <1>3, <1>4 DEF CountInv
<1>5. CASE ScanWord
  <2>1. CASE tool = "executable"
    <3>1. /\ counts' = CountsBefore(Funcs, pos + 1)
          /\ callers' = CallersBefore(Funcs, pos + 1)
      BY <1>5, <2>1, CountAddsTheWord DEF ScanWord, ScanEnd
    <3>2. CountedTo' = pos + 1
      BY <1>5, <2>1 DEF ScanWord, CountedTo
    <3>3. Funcs = Starts(Kinds, TextBase)
      BY <2>1 DEF Funcs, Kept, Kinds, Base
    <3>4. QED
      BY <1>3, <3>1, <3>2, <3>3
  <2>2. CASE tool # "executable"
    BY <1>4, <1>5, <2>2 DEF ScanWord, Link, CountedTo, limit
  <2>3. QED
    BY <2>1, <2>2
<1>6. CASE NextFunction
  <2>1. pos = EndOf(function)
    BY <1>6, EndOfScan DEF NextFunction, ScanEnd
  <2>2. QED
    BY <1>4, <1>6, <2>1 DEF NextFunction, CountedTo, limit
<1>7. CASE StartGraph
  <2>1. pos = limit
    BY <1>7, EndOfScan DEF StartGraph, Finished, ScanEnd
  <2>2. QED
    BY <1>4, <1>7, <2>1 DEF StartGraph, CountedTo, limit
<1>8. CASE WriteGraph
  BY <1>4, <1>8 DEF WriteGraph, CountedTo, limit
<1>9. CASE UNCHANGED vars
  BY <1>4, <1>9 DEF vars, CountedTo, limit
<1>10. QED
  BY <1>5, <1>6, <1>7, <1>8, <1>9 DEF Next

(* The second has drawn the edges of the words up to pos.                  *)
LEMMA LinkNext == ScanTypeOK /\ LinkInv /\ [Next]_vars => LinkInv'
<1> SUFFICES ASSUME ScanTypeOK, LinkInv, [Next]_vars PROVE LinkInv'
  OBVIOUS
<1> DEFINE starts == Starts({Text}, FixedBase)
<1>1. UNCHANGED <<image, symbols>>
  BY DEF Next, ScanWord, NextFunction, StartGraph, WriteGraph, vars
<1>2. starts' = starts
  BY <1>1, SameImage
<1>3. ASSUME edges' = EdgesBefore(starts, LinkedTo') PROVE LinkInv'
  <2>1. ASSUME NEW cut, NEW end
        PROVE EdgesBefore(cut, end)' = EdgesBefore(cut, end)
    BY <1>1, SameImage
  <2>2. EdgesBefore(starts, LinkedTo)' = EdgesBefore(starts, LinkedTo')
    BY <1>1, <1>2, <2>1
  <2>3. QED
    BY <1>3, <2>2 DEF LinkInv
<1>4. ASSUME UNCHANGED edges, LinkedTo' = LinkedTo PROVE LinkInv'
  BY <1>3, <1>4 DEF LinkInv
<1>5. CASE ScanWord
  <2>1. CASE tool = "graph"
    <3>1. edges' = EdgesBefore(Funcs, pos + 1)
      BY <1>5, <2>1, LinkAddsTheWord DEF ScanWord, ScanEnd
    <3>2. LinkedTo' = pos + 1
      BY <1>5, <2>1 DEF ScanWord, LinkedTo
    <3>3. Funcs = starts
      BY <2>1 DEF Funcs, Kept, Base
    <3>4. QED
      BY <1>3, <3>1, <3>2, <3>3
  <2>2. CASE tool = "executable"
    BY <1>4, <1>5, <2>2 DEF ScanWord, Count, LinkedTo
  <2>3. QED
    BY <1>5, <2>1, <2>2 DEF ScanWord
<1>6. CASE NextFunction
  <2>1. pos = EndOf(function)
    BY <1>6, EndOfScan DEF NextFunction, ScanEnd
  <2>2. QED
    BY <1>4, <1>6, <2>1 DEF NextFunction, LinkedTo, limit
<1>7. CASE StartGraph
  <2>1. UNCHANGED <<symbols, edges>> /\ tool = "executable" /\ tool' = "graph"
        /\ pos' = First'
    BY <1>7 DEF StartGraph
  <2>2. First' = Min(starts)
    BY <2>1 DEF First, Funcs, Kept, Starts, Base
  <2>3. Min(starts) \in Nat
    BY StartsInImage, FirstStart, ImageIsFinite
  <2>4. edges = {}
    BY <2>1, <2>3, NothingBefore DEF LinkInv, LinkedTo
  <2>5. EdgesBefore(starts, Min(starts)) = {}
    BY <2>3, NothingBefore
  <2>6. QED
    BY <1>3, <2>1, <2>2, <2>4, <2>5 DEF LinkedTo
<1>8. CASE WriteGraph
  <2>1. pos = limit
    BY <1>8, EndOfScan DEF WriteGraph, Finished, ScanEnd
  <2>2. QED
    BY <1>4, <1>8, <2>1 DEF WriteGraph, LinkedTo, limit
<1>9. CASE UNCHANGED vars
  BY <1>4, <1>9 DEF vars, LinkedTo, limit
<1>10. QED
  BY <1>5, <1>6, <1>7, <1>8, <1>9 DEF Next

(* The last line is written from the whole graph, and nothing follows it.  *)
LEMMA PrintNext == PrintInv /\ [Next]_vars => PrintInv'
<1> SUFFICES ASSUME PrintInv, [Next]_vars, tool' = "done" PROVE PrintInv'
  BY DEF PrintInv
<1>1. UNCHANGED <<image, symbols>>
  BY DEF Next, ScanWord, NextFunction, StartGraph, WriteGraph, vars
<1>2. Starts({Text}, FixedBase)' = Starts({Text}, FixedBase)
  BY <1>1, SameImage
<1>3. CASE WriteGraph
  <2>1. tool = "graph" /\ UNCHANGED edges
        /\ printed' = [functions |-> Cardinality(Funcs),
                       callers |-> Cardinality({edge[2] : edge \in edges})]
    BY <1>3 DEF WriteGraph
  <2>2. Funcs = Starts({Text}, FixedBase)
    BY <2>1 DEF Funcs, Kept, Base
  <2>3. QED
    BY <1>2, <2>1, <2>2 DEF PrintInv
<1>4. CASE ~WriteGraph
  <2>1. tool = "done" /\ UNCHANGED <<edges, printed>>
    BY <1>4 DEF Next, ScanWord, NextFunction, StartGraph, vars
  <2>2. QED
    BY <1>2, <2>1 DEF PrintInv
<1>5. QED
  BY <1>3, <1>4

-----------------------------------------------------------------------------
(* In each state the results are those of the words met so far.            *)
LEMMA ScanInvariant == Spec => [](ScanTypeOK /\ CountInv /\ LinkInv /\ PrintInv)
<1>1. ScanTypeOK /\ CountInv /\ LinkInv /\ [Next]_vars
        => (ScanTypeOK /\ CountInv /\ LinkInv)'
  BY ScanTypeNext, CountNext, LinkNext
<1>2. Init => PrintInv
  BY DEF Init, PrintInv
<1>3. QED
  BY <1>1, <1>2, ScanInit, PrintNext, PTL DEF Spec

(* Types: the scan is always in a function of the tool that runs.          *)
THEOREM ScanTypeCorrect == Spec => []ScanTypeOK
  BY ScanInvariant, PTL

(* The counters of the first tool are right when it ends and stay so.      *)
THEOREM CountersMatch == Spec => []CountsMatchImage
<1>1. CountInv => CountsMatchImage
  BY DEF CountInv, CountedTo, CountsMatchImage
<1>2. QED
  BY <1>1, ScanInvariant, PTL

(* The call graph is right for the image where the second tool places it,  *)
(* and the last line counts the functions and those that are called.       *)
THEOREM GraphMatches == Spec => []GraphMatchesImage
<1>1. LinkInv /\ PrintInv => GraphMatchesImage
  BY DEF LinkInv, LinkedTo, PrintInv, GraphMatchesImage
<1>2. QED
  BY <1>1, ScanInvariant, PTL
=============================================================================
