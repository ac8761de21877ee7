---------------------------- MODULE F2fsGcProofs ----------------------------
(***************************************************************************)
(* The collector, for any finite division of the segments into sections,   *)
(* any reserve and any errors: its types, its claim on the victim, and     *)
(* the soundness of its decisions.                                         *)
(***************************************************************************)
EXTENDS F2fsGc, FiniteSetTheorems, TLAPS

(* What each control point knows: a synchronous call only visits the       *)
(* foreground path, a victim is a section, zero stands for a checkpoint.   *)
ControlInv ==
  /\ gcSync => gcKind = "FG"
                 /\ gcPc \notin {"prefree", "precp", "recheck", "enough", "postcp"}
  /\ gcPc = "idle" => ~gcSync /\ ownCp = "none"
  /\ gcPc = "migrate" => segno \in Sections
  /\ gcPc # "idle" /\ gcRet = 0 => ownCp = "ok"
  /\ ClaimReleased
  /\ NoBackgroundOnCriticalPath
  /\ CheckpointFailureEndsCall

GcInv == TypeOK /\ ControlInv

(* Before any call all locals have their initial values.                   *)
LEMMA GcInvInit == Init => GcInv
<1> SUFFICES ASSUME Init PROVE GcInv
  OBVIOUS
<1>1. TypeOK
  BY DEF Init, TypeOK, Space!Used, GcPoints, Returns
<1>2. ControlInv
  BY DEF Init, ControlInv, ClaimReleased, NoBackgroundOnCriticalPath,
         CheckpointFailureEndsCall
<1>3. QED
  BY <1>1, <1>2 DEF GcInv

(* Crediting keeps account of every section claimed: what is no longer     *)
(* credited is overtaken, and what is credited holds no data, but is not   *)
(* free.                                                                   *)
LEMMA CreditAccounts ==
  ASSUME NEW claimed \in SUBSET Sections, overtaken \in Nat, Credit(claimed)
  PROVE  /\ credited' \subseteq claimed
         /\ overtaken' \in Nat
         /\ Cardinality(credited') + overtaken'
              = Cardinality(claimed) + overtaken
         /\ \A section \in credited' :
              /\ section \subseteq free' \union prefree'
              /\ ~(section \subseteq free')
<1>1. credited' \subseteq claimed
  BY DEF Credit
<1>2. IsFiniteSet(claimed) /\ IsFiniteSet(credited')
  BY <1>1, SectionsAssumption, FS_Subset
<1>3. /\ IsFiniteSet(claimed \ credited')
      /\ Cardinality(claimed \ credited')
           = Cardinality(claimed) - Cardinality(claimed \intersect credited')
  BY <1>2, FS_Difference
<1>4. Cardinality(claimed \ credited')
        = Cardinality(claimed) - Cardinality(credited')
  <2>1. claimed \intersect credited' = credited'
    BY <1>1
  <2>2. QED
    BY <1>3, <2>1, Zenon
<1>5. /\ Cardinality(claimed \ credited') \in Nat
      /\ Cardinality(claimed) \in Nat /\ Cardinality(credited') \in Nat
  BY <1>2, <1>3, FS_CardinalityType
<1>6. overtaken' = overtaken + Cardinality(claimed \ credited')
  BY DEF Credit
<1>7. Cardinality(credited') + overtaken' = Cardinality(claimed) + overtaken
  BY <1>4, <1>5, <1>6
<1>8. overtaken' \in Nat
  BY <1>5, <1>6
<1>9. \A section \in credited' :
        section \subseteq free' \union prefree' /\ ~(section \subseteq free')
  BY DEF Credit
<1>10. QED
  BY <1>1, <1>7, <1>8, <1>9

(* Nothing is credited anew where no section was collected.                *)
LEMMA CreditKept ==
  ASSUME TypeOK, Credit(credited)
  PROVE  /\ credited' \subseteq credited
         /\ overtaken' \in Nat
         /\ Cardinality(credited') + overtaken'
              = Cardinality(credited) + overtaken
         /\ \A section \in credited' :
              /\ section \subseteq free' \union prefree'
              /\ ~(section \subseteq free')
  BY CreditAccounts DEF TypeOK

(* Each step of a call and of its surroundings keeps the types.            *)
LEMMA GcTypeNext == GcInv /\ [Next]_vars => TypeOK'
<1> SUFFICES ASSUME GcInv, [Next]_vars
             PROVE  TypeOK'
  OBVIOUS
<1> USE DEF GcInv, TypeOK, GcPoints, Returns, Goto, Break, Untouched,
            LocalsKept, segmentVars, callArgs, mountVars, creditVars, loopVars
<1>1. ASSUME NEW sync \in BOOLEAN, NEW background \in BOOLEAN,
             NEW discard \in BOOLEAN, NEW hint \in Sections \union {NoSection},
             Call(sync, background, hint, discard)
      PROVE  TypeOK'
  BY <1>1 DEF Call, NothingDone
<1>2. CASE CheckMount \/ CheckCpError
  BY <1>2 DEF CheckMount, CheckCpError
<1>3. CASE CheckSpace \/ CheckPrefree
  BY <1>3 DEF CheckSpace, CheckPrefree
<1>4. CASE OwnCheckpoint
  <2>1. credited' \subseteq credited /\ overtaken' \in Nat
    BY <1>4, CreditKept DEF OwnCheckpoint
  <2>2. QED
    BY <1>4, <2>1 DEF OwnCheckpoint, Space!Reclaim, Space!Used
<1>5. ASSUME NEW err \in Errors, OwnCheckpointFails(err)
      PROVE  TypeOK'
  BY <1>5 DEF OwnCheckpointFails
<1>6. CASE RecheckSpace
  BY <1>6 DEF RecheckSpace, PromotedKind
<1>7. CASE RefuseBackground
  BY <1>7 DEF RefuseBackground
<1>8. CASE NoVictim
  BY <1>8 DEF NoVictim
<1>9. ASSUME NEW section \in Sections, SelectVictim(section)
      PROVE  TypeOK'
  BY <1>9 DEF SelectVictim, MayCollect, Claim
<1>10. CASE Retry
  BY <1>10 DEF Retry, FreedSoFar
<1>11. CASE EnoughSpace
  BY <1>11 DEF EnoughSpace
<1>12. CASE Return
  BY <1>12 DEF Return
<1>13. ASSUME NEW emptied \in SUBSET segno, NEW taken,
              gcPc = "migrate", CollectGarbage(emptied, taken)
       PROVE  TypeOK'
  <2>1. segno \in Sections /\ credited \union {segno} \subseteq Sections
    BY <1>13 DEF ControlInv
  <2>2. credited' \subseteq Sections /\ overtaken' \in Nat
    BY <1>13, <2>1, CreditAccounts DEF CollectGarbage
  <2>3. secFreed' \in Nat
    BY <1>13 DEF CollectGarbage
  <2>4. QED
    BY <1>13, <2>1, <2>2, <2>3, SectionsAssumption
       DEF CollectGarbage, Space!Used
<1>14. CASE Others
  <2>1. /\ free' \subseteq Segments /\ prefree' \subseteq Segments
    <3>1. ASSUME NEW segment \in Segments,
                 Space!Take(segment) \/ Space!Empty(segment)
          PROVE  <2>1
      BY <3>1 DEF Space!Take, Space!Empty
    <3>2. ASSUME NEW keepPrefree \in BOOLEAN, Space!Reclaim(keepPrefree)
          PROVE  <2>1
      BY <3>2 DEF Space!Reclaim, Space!Used
    <3>3. QED
      BY <1>14, <3>1, <3>2 DEF Others
  <2>2. credited' \subseteq credited /\ overtaken' \in Nat
    BY <1>14, CreditKept DEF Others
  <2>3. QED
    BY <1>14, <2>1, <2>2 DEF Others
<1>15. CASE Fail
  <2>1. active' \in BOOLEAN /\ cpError' \in BOOLEAN
    BY <1>15, Zenon DEF Fail
  <2>2. QED
    BY <1>15, <2>1 DEF Fail
<1>16. CASE UNCHANGED vars
  BY <1>16 DEF vars
<1>17. QED
  BY <1>1, <1>2, <1>3, <1>4, <1>5, <1>6, <1>7, <1>8, <1>9, <1>10, <1>11,
     <1>12, <1>13, <1>14, <1>15, <1>16
     DEF Next, CollectorStep, Collect

(* Each step keeps what the place in the loop says of the kind of the      *)
(* call, the claim on its victim and its last checkpoint.                  *)
LEMMA ControlNext == GcInv /\ [Next]_vars => ControlInv'
<1> SUFFICES ASSUME TypeOK, ControlInv, [Next]_vars
             PROVE  ControlInv'
  BY DEF GcInv
<1> USE DEF ControlInv, ClaimReleased, NoBackgroundOnCriticalPath,
            CheckpointFailureEndsCall, Goto, Break, Untouched,
            LocalsKept, segmentVars, callArgs, mountVars, creditVars, loopVars
<1>0. gcSync \in BOOLEAN /\ gcBackground \in BOOLEAN /\ gcKind \in {"BG", "FG"}
  BY DEF TypeOK
<1>1. ASSUME NEW sync \in BOOLEAN, NEW background \in BOOLEAN,
             NEW discard \in BOOLEAN, NEW hint \in Sections \union {NoSection},
             Call(sync, background, hint, discard)
      PROVE  ControlInv'
  BY <1>1, ReturnsAssumption DEF Call, NothingDone
<1>2. CASE CheckMount \/ CheckCpError
  BY <1>2, ReturnsAssumption DEF CheckMount, CheckCpError
<1>3. CASE CheckSpace \/ CheckPrefree
  BY <1>3 DEF CheckSpace, CheckPrefree
<1>4. CASE OwnCheckpoint
  BY <1>4 DEF OwnCheckpoint
<1>5. ASSUME NEW err \in Errors, OwnCheckpointFails(err)
      PROVE  ControlInv'
  BY <1>5, <1>0, ReturnsAssumption DEF OwnCheckpointFails
<1>6. CASE RecheckSpace
  BY <1>6 DEF RecheckSpace, PromotedKind
<1>7. CASE RefuseBackground
  BY <1>7, ReturnsAssumption DEF RefuseBackground
<1>8. CASE NoVictim
  BY <1>8, ReturnsAssumption DEF NoVictim
<1>9. ASSUME NEW section \in Sections, SelectVictim(section)
      PROVE  ControlInv'
  BY <1>9 DEF SelectVictim, MayCollect, Claim
<1>10. CASE Retry
  BY <1>10 DEF Retry, FreedSoFar
<1>11. CASE EnoughSpace
  BY <1>11 DEF EnoughSpace
<1>12. CASE Return
  BY <1>12 DEF Return
<1>13. ASSUME NEW emptied \in SUBSET segno, NEW taken,
              gcPc = "migrate", CollectGarbage(emptied, taken)
       PROVE  ControlInv'
  BY <1>13 DEF CollectGarbage
<1>14. CASE Others
  BY <1>14 DEF Others
<1>15. CASE Fail
  BY <1>15 DEF Fail
<1>16. CASE UNCHANGED vars
  BY <1>16 DEF vars
<1>17. QED
  BY <1>1, <1>2, <1>3, <1>4, <1>5, <1>6, <1>7, <1>8, <1>9, <1>10, <1>11,
     <1>12, <1>13, <1>14, <1>15, <1>16
     DEF Next, CollectorStep, Collect

(* The inductive invariant of the loop holds in every state.               *)
THEOREM GcInvariant == Spec => []GcInv
<1>1. GcInv /\ [Next]_vars => GcInv'
  BY GcTypeNext, ControlNext DEF GcInv
<1>2. QED
  BY <1>1, GcInvInit, PTL DEF Spec

(* Type correctness of the collector.                                      *)
THEOREM GcTypeCorrect == Spec => []TypeOK
  BY GcInvariant, PTL DEF GcInv

(* The claim on a victim never outlives its migration.                     *)
THEOREM ClaimIsReleased == Spec => []ClaimReleased
  BY GcInvariant, PTL DEF GcInv, ControlInv

(* A failed checkpoint is what the call returns.                           *)
THEOREM FailureIsReturned == Spec => []CheckpointFailureEndsCall
  BY GcInvariant, PTL DEF GcInv, ControlInv

(* The critical path never collects in the background.                     *)
THEOREM CriticalPathIsForeground == Spec => []NoBackgroundOnCriticalPath
  BY GcInvariant, PTL DEF GcInv, ControlInv

-----------------------------------------------------------------------------
(* A return of 0 has a section or a checkpoint behind it.                  *)
THEOREM ZeroIsEarned == Spec => ZeroHasAReason
<1>1. GcInv /\ [Next]_vars =>
        [Return /\ gcRet' = 0 =>
           IF gcSync THEN secFreed > 0 ELSE ownCp = "ok"]_vars
  BY ReturnsAssumption DEF GcInv, ControlInv, Return, Goto
<1>2. QED
  BY <1>1, GcInvariant, PTL DEF Spec, ZeroHasAReason

-----------------------------------------------------------------------------
(***************************************************************************)
(* What sec_freed counts: the sections credited, which are distinct, hold  *)
(* no data and are not among the free ones, and those overtaken since.     *)
(***************************************************************************)
Drained(section) == section \subseteq free \union prefree

CreditInv ==
  /\ \A section \in credited : Drained(section) /\ ~(section \subseteq free)
  /\ Cardinality(credited) + overtaken = secFreed

(* A call that has credited itself with a section collects in the          *)
(* foreground, so that of its own checkpoints only the last can follow,    *)
(* and a 0 on the way out comes from there, unless there is no credit.     *)
CreditKindInv ==
  /\ gcKind = "BG" => credited = {}
  /\ gcPc \in {"prefree", "precp", "recheck"} => gcKind = "BG"
  /\ gcPc = "idle" => credited = {} /\ overtaken = 0
  /\ SuccessReclaims

(* A call starts without credit.                                           *)
LEMMA CreditInit == Init => CreditInv /\ CreditKindInv
  BY FS_EmptySet DEF Init, CreditInv, CreditKindInv, SuccessReclaims

(* A checkpoint that is not for discard leaves no section half-way.        *)
LEMMA ReclaimSettles ==
  ASSUME Space!Reclaim(FALSE), Credit(credited)
  PROVE  credited' = {}
  BY DEF Space!Reclaim, Credit

(* A background call has no credit: only foreground collections count      *)
(* sections, and a call never turns back.                                  *)
LEMMA CreditKindNext ==
  GcInv /\ CreditKindInv /\ [Next]_vars => CreditKindInv'
<1> SUFFICES ASSUME GcInv, CreditKindInv, [Next]_vars
             PROVE  CreditKindInv'
  OBVIOUS
<1>0. /\ gcKind \in {"BG", "FG"} /\ gcDiscard \in BOOLEAN
      /\ gcSync \in BOOLEAN /\ TypeOK
      /\ gcSync => gcPc \notin {"precp", "postcp", "enough"}
  BY DEF GcInv, TypeOK, ControlInv
<1> USE DEF CreditKindInv, SuccessReclaims, Goto, Break, Untouched,
            LocalsKept, segmentVars, callArgs, mountVars, creditVars, loopVars
<1>1. CASE CheckMount \/ CheckCpError \/ CheckSpace \/ CheckPrefree
            \/ RecheckSpace \/ RefuseBackground \/ NoVictim \/ Retry
            \/ EnoughSpace
  BY <1>0, <1>1, ReturnsAssumption
     DEF CheckMount, CheckCpError, CheckSpace, CheckPrefree, RecheckSpace,
         PromotedKind, RefuseBackground, NoVictim, Retry, FreedSoFar,
         EnoughSpace
<1>2. ASSUME NEW sync \in BOOLEAN, NEW background \in BOOLEAN,
             NEW discard \in BOOLEAN, NEW hint \in Sections \union {NoSection},
             Call(sync, background, hint, discard)
      PROVE  CreditKindInv'
  BY <1>2 DEF Call, NothingDone
<1>3. CASE OwnCheckpoint
  <2>1. credited' \subseteq credited
    BY <1>0, <1>3, CreditKept DEF OwnCheckpoint
  <2>2. credited' = {} \/ gcDiscard
    BY <1>0, <1>3, ReclaimSettles DEF OwnCheckpoint
  <2>3. QED
    BY <1>3, <2>1, <2>2 DEF OwnCheckpoint
<1>4. ASSUME NEW err \in Errors, OwnCheckpointFails(err)
      PROVE  CreditKindInv'
  BY <1>0, <1>4, ReturnsAssumption DEF OwnCheckpointFails
<1>5. ASSUME NEW section \in Sections, SelectVictim(section)
      PROVE  CreditKindInv'
  BY <1>5 DEF SelectVictim, MayCollect, Claim
<1>6. CASE Return
  BY <1>6 DEF Return
<1>7. ASSUME NEW emptied \in SUBSET segno, NEW taken,
             gcPc = "migrate", CollectGarbage(emptied, taken)
      PROVE  CreditKindInv'
  <2>1. gcKind = "BG" => credited' \subseteq credited
    BY <1>7 DEF CollectGarbage, Credit
  <2>2. gcSync' = gcSync /\ gcKind' = gcKind
        /\ gcPc' = IF gcSync THEN "out" ELSE "enough"
    BY <1>7 DEF CollectGarbage
  <2>3. QED
    BY <1>0, <2>1, <2>2
<1>8. CASE Others
  <2>1. credited' \subseteq credited
    BY <1>0, <1>8, CreditKept DEF Others
  <2>2. /\ UNCHANGED <<gcPc, callArgs, loopVars>>
        /\ credited = {} /\ overtaken = 0 => overtaken' = 0
    <3>1. credited = {} => credited \ credited' = {}
      BY <2>1
    <3>2. overtaken' = overtaken + Cardinality(credited \ credited')
      BY <1>8 DEF Others, Credit
    <3>3. QED
      BY <1>8, <3>1, <3>2, FS_EmptySet DEF Others
  <2>3. QED
    BY <2>1, <2>2
<1>9. CASE Fail
  BY <1>9 DEF Fail
<1>10. CASE UNCHANGED vars
  BY <1>10 DEF vars
<1>11. QED
  BY <1>1, <1>2, <1>3, <1>4, <1>5, <1>6, <1>7, <1>8, <1>9, <1>10
     DEF Next, CollectorStep, Collect

(* A pass that frees as many segments as a section has has emptied its     *)
(* victim, which did not count before, since it held data.                 *)
LEMMA WholeIsTheVictim ==
  ASSUME NEW emptied, segno \in Sections, emptied \subseteq segno
  PROVE  WholeSection(Cardinality(emptied)) <=> emptied = segno
  BY SectionsAssumption, FS_Subset DEF WholeSection

(* sec_freed is the number of sections credited and of those overtaken.    *)
LEMMA CreditNext ==
  GcInv /\ CreditKindInv /\ CreditInv /\ [Next]_vars => CreditInv'
<1> SUFFICES ASSUME GcInv, CreditKindInv, CreditInv, [Next]_vars
             PROVE  CreditInv'
  OBVIOUS
<1>0. TypeOK /\ IsFiniteSet(credited)
  BY SectionsAssumption, FS_Subset DEF GcInv, TypeOK
<1> USE DEF CreditInv, Drained, Goto, Break, Untouched, LocalsKept,
            segmentVars, callArgs, mountVars, creditVars, loopVars
<1>1. ASSUME NEW sync \in BOOLEAN, NEW background \in BOOLEAN,
             NEW discard \in BOOLEAN, NEW hint \in Sections \union {NoSection},
             Call(sync, background, hint, discard)
      PROVE  CreditInv'
  BY <1>1 DEF Call
<1>2. CASE CheckMount \/ CheckCpError \/ CheckSpace \/ CheckPrefree
            \/ RecheckSpace \/ RefuseBackground \/ NoVictim \/ EnoughSpace
  BY <1>2 DEF CheckMount, CheckCpError, CheckSpace, CheckPrefree,
              RecheckSpace, PromotedKind, RefuseBackground, NoVictim,
              EnoughSpace
<1>3. CASE Fail
  BY <1>3 DEF Fail
<1>4. ASSUME NEW err \in Errors, OwnCheckpointFails(err)
      PROVE  CreditInv'
  BY <1>4 DEF OwnCheckpointFails
<1>5. ASSUME NEW section \in Sections, SelectVictim(section)
      PROVE  CreditInv'
  BY <1>5 DEF SelectVictim
<1>6. CASE Return
  BY <1>6, FS_EmptySet DEF Return
<1>7. CASE Others \/ OwnCheckpoint
  <2>1. Credit(credited) /\ secFreed' = secFreed
    BY <1>7 DEF Others, OwnCheckpoint
  <2>2. QED
    BY <1>0, <2>1, CreditKept
<1>8. ASSUME NEW emptied \in SUBSET segno, NEW taken,
             gcPc = "migrate", CollectGarbage(emptied, taken)
      PROVE  CreditInv'
  <2> DEFINE whole == gcKind = "FG" /\ emptied = segno
             claimed == IF whole THEN credited \union {segno} ELSE credited
  <2>1. segno \in Sections
    BY <1>8 DEF GcInv, ControlInv
  <2>2. Credit(claimed)
    BY <1>8 DEF CollectGarbage
  <2>3. secFreed' = IF whole THEN secFreed + 1 ELSE secFreed
    BY <1>8, <2>1, WholeIsTheVictim DEF CollectGarbage
  <2>4. whole => segno \notin credited
    <3>1. segno # {}
      BY <2>1, SectionsAssumption, FS_EmptySet
    <3>2. whole => segno \subseteq Space!Used
      BY <1>8 DEF CollectGarbage
    <3>3. QED
      BY <3>1, <3>2 DEF Space!Used
  <2>5. Cardinality(claimed)
          = IF whole THEN Cardinality(credited) + 1 ELSE Cardinality(credited)
    BY <1>0, <2>4, FS_AddElement
  <2>6. claimed \in SUBSET Sections /\ overtaken \in Nat
    BY <1>0, <2>1 DEF TypeOK
  <2>7. /\ Cardinality(credited') + overtaken'
             = Cardinality(claimed) + overtaken
        /\ \A section \in credited' : Drained(section)'
              /\ ~(section \subseteq free')
    BY <2>2, <2>6, CreditAccounts
  <2>8. Cardinality(credited) \in Nat
    BY <1>0, FS_CardinalityType
  <2>9. Cardinality(credited') + overtaken' = secFreed'
    BY <2>3, <2>5, <2>6, <2>7, <2>8
  <2>10. QED
    BY <2>7, <2>9
<1>9. CASE UNCHANGED vars
  BY <1>9 DEF vars
<1>10. CASE Retry
  <2>1. /\ secFreed' = secFreed
        /\ overtaken' = IF secFreed' = 0 THEN 0 ELSE overtaken
        /\ UNCHANGED <<credited, free, prefree>>
    BY <1>10 DEF Retry, FreedSoFar
  <2>2. Cardinality(credited) \in Nat /\ overtaken \in Nat
    BY <1>0, FS_CardinalityType DEF TypeOK
  <2>3. overtaken' = overtaken
    BY <2>1, <2>2
  <2>4. QED
    BY <2>1, <2>3
<1>11. QED
  BY <1>1, <1>2, <1>3, <1>4, <1>5, <1>6, <1>7, <1>8, <1>9, <1>10
     DEF Next, CollectorStep, Collect

(* The account of sections is right in every state.                        *)
THEOREM CreditInvariant == Spec => [](GcInv /\ CreditKindInv /\ CreditInv)
  BY GcInvariant, CreditInit, CreditKindNext, CreditNext, PTL DEF Spec

(* A 0 leaves no emptied section waiting for a checkpoint.                 *)
THEOREM ZeroReclaims == Spec => []SuccessReclaims
  BY CreditInvariant, PTL DEF CreditKindInv

(* When a foreground call stops, the space it counted on is there but for  *)
(* the sections that it counts twice.                                      *)
THEOREM SpaceIsReal == Spec => SpaceDecisionSound
<1> DEFINE Empty == {section \in Sections : section \intersect Space!Used = {}}
<1>1. ASSUME GcInv, CreditInv, EnoughSpace
      PROVE  Cardinality(Empty) + overtaken > ReservedSections
  <2>1. /\ IsFiniteSet(Sections) /\ credited \subseteq Sections
        /\ overtaken \in Nat
    BY <1>1, SectionsAssumption DEF GcInv, TypeOK
  <2>2. IsFiniteSet(FreeSections) /\ IsFiniteSet(credited)
          /\ IsFiniteSet(Empty)
    BY <2>1, FS_Subset DEF FreeSections
  <2>3. FreeSections \intersect credited = {}
    BY <1>1 DEF CreditInv, FreeSections
  <2>4. FreeSections \union credited \subseteq Empty
    BY <1>1, <2>1 DEF CreditInv, Drained, FreeSections, Space!Used
  <2>5. Cardinality(FreeSections \union credited)
          = Cardinality(FreeSections) + Cardinality(credited)
    <3>1. Cardinality(FreeSections \intersect credited) = 0
      BY <2>3, FS_EmptySet
    <3>2. /\ Cardinality(FreeSections) \in Nat
          /\ Cardinality(credited) \in Nat
      BY <2>2, FS_CardinalityType
    <3>3. Cardinality(FreeSections \union credited)
            = Cardinality(FreeSections) + Cardinality(credited)
                - Cardinality(FreeSections \intersect credited)
      BY <2>2, FS_Union
    <3>4. QED
      BY <3>1, <3>2, <3>3
  <2>6. Cardinality(FreeSections \union credited) <= Cardinality(Empty)
    BY <2>2, <2>4, FS_Subset
  <2>7. Cardinality(credited) + overtaken = secFreed
    BY <1>1 DEF CreditInv
  <2>8. ~(Cardinality(FreeSections) + secFreed <= ReservedSections)
    BY <1>1 DEF EnoughSpace, NotEnough
  <2>9. /\ Cardinality(FreeSections) \in Nat /\ Cardinality(credited) \in Nat
        /\ Cardinality(Empty) \in Nat
    BY <2>2, FS_CardinalityType
  <2>10. QED
    BY <2>1, <2>5, <2>6, <2>7, <2>8, <2>9, ReservedAssumption
<1>2. GcInv /\ CreditInv /\ [Next]_vars =>
        [EnoughSpace /\ gcKind = "FG" =>
           Cardinality(Empty) + overtaken > ReservedSections]_vars
  BY <1>1
<1>3. QED
  BY <1>2, CreditInvariant, PTL DEF Spec, SpaceDecisionSound
=============================================================================
