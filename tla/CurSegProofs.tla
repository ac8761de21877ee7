---------------------------- MODULE CurSegProofs ----------------------------
(***************************************************************************)
(* The current segments, for any set of segments and any number of logs.   *)
(***************************************************************************)
EXTENDS CurSeg, TLAPS

(* A mount leaves well-typed logs and pools.                               *)
LEMMA TypeInit == Init => TypeOK
<1> SUFFICES ASSUME Init PROVE TypeOK
  OBVIOUS
<1>1. 0 \in LogTypes
  BY LogsAssumption DEF LogTypes
<1>2. QED
  BY <1>1 DEF Init, TypeOK, Held

(* Each step of an allocation, of the loop and of the file system keeps    *)
(* the types; the loop never reaches a log beyond the last.                *)
LEMMA TypeNext == TypeOK /\ [Next]_vars => TypeOK'
<1> SUFFICES ASSUME TypeOK, [Next]_vars
             PROVE  TypeOK'
  OBVIOUS
<1> USE DEF TypeOK, logVars, poolVars, argVars, localVars, historyVars
<1>0. 0 \in LogTypes
  BY LogsAssumption DEF LogTypes
<1>1. ASSUME NEW type \in LogTypes, NEW newSection \in BOOLEAN,
             Allocate(type, newSection)
      PROVE  TypeOK'
  BY <1>1 DEF Allocate
<1>2. CASE AllocateAll
  BY <1>0, <1>2 DEF AllocateAll
<1>3. CASE RememberOld
  BY <1>3 DEF RememberOld
<1>4. ASSUME NEW ssr \in BOOLEAN, Choose(ssr)
      PROVE  TypeOK'
  BY <1>4 DEF Choose
<1>5. ASSUME NEW segment \in Segments, ChangeCurseg(segment)
      PROVE  TypeOK'
  BY <1>5 DEF ChangeCurseg
<1>6. ASSUME NEW segment \in Segments, GetFreeSegment(segment)
      PROVE  TypeOK'
  BY <1>6 DEF GetFreeSegment
<1>7. CASE ReadNext \/ NoFreeSegment
  BY <1>7 DEF ReadNext, NoFreeSegment
<1>8. CASE StoreSegno \/ StoreNext \/ LocateNew
  BY <1>8 DEF StoreSegno, StoreNext, LocateNew
<1>9. CASE ReturnToCaller \/ SweepReturns
  BY <1>0, <1>9 DEF ReturnToCaller, SweepReturns, Finish
<1>10. CASE NextLog
  <2>1. logType' \in LogTypes
    BY <1>10, LogsAssumption DEF NextLog, LastLog, LogTypes
  <2>2. located' \subseteq Segments
    BY <1>10 DEF NextLog, LeftBehind
  <2>3. QED
    BY <1>10, <2>1, <2>2 DEF NextLog
<1>11. ASSUME NEW type \in LogTypes, FillLog(type)
       PROVE  TypeOK'
  BY <1>11 DEF FillLog
<1>12. ASSUME NEW segment \in Segments, Release(segment)
       PROVE  TypeOK'
  BY <1>12 DEF Release
<1>13. CASE UNCHANGED vars
  BY <1>13 DEF vars
<1>14. QED
  BY <1>1, <1>2, <1>3, <1>4, <1>5, <1>6, <1>7, <1>8, <1>9, <1>10, <1>11,
     <1>12, <1>13 DEF Next, AllocationStep

(* Type correctness of the logs and the pools.                             *)
THEOREM LogTypeCorrect == Spec => []TypeOK
  BY TypeInit, TypeNext, PTL DEF Spec

-----------------------------------------------------------------------------
(***************************************************************************)
(* The loop over the logs.  The logs it has not come to are still where    *)
(* they were when it began; a segment that it has moved a log away from is *)
(* located, free, on its way to a log, or the segment of a log that it has *)
(* moved, and such a log it does not move again.  Only the segment of the  *)
(* log at hand can be out of every pool, and old remembers it.             *)
(***************************************************************************)
Done(type) == type < logType \/ allocPc = "swept"
Ahead(type) ==
  \/ type > logType
  \/ type = logType
       /\ allocPc \in {"remember", "choose", "change", "new", "get", "store"}

Kept ==
  located \union free \union (IF allocPc = "store" THEN {segno} ELSE {})
    \union {segnoOf[type] : type \in {t \in LogTypes : ~Ahead(t)}}

LoopInv ==
  /\ allocPc = "idle" => ~sweeping
  /\ allocPc \in {"remember", "swept"} => sweeping
  /\ allocPc = "swept" => logType = Logs - 1
  /\ sweeping => ~force
  /\ sweeping /\ allocPc \notin {"remember", "swept"} => old = startOf[logType]

PlaceInv ==
  sweeping =>
    /\ \A type \in LogTypes : Ahead(type) => segnoOf[type] = startOf[type]
    /\ \A type \in LogTypes : Done(type) => startOf[type] \in Kept

FullInv ==
  sweeping =>
    \A type \in full : Passed(type) => type \in drained \union filled

(* A log that finds no free segment is full.                               *)
NeedInv == sweeping /\ allocPc = "get" => logType \in full

(* Each step keeps the loop's locals in order.                             *)
LEMMA LoopNext == TypeOK /\ LoopInv /\ PlaceInv /\ [Next]_vars => LoopInv'
<1> SUFFICES ASSUME TypeOK, LoopInv, PlaceInv, [Next]_vars
             PROVE  LoopInv'
  OBVIOUS
<1> USE DEF LoopInv, logVars, poolVars, argVars, localVars, historyVars
<1>1. CASE AllocateAll \/ \E type \in LogTypes, newSection \in BOOLEAN :
                            Allocate(type, newSection)
  BY <1>1 DEF Allocate, AllocateAll
<1>2. CASE RememberOld
  BY <1>2 DEF RememberOld, PlaceInv, Ahead, TypeOK
<1>3. CASE \/ \E ssr \in BOOLEAN : Choose(ssr)
           \/ \E segment \in Segments :
                ChangeCurseg(segment) \/ GetFreeSegment(segment)
           \/ ReadNext \/ NoFreeSegment
  BY <1>3 DEF Choose, ChangeCurseg, GetFreeSegment, ReadNext, NoFreeSegment
<1>4. CASE StoreSegno \/ StoreNext \/ LocateNew
  BY <1>4 DEF StoreSegno, StoreNext, LocateNew
<1>5. CASE ReturnToCaller \/ SweepReturns
  BY <1>5 DEF ReturnToCaller, SweepReturns, Finish
<1>6. CASE NextLog
  BY <1>6 DEF NextLog, LastLog
<1>7. CASE \/ \E type \in LogTypes : FillLog(type)
           \/ \E segment \in Segments : Release(segment)
  BY <1>7 DEF FillLog, Release
<1>8. CASE UNCHANGED vars
  BY <1>8 DEF vars
<1>9. QED
  BY <1>1, <1>2, <1>3, <1>4, <1>5, <1>6, <1>7, <1>8 DEF Next, AllocationStep

(* Each step keeps track of every segment the logs had: a move lets go     *)
(* only of the segment that old remembers, and the loop locates that one.  *)
LEMMA PlaceNext == TypeOK /\ LoopInv /\ PlaceInv /\ [Next]_vars => PlaceInv'
<1> SUFFICES ASSUME TypeOK, LoopInv, PlaceInv, [Next]_vars, sweeping'
             PROVE  /\ \A type \in LogTypes :
                         Ahead(type)' => segnoOf'[type] = startOf'[type]
                    /\ \A type \in LogTypes :
                         Done(type)' => startOf'[type] \in Kept'
  BY DEF PlaceInv
<1> DEFINE Goal == /\ \A type \in LogTypes :
                        Ahead(type)' => segnoOf'[type] = startOf'[type]
                   /\ \A type \in LogTypes :
                        Done(type)' => startOf'[type] \in Kept'
<1> USE DEF logVars, poolVars, argVars, localVars, historyVars
<1>0. logType \in LogTypes
  BY DEF TypeOK
<1>1. CASE AllocateAll
  BY <1>1 DEF AllocateAll, Done, LogTypes
<1>2. CASE RememberOld \/ ReadNext \/ NoFreeSegment
            \/ \E ssr \in BOOLEAN : Choose(ssr)
  <2>1. /\ sweeping /\ UNCHANGED <<segnoOf, startOf, free, located, logType>>
        /\ allocPc \in {"remember", "choose", "new", "get"}
        /\ allocPc' \in {"choose", "change", "new", "get", "return"}
    BY <1>2 DEF RememberOld, ReadNext, NoFreeSegment, Choose
  <2>2. \A type \in LogTypes : Ahead(type)' => Ahead(type)
    BY <2>1 DEF Ahead
  <2>3. \A type \in LogTypes : Done(type)' => Done(type)
    BY <2>1 DEF Done
  <2>4. Kept \subseteq Kept'
    BY <2>1, <2>2 DEF Kept
  <2>5. QED
    BY <2>1, <2>2, <2>3, <2>4 DEF PlaceInv
<1>3. ASSUME NEW segment \in Segments, ChangeCurseg(segment)
      PROVE  Goal
  <2>1. /\ sweeping /\ startOf' = startOf /\ logType' = logType
        /\ allocPc = "change" /\ allocPc' = "return"
        /\ located' = located \ {segment} /\ free' = free
    BY <1>3 DEF ChangeCurseg
  <2>2. \A type \in LogTypes :
          segnoOf'[type] = IF type = logType THEN segment ELSE segnoOf[type]
    BY <1>3 DEF ChangeCurseg, TypeOK
  <2>3. \A type \in LogTypes : Ahead(type)' <=> Ahead(type) /\ type # logType
    BY <1>0, <2>1 DEF Ahead, LogTypes
  <2>4. Ahead(logType)
    BY <2>1 DEF Ahead
  <2>5. Kept \subseteq Kept'
    <3>1. segment \in Kept'
      BY <1>0, <2>2, <2>3 DEF Kept
    <3>2. \A type \in LogTypes : ~Ahead(type) => segnoOf[type] \in Kept'
      BY <2>2, <2>3, <2>4 DEF Kept
    <3>3. QED
      BY <2>1, <3>1, <3>2 DEF Kept
  <2>6. \A type \in LogTypes : Done(type)' => Done(type)
    BY <2>1 DEF Done
  <2>7. QED
    BY <2>1, <2>2, <2>3, <2>5, <2>6 DEF PlaceInv
<1>4. ASSUME NEW segment \in Segments, GetFreeSegment(segment)
      PROVE  Goal
  <2>1. /\ sweeping /\ UNCHANGED <<segnoOf, startOf, located, logType>>
        /\ allocPc = "get" /\ allocPc' = "store"
        /\ free' = free \ {segment} /\ segno' = segment
    BY <1>4 DEF GetFreeSegment
  <2>2. \A type \in LogTypes : Ahead(type)' <=> Ahead(type)
    BY <2>1 DEF Ahead
  <2>3. Kept \subseteq Kept'
    BY <2>1, <2>2 DEF Kept
  <2>4. \A type \in LogTypes : Done(type)' => Done(type)
    BY <2>1 DEF Done
  <2>5. QED
    BY <2>1, <2>2, <2>3, <2>4 DEF PlaceInv
<1>5. CASE StoreSegno
  <2>1. /\ sweeping /\ UNCHANGED <<startOf, located, free, logType, segno>>
        /\ allocPc = "store" /\ allocPc' = "open"
    BY <1>5 DEF StoreSegno
  <2>2. \A type \in LogTypes :
          segnoOf'[type] = IF type = logType THEN segno ELSE segnoOf[type]
    BY <1>5 DEF StoreSegno, TypeOK
  <2>3. \A type \in LogTypes : Ahead(type)' <=> Ahead(type) /\ type # logType
    BY <1>0, <2>1 DEF Ahead, LogTypes
  <2>4. Ahead(logType)
    BY <2>1 DEF Ahead
  <2>5. Kept \subseteq Kept'
    <3>1. segno \in Kept'
      BY <1>0, <2>2, <2>3 DEF Kept
    <3>2. \A type \in LogTypes : ~Ahead(type) => segnoOf[type] \in Kept'
      BY <2>2, <2>3, <2>4 DEF Kept
    <3>3. QED
      BY <2>1, <3>1, <3>2 DEF Kept
  <2>6. \A type \in LogTypes : Done(type)' => Done(type)
    BY <2>1 DEF Done
  <2>7. QED
    BY <2>1, <2>2, <2>3, <2>5, <2>6 DEF PlaceInv
<1>6. CASE StoreNext \/ LocateNew \/ UNCHANGED vars
  <2>1. /\ sweeping /\ UNCHANGED <<segnoOf, startOf, free, logType, segno>>
        /\ \/ allocPc = "open" /\ allocPc' = "locate"
           \/ allocPc = "locate" /\ allocPc' = "return"
           \/ allocPc' = allocPc
        /\ located \subseteq located'
    BY <1>6 DEF StoreNext, LocateNew, vars
  <2>2. \A type \in LogTypes : Ahead(type)' <=> Ahead(type)
    BY <2>1 DEF Ahead
  <2>3. Kept \subseteq Kept'
    BY <2>1, <2>2 DEF Kept
  <2>4. \A type \in LogTypes : Done(type)' => Done(type)
    BY <2>1 DEF Done
  <2>5. QED
    BY <2>1, <2>2, <2>3, <2>4 DEF PlaceInv
<1>7. CASE NextLog
  <2>1. /\ sweeping /\ allocPc = "return"
        /\ UNCHANGED <<segnoOf, startOf, free>>
        /\ located' = located \union LeftBehind
    BY <1>7 DEF NextLog
  <2>2. ASSUME NEW type \in LogTypes, Ahead(type)'
        PROVE  Ahead(type)
    BY <1>0, <1>7, <2>2 DEF NextLog, Ahead, LogTypes
  <2>3. Kept \subseteq Kept'
    BY <2>1, <2>2 DEF Kept
  <2>4. startOf[logType] \in Kept'
    <3>1. ~Ahead(logType)
      BY <1>0, <2>1 DEF Ahead, LogTypes
    <3>2. old = startOf[logType] /\ segnoOf[logType] \in Kept
      BY <1>0, <2>1, <3>1 DEF LoopInv, Kept
    <3>3. old = segnoOf[logType] \/ old \in located'
      BY <2>1 DEF LeftBehind
    <3>4. QED
      BY <2>3, <3>2, <3>3 DEF Kept
  <2>5. ASSUME NEW type \in LogTypes, Done(type)'
        PROVE  Done(type) \/ type = logType
    BY <1>0, <1>7, <2>5, LogsAssumption DEF NextLog, LastLog, Done, LogTypes
  <2>6. QED
    BY <2>1, <2>2, <2>3, <2>4, <2>5 DEF PlaceInv
<1>8. CASE \/ \E type \in LogTypes : FillLog(type)
           \/ \E segment \in Segments : Release(segment)
  <2>1. /\ sweeping /\ UNCHANGED <<segnoOf, startOf, logType, allocPc, segno>>
        /\ located \union free \subseteq located' \union free'
    BY <1>8 DEF FillLog, Release
  <2>2. \A type \in LogTypes :
          (Ahead(type)' <=> Ahead(type)) /\ (Done(type)' <=> Done(type))
    BY <2>1 DEF Ahead, Done
  <2>3. Kept \subseteq Kept'
    BY <2>1, <2>2 DEF Kept
  <2>4. QED
    BY <2>1, <2>2, <2>3 DEF PlaceInv
<1>9. ~\E type \in LogTypes, newSection \in BOOLEAN : Allocate(type, newSection)
  BY DEF Allocate
<1>10. ~(ReturnToCaller \/ SweepReturns)
  BY DEF ReturnToCaller, SweepReturns, Finish
<1>11. QED
  BY <1>1, <1>2, <1>3, <1>4, <1>5, <1>6, <1>7, <1>8, <1>9, <1>10
     DEF Next, AllocationStep

(* A log that is to take a segment stays full until it has one.            *)
LEMMA NeedNext == LoopInv /\ NeedInv /\ [Next]_vars => NeedInv'
<1> SUFFICES ASSUME LoopInv, NeedInv, [Next]_vars,
                    sweeping', allocPc' = "get"
             PROVE  logType' \in full'
  BY DEF NeedInv
<1> USE DEF logVars, poolVars, argVars, localVars, historyVars
<1>1. CASE ReadNext
  BY <1>1 DEF ReadNext, LoopInv
<1>2. CASE \/ \E type \in LogTypes : FillLog(type)
           \/ \E segment \in Segments : Release(segment)
           \/ UNCHANGED vars
  <2>1. /\ UNCHANGED <<sweeping, allocPc, logType>>
        /\ full \subseteq full'
    BY <1>2 DEF FillLog, Release, vars
  <2>2. QED
    BY <2>1 DEF NeedInv
<1>3. ~(AllocateAll \/ RememberOld \/ NoFreeSegment)
  BY DEF AllocateAll, RememberOld, NoFreeSegment
<1>4. ~(StoreSegno \/ StoreNext \/ LocateNew)
  BY DEF StoreSegno, StoreNext, LocateNew
<1>5. ~(ReturnToCaller \/ SweepReturns \/ NextLog)
  BY DEF ReturnToCaller, SweepReturns, Finish, NextLog
<1>6. /\ ~\E type \in LogTypes, newSection \in BOOLEAN :
            Allocate(type, newSection)
      /\ ~\E ssr \in BOOLEAN : Choose(ssr)
  BY DEF Allocate, Choose
<1>7. ~\E segment \in Segments : ChangeCurseg(segment) \/ GetFreeSegment(segment)
  BY DEF ChangeCurseg, GetFreeSegment
<1>8. QED
  BY <1>1, <1>2, <1>3, <1>4, <1>5, <1>6, <1>7 DEF Next, AllocationStep

(* Each step of the loop leaves a log full only for want of a segment.     *)
LEMMA FullNext ==
  TypeOK /\ LoopInv /\ FullInv /\ NeedInv /\ [Next]_vars => FullInv'
<1> SUFFICES ASSUME TypeOK, LoopInv, FullInv, NeedInv, [Next]_vars, sweeping',
                    NEW type \in full', Passed(type)'
             PROVE  type \in drained' \union filled'
  BY DEF FullInv
<1> USE DEF logVars, poolVars, argVars, localVars, historyVars
<1>0. logType \in LogTypes /\ type \in LogTypes'
  BY TypeNext DEF TypeOK, LogTypes
<1>1. CASE AllocateAll
  BY <1>0, <1>1 DEF AllocateAll, Passed, LogTypes
<1>2. CASE RememberOld \/ (\E ssr \in BOOLEAN : Choose(ssr))
            \/ ReadNext \/ NoFreeSegment
  BY <1>2 DEF RememberOld, Choose, ReadNext, NoFreeSegment, FullInv, Passed,
              LoopInv
<1>3. CASE StoreSegno \/ StoreNext \/ LocateNew
  BY <1>3 DEF StoreSegno, StoreNext, LocateNew, FullInv, Passed
<1>4. CASE \E segment \in Segments :
             ChangeCurseg(segment) \/ GetFreeSegment(segment)
  BY <1>4 DEF ChangeCurseg, GetFreeSegment, FullInv, Passed
<1>5. CASE NextLog
  <2>1. Passed(type)
    BY <1>0, <1>5, LogsAssumption DEF NextLog, LastLog, Passed, LogTypes
  <2>2. QED
    BY <1>5, <2>1 DEF NextLog, FullInv
<1>6. CASE \E t \in LogTypes : FillLog(t)
  BY <1>6 DEF FillLog, FullInv, Passed
<1>7. CASE (\E segment \in Segments : Release(segment)) \/ UNCHANGED vars
  BY <1>7 DEF Release, vars, FullInv, Passed
<1>8. ~\E t \in LogTypes, newSection \in BOOLEAN : Allocate(t, newSection)
  BY DEF Allocate
<1>9. ~(ReturnToCaller \/ SweepReturns)
  BY DEF ReturnToCaller, SweepReturns, Finish
<1>10. QED
  BY <1>1, <1>2, <1>3, <1>4, <1>5, <1>6, <1>7, <1>8, <1>9
     DEF Next, AllocationStep

(* The inductive invariant of the loop holds in every state.               *)
THEOREM SweepInvariant == Spec => [](LoopInv /\ PlaceInv /\ FullInv /\ NeedInv)
<1>1. Init => LoopInv /\ PlaceInv /\ FullInv /\ NeedInv
  BY DEF Init, LoopInv, PlaceInv, FullInv, NeedInv
<1>2. QED
  BY <1>1, LoopNext, PlaceNext, NeedNext, FullNext, LogTypeCorrect, PTL DEF Spec

(* After the loop every segment a log had before is held, located or free. *)
THEOREM NothingForgotten == Spec => []NoSegmentForgotten
<1>1. LoopInv /\ PlaceInv => NoSegmentForgotten
  BY DEF LoopInv, PlaceInv, NoSegmentForgotten, Done, Kept, Held
<1>2. QED
  BY <1>1, SweepInvariant, PTL

(* After the loop only logs that found no free segment are full, and those *)
(* filled again since.                                                     *)
THEOREM FullOnlyForWant == Spec => []OnlyDrainedLogsStayFull
<1>1. LoopInv /\ FullInv => OnlyDrainedLogsStayFull
  BY DEF LoopInv, FullInv, OnlyDrainedLogsStayFull, Passed
<1>2. QED
  BY <1>1, SweepInvariant, PTL
=============================================================================
