------------------------- MODULE TranGcWorkerProofs -------------------------
(***************************************************************************)
(* The wrapper, its worker and the memory behind both, for any set of      *)
(* stock modes, any results of the collector and any width of the          *)
(* counters. The worker is a client of the wrapper like any other: every   *)
(* step of it and of its neighbours is a step of the wrapper's             *)
(* specification, the end of a run being a store to gc_type. So the       *)
(* wrapper's invariants, which come first, hold of the worker; its own     *)
(* need what it knows while a call is going on and the snapshot of gc_type *)
(* that it carries.                                                        *)
(***************************************************************************)
EXTENDS VendorBlock, TLAPS

(* Counting stays within the counter.                                      *)
LEMMA IncrementedInCounter ==
  ASSUME NEW counter \in Counter
  PROVE  Incremented(counter) \in Counter
  BY CounterRangeAssumption DEF Incremented, Counter

(* The wrapper's store is a stock mode or one of the two vendor modes.     *)
LEMMA ModeForGcTypeRange ==
  ASSUME NEW type \in GcTypes, NEW old \in Modes
  PROVE  /\ ModeForGcType(type, old) \in Modes \union {2, 3}
         /\ type = 0 => ModeForGcType(type, old) = old
  BY DEF ModeForGcType, GcTypes

(* oldMode is the right value to put back, unless a store is lost anyway.  *)
SavedModeCurrent == InWindow /\ ~lost => oldMode = stockMode

(* sampledType only matters once sampled, oldMode once saved; the modes    *)
(* need no more than the three facts together.                             *)
ModeInv ==
  /\ WrapperTypeOK
  /\ OverrideNeverLeaks
  /\ OnlyWindowStoresAreLost
  /\ SavedModeCurrent

(* The placeholder of a dead local is a mode.                              *)
LEMMA AnyModeIsAMode == AnyMode \in Modes
  BY ModesAssumption DEF AnyMode

(* Before the first call gc_mode holds the value stock code stored.        *)
LEMMA ModeInvInit == WrapperInit => ModeInv
<1> SUFFICES ASSUME WrapperInit PROVE ModeInv
  OBVIOUS
<1>1. 0 \in GcTypes /\ 0 \in Counter
  BY CounterRangeAssumption DEF GcTypes, Counter
<1>2. WrapperTypeOK
  BY <1>1, AnyModeIsAMode DEF WrapperInit, WrapperTypeOK, CallPoints
<1>3. QED
  BY <1>2 DEF WrapperInit, ModeInv, OverrideNeverLeaks,
              OnlyWindowStoresAreLost, SavedModeCurrent, InWindow

(* Types and the three facts about modes are preserved together.           *)
LEMMA ModeInvNext == ModeInv /\ [WrapperNext]_wrapperVars => ModeInv'
<1> SUFFICES ASSUME ModeInv, [WrapperNext]_wrapperVars
             PROVE  ModeInv'
  OBVIOUS
<1> USE DEF ModeInv, WrapperTypeOK, OverrideNeverLeaks,
            OnlyWindowStoresAreLost, SavedModeCurrent, InWindow, Overridden,
            modeVars, countVars, localVars, CallPoints
<1>1. CASE CallBegin
  BY <1>1, IncrementedInCounter DEF CallBegin
<1>2. CASE SampleType
  BY <1>2 DEF SampleType
<1>3. CASE SaveMode
  BY <1>3 DEF SaveMode
<1>4. CASE OverrideMode
  BY <1>4, ModeForGcTypeRange DEF OverrideMode, TemporaryMode
<1>5. ASSUME NEW result \in Results, CollectorReturns(result)
      PROVE  ModeInv'
  BY <1>5 DEF CollectorReturns
<1>6. CASE RestoreMode
  BY <1>6 DEF RestoreMode, RestoredMode
<1>7. CASE CountCompletion
  BY <1>7, IncrementedInCounter DEF CountCompletion
<1>8. CASE CallReturns
  BY <1>8, AnyModeIsAMode DEF CallReturns, GcTypes
<1>9. ASSUME NEW type \in GcTypes, GcTypeWrite(type)
      PROVE  ModeInv'
  BY <1>9 DEF GcTypeWrite
<1>10. ASSUME NEW mode \in Modes, GcModeWrite(mode)
       PROVE  ModeInv'
  BY <1>10 DEF GcModeWrite
<1>11. CASE UNCHANGED wrapperVars
  BY <1>11 DEF wrapperVars
<1>12. QED
  BY <1>1, <1>2, <1>3, <1>4, <1>5, <1>6, <1>7, <1>8, <1>9, <1>10, <1>11
     DEF WrapperNext, WrapperStep

(* The inductive invariant of the two mode words holds in every state.     *)
THEOREM ModeInvariant == WrapperSpec => []ModeInv
  BY ModeInvInit, ModeInvNext, PTL DEF WrapperSpec

(* The types of the wrapper's words and locals.                            *)
THEOREM WrapperTypeCorrect == WrapperSpec => []WrapperTypeOK
  BY ModeInvariant, PTL DEF ModeInv

(* gc_mode holds a vendor value only around the collector call.            *)
THEOREM OverrideIsTemporary == WrapperSpec => []OverrideNeverLeaks
  BY ModeInvariant, PTL DEF ModeInv

(* A store of gc_mode is lost only if it fell into the wrapper's window.   *)
THEOREM StoresSurvive == WrapperSpec => []OnlyWindowStoresAreLost
  BY ModeInvariant, PTL DEF ModeInv

(* The collector runs in the configured mode unless a store raced it.      *)
THEOREM ConfiguredModeSeen == WrapperSpec => []CollectorSeesConfiguredMode
<1>1. WrapperInit => CollectorSeesConfiguredMode
  BY DEF WrapperInit, CollectorSeesConfiguredMode
<1>2. ModeInv /\ CollectorSeesConfiguredMode /\ [WrapperNext]_wrapperVars
        => CollectorSeesConfiguredMode'
  <2> SUFFICES ASSUME ModeInv, CollectorSeesConfiguredMode,
                      [WrapperNext]_wrapperVars,
                      (callPc = "collect" /\ ~lost)'
               PROVE  (gcMode = ModeForGcType(sampledType, stockMode))'
    BY DEF CollectorSeesConfiguredMode
  <2> USE DEF CollectorSeesConfiguredMode, modeVars, countVars, localVars
  <2>1. CASE OverrideMode
    BY <2>1 DEF OverrideMode, TemporaryMode, ModeInv, SavedModeCurrent, InWindow
  <2>2. ASSUME NEW type \in GcTypes, GcTypeWrite(type)
        PROVE  (gcMode = ModeForGcType(sampledType, stockMode))'
    BY <2>2 DEF GcTypeWrite
  <2>3. ASSUME NEW mode \in Modes, GcModeWrite(mode)
        PROVE  (gcMode = ModeForGcType(sampledType, stockMode))'
    BY <2>3 DEF GcModeWrite, InWindow, ModeInv, WrapperTypeOK, GcTypes,
                ModeForGcType
  <2>4. CASE UNCHANGED wrapperVars
    BY <2>4 DEF wrapperVars
  <2>5. QED
    BY <2>1, <2>2, <2>3, <2>4
       DEF WrapperNext, WrapperStep, CallBegin, SampleType, SaveMode,
           CollectorReturns, RestoreMode, CountCompletion, CallReturns
<1>3. QED
  BY <1>1, <1>2, ModeInvariant, PTL DEF WrapperSpec

(* The two counters differ by one exactly while a call is in progress.     *)
THEOREM CountersAgree == WrapperSpec => []CountersBracketCall
<1>1. WrapperInit => CountersBracketCall
  BY DEF WrapperInit, CountersBracketCall
<1>2. CountersBracketCall /\ [WrapperNext]_wrapperVars => CountersBracketCall'
  BY DEF CountersBracketCall, WrapperNext, WrapperStep, CallBegin, SampleType,
         SaveMode, OverrideMode, CollectorReturns, RestoreMode,
         CountCompletion, CallReturns, GcTypeWrite, GcModeWrite,
         wrapperVars, modeVars, countVars, localVars
<1>3. QED
  BY <1>1, <1>2, PTL DEF WrapperSpec
-----------------------------------------------------------------------------

(* The types of what the worker adds.                                      *)
WorkerTypeOK ==
  /\ workerPc \in WorkerPoints
  /\ initialGcType \in GcTypes /\ lastingGcType \in GcTypes
  /\ threadCreate \in Counter /\ threadDestroy \in Counter
  /\ urgent \in BOOLEAN /\ stopRequested \in BOOLEAN
  /\ phase \in {0, 4} /\ capacityState \in 0..2 /\ thresholdHit \in 0..1
  /\ gcMutex \in {"none", "worker", "stock"}

(* Only the worker calls the wrapper, and holds gc_mutex up to and through *)
(* the collector call.                                                     *)
CallInv ==
  /\ callPc # "idle" => workerPc = "call"
  /\ workerPc = "call" /\ callPc \in {"idle", "type", "mode", "override", "collect"}
       => gcMutex = "worker"

(* A run carries the gc_type that was in force before it until it puts it  *)
(* back.                                                                   *)
SnapshotInv ==
  IF SnapshotPending THEN initialGcType = lastingGcType
  ELSE gcType = lastingGcType

(* The steps of the worker that only move it on, two policy words aside.   *)
Moves ==
  \/ ClearTypeState \/ ClearStatusState \/ Wake \/ Dispatch
  \/ \E enough \in BOOLEAN, charger \in ChargerTypes :
       UrgentGate(enough, charger)
  \/ PressurePasses \/ ThresholdReached
  \/ \E next \in {"admit", "wait"} : PressureFails(next)
  \/ \E granted \in BOOLEAN : Admission(granted)
  \/ Balance \/ EndWrite

(* Where a step of the worker that only moves on may go.                   *)
LEMMA MovesOn ==
  ASSUME Moves
  PROVE  /\ UNCHANGED <<wrapperVars, runVars, controlVars, gcMutex>>
         /\ capacityState' \in {1, 2, capacityState}
         /\ thresholdHit' \in {1, thresholdHit}
         /\ \/ workerPc \in {"type", "status"}
                 /\ workerPc' \in {"status", "create"}
            \/ workerPc \in LoopPoints \ {"call", "trylock"}
                 /\ workerPc' \in (LoopPoints \ {"call"}) \union {"end"}
  BY DEF Moves, ClearTypeState, ClearStatusState, Wake, AfterWait, Dispatch,
         UrgentGate, PressurePasses, ThresholdReached, PressureFails,
         Admission, Balance, EndWrite, Goto, policyVars, LoopPoints

-----------------------------------------------------------------------------
(* A worker action changes gc_type, the mode and the call only as the      *)
(* wrapper's specification allows.                                         *)
LEMMA WorkerRefinesWrapperStep ==
  ASSUME initialGcType \in GcTypes, [Next]_vars
  PROVE  [WrapperNext]_wrapperVars
<1> USE DEF WrapperNext
<1>1. CASE WorkerEntry
  BY <1>1 DEF WorkerEntry
<1>3. CASE WorkerStep
  <2>1. CASE EnterWrapper
    BY <2>1 DEF EnterWrapper
  <2>2. CASE InsideWrapper
    BY <2>2 DEF InsideWrapper
  <2>3. CASE LeaveWrapper
    BY <2>3 DEF LeaveWrapper
  <2>4. CASE RestoreGcType
    <3>1. GcTypeWrite(initialGcType)
      BY <2>4 DEF RestoreGcType, GcTypeWrite
    <3>2. QED
      BY <3>1
  <2>5. CASE Moves
    BY <2>5, MovesOn
  <2>6. CASE CountCreate \/ EndPhase \/ CountDestroy
    BY <2>6 DEF CountCreate, EndPhase, CountDestroy
  <2>7. CASE TryLockGcMutex
    BY <2>7 DEF TryLockGcMutex, Goto
  <2>8. QED
    BY <1>3, <2>1, <2>2, <2>3, <2>4, <2>5, <2>6, <2>7 DEF WorkerStep, Moves
<1>4. CASE Environment
  <2>1. ASSUME NEW type \in GcTypes, ConfigureGcType(type)
        PROVE  WrapperNext
    BY <2>1 DEF ConfigureGcType
  <2>2. ASSUME NEW mode \in Modes, StockModeWrite(mode)
        PROVE  WrapperNext
    BY <2>2 DEF StockModeWrite
  <2>3. ASSUME NEW dropUrgent \in BOOLEAN, StopWorker(dropUrgent)
        PROVE  UNCHANGED wrapperVars
    BY <2>3 DEF StopWorker
  <2>4. CASE UrgentOn \/ StockLocks \/ StockUnlocks
    BY <2>4 DEF UrgentOn, StockLocks, StockUnlocks
  <2>5. QED
    BY <1>4, <2>1, <2>2, <2>3, <2>4 DEF Environment
<1>5. CASE UNCHANGED vars
  BY <1>5 DEF vars
<1>6. QED
  BY <1>1, <1>3, <1>4, <1>5 DEF Next

-----------------------------------------------------------------------------
(* Before the first run the words of the worker are well typed.            *)
LEMMA WorkerTypeInit == Init => WorkerTypeOK
<1> SUFFICES ASSUME Init PROVE WorkerTypeOK
  OBVIOUS
<1>1. 0 \in Counter
  BY CounterRangeAssumption DEF Counter
<1>2. 0 \in 0..2 /\ 0 \in 0..1
  OBVIOUS
<1>3. QED
  BY <1>1, <1>2 DEF Init, WrapperInit, WorkerTypeOK, WorkerPoints

(* What the worker adds keeps its types.                                   *)
LEMMA WorkerTypeNext ==
  ASSUME gcType \in GcTypes, WorkerTypeOK, [Next]_vars
  PROVE  WorkerTypeOK'
<1> USE DEF WorkerTypeOK, WorkerPoints, EntryPoints, LoopPoints, ExitPoints,
            runVars, policyVars, controlVars, workerVars
<1>1. CASE WorkerEntry
  BY <1>1 DEF WorkerEntry
<1>2. CASE CountCreate
  BY <1>2, IncrementedInCounter DEF CountCreate
<1>3. CASE Moves
  BY <1>3, MovesOn
<1>4. CASE TryLockGcMutex
  BY <1>4 DEF TryLockGcMutex, Goto
<1>5. CASE EnterWrapper \/ InsideWrapper \/ LeaveWrapper
  BY <1>5 DEF EnterWrapper, InsideWrapper, LeaveWrapper
<1>6. CASE RestoreGcType
  BY <1>6 DEF RestoreGcType
<1>7. CASE EndPhase
  BY <1>7 DEF EndPhase
<1>8. CASE CountDestroy
  BY <1>8, IncrementedInCounter DEF CountDestroy
<1>10. ASSUME NEW type \in GcTypes, ConfigureGcType(type)
       PROVE  WorkerTypeOK'
  BY <1>10 DEF ConfigureGcType
<1>11. ASSUME NEW mode \in Modes, StockModeWrite(mode)
       PROVE  WorkerTypeOK'
  BY <1>11 DEF StockModeWrite
<1>12. CASE UrgentOn
  BY <1>12 DEF UrgentOn
<1>13. ASSUME NEW dropUrgent \in BOOLEAN, StopWorker(dropUrgent)
       PROVE  WorkerTypeOK'
  BY <1>13 DEF StopWorker
<1>14. CASE StockLocks \/ StockUnlocks
  BY <1>14 DEF StockLocks, StockUnlocks
<1>15. CASE UNCHANGED vars
  BY <1>15 DEF vars
<1>16. QED
  BY <1>1, <1>2, <1>3, <1>4, <1>5, <1>6, <1>7, <1>8, <1>10, <1>11,
     <1>12, <1>13, <1>14, <1>15
     DEF Next, WorkerStep, Environment, Moves

(* The worker with its neighbours implements the wrapper's specification.  *)
THEOREM WorkerIsAWrapperClient == Spec => WrapperSpec /\ []WorkerTypeOK
<1>1. Init => WrapperInit /\ WrapperTypeOK /\ WorkerTypeOK
  BY ModeInvInit, WorkerTypeInit DEF Init, ModeInv
<1>2. Init => ModeInv
  BY ModeInvInit DEF Init
<1>3. ModeInv /\ WorkerTypeOK /\ [Next]_vars
        => ModeInv' /\ WorkerTypeOK' /\ [WrapperNext]_wrapperVars
  BY WorkerRefinesWrapperStep, ModeInvNext, WorkerTypeNext
     DEF ModeInv, WrapperTypeOK, WorkerTypeOK
<1>4. QED
  BY <1>1, <1>2, <1>3, PTL DEF Spec, WrapperSpec

(* Type correctness of the worker and the wrapper.                         *)
THEOREM TypeCorrect == Spec => []TypeOK
<1>1. WrapperTypeOK /\ WorkerTypeOK => TypeOK
  BY DEF TypeOK, WorkerTypeOK
<1>2. QED
  BY <1>1, WorkerIsAWrapperClient, WrapperTypeCorrect, PTL

(* The wrapper's guarantees, in the worker's hands.                        *)
THEOREM WrapperGuarantees ==
  Spec => [](OverrideNeverLeaks /\ OnlyWindowStoresAreLost
               /\ CollectorSeesConfiguredMode /\ CountersBracketCall)
  BY WorkerIsAWrapperClient, OverrideIsTemporary, StoresSurvive,
     ConfiguredModeSeen, CountersAgree, PTL

-----------------------------------------------------------------------------
(* Each step keeps the worker in its call as long as the wrapper runs,     *)
(* with gc_mutex held until the collector has returned.                    *)
LEMMA CallInvNext == CallInv /\ [Next]_vars => CallInv'
<1> SUFFICES ASSUME CallInv, [Next]_vars
             PROVE  CallInv'
  OBVIOUS
<1> USE DEF CallInv, runVars, policyVars, controlVars, workerVars,
            wrapperVars, LoopPoints
<1>1. CASE WorkerEntry
  BY <1>1 DEF WorkerEntry
<1>2. CASE EnterWrapper
  BY <1>2 DEF EnterWrapper, CallBegin
<1>3. CASE InsideWrapper
  BY <1>3 DEF InsideWrapper, WrapperStep, SampleType, SaveMode, OverrideMode,
              CollectorReturns, RestoreMode, CountCompletion
<1>4. CASE LeaveWrapper
  BY <1>4 DEF LeaveWrapper, CallReturns
<1>5. CASE CountCreate \/ RestoreGcType \/ EndPhase \/ CountDestroy
  BY <1>5 DEF CountCreate, RestoreGcType, EndPhase, CountDestroy
<1>6. CASE TryLockGcMutex
  BY <1>6 DEF TryLockGcMutex, Goto
<1>7. CASE Moves
  BY <1>7, MovesOn
<1>8. CASE Environment
  BY <1>8 DEF Environment, ConfigureGcType, GcTypeWrite, StockModeWrite,
              GcModeWrite, UrgentOn, StopWorker, StockLocks, StockUnlocks
<1>9. CASE UNCHANGED vars
  BY <1>9 DEF vars
<1>10. QED
  BY <1>1, <1>2, <1>3, <1>4, <1>5, <1>6, <1>7, <1>8, <1>9
     DEF Next, WorkerStep, Moves

(* The stock GC thread and the wrapper's collector exclude each other.     *)
THEOREM CollectorsExclude == Spec => []OneCollector
<1>1. Init => CallInv
  BY DEF Init, WrapperInit, CallInv
<1>2. CallInv /\ WrapperTypeOK => OneCollector
  BY DEF CallInv, WrapperTypeOK, CallPoints, OneCollector
<1>3. QED
  BY <1>1, <1>2, CallInvNext, TypeCorrect, PTL DEF Spec, TypeOK

-----------------------------------------------------------------------------
(* Each step keeps the snapshot, as long as it is to be put back, equal to *)
(* the last setting made outside it.                                       *)
LEMMA SnapshotInvNext == SnapshotInv /\ [Next]_vars => SnapshotInv'
<1> SUFFICES ASSUME SnapshotInv, [Next]_vars
             PROVE  SnapshotInv'
  OBVIOUS
<1> USE DEF SnapshotInv, SnapshotPending, runVars, workerVars, wrapperVars,
            LoopPoints
<1>1. CASE WorkerEntry
  BY <1>1 DEF WorkerEntry
<1>2. CASE EnterWrapper
  BY <1>2 DEF EnterWrapper, CallBegin
<1>3. CASE InsideWrapper
  BY <1>3 DEF InsideWrapper, WrapperStep, SampleType, SaveMode, OverrideMode,
              CollectorReturns, RestoreMode, CountCompletion
<1>4. CASE LeaveWrapper
  BY <1>4 DEF LeaveWrapper, CallReturns
<1>5. CASE CountCreate \/ RestoreGcType \/ EndPhase \/ CountDestroy
  BY <1>5 DEF CountCreate, RestoreGcType, EndPhase, CountDestroy
<1>6. CASE TryLockGcMutex
  BY <1>6 DEF TryLockGcMutex, Goto
<1>7. CASE Moves
  BY <1>7, MovesOn
<1>8. CASE Environment
  BY <1>8 DEF Environment, ConfigureGcType, GcTypeWrite, StockModeWrite,
              GcModeWrite, UrgentOn, StopWorker, StockLocks, StockUnlocks
<1>9. CASE UNCHANGED vars
  BY <1>9 DEF vars
<1>10. QED
  BY <1>1, <1>2, <1>3, <1>4, <1>5, <1>6, <1>7, <1>8, <1>9
     DEF Next, WorkerStep, Moves

(* A run undoes no setting of gc_type but those made while it was waiting  *)
(* to put its snapshot back.                                               *)
THEOREM RunUndoesOnlyItsOwn == Spec => []OnlyRunStoresAreUndone
<1>1. Init => SnapshotInv
  BY DEF Init, SnapshotInv, SnapshotPending
<1>2. SnapshotInv => OnlyRunStoresAreUndone
  BY DEF SnapshotInv, OnlyRunStoresAreUndone
<1>3. QED
  BY <1>1, <1>2, SnapshotInvNext, PTL DEF Spec

(* Every run is counted in and out exactly once.                           *)
THEOREM RunsBalance == Spec => []RunsAreAccounted
<1>1. Init => RunsAreAccounted
  BY DEF Init, RunsAreAccounted
<1>2. RunsAreAccounted /\ [Next]_vars => RunsAreAccounted'
  <2> SUFFICES ASSUME RunsAreAccounted, [Next]_vars
               PROVE  RunsAreAccounted'
    OBVIOUS
  <2> USE DEF RunsAreAccounted, runVars, workerVars, EntryPoints, LoopPoints
  <2>1. CASE WorkerEntry
    BY <2>1 DEF WorkerEntry
  <2>2. CASE CountCreate \/ RestoreGcType \/ EndPhase \/ CountDestroy
    BY <2>2 DEF CountCreate, RestoreGcType, EndPhase, CountDestroy
  <2>3. CASE EnterWrapper \/ InsideWrapper \/ LeaveWrapper
    BY <2>3 DEF EnterWrapper, InsideWrapper, LeaveWrapper
  <2>4. CASE TryLockGcMutex
    BY <2>4 DEF TryLockGcMutex, Goto
  <2>5. CASE Moves
    BY <2>5, MovesOn
  <2>6. CASE Environment
    BY <2>6 DEF Environment, ConfigureGcType, StockModeWrite, UrgentOn,
                StopWorker, StockLocks, StockUnlocks
  <2>7. CASE UNCHANGED vars
    BY <2>7 DEF vars
  <2>8. QED
    BY <2>1, <2>2, <2>3, <2>4, <2>5, <2>6, <2>7 DEF Next, WorkerStep, Moves
<1>3. QED
  BY <1>1, <1>2, PTL DEF Spec

-----------------------------------------------------------------------------
(***************************************************************************)
(* The memory: the fields lie apart, so a store to one of them leaves the  *)
(* bytes of the others alone, and every step stores what it changes.       *)
(***************************************************************************)

(* The fields that the recovered code stores to, by name.                  *)
LEMMA FieldNames ==
  Fields = {"gcMode", "gcCount", "gcType", "postGcCount", "phase",
            "threadCreate", "threadDestroy", "typeState", "statusState",
            "capacityState", "thresholdHit"}
  BY DEF Fields, Layout

(* No two fields share a byte, and none covers a field of other code.      *)
LEMMA FieldsApart ==
  ASSUME NEW field \in Fields
  PROVE  /\ Bytes(field) \intersect OthersFields = {}
         /\ \A other \in Fields \ {field} :
              Bytes(field) \intersect Bytes(other) = {}
<1> USE FieldNames DEF Bytes, Place, Layout, U8, U32, U64, Sbi, X
<1>1. Bytes(field) \intersect OthersFields = {}
  BY DEF OthersFields
<1>2. ASSUME NEW other \in Fields, other # field
      PROVE  Bytes(field) \intersect Bytes(other) = {}
  BY <1>2
<1>3. QED
  BY <1>1, <1>2

(* A store fills its own field and nothing else.                           *)
LEMMA PutIsLocal ==
  ASSUME NEW mem, DOMAIN mem = BlockBytes, NEW field \in Fields, NEW value
  PROVE  /\ DOMAIN Put(mem, field, value) = BlockBytes
         /\ Holds(Put(mem, field, value), field, value)
         /\ \A other \in Fields \ {field} : \A kept :
              Holds(mem, other, kept)
                => Holds(Put(mem, field, value), other, kept)
         /\ \A byte \in OthersFields :
              Put(mem, field, value)[byte] = mem[byte]
<1>1. \A any \in Fields : Bytes(any) \subseteq BlockBytes
  BY DEF BlockBytes
<1>2. OthersFields \subseteq BlockBytes
  BY DEF BlockBytes
<1>3. QED
  BY <1>1, <1>2, FieldsApart DEF Put, Holds

(* A memory that holds these contents, beside those of other code.         *)
BlockOK(mem, contents) ==
  /\ DOMAIN mem = BlockBytes
  /\ \A field \in Fields : Holds(mem, field, contents[field])
  /\ \A byte \in OthersFields : mem[byte] = Foreign

(* A store changes the contents of its field and no others.                *)
LEMMA StoreKeepsBlock ==
  ASSUME NEW mem, NEW contents, NEW field \in Fields, NEW value, NEW now,
         BlockOK(mem, contents),
         now[field] = value,
         \A other \in Fields \ {field} : now[other] = contents[other]
  PROVE  BlockOK(Put(mem, field, value), now)
  BY PutIsLocal DEF BlockOK

(* The strengthening: the memory keeps its extent as well.                 *)
BlockInv == BlockOK(memory, Contents)

(* The contents name every field and nothing else.                         *)
LEMMA ContentsFields == DOMAIN Contents = Fields
  BY FieldNames DEF Contents

(* The memory starts with the contents in place.                           *)
LEMMA BlockInitially == BlockInit => BlockInv
<1> SUFFICES ASSUME BlockInit PROVE BlockInv
  OBVIOUS
<1>1. ASSUME NEW field \in Fields, NEW byte \in Bytes(field)
      PROVE  byte \in BlockBytes \ OthersFields /\ FieldAt(byte) = field
  <2>1. \A other \in Fields : byte \in Bytes(other) => other = field
    BY FieldsApart
  <2>2. QED
    BY <2>1, FieldsApart DEF FieldAt, BlockBytes
<1>2. ASSUME NEW field \in Fields
      PROVE  Holds(memory, field, Contents[field])
  BY <1>1 DEF BlockInit, Holds
<1>3. \A byte \in OthersFields : memory[byte] = Foreign
  BY DEF BlockInit, BlockBytes
<1>4. DOMAIN memory = BlockBytes
  BY DEF BlockInit
<1>5. QED
  BY <1>2, <1>3, <1>4 DEF BlockInv, BlockOK

(* Where the contents differ in no more than one field, which is stored.   *)
Differs(field) ==
  \A other \in Fields \ {field} : Contents'[other] = Contents[other]

(* A step that stores the one field it changes keeps the memory in order.  *)
LEMMA OneStore ==
  ASSUME BlockInv, NEW field \in Fields, Differs(field),
         Stores(field, Contents'[field])
  PROVE  BlockInv'
  BY StoreKeepsBlock DEF BlockInv, Stores, Differs

(* So does a step that changes no field and stores none.                   *)
LEMMA NoStore ==
  ASSUME BlockInv, UNCHANGED memory, UNCHANGED Contents
  PROVE  BlockInv'
  BY DEF BlockInv, BlockOK

(* A step of the worker changes nothing in the block but the word it       *)
(* stores, and nothing at all where it stores none.                        *)
LEMMA WorkerDiffers ==
  ASSUME WorkerStep, workerPc # "call"
  PROVE  IF workerPc \in DOMAIN StoredAt THEN Differs(StoredAt[workerPc])
         ELSE UNCHANGED Contents
<1> USE FieldNames
    DEF Differs, Contents, StoredAt, Goto, wrapperVars, modeVars, countVars,
        runVars, policyVars
<1>1. CASE ClearTypeState \/ ClearStatusState
  BY <1>1 DEF ClearTypeState, ClearStatusState
<1>2. CASE CountCreate \/ RestoreGcType \/ EndPhase \/ CountDestroy
  BY <1>2 DEF CountCreate, RestoreGcType, EndPhase, CountDestroy
<1>3. CASE PressurePasses \/ ThresholdReached
             \/ \E next \in {"admit", "wait"} : PressureFails(next)
  BY <1>3 DEF PressurePasses, ThresholdReached, PressureFails
<1>4. CASE \/ Wake \/ Dispatch \/ TryLockGcMutex \/ Balance \/ EndWrite
           \/ \E enough \in BOOLEAN, charger \in ChargerTypes :
                UrgentGate(enough, charger)
           \/ \E granted \in BOOLEAN : Admission(granted)
  BY <1>4 DEF Wake, Dispatch, TryLockGcMutex, Balance, EndWrite, UrgentGate,
              Admission
<1>5. QED
  BY <1>1, <1>2, <1>3, <1>4
     DEF WorkerStep, EnterWrapper, InsideWrapper, LeaveWrapper

(* The stores of the wrapper.                                              *)
LEMMA WrapperKeepsBlock ==
  ASSUME BlockInv, EnterWrapper \/ InsideWrapper \/ LeaveWrapper,
         WrapperStores
  PROVE  BlockInv'
<1> USE FieldNames
    DEF wrapperVars, modeVars, countVars, localVars, workerVars, runVars,
        policyVars
<1>1. CASE EnterWrapper
  <2>1. Differs("gcCount") /\ Stores("gcCount", Contents'["gcCount"])
    BY <1>1 DEF EnterWrapper, CallBegin, WrapperStores, Differs, Contents
  <2>2. QED
    BY <2>1, OneStore
<1>2. CASE InsideWrapper
  <2>1. CASE SampleType \/ SaveMode
             \/ \E result \in Results : CollectorReturns(result)
    <3>1. UNCHANGED memory /\ UNCHANGED Contents
      BY <1>2, <2>1 DEF InsideWrapper, SampleType, SaveMode,
         CollectorReturns, WrapperStores, Contents
    <3>2. QED
      BY <3>1, NoStore
  <2>2. CASE OverrideMode \/ (RestoreMode /\ sampledType # 0)
    <3>1. Differs("gcMode") /\ Contents'["gcMode"] = gcMode'
      BY <1>2, <2>2 DEF InsideWrapper, OverrideMode, RestoreMode,
         Differs, Contents
    <3>2. Stores("gcMode", gcMode')
      BY <2>2 DEF OverrideMode, RestoreMode, WrapperStores
    <3>3. QED
      BY <3>1, <3>2, OneStore
  <2>3. CASE RestoreMode /\ sampledType = 0
    <3>1. UNCHANGED memory
      BY <2>3 DEF RestoreMode, WrapperStores
    <3>2. UNCHANGED Contents
      BY <1>2, <2>3 DEF InsideWrapper, RestoreMode, RestoredMode, Contents
    <3>3. QED
      BY <3>1, <3>2, NoStore
  <2>4. CASE CountCompletion
    <3>1. Differs("postGcCount")
          /\ Stores("postGcCount", Contents'["postGcCount"])
      BY <1>2, <2>4 DEF InsideWrapper, CountCompletion, WrapperStores,
         Differs, Contents
    <3>2. QED
      BY <3>1, OneStore
  <2>5. QED
    BY <1>2, <2>1, <2>2, <2>3, <2>4 DEF InsideWrapper, WrapperStep
<1>3. CASE LeaveWrapper
  <2>1. UNCHANGED memory /\ UNCHANGED Contents
    BY <1>3 DEF LeaveWrapper, CallReturns, WrapperStores, Contents
  <2>2. QED
    BY <2>1, NoStore
<1>4. QED
  BY <1>1, <1>2, <1>3

(* Every step of the worker and of its neighbours makes its stores.        *)
LEMMA BlockNextKeeps ==
  ASSUME BlockInv, [BlockNext]_blockVars
  PROVE  BlockInv'
<1>1. CASE WorkerEntry /\ UNCHANGED memory
  <2>1. UNCHANGED Contents
    BY <1>1 DEF WorkerEntry, Contents, wrapperVars, modeVars, countVars,
                policyVars
  <2>2. QED
    BY <1>1, <2>1, NoStore
<1>2. CASE BlockWorkerStep
  <2>1. CASE workerPc = "call"
    <3>1. WrapperStores
      BY <1>2, <2>1 DEF BlockWorkerStep, StoredAt
    <3>2. EnterWrapper \/ InsideWrapper \/ LeaveWrapper
      BY <1>2, <2>1
         DEF BlockWorkerStep, WorkerStep, Goto, ClearTypeState,
             ClearStatusState, CountCreate, Wake, Dispatch, UrgentGate,
             PressurePasses, ThresholdReached, PressureFails, Admission,
             TryLockGcMutex, Balance, EndWrite, RestoreGcType, EndPhase,
             CountDestroy
    <3>3. QED
      BY <3>1, <3>2, WrapperKeepsBlock
  <2>2. CASE workerPc \in DOMAIN StoredAt
    <3>1. workerPc # "call" /\ StoredAt[workerPc] \in Fields
      BY <2>2, FieldNames DEF StoredAt
    <3>2. Stores(StoredAt[workerPc], Contents'[StoredAt[workerPc]])
      BY <1>2, <2>2 DEF BlockWorkerStep, StoredAt
    <3>3. QED
      BY <1>2, <2>2, <3>1, <3>2, WorkerDiffers, OneStore DEF BlockWorkerStep
  <2>3. CASE workerPc \notin DOMAIN StoredAt /\ workerPc # "call"
    <3>1. UNCHANGED memory
      BY <1>2, <2>3 DEF BlockWorkerStep
    <3>2. QED
      BY <1>2, <2>3, <3>1, WorkerDiffers, NoStore DEF BlockWorkerStep
  <2>4. QED
    BY <2>1, <2>2, <2>3
<1>3. CASE BlockEnvironment
  <2>1. ASSUME NEW type \in GcTypes, ConfigureGcType(type),
               Stores("gcType", type)
        PROVE  BlockInv'
    <3>1. Differs("gcType") /\ Contents'["gcType"] = type
      BY <2>1, FieldNames DEF Differs, Contents, ConfigureGcType,
         GcTypeWrite, modeVars, countVars, policyVars
    <3>2. QED
      BY <2>1, <3>1, FieldNames, OneStore
  <2>2. ASSUME NEW mode \in Modes, StockModeWrite(mode),
               Stores("gcMode", mode)
        PROVE  BlockInv'
    <3>1. Differs("gcMode") /\ Contents'["gcMode"] = mode
      BY <2>2, FieldNames DEF Differs, Contents, StockModeWrite,
         GcModeWrite, countVars, workerVars, runVars, policyVars
    <3>2. QED
      BY <2>2, <3>1, FieldNames, OneStore
  <2>3. ASSUME UNCHANGED memory,
               \/ UrgentOn \/ StockLocks \/ StockUnlocks
               \/ \E dropUrgent \in BOOLEAN : StopWorker(dropUrgent)
        PROVE  BlockInv'
    <3>1. UNCHANGED Contents
      BY <2>3 DEF UrgentOn, StockLocks, StockUnlocks, StopWorker, Contents,
         wrapperVars, modeVars, countVars, runVars, policyVars
    <3>2. QED
      BY <2>3, <3>1, NoStore
  <2>4. QED
    BY <1>3, <2>1, <2>2, <2>3 DEF BlockEnvironment
<1>4. CASE UNCHANGED blockVars
  <2>1. UNCHANGED memory /\ UNCHANGED Contents
    BY <1>4 DEF blockVars, vars, workerVars, wrapperVars, modeVars,
       countVars, runVars, policyVars, Contents
  <2>2. QED
    BY <2>1, NoStore
<1>5. QED
  BY <1>1, <1>2, <1>3, <1>4 DEF BlockNext

(* The memory makes the stores of the worker's steps and no others.        *)
THEOREM BlockIsTheWorkerSystem == BlockSpec => Spec
<1>1. BlockInit => Init
  BY DEF BlockInit
<1>2. [BlockNext]_blockVars => [Next]_vars
  BY DEF BlockNext, BlockWorkerStep, BlockEnvironment, Next, Environment,
     blockVars
<1>3. QED
  BY <1>1, <1>2, PTL DEF BlockSpec, Spec

(* Every field is read back whole in every state.                          *)
THEOREM MemoryHoldsTheState == BlockSpec => []BlockHoldsTheState
<1>1. BlockInv => BlockHoldsTheState
  BY DEF BlockInv, BlockOK, BlockHoldsTheState
<1>2. QED
  BY <1>1, BlockInitially, BlockNextKeeps, PTL DEF BlockSpec
=============================================================================
