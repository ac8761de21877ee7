---------------------------- MODULE TranGcWorker ----------------------------
(***************************************************************************)
(* tran_gc_thread_func(): the vendor worker that decides when to call the  *)
(* wrapper of TranDoF2fsGc, together with its neighbours: the code that    *)
(* starts and stops it, the urgent-GC control, and the stock GC thread     *)
(* that competes for the same gc_mutex (sbi + 0x508).                      *)
(*                                                                         *)
(* The reconstruction takes gc_mutex with mutex_trylock and leaves its     *)
(* release to the stock collector, as the 4.14 f2fs_gc() does on return.   *)
(* Every access to a shared word is a step of its own.                     *)
(***************************************************************************)
EXTENDS TranDoF2fsGc

CONSTANTS
  ChargerTypes   (* what tran_get_charger_type() may return              *)

ASSUME ChargerTypesAssumption == ChargerTypes \subseteq Int

VARIABLES
  workerPc,      (* where the worker stands; "off" when there is none    *)
  initialGcType, (* local initial_gc_type                                *)
  threadCreate, threadDestroy,  (* global + 0x9e0, + 0x9e8               *)
  urgent,        (* global + 0x9d0                                       *)
  phase,         (* global + 0x9d4                                       *)
  capacityState, (* global + 0xa00                                       *)
  thresholdHit,  (* global + 0xa04                                       *)
  stopRequested, (* kthread_stop() was called on the worker              *)
  gcMutex,       (* who holds sbi + 0x508                                *)
  lastingGcType  (* history: the last gc_type stored with no snapshot of *)
                 (* it waiting to be put back                            *)

runVars == <<threadCreate, threadDestroy, initialGcType, phase, lastingGcType>>
policyVars == <<capacityState, thresholdHit>>
controlVars == <<urgent, stopRequested>>
workerVars == <<workerPc, runVars, policyVars, controlVars, gcMutex>>
vars == <<wrapperVars, workerVars>>

EntryPoints == {"type", "status", "create"}
LoopPoints == {"wait", "dispatch", "urgent", "pressure", "threshold", "admit",
               "trylock", "call", "balance", "endwrite"}
ExitPoints == {"end", "phase", "destroy"}
WorkerPoints == {"off"} \union EntryPoints \union LoopPoints \union ExitPoints

(* From its first read of gc_type until it puts that value back.           *)
SnapshotPending == workerPc \notin {"off", "phase", "destroy"}

Init ==
  /\ WrapperInit
  /\ workerPc = "off"
  /\ initialGcType = gcType /\ lastingGcType = gcType
  /\ threadCreate = 0 /\ threadDestroy = 0
  /\ urgent = FALSE /\ stopRequested = FALSE
  /\ phase = 0 /\ capacityState = 0 /\ thresholdHit = 0
  /\ gcMutex = "none"

-----------------------------------------------------------------------------
Goto(from, to) ==
  /\ workerPc = from /\ workerPc' = to
  /\ UNCHANGED <<wrapperVars, runVars, controlVars>>

(* A faulty variant: the setting is not remembered.                        *)
BugNoSnapshot ==
  /\ workerPc = "off" /\ workerPc' = "type"
  /\ UNCHANGED <<wrapperVars, runVars, policyVars, controlVars, gcMutex>>

(* A fresh worker snapshots gc_type, clears two telemetry words (they are  *)
(* in VendorBlock; nothing here reads them) and counts itself.             *)
WorkerEntry ==
  /\ workerPc = "off" /\ workerPc' = "type"
  /\ initialGcType' = gcType
  /\ UNCHANGED <<wrapperVars, threadCreate, threadDestroy, phase,
                 lastingGcType, policyVars, controlVars, gcMutex>>

ClearTypeState == Goto("type", "status") /\ UNCHANGED <<policyVars, gcMutex>>
ClearStatusState ==
  Goto("status", "create") /\ UNCHANGED <<policyVars, gcMutex>>

CountCreate ==
  /\ workerPc = "create" /\ workerPc' = "wait"
  /\ threadCreate' = Incremented(threadCreate)
  /\ UNCHANGED <<wrapperVars, threadDestroy, initialGcType, phase,
                 lastingGcType, policyVars, controlVars, gcMutex>>

(* The wait ends by timeout or wake-up; a stop request ends the run.  A    *)
(* faulty variant looks at the urgent request first.                       *)
BugUrgentFirst ==
  IF urgent THEN "urgent" ELSE IF stopRequested THEN "end" ELSE "dispatch"
AfterWait == IF stopRequested THEN "end" ELSE "dispatch"

Wake ==
  /\ Goto("wait", AfterWait)
  /\ UNCHANGED <<policyVars, gcMutex>>

Dispatch ==
  /\ Goto("dispatch", IF urgent THEN "urgent" ELSE "pressure")
  /\ UNCHANGED <<policyVars, gcMutex>>

(* enough is the answer of tran_has_enough_free_segment().                 *)
UrgentGate(enough, charger) ==
  /\ Goto("urgent", IF ~enough THEN "pressure"
                    ELSE IF charger = 1 THEN "admit" ELSE "wait")
  /\ UNCHANGED <<policyVars, gcMutex>>

(* Every dirty, pressure and percentage test passed: two words record it.  *)
PressurePasses ==
  /\ Goto("pressure", "threshold")
  /\ capacityState' = 1
  /\ UNCHANGED <<thresholdHit, gcMutex>>

ThresholdReached ==
  /\ Goto("threshold", "admit")
  /\ thresholdHit' = 1
  /\ UNCHANGED <<capacityState, gcMutex>>

(* What follows a failed test is not recovered: next is a free choice.     *)
PressureFails(next) ==
  /\ Goto("pressure", next)
  /\ capacityState' = 2
  /\ UNCHANGED <<thresholdHit, gcMutex>>

(* The wakelock gate; once through it, __sb_start_write().                 *)
Admission(granted) ==
  /\ Goto("admit", IF granted THEN "trylock" ELSE "wait")
  /\ UNCHANGED <<policyVars, gcMutex>>

(* A faulty variant: the result of mutex_trylock() is not looked at.       *)
BugTryLockUnchecked ==
  /\ Goto("trylock", "call")
  /\ gcMutex' = IF gcMutex = "none" THEN "worker" ELSE gcMutex
  /\ UNCHANGED policyVars

(* mutex_trylock() never waits: without the mutex the cycle is given up.   *)
TryLockGcMutex ==
  /\ IF gcMutex = "none"
     THEN Goto("trylock", "call") /\ gcMutex' = "worker"
     ELSE Goto("trylock", "endwrite") /\ UNCHANGED gcMutex
  /\ UNCHANGED policyVars

EnterWrapper ==
  /\ workerPc = "call"
  /\ CallBegin
  /\ UNCHANGED workerVars

(* Inside the wrapper.  The collector releases gc_mutex as it returns.     *)
InsideWrapper ==
  /\ workerPc = "call"
  /\ WrapperStep
  /\ gcMutex' = IF callPc = "collect" THEN "none" ELSE gcMutex
  /\ UNCHANGED <<workerPc, runVars, policyVars, controlVars>>

LeaveWrapper ==
  /\ workerPc = "call"
  /\ CallReturns
  /\ workerPc' = "balance"
  /\ UNCHANGED <<runVars, policyVars, controlVars, gcMutex>>

(* f2fs_balance_fs_bg(), then __sb_end_write().                            *)
Balance == Goto("balance", "endwrite") /\ UNCHANGED <<policyVars, gcMutex>>
EndWrite == Goto("endwrite", "wait") /\ UNCHANGED <<policyVars, gcMutex>>

(* The end of the run puts the snapshot of gc_type back, records the phase *)
(* and counts the worker out.                                              *)
RestoreGcType ==
  /\ workerPc = "end" /\ workerPc' = "phase"
  /\ gcType' = initialGcType
  /\ UNCHANGED <<modeVars, countVars, callPc, localVars, runVars, policyVars,
                 controlVars, gcMutex>>

EndPhase ==
  /\ workerPc = "phase" /\ workerPc' = "destroy"
  /\ phase' = 4
  /\ UNCHANGED <<wrapperVars, threadCreate, threadDestroy, initialGcType,
                 lastingGcType, policyVars, controlVars, gcMutex>>

CountDestroy ==
  /\ workerPc = "destroy" /\ workerPc' = "off"
  /\ threadDestroy' = Incremented(threadDestroy)
  /\ stopRequested' = FALSE
  /\ UNCHANGED <<wrapperVars, threadCreate, initialGcType, phase,
                 lastingGcType, policyVars, urgent, gcMutex>>

WorkerStep ==
  \/ ClearTypeState \/ ClearStatusState \/ CountCreate
  \/ Wake \/ Dispatch
  \/ \E enough \in BOOLEAN, charger \in ChargerTypes :
       UrgentGate(enough, charger)
  \/ PressurePasses \/ ThresholdReached
  \/ \E next \in {"admit", "wait"} : PressureFails(next)
  \/ \E granted \in BOOLEAN : Admission(granted)
  \/ TryLockGcMutex \/ EnterWrapper \/ InsideWrapper \/ LeaveWrapper
  \/ Balance \/ EndWrite
  \/ RestoreGcType \/ EndPhase \/ CountDestroy

-----------------------------------------------------------------------------
(***************************************************************************)
(* The neighbours.                                                         *)
(***************************************************************************)

(* gc_type_write(): the proc handler runs whether or not a worker does.    *)
ConfigureGcType(type) ==
  /\ GcTypeWrite(type)
  /\ lastingGcType' = IF SnapshotPending THEN lastingGcType ELSE type
  /\ UNCHANGED <<workerPc, threadCreate, threadDestroy, initialGcType, phase,
                 policyVars, controlVars, gcMutex>>

StockModeWrite(mode) == GcModeWrite(mode) /\ UNCHANGED workerVars

UrgentOn ==
  /\ urgent' = TRUE
  /\ UNCHANGED <<wrapperVars, workerPc, runVars, policyVars, stopRequested,
                 gcMutex>>

(* kthread_stop() on a running worker, by tran_urgent_gc_write() of zero   *)
(* (which also drops the urgent flag) or by a charger event.               *)
StopWorker(dropUrgent) ==
  /\ workerPc # "off"
  /\ stopRequested' = TRUE
  /\ urgent' = (urgent /\ ~dropUrgent)
  /\ UNCHANGED <<wrapperVars, workerPc, runVars, policyVars, gcMutex>>

StockLocks ==
  /\ gcMutex = "none" /\ gcMutex' = "stock"
  /\ UNCHANGED <<wrapperVars, workerPc, runVars, policyVars, controlVars>>

StockUnlocks ==
  /\ gcMutex = "stock" /\ gcMutex' = "none"
  /\ UNCHANGED <<wrapperVars, workerPc, runVars, policyVars, controlVars>>

Environment ==
  \/ \E type \in GcTypes : ConfigureGcType(type)
  \/ \E mode \in Modes : StockModeWrite(mode)
  \/ UrgentOn
  \/ \E dropUrgent \in BOOLEAN : StopWorker(dropUrgent)
  \/ StockLocks \/ StockUnlocks

Next == WorkerEntry \/ WorkerStep \/ Environment

Spec == Init /\ [][Next]_vars

(* The worker thread keeps being scheduled and a collector call returns;   *)
(* nothing is assumed of the environment, the stock thread's lock included.*)
FairSpec == Spec /\ WF_vars(WorkerStep)

-----------------------------------------------------------------------------
TypeOK ==
  /\ WrapperTypeOK
  /\ workerPc \in WorkerPoints
  /\ initialGcType \in GcTypes /\ lastingGcType \in GcTypes
  /\ threadCreate \in Counter /\ threadDestroy \in Counter
  /\ urgent \in BOOLEAN /\ stopRequested \in BOOLEAN
  /\ phase \in {0, 4} /\ capacityState \in 0..2 /\ thresholdHit \in 0..1
  /\ gcMutex \in {"none", "worker", "stock"}

(* The worker and the stock GC thread never run the collector together,    *)
(* although gc_mutex is dropped inside the wrapper, before gc_mode is      *)
(* restored: what the stock thread can meet is the override, in that last  *)
(* window only.                                                            *)
OneCollector ==
  gcMutex = "stock" => callPc \in {"idle", "restore", "post", "after"}

(* A run of the worker undoes the settings of gc_type that were made       *)
(* between its snapshot and its last store of the word, and no others: one *)
(* made before the run, between two runs, or beside the last steps of one  *)
(* (the phase and the count, lines 247 and 248) stays in force.            *)
OnlyRunStoresAreUndone == ~SnapshotPending => gcType = lastingGcType

(* Each run is counted in once and out once.                               *)
RunsAreAccounted ==
  threadCreate = IF workerPc \in {"off"} \union EntryPoints THEN threadDestroy
                 ELSE Incremented(threadDestroy)

(* A stop request is always honoured: no state of the policy, and no       *)
(* holder of gc_mutex, keeps the worker from leaving.                      *)
StopHonoured == stopRequested ~> workerPc = "off"
=============================================================================
