---------------------------- MODULE TranDoF2fsGc ----------------------------
(***************************************************************************)
(* tran_do_f2fs_gc(): the wrapper that the vendor worker calls around the  *)
(* stock collector.  It samples the persistent vendor setting gc_type      *)
(* (global + 0x998), replaces the stock word sbi->gc_mode (sbi + 0x534) by *)
(* the mode that setting stands for, runs the collector, and puts the old  *)
(* mode back.                                                              *)
(*                                                                         *)
(* Neither word is protected by a lock in the wrapper, so every access is  *)
(* a step of its own and the stores of other code (the proc handler of     *)
(* gc_type, the stock code that owns gc_mode) fall between any two steps.  *)
(***************************************************************************)
EXTENDS Integers

CONSTANTS
  Modes,        (* the values stock code stores in sbi->gc_mode          *)
  Results,      (* the values the collector may return                   *)
  CounterRange  (* bound: values of a counter; 2^64 in the code          *)

ASSUME ModesAssumption == Modes \subseteq Nat /\ Modes # {}
ASSUME CounterRangeAssumption == CounterRange \in Nat /\ CounterRange > 1

VARIABLES
  gcType,       (* global + 0x998                                        *)
  gcMode,       (* sbi + 0x534                                           *)
  gcCount,      (* global + 0x990                                        *)
  postGcCount,  (* global + 0x9a0                                        *)
  callPc,       (* where the call in progress stands                     *)
  sampledType,  (* local gc_type of the call                             *)
  oldMode,      (* local old_mode of the call                            *)
  ret,          (* local ret of the call                                 *)
  stockMode,    (* history: the value stock code stored last in gc_mode  *)
  lost          (* history: that store was or will be overwritten        *)

modeVars == <<gcMode, stockMode, lost>>
countVars == <<gcCount, postGcCount>>
localVars == <<sampledType, oldMode, ret>>
wrapperVars == <<gcType, modeVars, countVars, callPc, localVars>>

GcTypes == 0..2

Counter == 0..(CounterRange - 1)

(* A faulty variant: a counter of unbounded width.                         *)
BugNoWrap(counter) == counter + 1

(* ++counter, at the counter's width.                                      *)
Incremented(counter) == IF counter = CounterRange - 1 THEN 0 ELSE counter + 1

(* x683_mode_for_gc_type().                                                *)
ModeForGcType(type, old) ==
  CASE type = 1 -> 2
    [] type = 2 -> 3
    [] OTHER    -> old

CallPoints == {"idle", "type", "mode", "override", "collect", "restore",
               "post", "after"}

(* A local of no call in progress.                                         *)
AnyMode == CHOOSE mode \in Modes : TRUE

WrapperInit ==
  /\ gcType \in GcTypes
  /\ gcMode \in Modes
  /\ stockMode = gcMode
  /\ lost = FALSE
  /\ gcCount = 0 /\ postGcCount = 0
  /\ callPc = "idle"
  /\ sampledType = 0 /\ oldMode = AnyMode
  /\ ret \in Results

CallBegin ==
  /\ callPc = "idle"
  /\ gcCount' = Incremented(gcCount)
  /\ callPc' = "type"
  /\ UNCHANGED <<gcType, modeVars, postGcCount, localVars>>

SampleType ==
  /\ callPc = "type"
  /\ sampledType' = gcType
  /\ callPc' = "mode"
  /\ UNCHANGED <<gcType, modeVars, countVars, oldMode, ret>>

SaveMode ==
  /\ callPc = "mode"
  /\ oldMode' = gcMode
  /\ callPc' = "override"
  /\ UNCHANGED <<gcType, modeVars, countVars, sampledType, ret>>

(* The store happens for every gc_type: for gc_type 0 it writes old_mode   *)
(* back.  A faulty variant reads the setting again for it.                 *)
BugTypeReread == ModeForGcType(gcType, oldMode)
TemporaryMode == ModeForGcType(sampledType, oldMode)

OverrideMode ==
  /\ callPc = "override"
  /\ gcMode' = TemporaryMode
  /\ callPc' = "collect"
  /\ UNCHANGED <<gcType, stockMode, lost, countVars, localVars>>

(* The collector returns; what it does meanwhile is F2fsGc.                *)
CollectorReturns(result) ==
  /\ callPc = "collect"
  /\ ret' = result
  /\ callPc' = "restore"
  /\ UNCHANGED <<gcType, modeVars, countVars, sampledType, oldMode>>

(* Faulty variants: whether to restore follows the setting as it is now,   *)
(* or the old mode is put back even if it was not replaced.                *)
BugRestoreRereads == IF gcType # 0 THEN oldMode ELSE gcMode
BugRestoreAlways == oldMode
RestoredMode == IF sampledType # 0 THEN oldMode ELSE gcMode

RestoreMode ==
  /\ callPc = "restore"
  /\ gcMode' = RestoredMode
  /\ callPc' = "post"
  /\ UNCHANGED <<gcType, stockMode, lost, countVars, localVars>>

(* A faulty variant: only a call that replaced the mode is counted.        *)
BugCountOverridesOnly ==
  /\ callPc = "post"
  /\ postGcCount' = IF sampledType # 0 THEN Incremented(postGcCount)
                    ELSE postGcCount
  /\ callPc' = "after"
  /\ UNCHANGED <<gcType, modeVars, gcCount, localVars>>

CountCompletion ==
  /\ callPc = "post"
  /\ postGcCount' = Incremented(postGcCount)
  /\ callPc' = "after"
  /\ UNCHANGED <<gcType, modeVars, gcCount, localVars>>

(* after_gc(global), when the caller passed one, and the return: the       *)
(* locals are dead and take their initial values again.                    *)
CallReturns ==
  /\ callPc = "after"
  /\ callPc' = "idle"
  /\ sampledType' = 0 /\ oldMode' = AnyMode
  /\ UNCHANGED <<gcType, modeVars, countVars, ret>>

WrapperStep ==
  \/ SampleType \/ SaveMode \/ OverrideMode
  \/ \E result \in Results : CollectorReturns(result)
  \/ RestoreMode \/ CountCompletion

(***************************************************************************)
(* The other writers.                                                      *)
(***************************************************************************)

(* The proc handler gc_type_write() installs a value of 0..2.              *)
GcTypeWrite(type) ==
  /\ gcType' = type
  /\ UNCHANGED <<modeVars, countVars, callPc, localVars>>

(* Between the read of gc_mode and the wrapper's last store to it, a store *)
(* of other code does not survive.                                         *)
InWindow ==
  \/ callPc = "override"
  \/ callPc \in {"collect", "restore"} /\ sampledType # 0

GcModeWrite(mode) ==
  /\ gcMode' = mode /\ stockMode' = mode
  /\ lost' = InWindow
  /\ UNCHANGED <<gcType, countVars, callPc, localVars>>

WrapperNext ==
  \/ CallBegin \/ WrapperStep \/ CallReturns
  \/ \E type \in GcTypes : GcTypeWrite(type)
  \/ \E mode \in Modes : GcModeWrite(mode)

WrapperSpec == WrapperInit /\ [][WrapperNext]_wrapperVars

-----------------------------------------------------------------------------
WrapperTypeOK ==
  /\ gcType \in GcTypes /\ sampledType \in GcTypes
  /\ gcMode \in Modes \union {2, 3}
  /\ oldMode \in Modes /\ stockMode \in Modes
  /\ lost \in BOOLEAN
  /\ gcCount \in Counter /\ postGcCount \in Counter
  /\ callPc \in CallPoints
  /\ ret \in Results

(* The override is in force: gc_mode holds the vendor's value.             *)
Overridden == callPc \in {"collect", "restore"} /\ sampledType # 0

(* The override is temporary: outside the collector call gc_mode only ever *)
(* holds a value that stock code stored, even when gc_type is rewritten    *)
(* while the collector runs (the wrapper decides by the sampled type).     *)
OverrideNeverLeaks == ~Overridden => gcMode \in Modes

(* The wrapper loses a store of gc_mode only if the store fell between its *)
(* read of the word and its last write of it; every other store is in      *)
(* force again as soon as the call is over.                                *)
OnlyWindowStoresAreLost == ~Overridden /\ ~lost => gcMode = stockMode

(* The collector runs in the mode the sampled gc_type stands for (the      *)
(* stock mode itself for gc_type 0) unless a store to gc_mode raced it.    *)
CollectorSeesConfiguredMode ==
  callPc = "collect" /\ ~lost => gcMode = ModeForGcType(sampledType, stockMode)

(* The two counters bracket the collector: the second lags by one exactly  *)
(* while a call is between its first and its second increment.             *)
CountersBracketCall ==
  gcCount = IF callPc \in {"idle", "after"} THEN postGcCount
            ELSE Incremented(postGcCount)
=============================================================================
