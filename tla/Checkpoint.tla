----------------------------- MODULE Checkpoint -----------------------------
(***************************************************************************)
(* f2fs_write_checkpoint(): flush the NAT, flush the SIT, then either free *)
(* the prefree segments or release the discard addresses, unblock the file *)
(* operations and count the checkpoint.  A NAT flush that fails skips to   *)
(* the unblocking.                                                         *)
(*                                                                         *)
(* The operations that the checkpoint keeps out (writers that take a free  *)
(* segment, truncation that empties one) run between any two steps, except *)
(* while they are blocked.  Blocking them is the part of the function that *)
(* is not recovered; what is recovered is its counterpart at the end.      *)
(***************************************************************************)
EXTENDS Integers, FiniteSets

CONSTANTS
  Segments,       (* the main-area segments                              *)
  Callers,        (* the code that may call the checkpoint               *)
  Reasons,        (* values of cpc->reason, as the set of its bits       *)
  Errors,         (* error returns of f2fs_flush_nat_entries()           *)
  CounterRange    (* bound: values of the counter; 2^32 in the code      *)

ASSUME ReasonsAssumption == \A reason \in Reasons : reason \subseteq Nat
ASSUME ErrorsAssumption == 0 \notin Errors
ASSUME CounterRangeAssumption == CounterRange \in Nat /\ CounterRange > 1

VARIABLES
  free,       (* segments free for allocation                            *)
  prefree,    (* segments emptied, not yet reusable                      *)
  media,      (* segments in use according to the SIT last flushed       *)
  natDirty,   (* NAT entries changed since the last NAT flush            *)
  blocked,    (* file operations are blocked                             *)
  cpPc,       (* where the checkpoint stands                             *)
  cpCaller,   (* who called it                                           *)
  cpReason,   (* cpc->reason                                             *)
  cpErr,      (* local err                                               *)
  cpCount,    (* the counter behind sbi + 0x568                          *)
  begun,      (* history: checkpoints begun                              *)
  found       (* history: what the checkpoint in progress found          *)

segmentVars == <<free, prefree, media, natDirty>>
callVars == <<cpCaller, cpReason>>
historyVars == <<begun, found>>
cpVars == <<segmentVars, blocked, cpPc, callVars, cpErr, cpCount, historyVars>>

BlockedPoints == {"nat", "sit", "prefree", "stop"}
CpPoints == BlockedPoints \union {"idle", "count", "return"}

Nothing == [free |-> {}, prefree |-> {}, media |-> {}, natDirty |-> FALSE]

InUse == Segments \ (free \union prefree)

Counter == 0..(CounterRange - 1)
(* A faulty variant: a counter of unbounded width.                         *)
BugNoWrap(counter) == counter + 1

(* ++counter, at the counter's width.                                      *)
Incremented(counter) == IF counter = CounterRange - 1 THEN 0 ELSE counter + 1

(* cpc->reason & 0x2.  A faulty variant tests the bit beside it.           *)
BugWrongBit(reason) == 0 \in reason
IsDiscard(reason) == 1 \in reason

CpInit ==
  /\ free \in SUBSET Segments
  /\ prefree = {}
  /\ media = Segments \ free
  /\ natDirty = FALSE
  /\ blocked = FALSE
  /\ cpPc = "idle"
  /\ cpCaller \in Callers /\ cpReason \in Reasons
  /\ cpErr = 0 /\ cpCount = 0 /\ begun = 0 /\ found = Nothing

(* The entry: one checkpoint at a time, operations blocked.                *)
CpBegin(caller, reason) ==
  /\ cpPc = "idle"
  /\ cpPc' = "nat"
  /\ cpCaller' = caller /\ cpReason' = reason
  /\ blocked' = TRUE
  /\ begun' = Incremented(begun)
  /\ found' = [free |-> free, prefree |-> prefree, media |-> media,
               natDirty |-> natDirty]
  /\ UNCHANGED <<segmentVars, cpErr, cpCount>>

FlushNat ==
  /\ cpPc = "nat"
  /\ cpErr' = 0 /\ natDirty' = FALSE
  /\ cpPc' = "sit"
  /\ UNCHANGED <<free, prefree, media, blocked, callVars, cpCount, historyVars>>

(* A faulty variant: a failure skips the SIT flush only.                   *)
BugGoOnAfterFailure(err) ==
  /\ cpPc = "nat"
  /\ cpErr' = err
  /\ cpPc' = "prefree"
  /\ UNCHANGED <<segmentVars, blocked, callVars, cpCount, historyVars>>

FlushNatFails(err) ==
  /\ cpPc = "nat"
  /\ cpErr' = err
  /\ cpPc' = "stop"
  /\ UNCHANGED <<segmentVars, blocked, callVars, cpCount, historyVars>>

(* A faulty variant: prefree segments are still recorded as in use.        *)
BugSitKeepsPrefree ==
  /\ cpPc = "sit"
  /\ media' = Segments \ free
  /\ cpPc' = "prefree"
  /\ UNCHANGED <<free, prefree, natDirty, blocked, callVars, cpErr, cpCount,
                 historyVars>>

(* The flushed SIT records the segments in use now.                        *)
FlushSit ==
  /\ cpPc = "sit"
  /\ media' = InUse
  /\ cpPc' = "prefree"
  /\ UNCHANGED <<free, prefree, natDirty, blocked, callVars, cpErr, cpCount,
                 historyVars>>

ReleaseDiscardAddrs ==
  /\ cpPc = "prefree" /\ IsDiscard(cpReason)
  /\ cpPc' = "stop"
  /\ UNCHANGED <<segmentVars, blocked, callVars, cpErr, cpCount,
                 historyVars>>

ClearPrefreeSegments ==
  /\ cpPc = "prefree" /\ ~IsDiscard(cpReason)
  /\ free' = free \union prefree /\ prefree' = {}
  /\ cpPc' = "stop"
  /\ UNCHANGED <<media, natDirty, blocked, callVars, cpErr, cpCount,
                 historyVars>>

(* A faulty variant: the error exit leaves the operations blocked.         *)
BugStayBlocked ==
  /\ cpPc = "stop" /\ cpPc' = "count"
  /\ blocked' = (cpErr # 0) /\ found' = Nothing
  /\ UNCHANGED <<segmentVars, callVars, cpErr, cpCount, begun>>

(* Both exits let the operations in again before they count and return.    *)
UnblockOperations ==
  /\ cpPc = "stop" /\ cpPc' = "count"
  /\ blocked' = FALSE /\ found' = Nothing
  /\ UNCHANGED <<segmentVars, callVars, cpErr, cpCount, begun>>

(* A failed checkpoint counts too.                                         *)
CountCheckpoint ==
  /\ cpPc = "count" /\ cpPc' = "return"
  /\ cpCount' = Incremented(cpCount)
  /\ UNCHANGED <<segmentVars, blocked, callVars, cpErr, historyVars>>

CpReturn ==
  /\ cpPc = "return" /\ cpPc' = "idle"
  /\ UNCHANGED <<segmentVars, blocked, callVars, cpErr, cpCount, historyVars>>

CpStep ==
  \/ FlushNat \/ \E err \in Errors : FlushNatFails(err)
  \/ FlushSit \/ ReleaseDiscardAddrs \/ ClearPrefreeSegments
  \/ UnblockOperations \/ CountCheckpoint \/ CpReturn

(***************************************************************************)
(* The file operations.                                                    *)
(***************************************************************************)

(* A log moves on to a free segment.                                       *)
Allocate(segment) ==
  /\ ~blocked
  /\ segment \in free
  /\ free' = free \ {segment} /\ natDirty' = TRUE
  /\ UNCHANGED <<prefree, media, blocked, cpPc, callVars, cpErr, cpCount,
                 historyVars>>

(* The last valid block of a segment goes away.                            *)
Invalidate(segment) ==
  /\ ~blocked
  /\ segment \in InUse
  /\ prefree' = prefree \union {segment} /\ natDirty' = TRUE
  /\ UNCHANGED <<free, media, blocked, cpPc, callVars, cpErr, cpCount,
                 historyVars>>

(* A node gets a new address, or somebody else flushes the NAT.            *)
NatChange ==
  /\ ~blocked
  /\ natDirty' \in BOOLEAN
  /\ UNCHANGED <<free, prefree, media, blocked, cpPc, callVars, cpErr, cpCount,
                 historyVars>>

FileOperation ==
  \/ \E segment \in Segments : Allocate(segment) \/ Invalidate(segment)
  \/ NatChange

CpNext ==
  \/ \E caller \in Callers, reason \in Reasons : CpBegin(caller, reason)
  \/ CpStep
  \/ FileOperation

CpSpec == CpInit /\ [][CpNext]_cpVars

CpFairSpec == CpSpec /\ WF_cpVars(CpStep)

-----------------------------------------------------------------------------
CpTypeOK ==
  /\ free \subseteq Segments /\ prefree \subseteq Segments
  /\ media \subseteq Segments
  /\ natDirty \in BOOLEAN /\ blocked \in BOOLEAN
  /\ cpPc \in CpPoints
  /\ cpCaller \in Callers /\ cpReason \in Reasons
  /\ cpErr \in Errors \union {0}
  /\ cpCount \in Counter /\ begun \in Counter
  /\ found \in [free : SUBSET Segments, prefree : SUBSET Segments,
                media : SUBSET Segments, natDirty : BOOLEAN]

(* A segment is handed out for reuse only after a flushed SIT stopped      *)
(* counting on its contents: clearing the prefree set comes after the SIT  *)
(* flush, a failed NAT flush clears nothing, and nothing becomes prefree   *)
(* in between.                                                             *)
NoReuseBeforeFlush == free \intersect media = {}

(* The counter of checkpoints counts the finished ones, failed or not.     *)
EveryCheckpointCounted ==
  begun = IF cpPc \in {"idle", "return"} THEN cpCount ELSE Incremented(cpCount)

(* What a checkpoint has done when it lets the operations in again, the    *)
(* result and the reason tell exactly: after an error everything is as it  *)
(* was found; after success the NAT is clean and the medium counts on what *)
(* was in use at the entry, but the prefree segments have become free only *)
(* if the reason has no discard bit (2), and else nothing has.             *)
OutcomeTellsEffect ==
  cpPc = "stop" =>
    IF cpErr # 0
    THEN found = [free |-> free, prefree |-> prefree, media |-> media,
                  natDirty |-> natDirty]
    ELSE /\ natDirty = FALSE
         /\ media = Segments \ (found.free \union found.prefree)
         /\ IF 1 \in cpReason
            THEN free = found.free /\ prefree = found.prefree
            ELSE free = found.free \union found.prefree /\ prefree = {}

(* From the SIT flush on, the prefree segments count as free.              *)
Committed == cpPc = "prefree" /\ ~IsDiscard(cpReason)

Atomic == INSTANCE AtomicCheckpoint WITH
  free <- IF Committed THEN free \union prefree ELSE free,
  prefree <- IF Committed THEN {} ELSE prefree

(* The stepwise checkpoint, with its error exit, is indistinguishable for  *)
(* the allocator from one that happens at once or not at all.              *)
CheckpointIsAtomic == Atomic!Spec
=============================================================================
