------------------------- MODULE NodeManagerProofs --------------------------
(***************************************************************************)
(* The checkpoint and the node manager, for any set of segments, nodes,    *)
(* inodes, callers, reasons and errors. First the checkpoint: its types,   *)
(* the order of flushing and reusing, its accounting, and that it          *)
(* implements the atomic one. Then the node manager: it is a client of the *)
(* checkpoint, so that the checkpoint's theorems hold beside it, and a     *)
(* sync call stands for what it reports.                                   *)
(***************************************************************************)
EXTENDS NodeManager, TLAPS

(* The strengthening: between the SIT flush and the clearing of the        *)
(* prefree segments the medium and the segments in use agree, because the  *)
(* file operations are blocked.                                            *)
BlockedInside == cpPc \in BlockedPoints => blocked

FlushInv ==
  /\ NoReuseBeforeFlush
  /\ BlockedInside
  /\ cpPc = "prefree" => media = InUse

(* Counting keeps a counter within its width, wrap included.               *)
LEMMA IncrementedInCounter ==
  ASSUME NEW counter \in Counter
  PROVE  Incremented(counter) \in Counter
  BY CounterRangeAssumption DEF Incremented, Counter

(* The state that a mount leaves behind is well typed.                     *)
LEMMA CpTypeInit == CpInit => CpTypeOK
<1> SUFFICES ASSUME CpInit PROVE CpTypeOK
  OBVIOUS
<1>1. 0 \in Counter
  BY CounterRangeAssumption DEF Counter
<1>2. QED
  BY <1>1 DEF CpInit, CpTypeOK, CpPoints, Nothing

(* Each step of a checkpoint and each file operation keeps the types.      *)
LEMMA CpTypeNext == CpTypeOK /\ [CpNext]_cpVars => CpTypeOK'
<1> SUFFICES ASSUME CpTypeOK, [CpNext]_cpVars
             PROVE  CpTypeOK'
  OBVIOUS
<1> USE DEF CpTypeOK, CpPoints, BlockedPoints, Nothing, segmentVars, callVars,
            historyVars
<1>1. ASSUME NEW caller \in Callers, NEW reason \in Reasons,
             CpBegin(caller, reason)
      PROVE  CpTypeOK'
  BY <1>1, IncrementedInCounter DEF CpBegin
<1>2. CASE FlushNat
  BY <1>2 DEF FlushNat
<1>3. ASSUME NEW err \in Errors, FlushNatFails(err)
      PROVE  CpTypeOK'
  BY <1>3 DEF FlushNatFails
<1>4. CASE FlushSit
  BY <1>4 DEF FlushSit, InUse
<1>5. CASE ReleaseDiscardAddrs
  BY <1>5 DEF ReleaseDiscardAddrs
<1>6. CASE ClearPrefreeSegments
  BY <1>6 DEF ClearPrefreeSegments
<1>7. CASE UnblockOperations \/ CountCheckpoint \/ CpReturn
  <2>1. CASE UnblockOperations
    BY <2>1 DEF UnblockOperations
  <2>2. CASE CountCheckpoint
    BY <2>2, IncrementedInCounter DEF CountCheckpoint
  <2>3. CASE CpReturn
    BY <2>3 DEF CpReturn
  <2>4. QED
    BY <1>7, <2>1, <2>2, <2>3
<1>8. ASSUME NEW segment \in Segments, Allocate(segment)
      PROVE  CpTypeOK'
  BY <1>8 DEF Allocate
<1>9. ASSUME NEW segment \in Segments, Invalidate(segment)
      PROVE  CpTypeOK'
  BY <1>9 DEF Invalidate
<1>10. CASE NatChange
  BY <1>10 DEF NatChange
<1>11. CASE UNCHANGED cpVars
  BY <1>11 DEF cpVars
<1>12. QED
  BY <1>1, <1>2, <1>3, <1>4, <1>5, <1>6, <1>7, <1>8, <1>9, <1>10, <1>11
     DEF CpNext, CpStep, FileOperation

(* The types of the checkpoint's state.                                    *)
THEOREM CpTypeCorrect == CpSpec => []CpTypeOK
  BY CpTypeInit, CpTypeNext, PTL DEF CpSpec

-----------------------------------------------------------------------------
(* A fresh mount has flushed everything and blocks nothing.                *)
LEMMA FlushInvInit == CpInit => FlushInv
  BY DEF CpInit, FlushInv, NoReuseBeforeFlush, BlockedInside, BlockedPoints

(* The inductive step: what the flushes did so far stays true, since file  *)
(* operations are shut out until the checkpoint returns.                   *)
LEMMA FlushInvNext == CpTypeOK /\ FlushInv /\ [CpNext]_cpVars => FlushInv'
<1> SUFFICES ASSUME CpTypeOK, FlushInv, [CpNext]_cpVars
             PROVE  FlushInv'
  OBVIOUS
<1> USE DEF FlushInv, NoReuseBeforeFlush, BlockedInside, BlockedPoints,
            InUse, segmentVars, callVars
<1>1. ASSUME NEW caller \in Callers, NEW reason \in Reasons,
             CpBegin(caller, reason)
      PROVE  FlushInv'
  BY <1>1 DEF CpBegin
<1>2. CASE FlushNat
  BY <1>2 DEF FlushNat
<1>3. ASSUME NEW err \in Errors, FlushNatFails(err)
      PROVE  FlushInv'
  BY <1>3 DEF FlushNatFails
<1>4. CASE FlushSit
  BY <1>4 DEF FlushSit
<1>5. CASE ReleaseDiscardAddrs
  BY <1>5 DEF ReleaseDiscardAddrs
<1>6. CASE ClearPrefreeSegments
  BY <1>6 DEF ClearPrefreeSegments
<1>7. CASE UnblockOperations \/ CountCheckpoint \/ CpReturn
  BY <1>7 DEF UnblockOperations, CountCheckpoint, CpReturn
<1>8. ASSUME NEW segment \in Segments, Allocate(segment)
      PROVE  FlushInv'
  BY <1>8 DEF Allocate
<1>9. ASSUME NEW segment \in Segments, Invalidate(segment)
      PROVE  FlushInv'
  BY <1>9 DEF Invalidate
<1>10. CASE NatChange
  BY <1>10 DEF NatChange
<1>11. CASE UNCHANGED cpVars
  BY <1>11 DEF cpVars
<1>12. QED
  BY <1>1, <1>2, <1>3, <1>4, <1>5, <1>6, <1>7, <1>8, <1>9, <1>10, <1>11
     DEF CpNext, CpStep, FileOperation

(* The inductive invariant of the flushes holds in every state.            *)
THEOREM FlushInvariant == CpSpec => []FlushInv
  BY CpTypeCorrect, FlushInvInit, FlushInvNext, PTL DEF CpSpec

(* No segment is reusable while the flushed SIT still counts on it.        *)
THEOREM ReuseIsSafe == CpSpec => []NoReuseBeforeFlush
  BY FlushInvariant, PTL DEF FlushInv

(* The strengthening: how far the checkpoint has come says what it has     *)
(* changed of what it found, since nobody else changes anything meanwhile. *)
EffectInv ==
  /\ OutcomeTellsEffect
  /\ cpPc = "nat" =>
       found = [free |-> free, prefree |-> prefree, media |-> media,
                natDirty |-> natDirty]
  /\ cpPc \in {"sit", "prefree"} =>
       /\ free = found.free /\ prefree = found.prefree
       /\ natDirty = FALSE /\ cpErr = 0
  /\ cpPc = "prefree" =>
       media = Segments \ (found.free \union found.prefree)

(* Each step of the checkpoint does its part, and file operations wait.    *)
LEMMA EffectNext ==
  ASSUME BlockedInside, EffectInv, [CpNext]_cpVars
  PROVE  EffectInv'
<1> USE DEF EffectInv, OutcomeTellsEffect, segmentVars, callVars, historyVars
<1>1. ASSUME NEW caller \in Callers, NEW reason \in Reasons,
             CpBegin(caller, reason)
      PROVE  EffectInv'
  BY <1>1 DEF CpBegin
<1>2. CASE FlushNat
  BY <1>2 DEF FlushNat
<1>3. ASSUME NEW err \in Errors, FlushNatFails(err)
      PROVE  EffectInv'
  BY <1>3, ErrorsAssumption DEF FlushNatFails
<1>4. CASE FlushSit
  BY <1>4 DEF FlushSit, InUse
<1>5. CASE ReleaseDiscardAddrs
  BY <1>5 DEF ReleaseDiscardAddrs, IsDiscard
<1>6. CASE ClearPrefreeSegments
  BY <1>6 DEF ClearPrefreeSegments, IsDiscard
<1>7. CASE UnblockOperations \/ CountCheckpoint \/ CpReturn
  BY <1>7 DEF UnblockOperations, CountCheckpoint, CpReturn
<1>8. CASE FileOperation
  BY <1>8 DEF FileOperation, Allocate, Invalidate, NatChange, BlockedInside,
              BlockedPoints
<1>9. CASE UNCHANGED cpVars
  BY <1>9 DEF cpVars
<1>10. QED
  BY <1>1, <1>2, <1>3, <1>4, <1>5, <1>6, <1>7, <1>8, <1>9
     DEF CpNext, CpStep

(* The result and the reason of a checkpoint tell what it has done.        *)
THEOREM OutcomeIsTold == CpSpec => []OutcomeTellsEffect
<1>1. CpInit => EffectInv
  BY DEF CpInit, EffectInv, OutcomeTellsEffect
<1>2. FlushInv => BlockedInside
  BY DEF FlushInv
<1>3. EffectInv => OutcomeTellsEffect
  BY DEF EffectInv
<1>4. QED
  BY <1>1, <1>2, <1>3, EffectNext, FlushInvariant, PTL DEF CpSpec

(* The counter is behind the checkpoints begun by the one in progress.     *)
THEOREM CheckpointsCounted == CpSpec => []EveryCheckpointCounted
<1>1. CpInit => EveryCheckpointCounted
  BY DEF CpInit, EveryCheckpointCounted
<1>2. EveryCheckpointCounted /\ [CpNext]_cpVars => EveryCheckpointCounted'
  BY DEF EveryCheckpointCounted, CpNext, CpStep, FileOperation, CpBegin,
         FlushNat, FlushNatFails, FlushSit, ReleaseDiscardAddrs,
         ClearPrefreeSegments, UnblockOperations, CountCheckpoint, CpReturn,
         Allocate, Invalidate, NatChange, cpVars, historyVars
<1>3. QED
  BY <1>1, <1>2, PTL DEF CpSpec

-----------------------------------------------------------------------------
(***************************************************************************)
(* The refinement.  The SIT flush of a checkpoint is the step at which the *)
(* atomic one happens: from then on the prefree segments that it is going  *)
(* to clear count as free.  Every other step of the checkpoint leaves the  *)
(* abstract state as it is.                                                *)
(***************************************************************************)
LEMMA AbstractInit == CpInit => Atomic!Init
  BY DEF CpInit, Atomic!Init, Atomic!Used, Committed

(* Committed or not, the same segments are in use.                         *)
LEMMA AbstractUsed == Atomic!Used = InUse
  BY DEF Atomic!Used, InUse

(* Every step of the checkpoint, seen through the refinement mapping, is a *)
(* step of the atomic one or none at all.                                  *)
LEMMA AbstractNext ==
  ASSUME FlushInv, [CpNext]_cpVars
  PROVE  [Atomic!Next]_(Atomic!vars)
<1> USE DEF Committed, Atomic!vars, BlockedPoints, segmentVars, callVars
<1>1. CASE FlushSit
  <2>1. CASE IsDiscard(cpReason)
    <3>1. Atomic!Commit(TRUE)
      BY <1>1, <2>1, AbstractUsed DEF FlushSit, Atomic!Commit, Atomic!Reclaim
    <3>2. QED
      BY <3>1 DEF Atomic!Next
  <2>2. CASE ~IsDiscard(cpReason)
    <3>1. Atomic!Commit(FALSE)
      BY <1>1, <2>2, AbstractUsed DEF FlushSit, Atomic!Commit, Atomic!Reclaim
    <3>2. QED
      BY <3>1 DEF Atomic!Next
  <2>3. QED
    BY <2>1, <2>2
<1>2. ASSUME NEW segment \in Segments, Allocate(segment)
      PROVE  Atomic!Next
  <2>1. Atomic!Take(segment)
    BY <1>2 DEF Allocate, Atomic!Take, FlushInv, BlockedInside
  <2>2. QED
    BY <2>1 DEF Atomic!Next
<1>3. ASSUME NEW segment \in Segments, Invalidate(segment)
      PROVE  Atomic!Next
  <2>1. Atomic!Empty(segment)
    BY <1>3, AbstractUsed
       DEF Invalidate, Atomic!Empty, FlushInv, BlockedInside
  <2>2. QED
    BY <2>1 DEF Atomic!Next
<1>4. ASSUME NEW caller \in Callers, NEW reason \in Reasons,
             CpBegin(caller, reason)
      PROVE  UNCHANGED Atomic!vars
  BY <1>4 DEF CpBegin
<1>5. CASE FlushNat
  BY <1>5 DEF FlushNat
<1>6. ASSUME NEW err \in Errors, FlushNatFails(err)
      PROVE  UNCHANGED Atomic!vars
  BY <1>6 DEF FlushNatFails
<1>7. CASE ReleaseDiscardAddrs
  BY <1>7 DEF ReleaseDiscardAddrs
<1>8. CASE ClearPrefreeSegments
  BY <1>8 DEF ClearPrefreeSegments
<1>9. CASE UnblockOperations \/ CountCheckpoint \/ CpReturn
  BY <1>9 DEF UnblockOperations, CountCheckpoint, CpReturn
<1>10. CASE NatChange
  BY <1>10 DEF NatChange
<1>11. CASE UNCHANGED cpVars
  BY <1>11 DEF cpVars
<1>12. QED
  BY <1>1, <1>2, <1>3, <1>4, <1>5, <1>6, <1>7, <1>8, <1>9, <1>10, <1>11
     DEF CpNext, CpStep, FileOperation

(* The stepwise checkpoint implements the atomic one.                      *)
THEOREM CheckpointRefines == CpSpec => CheckpointIsAtomic
<1>1. CpSpec => Atomic!Spec
  BY AbstractInit, AbstractNext, FlushInvariant, PTL DEF CpSpec, Atomic!Spec
<1>2. QED
  BY <1>1 DEF CheckpointIsAtomic
-----------------------------------------------------------------------------

(* Every step of the node manager is a step of the checkpoint's            *)
(* environment or none of its business.                                    *)
LEMMA NodeStepIsAFileOperation == [NmNext]_nmVars => [CpNext]_cpVars
<1> SUFFICES ASSUME [NmNext]_nmVars PROVE [CpNext]_cpVars
  OBVIOUS
<1>1. NatChange => CpNext
  BY DEF CpNext, FileOperation
<1>2. CASE CpNext
  BY <1>2
<1>3. ASSUME NEW nid \in Nodes,
             NodeAlloc(nid) \/ WriteBack(nid) \/ SyncPage(nid)
      PROVE  CpNext
  BY <1>1, <1>3 DEF NodeAlloc, WriteBack, SyncPage, WritePage, NatBecomes
<1>4. CASE NodeCheckpointFlush
  BY <1>1, <1>4 DEF NodeCheckpointFlush, NatBecomes
<1>5. ASSUME NEW nid \in Nodes, NodeUpdate(nid) PROVE UNCHANGED cpVars
  BY <1>5 DEF NodeUpdate
<1>6. ASSUME NEW ino \in Inodes, SyncBegin(ino) PROVE UNCHANGED cpVars
  BY <1>6 DEF SyncBegin
<1>7. ASSUME NEW err \in SyncErrors, HelperFails(err)
      PROVE  UNCHANGED cpVars
  BY <1>7 DEF HelperFails
<1>8. CASE FsyncDone \/ SyncDone \/ SyncReturn
  BY <1>8 DEF FsyncDone, SyncDone, SyncReturn
<1>9. CASE UNCHANGED nmVars
  BY <1>9 DEF nmVars
<1>10. QED
  BY <1>2, <1>3, <1>4, <1>5, <1>6, <1>7, <1>8, <1>9
     DEF NmNext, SyncStep, SyncProgress

(* The checkpoint beside the node manager is the checkpoint.               *)
THEOREM NodeManagerIsAClient == NmSpec => CpSpec
<1>1. NmInit => CpInit
  BY DEF NmInit
<1>2. QED
  BY <1>1, NodeStepIsAFileOperation, PTL DEF NmSpec, CpSpec

(* Nothing the node manager does lets a segment be reused too early.       *)
THEOREM ReuseIsSafeBesideNodes == NmSpec => []NoReuseBeforeFlush
  BY NodeManagerIsAClient, ReuseIsSafe, PTL

(* Nor does it come between the entry of a checkpoint and its unblocking.  *)
THEOREM OutcomeIsToldBesideNodes == NmSpec => []OutcomeTellsEffect
  BY NodeManagerIsAClient, OutcomeIsTold, PTL

(* Beside the node manager, too, a checkpoint is one step or none.         *)
THEOREM CheckpointRefinesBesideNodes == NmSpec => CheckpointIsAtomic
  BY NodeManagerIsAClient, CheckpointRefines

-----------------------------------------------------------------------------
(* The strengthening: what is owed is still dirty, so a helper that has    *)
(* looked at every page it selected owes none of them any more.            *)
SyncInv ==
  /\ owed \subseteq nodeDirty
  /\ OwnNodesFirst
  /\ SuccessMeansWritten
  /\ syncPc = "fsync" =>
       /\ owed \intersect NodesOf(syncIno) \subseteq pending
       /\ pending \subseteq NodesOf(syncIno)
       /\ ~wroteOthers
  /\ syncPc = "sync" =>
       owed \subseteq pending /\ owed \intersect NodesOf(syncIno) = {}

(* The part of the type invariant that is the node manager's own.          *)
NodesTyped ==
  /\ allocated \subseteq Nodes /\ nodeDirty \subseteq allocated
  /\ syncPc \in SyncPoints /\ syncIno \in Inodes
  /\ syncRet \in SyncErrors \union {0}
  /\ pending \subseteq Nodes /\ owed \subseteq Nodes
  /\ wroteOthers \in BOOLEAN

(* A mount begins with no sync call under way.                             *)
LEMMA NodesInit == NmInit => NodesTyped /\ SyncInv
  BY DEF NmInit, NodesTyped, SyncInv, SyncPoints, OwnNodesFirst,
         SuccessMeansWritten

(* Types and progress of the sync call, step by step.                      *)
LEMMA NodesNext ==
  ASSUME NodesTyped, SyncInv, [NmNext]_nmVars
  PROVE  NodesTyped' /\ SyncInv'
<1> USE DEF NodesTyped, SyncInv, SyncPoints, NodesOf, OwnNodesFirst,
            SuccessMeansWritten, pageVars, syncVars
<1>1. CASE CpNext /\ UNCHANGED nodeVars
  BY <1>1 DEF nodeVars
<1>2. ASSUME NEW nid \in Nodes, NodeAlloc(nid)
      PROVE  NodesTyped' /\ SyncInv'
  BY <1>2 DEF NodeAlloc
<1>3. ASSUME NEW nid \in Nodes, NodeUpdate(nid)
      PROVE  NodesTyped' /\ SyncInv'
  BY <1>3 DEF NodeUpdate
<1>4. ASSUME NEW nid \in Nodes, WriteBack(nid)
      PROVE  NodesTyped' /\ SyncInv'
  BY <1>4 DEF WriteBack, WritePage
<1>5. CASE NodeCheckpointFlush
  BY <1>5 DEF NodeCheckpointFlush, nodeVars
<1>6. ASSUME NEW ino \in Inodes, SyncBegin(ino)
      PROVE  NodesTyped' /\ SyncInv'
  BY <1>6 DEF SyncBegin, Selected, FirstHelper
<1>7. ASSUME NEW nid \in Nodes, SyncPage(nid)
      PROVE  NodesTyped' /\ SyncInv'
  <2>1. NodesTyped'
    BY <1>7 DEF SyncPage, WritePage
  <2>2. SyncInv'
    BY <1>7 DEF SyncPage, WritePage
  <2>3. QED
    BY <2>1, <2>2
<1>8. CASE FsyncDone
  BY <1>8 DEF FsyncDone, HelperDone, Selected, SecondHelper
<1>9. CASE SyncDone
  BY <1>9 DEF SyncDone, HelperDone
<1>10. ASSUME NEW err \in SyncErrors, HelperFails(err)
       PROVE  NodesTyped' /\ SyncInv'
  BY <1>10, SyncErrorsAssumption DEF HelperFails
<1>11. CASE SyncReturn
  BY <1>11 DEF SyncReturn
<1>12. CASE UNCHANGED nmVars
  BY <1>12 DEF nmVars, nodeVars
<1>13. QED
  BY <1>1, <1>2, <1>3, <1>4, <1>5, <1>6, <1>7, <1>8, <1>9, <1>10, <1>11,
     <1>12 DEF NmNext, SyncStep, SyncProgress

(* The inductive invariant of the sync call holds in every state.          *)
THEOREM SyncInvariant == NmSpec => [](NodesTyped /\ SyncInv)
  BY NodesInit, NodesNext, PTL DEF NmSpec

(* Types of the node manager and of the checkpoint beside it.              *)
THEOREM NmTypeCorrect == NmSpec => []NmTypeOK
<1>1. CpTypeOK /\ NodesTyped => NmTypeOK
  BY DEF NodesTyped, NmTypeOK
<1>2. QED
  BY <1>1, SyncInvariant, NodeManagerIsAClient, CpTypeCorrect, PTL

(* A sync call that reports success has seen every node it owed written.   *)
THEOREM SyncSuccessIsEarned == NmSpec => []SuccessMeansWritten
  BY SyncInvariant, PTL DEF SyncInv

(* A sync call that fails on its own inode has written nothing else.       *)
THEOREM OwnNodesComeFirst == NmSpec => []OwnNodesFirst
  BY SyncInvariant, PTL DEF SyncInv
=============================================================================
