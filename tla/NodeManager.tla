----------------------------- MODULE NodeManager -----------------------------
(***************************************************************************)
(* The node manager beside the checkpoint: node pages are made, changed    *)
(* and written back while checkpoints come and go, and x683_node_sync()    *)
(* writes the pages of one inode and then those of all, stopping at the    *)
(* first failure.  Writing a node changes its NAT entry; while a           *)
(* checkpoint blocks the file operations no node is changed or written.    *)
(***************************************************************************)
EXTENDS Checkpoint

CONSTANTS
  Nodes,       (* node ids                                               *)
  Inodes,      (* inode numbers                                          *)
  InoOf,       (* the inode that a node belongs to                       *)
  SyncErrors   (* error returns of the two writing helpers               *)

ASSUME InoOfAssumption == InoOf \in [Nodes -> Inodes]
ASSUME SyncErrorsAssumption == 0 \notin SyncErrors

VARIABLES
  allocated,   (* nodes that have a page                                 *)
  nodeDirty,   (* nodes whose page waits to be written                   *)
  syncPc,      (* where the sync call stands                             *)
  syncIno,     (* its argument ino                                       *)
  syncRet,     (* what it is going to return                             *)
  pending,     (* pages that the helper it is in has yet to look at      *)
  owed,        (* history: pages dirty at its start, not written since   *)
  wroteOthers  (* history: it wrote a node of another inode              *)

pageVars == <<allocated, nodeDirty>>
syncVars == <<syncPc, syncIno, syncRet, pending, wroteOthers>>
nodeVars == <<pageVars, syncVars, owed>>
nmVars == <<cpVars, nodeVars>>

SyncPoints == {"idle", "fsync", "sync", "return"}

NodesOf(ino) == {nid \in Nodes : InoOf[nid] = ino}

NmInit ==
  /\ CpInit
  /\ allocated \in SUBSET Nodes /\ nodeDirty = {}
  /\ syncPc = "idle" /\ syncIno \in Inodes /\ syncRet = 0
  /\ pending = {} /\ owed = {} /\ wroteOthers = FALSE

(* A change of the NAT, by a step that leaves the checkpoint alone.        *)
NatBecomes(value) == NatChange /\ natDirty' = value

-----------------------------------------------------------------------------
(* A page for a new node.  Without one the call returns -12 and nothing    *)
(* has changed.                                                            *)
NodeAlloc(nid) ==
  /\ nid \notin allocated
  /\ NatBecomes(TRUE)
  /\ allocated' = allocated \union {nid}
  /\ nodeDirty' = nodeDirty \union {nid}
  /\ UNCHANGED <<syncVars, owed>>

NodeCheckpointFlush ==
  /\ NatBecomes(FALSE)
  /\ UNCHANGED nodeVars

(* f2fs_fsync_node_pages() and f2fs_sync_node_pages() go once over the     *)
(* pages that are dirty when they start, the first over those of one inode *)
(* only.  That is their behaviour, which is not recovered; the order of    *)
(* the two calls is.  A faulty variant writes all the nodes first.         *)
Selected(helper) ==
  IF helper = "fsync" THEN nodeDirty \intersect NodesOf(syncIno') ELSE nodeDirty

BugAllFirst == "sync"
FirstHelper == "fsync"
SecondHelper == "sync"

SyncBegin(ino) ==
  /\ syncPc = "idle"
  /\ syncPc' = "fsync" /\ syncIno' = ino
  /\ pending' = Selected(FirstHelper)
  /\ owed' = nodeDirty /\ wroteOthers' = FALSE
  /\ UNCHANGED <<cpVars, pageVars, syncRet>>

WritePage(nid) ==
  /\ NatBecomes(TRUE)
  /\ nodeDirty' = nodeDirty \ {nid} /\ owed' = owed \ {nid}

SyncPage(nid) ==
  /\ syncPc \in {"fsync", "sync"}
  /\ nid \in pending \intersect nodeDirty
  /\ WritePage(nid)
  /\ pending' = pending \ {nid}
  /\ wroteOthers' = (wroteOthers \/ InoOf[nid] # syncIno)
  /\ UNCHANGED <<allocated, syncPc, syncIno, syncRet>>

(* A helper passes over a page that somebody else has written, and is done *)
(* when it has looked at all of them.                                      *)
HelperDone == pending \intersect nodeDirty = {}

(* A faulty variant: the success of the first helper ends the call.        *)
BugStopAfterFsync ==
  /\ syncPc = "fsync" /\ HelperDone
  /\ syncPc' = "return" /\ pending' = {}
  /\ UNCHANGED <<cpVars, pageVars, syncIno, syncRet, owed, wroteOthers>>

FsyncDone ==
  /\ syncPc = "fsync" /\ HelperDone
  /\ syncPc' = "sync" /\ UNCHANGED syncIno
  /\ pending' = Selected(SecondHelper)
  /\ UNCHANGED <<cpVars, pageVars, syncRet, owed, wroteOthers>>

SyncDone ==
  /\ syncPc = "sync" /\ HelperDone
  /\ syncPc' = "return" /\ pending' = {}
  /\ UNCHANGED <<cpVars, pageVars, syncIno, syncRet, owed, wroteOthers>>

(* Either helper may fail on any page; the call returns its error.         *)
HelperFails(err) ==
  /\ syncPc \in {"fsync", "sync"} /\ ~HelperDone
  /\ syncPc' = "return" /\ syncRet' = err /\ pending' = {}
  /\ UNCHANGED <<cpVars, pageVars, syncIno, owed, wroteOthers>>

SyncReturn ==
  /\ syncPc = "return"
  /\ syncPc' = "idle" /\ syncRet' = 0
  /\ owed' = {} /\ wroteOthers' = FALSE
  /\ UNCHANGED <<cpVars, pageVars, syncIno, pending>>

SyncProgress ==
  \/ \E nid \in Nodes : SyncPage(nid)
  \/ FsyncDone \/ SyncDone \/ SyncReturn

SyncStep == SyncProgress \/ \E err \in SyncErrors : HelperFails(err)

-----------------------------------------------------------------------------
(* The rest of the file system changes nodes and writes them back.         *)
NodeUpdate(nid) ==
  /\ ~blocked
  /\ nid \in allocated
  /\ nodeDirty' = nodeDirty \union {nid}
  /\ UNCHANGED <<cpVars, allocated, syncVars, owed>>

WriteBack(nid) ==
  /\ nid \in nodeDirty
  /\ WritePage(nid)
  /\ UNCHANGED <<allocated, syncVars>>

NmNext ==
  \/ CpNext /\ UNCHANGED nodeVars
  \/ \E nid \in Nodes : NodeAlloc(nid) \/ NodeUpdate(nid) \/ WriteBack(nid)
  \/ NodeCheckpointFlush
  \/ \E ino \in Inodes : SyncBegin(ino)
  \/ SyncStep

NmSpec == NmInit /\ [][NmNext]_nmVars

(* A sync call is shut out again and again, but f2fs queues it on a        *)
(* read-write semaphore, which lets waiting readers in before the next     *)
(* checkpoint.  It has to end without the help of a failure.               *)
NmFairSpec ==
  NmSpec /\ WF_nmVars(CpStep /\ UNCHANGED nodeVars)
         /\ SF_nmVars(SyncProgress)

-----------------------------------------------------------------------------
NmTypeOK ==
  /\ CpTypeOK
  /\ allocated \subseteq Nodes /\ nodeDirty \subseteq allocated
  /\ syncPc \in SyncPoints /\ syncIno \in Inodes
  /\ syncRet \in SyncErrors \union {0}
  /\ pending \subseteq Nodes /\ owed \subseteq Nodes
  /\ wroteOthers \in BOOLEAN

(* A sync call that returns 0 stands for every node that was dirty when it *)
(* began, the inode's and all others, although checkpoints, write-back by  *)
(* others and new changes fell between its steps.                          *)
SuccessMeansWritten == syncPc = "return" /\ syncRet = 0 => owed = {}

(* A sync call writes nodes of other inodes only after those of its own:   *)
(* a call that fails on its inode has written nothing else.                *)
OwnNodesFirst ==
  wroteOthers => owed \intersect NodesOf(syncIno) = {}

(* Every sync call returns, whatever checkpoints do: each of them lets the *)
(* file operations in again, those that fail too.                          *)
SyncEnds == syncPc # "idle" ~> syncPc = "idle"
=============================================================================
