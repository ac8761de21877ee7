------------------------------- MODULE F2fsGc -------------------------------
(***************************************************************************)
(* f2fs_gc(): the collector's loop.  A call collects in the background or  *)
(* in the foreground; a background call that finds too little space first  *)
(* writes a checkpoint, and turns into a foreground one if that did not    *)
(* help; a call that is not synchronous repeats until it believes there    *)
(* is space enough.  Between any two steps file operations, checkpoints of *)
(* other callers, a shutdown or a checkpoint error may happen.             *)
(***************************************************************************)
EXTENDS Integers, FiniteSets

CONSTANTS
  Segments,          (* the main-area segments                           *)
  Sections,          (* the sections, each the set of its segments       *)
  SegmentsPerSection, (* sbi->segs_per_sec                               *)
  ReservedSections,  (* free sections that the file system wants to keep *)
  NoSection,         (* NULL_SEGNO                                       *)
  Errors,            (* error returns of a checkpoint                    *)
  EINVAL, EIO, ENODATA, EAGAIN

ASSUME SectionsAssumption ==
  /\ IsFiniteSet(Sections)
  /\ UNION Sections = Segments
  /\ \A s, t \in Sections : s = t \/ s \intersect t = {}
  /\ NoSection \notin Sections
  /\ SegmentsPerSection \in Nat \ {0}
  /\ \A section \in Sections :
       IsFiniteSet(section) /\ Cardinality(section) = SegmentsPerSection
ASSUME ReservedAssumption == ReservedSections \in Nat
ASSUME ReturnsAssumption ==
  /\ 0 \notin Errors \union {EINVAL, EIO, ENODATA, EAGAIN}
  /\ Errors \intersect {EINVAL, EIO, ENODATA, EAGAIN} = {}

VARIABLES
  free, prefree, (* the segments, as in AtomicCheckpoint                 *)
  gcPc,          (* where the call stands                                *)
  gcSync, gcBackground,  (* the arguments of the call                    *)
  gcDiscard,     (* cpc.reason & 0x2                                     *)
  gcKind,        (* local gc_type: "BG" or "FG"                          *)
  segno,         (* local segno: the section asked for, then the victim  *)
  secFreed,      (* local sec_freed                                      *)
  gcRet,         (* local ret, the value returned                        *)
  curVictimSec,  (* sbi->cur_victim_sec                                  *)
  active,        (* SB_ACTIVE                                            *)
  cpError,       (* f2fs_cp_error()                                      *)
  ownCp,         (* history: outcome of the call's last checkpoint       *)
  credited,      (* history: sections the call has emptied whole that    *)
                 (* wait for a checkpoint to become free                 *)
  overtaken      (* history: how many of them no longer do               *)

segmentVars == <<free, prefree>>
callArgs == <<gcSync, gcBackground, gcDiscard>>
mountVars == <<active, cpError>>
creditVars == <<credited, overtaken>>
loopVars == <<gcKind, segno, secFreed, gcRet, curVictimSec, ownCp>>
vars == <<segmentVars, gcPc, callArgs, loopVars, mountVars, creditVars>>

(* Checkpoints are atomic here: that is what module Checkpoint implements. *)
(* What is on the medium influences no decision of the collector.          *)
Space == INSTANCE AtomicCheckpoint WITH media <- {}

GcPoints == {"idle", "check", "cperror", "space", "prefree", "precp", "recheck",
             "select", "migrate", "enough", "postcp", "out"}
Returns == Errors \union {0, EINVAL, EIO, ENODATA, EAGAIN}

(* has_not_enough_free_secs(sbi, freed, 0).                                *)
FreeSections == {section \in Sections : section \subseteq free}
NotEnough(freed) == Cardinality(FreeSections) + freed <= ReservedSections

Init ==
  /\ free \in SUBSET Segments /\ prefree = {}
  /\ gcPc = "idle" /\ gcRet = 0
  /\ gcSync = FALSE /\ gcBackground = TRUE /\ gcDiscard = FALSE
  /\ gcKind = "BG" /\ segno = NoSection /\ secFreed = 0
  /\ ownCp = "none" /\ credited = {} /\ overtaken = 0
  /\ curVictimSec = NoSection
  /\ active = TRUE /\ cpError = FALSE

Goto(from, to) == gcPc = from /\ gcPc' = to

(* Leave the loop.                                                         *)
Break(from, result) == Goto(from, "out") /\ gcRet' = result

(* A step that only decides how to go on.                                  *)
Untouched == UNCHANGED <<segmentVars, callArgs, mountVars, creditVars>>
LocalsKept == UNCHANGED <<segno, secFreed, curVictimSec, ownCp>>

-----------------------------------------------------------------------------
(* The result of a call that does not come to one.  A faulty variant takes *)
(* it for a success.                                                       *)
BugNothingDone == 0
NothingDone == EINVAL

Call(sync, background, hint, discard) ==
  /\ Goto("idle", "check")
  /\ gcSync' = sync /\ gcBackground' = background /\ gcDiscard' = discard
  /\ gcKind' = IF sync THEN "FG" ELSE "BG"
  /\ segno' = hint /\ gcRet' = NothingDone
  /\ UNCHANGED <<segmentVars, mountVars, creditVars, secFreed, curVictimSec,
                 ownCp>>

CheckMount ==
  /\ \/ ~active /\ Break("check", EINVAL)
     \/ active /\ Goto("check", "cperror") /\ UNCHANGED gcRet
  /\ Untouched /\ LocalsKept /\ UNCHANGED gcKind

CheckCpError ==
  /\ \/ cpError /\ Break("cperror", EIO)
     \/ ~cpError /\ Goto("cperror", "space") /\ UNCHANGED gcRet
  /\ Untouched /\ LocalsKept /\ UNCHANGED gcKind

(* Only a background call looks at the space before it collects.           *)
CheckSpace ==
  /\ Goto("space", IF gcKind = "BG" /\ NotEnough(0) THEN "prefree" ELSE "select")
  /\ Untouched /\ UNCHANGED loopVars

CheckPrefree ==
  /\ Goto("prefree", IF prefree # {} THEN "precp" ELSE "recheck")
  /\ Untouched /\ UNCHANGED loopVars

(* Of the sections claimed, those that hold no data but are not free yet   *)
(* stay credited; the others are overtaken: free, or in use once more.     *)
Credit(claimed) ==
  /\ credited' = {section \in claimed :
                    /\ section \subseteq free' \union prefree'
                    /\ ~(section \subseteq free')}
  /\ overtaken' = overtaken + Cardinality(claimed \ credited')

(* f2fs_write_checkpoint(): the first lets the loop go on if it succeeds,  *)
(* the second ends it.                                                     *)
OwnCheckpoint ==
  /\ Space!Reclaim(gcDiscard)
  /\ Goto("precp", "recheck") \/ Goto("postcp", "out")
  /\ gcRet' = 0 /\ ownCp' = "ok"
  /\ Credit(credited)
  /\ UNCHANGED <<callArgs, gcKind, segno, secFreed, curVictimSec, mountVars>>

OwnCheckpointFails(err) ==
  /\ Break("precp", err) \/ Break("postcp", err)
  /\ ownCp' = "failed"
  /\ Untouched /\ UNCHANGED <<gcKind, segno, secFreed, curVictimSec>>

PromotedKind == IF NotEnough(0) THEN "FG" ELSE "BG"

RecheckSpace ==
  /\ Goto("recheck", "select")
  /\ gcKind' = PromotedKind
  /\ Untouched /\ LocalsKept /\ UNCHANGED gcRet

(* f2fs_balance_fs() must not collect in the background.                   *)
MayCollect == gcKind = "FG" \/ gcBackground

RefuseBackground ==
  /\ ~MayCollect
  /\ Break("select", EINVAL)
  /\ Untouched /\ LocalsKept /\ UNCHANGED gcKind

(* In the foreground the choice is claimed.  A faulty variant always does. *)
BugClaimAlways(section) == section
Claim(section) == IF gcKind = "FG" THEN section ELSE curVictimSec

(* __get_victim() finds a section with data in it, the one asked for if    *)
(* there is one, or none.                                                  *)
SelectVictim(section) ==
  /\ MayCollect
  /\ section \intersect Space!Used # {} /\ segno \in {section, NoSection}
  /\ Goto("select", "migrate")
  /\ segno' = section
  /\ curVictimSec' = Claim(section)
  /\ Untouched /\ UNCHANGED <<gcKind, secFreed, gcRet, ownCp>>

(* A faulty variant forgets to say so, and ret stays what it was.          *)
BugNoVictimSilent ==
  /\ MayCollect
  /\ Goto("select", "out")
  /\ Untouched /\ UNCHANGED loopVars

NoVictim ==
  /\ MayCollect
  /\ Break("select", ENODATA)
  /\ Untouched /\ LocalsKept /\ UNCHANGED gcKind

(* A faulty variant counts a section once any segment of it was freed.     *)
BugAnySegment(segFreed) == segFreed > 0
WholeSection(segFreed) == segFreed = SegmentsPerSection

(* do_garbage_collect() empties some segments of the victim, whose number  *)
(* it returns, and may take a free segment for the blocks it moves.  A     *)
(* segment that was empty before is not among those it freed.              *)
CollectGarbage(emptied, taken) ==
  /\ Goto("migrate", IF gcSync THEN "out" ELSE "enough")
  /\ emptied \subseteq segno \intersect Space!Used
  /\ taken \subseteq free
  /\ prefree' = prefree \union emptied /\ free' = free \ taken
  /\ secFreed' = IF gcKind = "FG" /\ WholeSection(Cardinality(emptied))
                 THEN secFreed + 1 ELSE secFreed
  /\ curVictimSec' = IF gcKind = "FG" THEN NoSection ELSE curVictimSec
  /\ Credit(IF gcKind = "FG" /\ emptied = segno THEN credited \union {segno}
            ELSE credited)
  /\ UNCHANGED <<callArgs, gcKind, segno, gcRet, mountVars, ownCp>>

(* Once more, with any victim and the count so far.  Faulty variants take  *)
(* a section off the count, or forget it.                                  *)
BugTakeOff == secFreed - 1
BugForget == 0
FreedSoFar == secFreed

Retry ==
  /\ NotEnough(secFreed)
  /\ Goto("enough", "check")
  /\ segno' = NoSection /\ secFreed' = FreedSoFar
  /\ overtaken' = IF secFreed' = 0 THEN 0 ELSE overtaken  (* none of none *)
  /\ UNCHANGED <<segmentVars, callArgs, mountVars, credited, gcKind, gcRet,
                 curVictimSec, ownCp>>

(* A foreground collection is made reusable by a checkpoint.               *)
EnoughSpace ==
  /\ ~NotEnough(secFreed)
  /\ Goto("enough", IF gcKind = "FG" THEN "postcp" ELSE "out")
  /\ Untouched /\ UNCHANGED loopVars

(* last_victim and the inode list are reset, and the locals are dead: they *)
(* take their initial values again.                                        *)
Return ==
  /\ Goto("out", "idle")
  /\ gcRet' = IF ~gcSync THEN gcRet ELSE IF secFreed > 0 THEN 0 ELSE EAGAIN
  /\ gcSync' = FALSE /\ gcBackground' = TRUE /\ gcDiscard' = FALSE
  /\ gcKind' = "BG" /\ segno' = NoSection /\ secFreed' = 0
  /\ ownCp' = "none" /\ credited' = {} /\ overtaken' = 0
  /\ UNCHANGED <<segmentVars, mountVars, curVictimSec>>

CollectorStep ==
  \/ CheckMount \/ CheckCpError \/ CheckSpace \/ CheckPrefree
  \/ OwnCheckpoint \/ \E err \in Errors : OwnCheckpointFails(err)
  \/ RecheckSpace \/ RefuseBackground \/ NoVictim
  \/ \E section \in Sections : SelectVictim(section)
  \/ Retry \/ EnoughSpace \/ Return

(* At most one segment is taken for the blocks of one collection.          *)
Collect ==
  /\ gcPc = "migrate"
  /\ \E emptied \in SUBSET segno, taken \in {{}} \union {{s} : s \in free} :
       CollectGarbage(emptied, taken)

-----------------------------------------------------------------------------
(***************************************************************************)
(* The rest of the file system: file operations, checkpoints of others,    *)
(* and a shutdown or a checkpoint error, which are for good.               *)
(***************************************************************************)
Others ==
  /\ \/ \E segment \in Segments : Space!Take(segment) \/ Space!Empty(segment)
     \/ \E keepPrefree \in BOOLEAN : Space!Reclaim(keepPrefree)
  /\ Credit(credited)
  /\ UNCHANGED <<gcPc, callArgs, loopVars, mountVars>>

Fail ==
  /\ \/ active' = FALSE /\ UNCHANGED cpError
     \/ cpError' = TRUE /\ UNCHANGED active
  /\ UNCHANGED <<segmentVars, gcPc, callArgs, loopVars, creditVars>>

Next ==
  \/ \E sync, background, discard \in BOOLEAN,
        hint \in Sections \union {NoSection} :
       Call(sync, background, hint, discard)
  \/ CollectorStep \/ Collect
  \/ Others \/ Fail

Spec == Init /\ [][Next]_vars

(* The calling thread is scheduled and the helpers it calls return.        *)
FairSpec == Spec /\ WF_vars(CollectorStep \/ Collect)

-----------------------------------------------------------------------------
TypeOK ==
  /\ free \subseteq Segments /\ prefree \subseteq Segments
  /\ gcPc \in GcPoints
  /\ gcSync \in BOOLEAN /\ gcBackground \in BOOLEAN /\ gcDiscard \in BOOLEAN
  /\ gcKind \in {"BG", "FG"}
  /\ {segno, curVictimSec} \subseteq Sections \union {NoSection}
  /\ secFreed \in Nat
  /\ gcRet \in Returns
  /\ active \in BOOLEAN /\ cpError \in BOOLEAN
  /\ ownCp \in {"none", "ok", "failed"}
  /\ credited \subseteq Sections /\ overtaken \in Nat

(* The claim on a victim section never outlives its migration: whichever   *)
(* way the call goes on or ends, sbi->cur_victim_sec is NULL_SEGNO again.  *)
ClaimReleased ==
  curVictimSec = IF gcPc = "migrate" /\ gcKind = "FG" THEN segno
                 ELSE NoSection

(* A caller on the critical path of a write (background = false) never     *)
(* pays for a background collection, however the call changed its type and *)
(* looped before.                                                          *)
NoBackgroundOnCriticalPath ==
  gcPc = "migrate" /\ ~gcBackground => gcKind = "FG"

(* A call returns 0 only for a reason: a synchronous one emptied a whole   *)
(* section, another one had its last checkpoint succeed.  (So a background *)
(* collection that needed no checkpoint returns -EINVAL.)                  *)
ZeroHasAReason ==
  [][Return /\ gcRet' = 0 =>
       IF gcSync THEN secFreed > 0 ELSE ownCp = "ok"]_vars

(* A failed checkpoint ends the call, and its error is what is returned.   *)
CheckpointFailureEndsCall ==
  ownCp = "failed" => gcPc = "out" /\ ~gcSync /\ gcRet \in Errors

(* When a foreground call stops for having enough space, so many sections  *)
(* hold no data, but for those that it counts twice: sec_freed counts      *)
(* whole sections, each once a pass, and is wrong about no more of them    *)
(* than checkpoints of others have made free since (they are among the     *)
(* free ones as well, or already in use again).                            *)
SpaceDecisionSound ==
  [][EnoughSpace /\ gcKind = "FG" =>
       Cardinality({section \in Sections : section \intersect Space!Used = {}})
         + overtaken > ReservedSections]_vars

(* A call that is not synchronous and returns 0 leaves no section behind   *)
(* that it has emptied and no checkpoint has made free, however it looped: *)
(* a 0 from its first checkpoint does not outlive the collections after    *)
(* it.  (Checkpoints for a discard reason make nothing free.)              *)
SuccessReclaims ==
  gcPc = "out" /\ ~gcSync /\ gcRet = 0 => credited = {} \/ gcDiscard

(* The only loop that can go on for ever is one of collections that empty  *)
(* no section in the foreground.                                           *)
EmptiesSection == secFreed' > secFreed
ReturnsUnlessStalled ==
  []<>(gcPc = "idle") \/ <>[][~EmptiesSection]_vars
=============================================================================
