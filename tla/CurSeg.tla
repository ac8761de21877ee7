------------------------------- MODULE CurSeg -------------------------------
(***************************************************************************)
(* The current segments of the logs: allocate_segment_by_default(), which  *)
(* moves one log on when it needs a segment, new_curseg(), which it calls, *)
(* and f2fs_allocate_new_segments(), which goes through all the logs.      *)
(*                                                                         *)
(* The words at + 0x58 and + 0x5c of a log are its segment and its next    *)
(* block; of the second it only matters whether it is UINT32_MAX (the log  *)
(* is full).  The statistics of segment types are left out.                *)
(*                                                                         *)
(* The functions take no lock: writers fill the logs at any point, and the *)
(* rest of the file system frees dirty segments.  That somebody else moves *)
(* a log on at the same time is not modelled.                              *)
(***************************************************************************)
EXTENDS Integers

CONSTANTS
  Segments,   (* the main-area segments                                    *)
  Logs,       (* the number of logs; 6 in the code                         *)
  WarmNode    (* the log with a rule of its own; type 4 in the code        *)

ASSUME LogsAssumption == Logs \in Nat /\ Logs > 0 /\ WarmNode \in 0..(Logs - 1)

VARIABLES
  crcRecovery,  (* bit 6 of sbi + 0xd0, set at mount                       *)
  segnoOf,    (* the segment of each log                                   *)
  full,       (* the logs that have no next block                          *)
  free,       (* the free segments                                         *)
  located,    (* the segments on the dirty list, current ones among them   *)
  allocPc,    (* where the allocation stands                               *)
  logType,    (* argument type, or the loop's                              *)
  force,      (* argument force_new_section                                *)
  sweeping,   (* the loop over all logs is running                         *)
  old,        (* local old of the loop                                     *)
  segno,      (* local segno of new_curseg()                               *)
  startOf,    (* history: the segments of the logs when the loop began     *)
  drained,    (* history: the logs that found no free segment              *)
  filled      (* history: the logs filled since the loop was done with them *)

logVars == <<segnoOf, full>>
poolVars == <<free, located, crcRecovery>>
argVars == <<logType, force, sweeping>>
localVars == <<old, segno>>
historyVars == <<startOf, drained, filled>>
vars == <<logVars, poolVars, allocPc, argVars, localVars, historyVars>>

LogTypes == 0..(Logs - 1)
Held == {segnoOf[type] : type \in LogTypes}

Init ==
  /\ crcRecovery \in BOOLEAN
  /\ segnoOf \in [LogTypes -> Segments]
  /\ \A s, t \in LogTypes : s # t => segnoOf[s] # segnoOf[t]
  /\ full \in SUBSET LogTypes
  /\ free \in SUBSET (Segments \ Held) /\ located \in SUBSET (Segments \ free)
  /\ allocPc = "idle" /\ logType = 0 /\ force = FALSE /\ sweeping = FALSE
  /\ old = segnoOf[0] /\ segno = segnoOf[0]
  /\ startOf = segnoOf /\ drained = {} /\ filled = {}

(* A caller with one log to move on.                                       *)
Allocate(type, newSection) ==
  /\ allocPc = "idle" /\ allocPc' = "choose"
  /\ logType' = type /\ force' = newSection /\ sweeping' = FALSE
  /\ UNCHANGED <<logVars, poolVars, localVars, historyVars>>

(* The loop over the logs begins.                                          *)
AllocateAll ==
  /\ allocPc = "idle" /\ allocPc' = "remember"
  /\ logType' = 0 /\ force' = FALSE /\ sweeping' = TRUE
  /\ startOf' = segnoOf /\ drained' = {} /\ filled' = {}
  /\ UNCHANGED <<logVars, poolVars, localVars>>

RememberOld ==
  /\ allocPc = "remember" /\ allocPc' = "choose"
  /\ old' = segnoOf[logType]
  /\ UNCHANGED <<logVars, poolVars, argVars, segno, historyVars>>

(* A forced call asks for no reuse, nor does the warm node log without CRC *)
(* recovery.                                                               *)
MayReuse == ~force /\ (logType = WarmNode => crcRecovery)

(* ssr: f2fs_need_SSR() said yes and get_ssr_segment() found a segment.    *)
Choose(ssr) ==
  /\ ssr => MayReuse /\ located # {}
  /\ allocPc = "choose" /\ allocPc' = IF ssr THEN "change" ELSE "new"
  /\ UNCHANGED <<logVars, poolVars, argVars, localVars, historyVars>>

(* change_curseg(): the log takes over a segment of the dirty list, be it  *)
(* the current segment of a log.                                           *)
ChangeCurseg(segment) ==
  /\ allocPc = "change" /\ allocPc' = "return"
  /\ segment \in located
  /\ segnoOf' = [segnoOf EXCEPT ![logType] = segment]
  /\ full' = full \ {logType}
  /\ located' = located \ {segment}
  /\ UNCHANGED <<free, crcRecovery, argVars, localVars, historyVars>>

(* new_curseg(): a log with a next block in the same section stays, unless *)
(* it is to begin a section.                                               *)
ReadNext ==
  /\ allocPc = "new"
  /\ allocPc' = IF logType \in full \/ force THEN "get" ELSE "return"
  /\ UNCHANGED <<logVars, poolVars, argVars, localVars, historyVars>>

(* get_free_segment() takes a segment off the free ones.                   *)
GetFreeSegment(segment) ==
  /\ allocPc = "get" /\ allocPc' = "store"
  /\ segment \in free /\ free' = free \ {segment}
  /\ segno' = segment
  /\ UNCHANGED <<logVars, located, crcRecovery, argVars, old, historyVars>>

(* -ENOSPC, which goes nowhere.                                            *)
NoFreeSegment ==
  /\ allocPc = "get" /\ allocPc' = "return"
  /\ free = {}
  /\ drained' = IF sweeping THEN drained \union {logType} ELSE drained
  /\ UNCHANGED <<logVars, poolVars, argVars, localVars, startOf, filled>>

StoreSegno ==
  /\ allocPc = "store" /\ allocPc' = "open"
  /\ segnoOf' = [segnoOf EXCEPT ![logType] = segno]
  /\ UNCHANGED <<full, poolVars, argVars, localVars, historyVars>>

StoreNext ==
  /\ allocPc = "open" /\ allocPc' = "locate"
  /\ full' = full \ {logType}
  /\ UNCHANGED <<segnoOf, poolVars, argVars, localVars, historyVars>>

LocateNew ==
  /\ allocPc = "locate" /\ allocPc' = "return"
  /\ located' = located \union {segno}
  /\ UNCHANGED <<logVars, free, crcRecovery, argVars, localVars, historyVars>>

(* The locals are dead and take their initial values.                      *)
Finish ==
  /\ allocPc' = "idle" /\ logType' = 0 /\ force' = FALSE /\ sweeping' = FALSE
  /\ old' = segnoOf[0] /\ segno' = segnoOf[0]
  /\ startOf' = segnoOf /\ drained' = {} /\ filled' = {}
  /\ UNCHANGED <<logVars, poolVars>>

(* The return to the caller, which in the loop locates the old segment of  *)
(* a log that moved and goes on with the next log.  Faulty variants locate *)
(* the segment it moved to, run one log too far or end at a failure.       *)
ReturnToCaller ==
  /\ allocPc = "return" /\ ~sweeping
  /\ Finish

BugLocateNew == IF old # segnoOf[logType] THEN {segnoOf[logType]} ELSE {}
LeftBehind == IF old # segnoOf[logType] THEN {old} ELSE {}
BugOneTooFar == logType = Logs
BugStopAtFailure == logType = Logs - 1 \/ logType \in drained
LastLog == logType = Logs - 1

NextLog ==
  /\ allocPc = "return" /\ sweeping
  /\ located' = located \union LeftBehind
  /\ IF LastLog
     THEN allocPc' = "swept" /\ UNCHANGED logType
     ELSE allocPc' = "remember" /\ logType' = logType + 1
  /\ UNCHANGED <<logVars, free, crcRecovery, force, sweeping, localVars,
                 historyVars>>

SweepReturns ==
  /\ allocPc = "swept"
  /\ Finish

AllocationStep ==
  \/ RememberOld \/ \E ssr \in BOOLEAN : Choose(ssr)
  \/ \E segment \in Segments : ChangeCurseg(segment) \/ GetFreeSegment(segment)
  \/ ReadNext \/ NoFreeSegment \/ StoreSegno \/ StoreNext \/ LocateNew
  \/ ReturnToCaller \/ NextLog \/ SweepReturns

(* The logs that the loop does not open any more.                          *)
Passed(type) ==
  \/ type < logType \/ allocPc = "swept"
  \/ type = logType /\ allocPc \in {"locate", "return"}

(***************************************************************************)
(* The rest of the file system fills the logs, and frees dirty segments;   *)
(* the one that get_ssr_segment() has found stays until the log changes.   *)
(***************************************************************************)
FillLog(type) ==
  /\ type \notin full /\ full' = full \union {type}
  /\ filled' = IF sweeping /\ Passed(type) THEN filled \union {type} ELSE filled
  /\ UNCHANGED <<segnoOf, poolVars, allocPc, argVars, localVars, startOf,
                 drained>>

Release(segment) ==
  /\ allocPc # "change"
  /\ segment \in located \ Held
  /\ free' = free \union {segment} /\ located' = located \ {segment}
  /\ UNCHANGED <<logVars, crcRecovery, allocPc, argVars, localVars, historyVars>>

Next ==
  \/ \E type \in LogTypes, newSection \in BOOLEAN : Allocate(type, newSection)
  \/ AllocateAll
  \/ AllocationStep
  \/ \E type \in LogTypes : FillLog(type)
  \/ \E segment \in Segments : Release(segment)

Spec == Init /\ [][Next]_vars

-----------------------------------------------------------------------------
TypeOK ==
  /\ crcRecovery \in BOOLEAN
  /\ segnoOf \in [LogTypes -> Segments] /\ startOf \in [LogTypes -> Segments]
  /\ full \subseteq LogTypes
  /\ drained \subseteq LogTypes /\ filled \subseteq LogTypes
  /\ free \subseteq Segments /\ located \subseteq Segments
  /\ allocPc \in {"idle", "remember", "choose", "change", "new", "get", "store",
                  "open", "locate", "return", "swept"}
  /\ logType \in LogTypes /\ force \in BOOLEAN /\ sweeping \in BOOLEAN
  /\ {old, segno} \subseteq Segments

(* The loop leaves no segment behind: the one a log had before is on the   *)
(* dirty list afterwards, unless a log of the same loop has reused it or   *)
(* it has been freed since, wherever change_curseg() leads the logs.       *)
NoSegmentForgotten ==
  allocPc = "swept" =>
    \A type \in LogTypes : startOf[type] \in Held \union located \union free

(* A log that finds no free segment does not keep the others from theirs,  *)
(* although nobody looks at its -ENOSPC: after the loop only such logs are *)
(* full, and those that writers have filled again since.                   *)
OnlyDrainedLogsStayFull ==
  allocPc = "swept" => full \subseteq drained \union filled
=============================================================================
