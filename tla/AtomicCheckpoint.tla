-------------------------- MODULE AtomicCheckpoint --------------------------
(***************************************************************************)
(* What a checkpoint promises the allocator: in one step it moves what the *)
(* medium counts on to the segments now in use and, unless the prefree     *)
(* segments are kept for discard, makes every prefree segment free.  A     *)
(* failed checkpoint is no step at all.                                    *)
(***************************************************************************)
CONSTANT Segments

VARIABLES free, prefree, media

vars == <<free, prefree, media>>

Used == Segments \ (free \union prefree)

Init ==
  /\ free \in SUBSET Segments
  /\ prefree = {}
  /\ media = Used

Take(segment) ==
  /\ segment \in free
  /\ free' = free \ {segment}
  /\ UNCHANGED <<prefree, media>>

Empty(segment) ==
  /\ segment \in Used
  /\ prefree' = prefree \union {segment}
  /\ UNCHANGED <<free, media>>

Reclaim(keepPrefree) ==
  IF keepPrefree
  THEN UNCHANGED <<free, prefree>>
  ELSE free' = free \union prefree /\ prefree' = {}

Commit(keepPrefree) ==
  /\ media' = Used
  /\ Reclaim(keepPrefree)

Next ==
  \/ \E segment \in Segments : Take(segment) \/ Empty(segment)
  \/ \E keepPrefree \in BOOLEAN : Commit(keepPrefree)

Spec == Init /\ [][Next]_vars
=============================================================================
