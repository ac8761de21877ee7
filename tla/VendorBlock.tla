----------------------------- MODULE VendorBlock -----------------------------
(***************************************************************************)
(* The memory behind the worker and its wrapper: the vendor block `global` *)
(* and the words of sbi that the recovered code reaches by offset and      *)
(* width alone.  Every step of TranGcWorker makes its stores here too, and *)
(* the fields that other code owns lie in between.                         *)
(*                                                                         *)
(* A byte holds which byte it is of which stored value, Piece(value, i);   *)
(* how values are encoded does not matter, only that each is read back     *)
(* whole.                                                                  *)
(***************************************************************************)
EXTENDS TranGcWorker

VARIABLE memory   (* the bytes of the block, then those of sbi           *)

blockVars == <<vars, memory>>

Sbi(offset) == 4096 + offset
X(a, b, c) == 256 * a + 16 * b + c   (* a number by its hex digits       *)

(* Where the fields are, and how wide the recovered stores to them.  Of a  *)
(* field that only other code stores to, the first byte is kept.           *)
U8(offset) == [offset |-> offset, width |-> 1]
U32(offset) == [offset |-> offset, width |-> 4]
U64(offset) == [offset |-> offset, width |-> 8]

Layout ==
  [gcMode        |-> U32(Sbi(X(5, 3, 4))),
   gcCount       |-> U64(X(9, 9, 0)),
   gcType        |-> U32(X(9, 9, 8)),
   postGcCount   |-> U64(X(9, 10, 0)),
   phase         |-> U32(X(9, 13, 4)),
   threadCreate  |-> U64(X(9, 14, 0)),
   threadDestroy |-> U64(X(9, 14, 8)),
   typeState     |-> U32(X(9, 15, 8)),
   statusState   |-> U32(X(9, 15, 12)),
   capacityState |-> U32(X(10, 0, 0)),
   thresholdHit  |-> U8(X(10, 0, 4))]

OthersFields ==
  {X(8, 9, 0), X(8, 9, 4), X(8, 9, 8), X(8, 10, 0), X(8, 10, 8),
   X(9, 6, 8), X(9, 7, 0), X(9, 7, 4), X(9, 7, 8), X(9, 12, 0),
   X(9, 12, 8), X(9, 13, 0), X(9, 15, 0), X(9, 15, 4),
   X(10, 0, 5), X(10, 0, 6), X(10, 0, 8), X(10, 0, 12), X(10, 1, 0),
   X(10, 1, 8), X(10, 2, 0),
   Sbi(X(0, 8, 0)), Sbi(X(3, 13, 8)), Sbi(X(4, 0, 8)), Sbi(X(4, 11, 8)),
   Sbi(X(5, 0, 8))}

(* A faulty variant takes gc_type for the second half of the counter.      *)
BugPlace(field) ==
  IF field = "gcType" THEN U32(X(9, 9, 4)) ELSE Layout[field]
Place(field) == Layout[field]

Bytes(field) ==
  Place(field).offset..(Place(field).offset + Place(field).width - 1)

Piece(value, index) == 8 * value + index

Put(mem, field, value) ==
  [byte \in DOMAIN mem |->
     IF byte \in Bytes(field) THEN Piece(value, byte - Place(field).offset)
     ELSE mem[byte]]

Holds(mem, field, value) ==
  \A byte \in Bytes(field) :
    mem[byte] = Piece(value, byte - Place(field).offset)

(* What the fields are meant to hold.  The telemetry words are cleared     *)
(* when a worker starts and hold nothing else here.                        *)
Contents ==
  [gcMode |-> gcMode, gcCount |-> gcCount, gcType |-> gcType,
   postGcCount |-> postGcCount, phase |-> phase,
   threadCreate |-> threadCreate, threadDestroy |-> threadDestroy,
   typeState |-> 0, statusState |-> 0,
   capacityState |-> capacityState, thresholdHit |-> thresholdHit]

Foreign == -1
Fields == DOMAIN Layout
BlockBytes == OthersFields \union UNION {Bytes(field) : field \in Fields}
FieldAt(byte) == CHOOSE field \in Fields : byte \in Bytes(field)

BlockInit ==
  /\ Init
  /\ memory =
       [byte \in BlockBytes |->
          IF byte \in OthersFields THEN Foreign
          ELSE Piece(Contents[FieldAt(byte)],
                     byte - Place(FieldAt(byte)).offset)]

-----------------------------------------------------------------------------
Stores(field, value) == memory' = Put(memory, field, value)

(* What the worker stores to at which point.                               *)
StoredAt ==
  [type |-> "typeState", status |-> "statusState", create |-> "threadCreate",
   pressure |-> "capacityState", threshold |-> "thresholdHit",
   end |-> "gcType", phase |-> "phase", destroy |-> "threadDestroy"]

WrapperStores ==
  CASE callPc = "idle" -> Stores("gcCount", gcCount')
    [] callPc = "override" -> Stores("gcMode", gcMode')
    [] callPc = "restore" /\ sampledType # 0 -> Stores("gcMode", gcMode')
    [] callPc = "post" -> Stores("postGcCount", postGcCount')
    [] OTHER -> UNCHANGED memory

BlockWorkerStep ==
  /\ WorkerStep
  /\ CASE workerPc \in DOMAIN StoredAt ->
            Stores(StoredAt[workerPc], Contents'[StoredAt[workerPc]])
       [] workerPc = "call" -> WrapperStores
       [] OTHER -> UNCHANGED memory

BlockEnvironment ==
  \/ \E type \in GcTypes : ConfigureGcType(type) /\ Stores("gcType", type)
  \/ \E mode \in Modes : StockModeWrite(mode) /\ Stores("gcMode", mode)
  \/ /\ \/ UrgentOn \/ \E dropUrgent \in BOOLEAN : StopWorker(dropUrgent)
        \/ StockLocks \/ StockUnlocks
     /\ UNCHANGED memory

BlockNext ==
  \/ WorkerEntry /\ UNCHANGED memory
  \/ BlockWorkerStep
  \/ BlockEnvironment

BlockSpec == BlockInit /\ [][BlockNext]_blockVars
BlockFairSpec == BlockSpec /\ WF_vars(WorkerStep)

-----------------------------------------------------------------------------
(* No store of the worker, the wrapper or the proc handler damages a field *)
(* beside the one it is meant for: the offsets and the widths of the       *)
(* accesses fit together, so that every field is read back whole and the   *)
(* fields of other code keep what they held.                               *)
BlockHoldsTheState ==
  /\ \A field \in Fields : Holds(memory, field, Contents[field])
  /\ \A byte \in OthersFields : memory[byte] = Foreign
=============================================================================
