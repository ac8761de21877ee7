# Verification project for the reconstructed X683/H694 kernel

This directory holds TLA+ modules, TLC configurations and TLAPS proofs for the
code under `src/`: the parts of the Infinix X683 kernel (MT6768, Linux
4.14.141) that were rebuilt from the binary, and the tools that produce the
evidence for the rebuilding. Paths below are relative to the repository;
`FS` stands for `src/reconstructed/fs/f2fs`.

## 1. Inventory

The repository has three kinds of content: reconstructed C with logic of its
own (f2fs garbage collection, checkpoint, segment allocation), reconstructed C
that only forwards calls or lists symbols, and Python tools.

### Parts with state and decisions

| Part | State | Operations | Neighbours |
|---|---|---|---|
| Vendor GC wrapper, `FS/tran_gc_policy_reconstructed.c` 154-204 | `gc_type`, two call counters; `sbi->gc_mode` shared with stock code | `x683_tran_do_f2fs_gc_semantic()`; its words lie at fixed offsets of the vendor block and of `sbi` | called by the vendor worker, calls `f2fs_gc()`; proc handlers write `gc_type`, stock code writes `gc_mode` |
| Vendor GC worker, same file 206-249 | created/destroyed counters, snapshot of `gc_type`, `gc_mutex` | thread from entry to exit with its gates | proc handlers and charger notifier start and stop it; the stock GC thread competes for `gc_mutex` |
| Free-segment policy, same file 93-151 | two tables, two selector bytes | `x683_tran_has_enough_free_segment()` | the gate of the worker |
| Collector, `FS/gc.c` | claimed victim section, segments freed, kind of collection | `x683_reconstructed_f2fs_gc()` | runs under `gc_mutex`; calls the checkpoint; file operations go on concurrently |
| Checkpoint, `FS/x683_checkpoint_reconstructed.c` | NAT and SIT on the medium, prefree segments, counter | `x683_f2fs_write_checkpoint()` | called by the collector, fsync and discard |
| Node manager, `FS/x683_node_reconstructed.c` | node pages and which of them are dirty, progress of a synchronisation | `x683_node_alloc()`, `x683_node_sync()`, `x683_node_checkpoint_flush()` | dirties and flushes the NAT; shut out while a checkpoint runs |
| Current segments, `FS/x683_segment_reconstructed.c` | segment and next block of each of six logs, free and dirty maps | `allocate_segment_by_default()`, `new_curseg()`, `f2fs_allocate_new_segments()` | called by the data path and the checkpoint |
| Display bridge, `src/reconstructed/drivers/misc/mediatek/display/x683_fb_policy_reconstructed.c` | chain of clients, event held by each policy | registration, `x683_display_notify()` | PPM, GED and the CM manager, reached through the chain and directly |
| Power initialisation, `src/reconstructed/drivers/misc/mediatek/base/power/x683_power_paths_reconstructed.c` | results or-ed so far | `x683_power_stack_init()` | seven initialisers |
| Device tree tool, `src/tools/reconstruct_x683_dtb.py` | stack of open nodes, lists of nodes and properties | `parse_fdt()`, `fmt()`, `render()` | reads the DTB in the boot image |
| Call graph tools, `src/tools/rebuild_x683_executable_analysis.py`, `rebuild_x683_analysis.py` | base, function starts, counters, edges | one scan of the image each | the same image and symbols, but each tool places the image at a base of its own |
| BLR resolver, `src/tools/resolve_x683_blr_static.py` | list of sites, two counters | one scan of the image | same image and symbols |

### Parts without

Data path, recovery, MSDC host, battery, scheduler/PPM, memory policy,
binder/ION: each function forwards one call. Reclaim, asynchronous
infrastructure, power management, architecture, touch/audio/network and security
files are tables of symbols and addresses. `extract_x683_boot_kernel.py` and
`rebuild_x683_inventory.py` are straight-line text and file processing.
`src/analysis`, `src/reconstruction/dts` and the documents are data.

### What is hard

* **Unlocked shared words.** `gc_mode` is read, replaced and restored without a
  lock around a collector call that may take seconds; `gc_type` may be rewritten
  through `/proc` at any point of it.
* **Lock hand-over.** The worker takes `gc_mutex`, the stock collector releases
  it, and the wrapper still has work to do.
* **A retry loop over changing state.** The collector adds sections it freed
  earlier to the number of free sections now, while checkpoints of other callers
  turn the former into the latter.
* **Partial failure.** A NAT flush fails in the middle of a checkpoint;
  `new_curseg()` fails in the middle of the loop over the logs and nobody looks.
* **Waiting for checkpoints.** A synchronisation of nodes needs the file
  operations to be let in for every page, and every checkpoint shuts them out.
* **Overlap.** Display notifications overlap, may be stopped by a client of the
  chain, and reach a policy twice.
* **Fields by number.** Fields of 1, 4 and 8 bytes are reached by offset alone.
* **Arithmetic at a boundary.** 32-bit differences in the policy, rows beyond
  its tables, sign extension, page and image bounds in the tools.
* **Names as paths.** The device tree tool joins names with slashes and splits
  the paths again, although its parser lets a slash through in a name.
* **Two bases.** The call graph tool has its base as a constant, the tool its
  numbers are compared with computes it from a symbol.
* **Stopping.** A stop request may arrive at any point of the worker.

`PROJECT.json` lists each hazard at its line with the properties that cover it.

## 2. Plan

The most important behaviour first:

1. The GC path from the inside out: wrapper, worker, checkpoint with its abstract
   specification, collector, policy, current segments; proofs of their safety
   invariants; the tools as checked models. *(done)*
2. What surrounds it: the memory behind worker and wrapper, the node manager
   composed with the checkpoint, the display bridge and the power stack, with
   proofs. *(done)*
3. Proofs about the tools: what the two scans count and link, what a reported
   chain is worth, what formatting keeps, what the recursive walk of `render()`
   writes. *(done: every safety property the passing runs check is a theorem)*
4. Left: the boot image tool (with the offset the device tree tool relies on)
   could become a further tool module.

Worker, wrapper and collector are not composed into one system. The wrapper
passes the collector's result on unread, and the collector reads neither
`gc_type` nor the counters; the composed system would be the product of two
that share `gc_mutex`, whose release is not in the recovered code, and
`gc_mode`, which only the stock victim selection reads. The `sync` argument of
line 193 (`x683_gc_sync`, lines 88-91, a bit of the mount options) is a free
choice when `F2fsGc` is called.

## 3. Modules

Variables and actions carry the names of the source where TLA+ allows. An action
makes at most one access to a word that other code shares, in the modules of the
GC path, the checkpoint and the current segments; local computation is folded
into the access before or after it. Every module has operators called `Bug...`
next to the definition they distort: plausible errors (a dropped guard, an
off-by-one, a missing reset) that no specification uses. Exchanging a definition
for its `Bug...` variant makes the property named with it in `PROJECT.json`
fail, which shows that the property depends on that line of code.

**TranDoF2fsGc** - the wrapper. `callPc` walks through lines 182-204:
`CallBegin` (first counter), `SampleType` (187), `SaveMode` (189),
`OverrideMode` (190-191), `CollectorReturns` (193), `RestoreMode` (195-196),
`CountCompletion` (198), `CallReturns`. Stores of `gc_type` and `gc_mode` by
others interleave anywhere. History: `stockMode` is what stock code stored last,
`lost` says whether a store fell into the window between the read and the last
write. For `gc_type` 0 the code stores the old mode back unconditionally
(190-191), and the model does too.

**TranGcWorker** (extends it) - the thread of lines 210-249, one action per store
of a shared word: the entry (`WorkerEntry`, `ClearTypeState`, `ClearStatusState`,
`CountCreate`, 213-217), the loop, and the exit (`RestoreGcType` 246, `EndPhase`
247, `CountDestroy` 248), so that a `/proc` store of `gc_type` may fall between
any two of them. The source gives the loop between entry and exit as a comment
(219-244); the model follows it. What happens after a failed pressure test is
not recovered and is a free choice. The exit is the straight line of the
reconstruction: the state machine document (section 4.9, lines 339-355) has the
restore on a stop path that continues, which the source does not show and the
model does not have. The counters are 64 bits wide in the code and wrap at
`CounterRange` here. History: `lastingGcType` is the last value of `gc_type`
stored while no snapshot of it waits to be put back.

**VendorBlock** (extends that) - the memory behind both. `memory` holds the
bytes of the vendor block and the words of `sbi` that the recovered code reaches
by offset (21-63); `Layout` gives each field the offset and the width of its
accesses (`x683_u32`, `x683_put_u32`, the 64-bit counters, the byte of
`+0xa04`). Each step of the worker is joined with its one store (`StoredAt`, and
`WrapperStores` inside the wrapper), the telemetry words `+0x9f8` and `+0x9fc`
included. How a value is encoded in its bytes does not matter, only that all of
them are read back: a byte holds the pair of value and position (`Piece`). The
fields that only other code stores to are one byte each and must keep what they
held.

**Checkpoint** and **AtomicCheckpoint** - `CpBegin`, `FlushNat` or
`FlushNatFails`, `FlushSit`, `ReleaseDiscardAddrs` or `ClearPrefreeSegments`,
`UnblockOperations` (27), `CountCheckpoint` (28), `CpReturn` (lines 16-30), next to
file operations that allocate and invalidate segments, which run from line 27 on.
Blocking the operations is not in the recovered body although its counterpart is;
the model blocks them at the entry. History: `found` is the state that the
checkpoint in progress began with. `AtomicCheckpoint` has one `Commit` step that
frees what was empty; `Checkpoint` is shown to implement it by the mapping at its
end.

**NodeManager** (extends `Checkpoint`) - `NodeAlloc` (23-28), the synchronisation
of one inode (30-34) page by page: `SyncBegin`, `SyncPage`, `FsyncDone`,
`SyncDone`, `HelperFails`, `SyncReturn`, and `NodeCheckpointFlush` (36-37). The
two helpers are external, with what they visit and when they are done
(`Selected`, `HelperDone`): each goes once over the pages dirty at its start and
passes over those that somebody else has written. Their order (`FirstHelper`,
`SecondHelper`) is that of lines 32-33. Others change nodes
(`NodeUpdate`) and write them back (`WriteBack`). Writing a node changes its
NAT entry, so that the steps of this module are the `NatChange` steps of the
checkpoint's environment. `x683_node_lookup()` (15-21) changes nothing but its
output argument and is left out.

**F2fsGc** - the loop of `x683_reconstructed_f2fs_gc()` (35-134) by its labels,
each test a step of its own: mount (58) and checkpoint error (63), free sections
(68) and prefree segments (69), own checkpoint, the second look at the space with
the promotion to foreground, victim selection, collection, accounting, retry,
return. A checkpoint is one step, justified by `CheckpointIsAtomic`. A collection
empties some segments of its victim that held data, and line 92 compares their
number with `segs_per_sec`: a section one of whose segments was empty before is
not counted. History: `credited` holds the sections that the call has emptied
whole and that wait for a checkpoint, `overtaken` counts those that no longer do
because a checkpoint of somebody else made them free first. Victim choice, the
collection itself, other callers' checkpoints, file operations, shutdown and
checkpoint errors are environment actions. `last_victim`, the inode list and
`total_freed` influence no decision that is kept and are left out.

**FreeSegPolicy** - tables and arithmetic at the width of a word (`Minus`, `Times`
reduce modulo `Word`), with the selector bytes read one by one while their owner
stores. A row above 7 passes by both gates, as in lines 138-150. SIT words above
the user blocks do not occur on a mounted volume and are excluded when the helper
is called (no such test is in lines 119-121). A segment is taken to have at least
so many blocks (512 in f2fs) that a word of blocks is few enough segments for the
products of the second table to fit (`SegmentsAssumption`). The second caller of
the same arithmetic has locals of its own and needs no module of its own.

**CurSeg** - the logs. `Choose` is lines 60-67; `ReadNext`, `GetFreeSegment` or
`NoFreeSegment`, `StoreSegno`, `StoreNext` and `LocateNew` are `new_curseg()`
(80-88) access by access; `AllocateAll`, `RememberOld`, `NextLog`, `SweepReturns`
the loop 92-102. `new_curseg`, declared extern where it is called, is taken to be
`x683_new_curseg` of the same file. `get_free_segment` and `change_curseg` are
external: the first takes a segment off the free ones, the second makes a segment
of the dirty list the log's, which may be the current segment of a log, since
line 86 puts those on the list. The recovered functions take no lock: writers fill
logs at any point, and the rest of the file system frees dirty segments. What is
not modelled is a second thread that moves a log on at the same time. Statistics
of segment types are left out.

**FdtReader** - `parse_fdt()` over an arbitrary stream of tokens (`OpenNode`,
`CloseNode`, `ReadProperty`, `Nop`, `EndOfBlock`, `BadName`, `BadToken`), `Fmt`
and `Render` as functions of what was read. A path is the sequence of what
stands between its slashes: `Parts` says what that is for each name, more than
one part for a name with a slash in it and none for an empty name, as in the
join of line 43; `ParentOf` strips and splits like lines 83-84. (A name that is
a slash and nothing else is left out.) Lines are records; indentation and the
hexadecimal form of cells are left out, quoting is not. Every loop, in `fmt()`,
in the join of paths and in `render()`, is `RunOver` with a function for the
body of the loop (`JoinStep`, `SplitStep`, `EscapeStep`, `ByStep`, `ChildStep`,
`EmitStep`), and `emit()` is a recursive function over the known paths (`Emit`),
so that proofs can go along both. The specification is called `FdtSpec`, beside
which the chain resolver's can stand in one module.

**CallScan** - both scans, one word per step, with the cut at function starts
that differ between the tools. Each tool places the image at its own base: the
first at `_stext` minus the text offset (`TextBase`, lines 27-29), the second at a
constant (`FixedBase`, `rebuild_x683_analysis.py:10`). Starts and targets are
positions, addresses minus that base, counted in words, so symbols are
taken to be word-aligned as code is. `SignBit` is the top bit of the branch offset
(2^25 in the code). `printed` is what line 49 of the second tool prints. The
properties speak of the words before a position
(`CallsBefore`, `EdgesBefore`, ...), the whole image when the scan is done.

**BlrChains** - the resolver word by word, next to `Execute`, which says what
a word does to the registers; `regs` is the history of the registers before
each word. Words and function starts are chosen when reached.
Branches into the middle of a chain are not considered.

**PowerStack** - `x683_power_stack_init()` (11-22): one initialiser per step, an
`int` as the set of its bits, so that `|=` is union.

**DisplayBridge** - `x683_display_notify()` (16-24) for any number of notifying
threads: a pass over the clients the chain had, in any order and stopped
anywhere, then the direct calls of PPM, GED and the CM manager in the code's
order. Registration waits for passes to end, as the chain's semaphore makes it.
Policies called through the chain are those called directly; which of them
register is not recovered, so any may.

`...Proofs` modules hold the theorems, `MC...` modules the constants for TLC.

## 4. Runs

| Run | Question | Result |
|---|---|---|
| `worker` | Whatever `/proc` handlers, the stock thread and stop requests do in between: is the override temporary, are stores lost only in the window, does the collector see the configured mode, do the counters bracket the call, does `gc_mutex` exclude the stock collector, are only those settings of `gc_type` undone that were made during a run, do the stores leave neighbouring fields alone, does a stop end the run? | holds (310,464 states) |
| `checkpoint` | With nodes being made, changed, written and synchronised beside it: is nothing reused before the SIT without it is flushed, do the result and the reason tell exactly what was done, is the whole one atomic step or none; does a sync that returns 0 stand for every page that was dirty, does it write its own nodes first, does it always end? | holds (513,600) |
| `gc_sections` | Is the victim claim dropped on each path, is a 0 earned, does it leave nothing emptied but unusable, how far is the final space decision from the truth over retries, can a call loop for ever? | holds (198,402); the count is wrong about no more sections than checkpoints of others overtook, and a call loops only by collections that empty no section for ever |
| `free_policy` | Is the answer exact where the reserve is covered and the row is one of the tables, is a torn read of the selectors harmless, are the rows ordered? | holds (212,866) |
| `policy_shortage` | Is the answer no when fewer segments are free than reserved? | violated, see 7 |
| `curseg` | Is no old segment forgotten by the loop, do only logs that found nothing, or were filled again, stay full? | holds (2,637,880) |
| `fdt` | Is the rendered text the tree, does every accepted block without a slash in a name keep its properties, is formatting reversible but for the terminator a list lacks and for backslashes? | holds (832,136) |
| `callscan` | Do the counters and the graph say of the image what they should, each at the base of its tool, and what do the printed numbers count? | holds (1,161,216) |
| `callgraph_base` | Do the edges join functions of the documented mapping? | violated, see 7 |
| `blr_chains` | Is a compact chain always found with the right slot, does a quiet chain feed its BLR? | holds |
| `blr_clobber` | Does every reported chain feed its BLR? | violated, see 7 |
| `power_display` | Of two systems that share nothing: does the result of the power stack tell whether something failed and whether an error was negative; is no policy left with an old display event? | holds (635,040) |

The numbers are distinct states.

## 5. Bounds, and why they are enough

* `worker`: two stock modes, the three kinds of `gc_type` distinguished by
  `ModeForGcType`, counters that wrap at 2 (worst case: every comparison is made
  at a wrap), one collector result (the wrapper only passes it on). Any number
  of calls and runs.
* `checkpoint`: two segments, so that one is held while the other is prefree or
  free; one caller (checkpoints exclude each other), one error, reasons with and
  without the discard bit; counters that wrap at 2. Two inodes of one node each:
  the node of the inode synchronised and one of another, each written by the
  sync, by somebody else, or dirtied again behind it. Any number of checkpoints
  and synchronisations.
* `gc_sections`: two sections of two segments are the least where a section can
  be emptied in part and a call can empty a second one; one is reserved, so that
  each comparison goes both ways. No symmetry is used, because of the liveness
  property.
* `power_display`: two notifiers are the least that overlap; two events; codes 0,
  one positive and two different negative ones, so that errors can or to a third.
  The two parts share no state; they are in one run only to be checked together,
  and `PowerSpec` and `DisplaySpec`, of which the theorems speak, stay apart.
* `free_policy`: volumes and counts on both sides of each step of the base value
  and of each threshold; selectors in each part of the tables and beyond them.
  `Word` is 2147483647 in place of 2^32 because TLC's integers have 32 bits.
  Differences wrap in the runs; no product does, nor can one in the code: that
  the products fit follows from the 512 blocks of a segment, and the proofs use
  just that assumption.
* `curseg`: three logs (one with the rule of its own), four segments, which are
  symmetric: the loop over the logs meets none or one free segment, runs out at
  any log, and gets one back on the way; every choice of what is on the dirty
  list at the start.
* `fdt`: blocks up to `BlockSize` 6 tokens and bytes, all of them: siblings,
  nesting, unclosed nodes; the names are the empty one, `a`, `b` and `a/b`;
  values of up to three bytes over the terminator, a control byte, the quote and
  the backslash.
* `callscan`, `callgraph_base`: all images of three words,
  all symbol sets in and around them, all offsets of two bits, and bases one word
  apart (0x200 words in the repository).
* `blr_chains`: all images of seven words (one more than a BLR and its window)
  over eight words, all places of function starts, pages of two words so that
  chains cross pages. `blr_clobber` leaves the 32-bit load out of the alphabet:
  the counterexample does not need it.

`CHECK_DEADLOCK FALSE` stands in the configurations of the tools only: they end.

## 6. Fairness

* `StopHonoured` (worker): weak fairness of the worker's own steps, and nothing
  of its environment. The thread is schedulable whenever it is not waiting, and
  its wait has a timeout (line 220); the collector is assumed to return.
* `SyncEnds` (node manager): weak fairness of the checkpoint's steps, whose
  flushes return, with success or without, and strong fairness of the
  synchronisation's progress, which is shut out again and again; that a failure
  ends the wait is not assumed. Strong fairness is what
  f2fs gives: operations take the checkpoint's semaphore as readers, and a
  reader that waits is let in before the next writer. The property depends on
  every checkpoint letting the operations in again, the failed ones too (it is
  what `BugStayBlocked` breaks).
* `ReturnsUnlessStalled` (collector): weak fairness of the collector's steps,
  the collection it calls included; the property itself names the exception,
  collections that free nothing for ever.

## 7. What the runs found

* **A shortage counts as plenty** (`policy_shortage`). `free - reserved` is an
  unsigned difference (`tran_gc_policy_reconstructed.c:136`); with fewer free
  than reserved segments it is huge and the helper answers "enough". The state
  machine document (line 465) gives the inequality without the wrap.
* **A reported chain need not feed its BLR** (`blr_clobber`). The resolver looks
  at the registers of the three words only. A word between the LDR and the BLR
  may overwrite the register; in the counterexample of the run that word is a
  first BLR, and one chain is reported for two sites.
* **The base of the call graph** (`callgraph_base`). `rebuild_x683_analysis.py:10`
  has the constant `0xffffff92d0a00000`; the mapping of
  `x683-executable-recovery-2026-08-20.md:33` is 0x800 bytes higher, and that is
  what the other tool computes. The cuts of the graph lie beside the functions, and
  its edges join functions that do not hold the calls. The published
  numbers show the two bases: `x683-measured-coverage.json`, with the constant as
  its `image_base`, has 35,080 callers among 52,784 functions, the documents
  written from the other tool have 35,034. So `GraphMatchesImage` is stated for
  the image as this tool places it, and nothing is claimed of an agreement
  between the two tools.

Differences between document and code that were seen and have no run of their
own:

* `sm_info` is too small for its logs. `x683_segment_reconstructed.c:84` takes the
  log as `sm_info + 0x18 + type * 0x70` and stores at `+0x58` and `+0x5c`, from
  the second log on beyond the size 0xA8 that `f2fs-layout.md:42` gives. One of the
  two is mis-recovered; probably the logs are an array behind a pointer.
* Rows above 7: both gates of the policy are inside `if (row <= 7)` (`:138-150`),
  so a selector byte above 7 is never enough. The document says that such rows
  select zero (line 451), and with thresholds of zero any spare segment would do.
* A slash in a name: the parser of the device tree tool lets it through, and
  `render()` splits the path at it (`reconstruct_x683_dtb.py:83-84`). A node `a/b`
  without a node `a` is listed below a parent that is never visited, and its
  properties are not in the text, although the docstring (line 4) says that raw
  property bytes are preserved. With a node `a` beside it, `a/b` is printed as a
  child of `a`. The properties about paths are stated for blocks without slashes.
* Line 49 of the call graph tool prints the length of the dictionary `callers` as
  the number of callers; it is keyed by the function that is called (line 41).
  `x683-measured-coverage.json:8` and `:10` keep the two numbers apart: 35,080
  callers, 9,429 called functions. `GraphMatchesImage` says which one is printed.
* For `gc_type` 0 the wrapper stores the old mode back (`:190`), where the document
  says that `gc_mode` is not changed (line 177).

## 8. What is proved

All theorems hold for every value of the constants that satisfies the named
assumptions of the modules (`...Assumption`); none of them bounds the number of
segments, logs, sections, calls or runs.

* **TranGcWorkerProofs**, the wrapper first. The inductive invariant ties
  program point, saved mode and `lost` together: between `SaveMode` and
  `RestoreMode` the saved mode is the stock mode unless a store raced. Without
  that conjunct the restored value is unknown. Proved: type correctness,
  `OverrideNeverLeaks`, `OnlyWindowStoresAreLost`,
  `CollectorSeesConfiguredMode`, `CountersBracketCall`. Then the worker:
  `WorkerIsAWrapperClient` shows that each step of the worker system is a step
  of the wrapper specification or a stutter for it, so the four theorems above
  carry over. On top: `OneCollector` (the lock's owner determines who is
  inside), `OnlyRunStoresAreUndone` (while a snapshot waits it is the lasting
  setting, and before and after that `gc_type` is), `RunsAreAccounted` modulo
  any counter width. `BlockIsTheWorkerSystem` says that the memory adds no
  behaviour, and `MemoryHoldsTheState` proves `BlockHoldsTheState` for every
  mode, counter width and value: from the offsets and widths alone no two fields
  share a byte (`FieldsApart`), so a store is local (`PutIsLocal`), and each
  step stores exactly the fields it changes.
* **NodeManagerProofs**, the checkpoint first. `ReuseIsSafe` rests on an
  invariant over the flushed SIT: free segments are unused in it, and at each
  program point it lags behind memory by prefree segments only.
  `OutcomeIsTold` (`OutcomeTellsEffect`) compares the state at each program point
  with what the checkpoint found.
  `CheckpointRefines` is the refinement of `AtomicCheckpoint`, step by step.
  Then the node manager. `NodeManagerIsAClient`: every step of the node manager is
  a checkpoint step, a change of the NAT or a stutter, so the checkpoint theorems
  hold beside it (`ReuseIsSafeBesideNodes`, `OutcomeIsToldBesideNodes`,
  `CheckpointRefinesBesideNodes`). `SyncSuccessIsEarned` and `OwnNodesComeFirst`
  rest on an invariant that ties the pages owed to those the current helper has
  yet to look at: in the first pass the inode's, in the second all of them.
* **F2fsGcProofs**. Claims, errors, return values and the space decision.
  `SpaceIsReal` and `ZeroReclaims` rest on the invariant that `sec_freed` is the
  number of credited sections and of overtaken ones; it is about cardinalities,
  so it uses the finite-set theorems.
* **FreeSegPolicyProofs**. Exactness of the answer and of the wrapped arithmetic;
  `LargerRowsWilling` is by cases over the eight rows, for volumes below the
  stated size.
* **CurSegProofs**. Types, and two loop invariants over the prefix of logs already
  passed: old segments are held, located or free, and only logs that found
  nothing, or were filled again, are full.
* **PowerDisplayProofs**, two systems in one module. `FailuresReported` for any
  error numbers, by cases over what was reported before; `NoPolicyLeftBehind`
  for any number of notifiers and events, from the invariant that a notification
  under way carries an event of the current busy period. Type correctness of
  each.
* **CallScanProofs**, for images of any length and any content, any symbols, any
  two bases and any width of the offset. The invariant says that counters,
  callers and edges are those of the words before `pos`; a step adds one word to
  each of these sets, a jump to the next function adds none (between the end of
  one function and the start of the next no word is left), and counting is
  adding one to the cardinality of a finite set. `GraphMatches` speaks of the
  image at the base of the tool, whatever that is: it shows that the loop is
  right, not that the base is, and says what the last line counts.
* **ToolProofs**, the chain resolver, for any words, registers, page size and
  offset width. Two things are invariant: each entry of the register history is
  the execution of the word before it, and the last site is that of the last
  word exactly if it is a BLR with a chain in its window. `QuietChainFeeds` and
  `CompactChainsFound` follow a value from the ADRP to the BLR through the
  history; the second also shows that the resolver's arithmetic of pages, signs
  and scales is that of the words.
* **ToolProofs**, the device tree reader, for any names, bytes and blocks; what
  concerns paths is for blocks without a slash in a name (`PlainNames`).
  `ValuesSurvive` (`FormatIsReversible`) goes along the value: the parts split
  off so far, escaped, read back and terminated, and the part still open are the
  value so far (`SplitLosesNothing`, on top of `EscapeIsReversible`).
  `WalkReachesAll` rests on the invariant that the path of every open node and
  of every node above it is the path of a node that was read.
* **ToolProofs**, what `render()` writes. The recursive function exists, because a
  child's path is longer than its node's (`EmitExists`), and statements about its
  text go from the children to their node (`TreeByInduction`).
  `PropertiesFound` (`PropertiesSurvive`) follows a reader of the text: reading
  the lines of a node at the place of its parent finds the properties of the
  nodes at and below its path, each once, and ends at the parent again
  (`ReadsNode`); no two children have a path below both (`UnderFront`), so what
  they contribute does not mix.
  `TextIsTheTree` (`RenderIsTheTree`) needs an invariant over the parse, `TreeInv`:
  while a block is read that can still become a conformant one, the text its nodes
  and properties would give is one line for each token, and then one closing line
  for each node that is open; and the path of the innermost open node leads
  through the last child of every node above it (`OnPath`). The second part is
  what makes the first inductive: a change at that node leaves the lines of all
  others alone (`EmitSame`), so the new lines appear behind everything that was
  written and before the closing lines only (`InsertedAtEnd`). A closing token
  turns the first of these lines into its own. The depth of a conformant block is
  zero at its end, so that no such line is left.

Induction over numbers and sequences is used as a statement about sets: a set
that holds the empty sequence and, with a sequence, every longer one by an
element holds all of them (`SequencesByInduction`, from the well-foundedness of
the numbers), and for trees, a set that holds each node whose children it holds
holds them all. What a loop computes is then two equations (`OneStepMore`).

Some theorems state what no run checks: `RunsBalance`,
`CheckpointsCounted`, `CriticalPathIsForeground` (a caller on
the critical path never collects in the background) and `FailureIsReturned` (a
failed checkpoint ends the collector's call with its error), and the type
correctness of the wrapper, the checkpoint, the power stack, the display bridge
and the tools;
`WalkReachesAll` too. The proofs cover them for every instance.

**Model-checked only.** The three liveness properties (`StopHonoured`, `SyncEnds`,
`ReturnsUnlessStalled`): their proofs need fairness and ENABLED, which the prover
does not handle.

## 9. What is not modelled, and why

* Data path, recovery, MSDC, battery, scheduler/PPM, memory policy, binder/ION:
  forwarding calls, no state and no decision.
* `x683_node_lookup()`, `x683_display_event()`, `x683_display_shutdown()`, the
  plain wrappers and the empty bodies beside modelled functions: nothing of the
  program's state changes in them.
* Reclaim and power management tables, asynchronous infrastructure,
  architecture, touch/audio/network, security: symbol tables.
* Victim selection, migration of blocks, `get_free_segment`, `change_curseg`, the
  pages the node helpers visit, `f2fs_gc`'s release of
  `gc_mutex`, `block_operations`: stock code that is not under `src/`; modelled
  by its effect and marked external in `PROJECT.json`.
* `extract_x683_boot_kernel.py`, `rebuild_x683_inventory.py`, argument parsing,
  hashing and output of the other tools.
