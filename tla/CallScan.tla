------------------------------ MODULE CallScan ------------------------------
(***************************************************************************)
(* The two tools that list the direct calls of the kernel image:           *)
(* rebuild_x683_executable_analysis.py counts them and                     *)
(* rebuild_x683_analysis.py writes the call graph.  Both cut the image at  *)
(* the addresses of its function symbols and go through the pieces word by *)
(* word; they differ in the symbols they take for functions.               *)
(*                                                                         *)
(* They also differ in the base, the address at which they place the first *)
(* word: the first tool computes it from the symbol _stext, the second has *)
(* it as a constant.  Addresses are counted in words.  Starts of functions *)
(* and targets are positions: addresses minus the base of the tool that    *)
(* runs.  Hashes and the wording of the results are left out.              *)
(***************************************************************************)
EXTENDS Integers, FiniteSets, FiniteSetsExt

CONSTANTS
  ImageLength,   (* words in the image                                     *)
  Addresses,     (* where symbols lie, some outside the image              *)
  Stext,         (* the address of the symbol _stext                       *)
  TextOffset,    (* text_offset: how far _stext lies behind the base       *)
  FixedBase,     (* base, the constant of the second tool                  *)
  SignBit        (* top bit of the offset in a BL word; 2^25 in the code   *)

(* _stext is a symbol, and lies inside the image for both tools.           *)
ASSUME ScanAssumption == /\ ImageLength \in Nat \ {0} /\ SignBit \in Nat \ {0}
                         /\ Addresses \subseteq Int /\ Stext \in Addresses
                         /\ TextOffset \in 0..(ImageLength - 1)
                         /\ FixedBase \in Int
                         /\ Stext - FixedBase \in 0..(ImageLength - 1)

VARIABLES
  image,     (* the words                                                  *)
  symbols,   (* pairs of an address and a kind                             *)
  tool,      (* the tool that runs: "executable", then "graph"             *)
  function,  (* the start of the function being scanned                    *)
  pos,       (* the next word                                              *)
  counts,    (* the counters of the first tool                             *)
  callers,   (* callers, exact_callers                                     *)
  edges,     (* the call graph of the second tool: caller and callee       *)
  printed    (* what the second tool says on its last line                 *)

vars ==
  <<image, symbols, tool, function, pos, counts, callers, edges, printed>>

limit == ImageLength
ImageWords == 0..(limit - 1)
ImmRange == 2 * SignBit
Imm == 0..(ImmRange - 1)
Word == [op : {"bl"}, imm : Imm] \cup [op : {"blr", "other"}, imm : {0}]

(* The kinds of symbols: those of functions, weak ones that may be data,   *)
(* and the rest.                                                           *)
Text == "TtWw"
WeakObject == "Vv"
Kinds == {Text, WeakObject}

Kept == IF tool = "executable" THEN {Text, WeakObject} ELSE {Text}

TextBase == Stext - TextOffset
Base == IF tool = "executable" THEN TextBase ELSE FixedBase

(* The starts inside the image: kernel_funcs, start_only.                  *)
Starts(kinds, base) ==
  {s[1] - base : s \in {t \in symbols : t[2] \in kinds}} \cap ImageWords
Funcs == Starts(Kept, Base)
First == Min(Funcs)
EndOf(f) == Min({limit} \cup {g \in Funcs : g > f})

(* Faulty variant: no sign extension.                                      *)
BugUnsigned(imm) == imm
Signed(imm) == IF imm >= SignBit THEN imm - ImmRange ELSE imm

Target(p) == p + Signed(image[p].imm)

(* bisect_right and the test against the end of what it finds.             *)
Owner(x) == {f \in Funcs : f <= x /\ x < EndOf(f)}

NoCounts == [bl |-> 0, mapped |-> 0, exact |-> 0, blr |-> 0]

Init ==
  /\ image \in [ImageWords -> Word]
  /\ symbols \in SUBSET (Addresses \X Kinds) /\ <<Stext, Text>> \in symbols
  /\ tool = "executable" /\ function = First /\ pos = First
  /\ counts = NoCounts /\ callers = [all |-> {}, exact |-> {}] /\ edges = {}
  /\ printed = [functions |-> 0, callers |-> 0]

IsCall(p) == image[p].op = "bl"
One(condition) == IF condition THEN 1 ELSE 0

(* The body of the inner loop of the first tool.                           *)
Count ==
  LET call == IsCall(pos)
      exact == call /\ Target(pos) \in Funcs
      mapped == call /\ Owner(Target(pos)) # {}
  IN  /\ counts' = [bl |-> counts.bl + One(call),
                    mapped |-> counts.mapped + One(mapped),
                    exact |-> counts.exact + One(exact),
                    blr |-> counts.blr + One(image[pos].op = "blr")]
      /\ callers' = [all |-> callers.all \cup (IF mapped THEN {function} ELSE {}),
                     exact |-> callers.exact \cup (IF exact THEN {function} ELSE {})]
      /\ UNCHANGED <<edges, printed>>

(* The body of the inner loop of the second.                               *)
Link ==
  /\ edges' = edges \cup (IF IsCall(pos) THEN {function} \X Owner(Target(pos))
                          ELSE {})
  /\ UNCHANGED <<counts, callers, printed>>

(* Faulty variant: the last word of a function is left out.                *)
BugShort == EndOf(function) - 1
ScanEnd == EndOf(function)

ScanWord ==
  /\ tool \in {"executable", "graph"} /\ pos < ScanEnd
  /\ IF tool = "executable" THEN Count ELSE Link
  /\ pos' = pos + 1
  /\ UNCHANGED <<image, symbols, tool, function>>

NextFunction ==
  /\ tool \in {"executable", "graph"} /\ pos >= ScanEnd /\ EndOf(function) < limit
  /\ function' = EndOf(function) /\ pos' = EndOf(function)
  /\ UNCHANGED <<image, symbols, tool, counts, callers, edges, printed>>

Finished == EndOf(function) = limit /\ pos >= ScanEnd

StartGraph ==
  /\ tool = "executable" /\ Finished
  /\ tool' = "graph"
  /\ UNCHANGED <<image, symbols, counts, callers, edges, printed>>
  /\ function' = First' /\ pos' = First'

(* The last line calls the keys of its dictionary callers; they are the    *)
(* functions that are called.                                              *)
WriteGraph ==
  /\ tool = "graph" /\ Finished /\ tool' = "done"
  /\ printed' = [functions |-> Cardinality(Funcs),
                 callers |-> Cardinality({edge[2] : edge \in edges})]
  /\ UNCHANGED <<image, symbols, function, pos, counts, callers, edges>>

Next == ScanWord \/ NextFunction \/ StartGraph \/ WriteGraph
Spec == Init /\ [][Next]_vars
-----------------------------------------------------------------------------
(* Properties *)

Calls == {p \in ImageWords : IsCall(p)}
LastUpTo(starts, x) == Max({f \in starts : f <= x})

(* Where a BL goes: the offset is the signed number its bits stand for.    *)
Destination(p) ==
  p + CHOOSE d \in -SignBit..(SignBit - 1) : (d - image[p].imm) % ImmRange = 0

(* What the words before end hold, when the image is cut at starts: all    *)
(* calls, those that stay between the first start and the end of the       *)
(* image, and those to a start.                                            *)
CallsBefore(starts, end) == {p \in Calls : Min(starts) <= p /\ p < end}
MappedBefore(starts, end) ==
  {p \in CallsBefore(starts, end) : Destination(p) \in Min(starts)..(limit - 1)}
ExactBefore(starts, end) ==
  {p \in CallsBefore(starts, end) : Destination(p) \in starts}
BlrBefore(starts, end) ==
  {p \in ImageWords : image[p].op = "blr" /\ Min(starts) <= p /\ p < end}

CountsBefore(starts, end) ==
  [bl |-> Cardinality(CallsBefore(starts, end)),
   mapped |-> Cardinality(MappedBefore(starts, end)),
   exact |-> Cardinality(ExactBefore(starts, end)),
   blr |-> Cardinality(BlrBefore(starts, end))]
CallersBefore(starts, end) ==
  [all |-> {LastUpTo(starts, p) : p \in MappedBefore(starts, end)},
   exact |-> {LastUpTo(starts, p) : p \in ExactBefore(starts, end)}]
EdgesBefore(starts, end) ==
  {<<LastUpTo(starts, p), LastUpTo(starts, Destination(p))>> :
     p \in MappedBefore(starts, end)}

(* The counters of the first tool say of the image what their names say:   *)
(* each word from the first function on was met once, in one function, and *)
(* every target was looked up in the right one, backward calls included.   *)
CountsMatchImage ==
  tool # "executable" =>
    /\ counts = CountsBefore(Starts(Kinds, TextBase), limit)
    /\ callers = CallersBefore(Starts(Kinds, TextBase), limit)

(* The call graph has an edge for each pair of functions one of which      *)
(* holds a call to an address in the other, and no other edge, if the      *)
(* image lies where this tool places it.  What the last line gives as the  *)
(* number of callers is that of the functions that are called.             *)
GraphMatchesImage ==
  tool = "done" =>
    LET starts == Starts({Text}, FixedBase)
        calls == EdgesBefore(starts, limit)
    IN  /\ edges = calls
        /\ printed = [functions |-> Cardinality(starts),
                      callers |-> Cardinality({edge[2] : edge \in calls})]

(* What the recovery document asks: the edges join the functions that hold *)
(* the calls, in the image mapped at _stext minus the text offset.  The    *)
(* constant of the second tool is another address, so its cuts lie beside  *)
(* the functions.                                                          *)
GraphMatchesMapping ==
  tool = "done" =>
    {<<edge[1] + FixedBase, edge[2] + FixedBase>> : edge \in edges} =
      {<<edge[1] + TextBase, edge[2] + TextBase>> :
         edge \in EdgesBefore(Starts({Text}, TextBase), limit)}
=============================================================================
