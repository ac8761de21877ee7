------------------------------ MODULE FdtReader ------------------------------
(***************************************************************************)
(* reconstruct_x683_dtb.py: parse_fdt() reads the structure block of the   *)
(* flattened device tree token by token, render() writes the source text   *)
(* and fmt() writes one property value.                                    *)
(*                                                                         *)
(* The header is valid (parse_fdt() refuses any other).  The block is      *)
(* whatever the boot image holds: a token is chosen when it is read.  A    *)
(* path is the sequence of what stands between its slashes: a name that    *)
(* holds a slash, which the parser lets through, is more than one part of  *)
(* it, and an empty name none.  A value is a sequence of bytes and a line  *)
(* of output is a record.                                                  *)
(***************************************************************************)
EXTENDS Integers, SequencesExt

CONSTANTS
  NodeNames,     (* the names of nodes and the parts of paths              *)
  Parts,         (* what the slashes of a name separate; of "" nothing     *)
  PropNames,     (* the names of properties                                *)
  StringProps,   (* STR_PROPS: those that hold strings                     *)
  Bytes,         (* the bytes a value is made of                           *)
  ValueSize,     (* bound: bytes of one value                              *)
  BlockSize      (* bound: tokens of the block and bytes of its values     *)

ASSUME FdtAssumption == /\ NodeNames \subseteq STRING /\ "/" \notin NodeNames
                        /\ Parts \in [NodeNames -> Seq(NodeNames)]
                        /\ StringProps \subseteq PropNames
                        /\ Bytes \subseteq 0..255
                        /\ ValueSize \in Nat /\ BlockSize \in Nat

VARIABLES
  stack,     (* the names of the open nodes                                *)
  nodes,     (* the path of every node, in the order they were opened      *)
  props,     (* [path, name, value] of every property, in order            *)
  outcome,   (* reading, parsed or the exception that ended the parse      *)
  block,     (* history: the begin, end and property tokens read           *)
  size       (* bound: tokens and bytes in block                           *)

fdtVars == <<stack, nodes, props, outcome, block, size>>

Outcomes == {"reading", "parsed", "ValueError", "IndexError"}

-----------------------------------------------------------------------------
(* A loop over a sequence that carries a state on.  The body of the loop   *)
(* is a function, so that what a loop computes can be reasoned about.      *)
RunOver(step, start, s) ==
  LET run[n \in 0..Len(s)] == IF n = 0 THEN start ELSE step[<<run[n - 1], s[n]>>]
  IN  run[Len(s)]

Paths == Seq(NodeNames)

(* "/".join(x for x in stack if x)                                         *)
JoinStep == [t \in Paths \X NodeNames |-> t[1] \o Parts[t[2]]]
Path(names) == RunOver(JoinStep, <<>>, names)

Begin(name) == [tag |-> "begin", name |-> name, value |-> <<>>]
End == [tag |-> "end", name |-> "", value |-> <<>>]
Prop(name, value) == [tag |-> "prop", name |-> name, value |-> value]

Read(token) == /\ outcome = "reading"
               /\ size' = size + 1 + Len(token.value) /\ size' <= BlockSize
               /\ block' = Append(block, token)

Values == SeqOf(Bytes, ValueSize)

FdtInit == /\ stack = <<>> /\ nodes = <<>> /\ props = <<>>
        /\ outcome = "reading" /\ block = <<>> /\ size = 0

(* Token 1.                                                                *)
OpenNode(name) ==
  /\ Read(Begin(name))
  /\ stack' = Append(stack, name)
  /\ nodes' = Append(nodes, Path(stack'))
  /\ UNCHANGED <<props, outcome>>

(* Token 2: stack.pop(), which raises IndexError when no node is open.     *)
CloseNode ==
  /\ Read(End)
  /\ IF stack = <<>> THEN outcome' = "IndexError" /\ UNCHANGED stack
                     ELSE stack' = Front(stack) /\ UNCHANGED outcome
  /\ UNCHANGED <<nodes, props>>

(* Token 3.  A value that is longer than the block is taken as far as the  *)
(* data goes, and the loop ends: this action followed by EndOfBlock.       *)
ReadProperty(name, value) ==
  /\ Read(Prop(name, value))
  /\ props' = Append(props, [path |-> Path(stack), name |-> name, value |-> value])
  /\ UNCHANGED <<stack, nodes, outcome>>

(* Token 4 leaves everything as it is.                                     *)
Nop == outcome = "reading" /\ UNCHANGED fdtVars

(* Token 9, or the end of the block: both return what was read, with nodes *)
(* still open or not.                                                      *)
EndOfBlock ==
  /\ outcome = "reading" /\ outcome' = "parsed"
  /\ UNCHANGED <<stack, nodes, props, block, size>>

(* The name of a node or of a property has no terminator (that of a        *)
(* property is looked up after its value was read), or the token is none   *)
(* of the five.                                                            *)
Reject == /\ outcome = "reading" /\ outcome' = "ValueError"
          /\ UNCHANGED <<stack, nodes, props, block, size>>
BadName == Reject
BadToken == Reject

FdtNext ==
  \/ \E name \in NodeNames : OpenNode(name)
  \/ CloseNode
  \/ \E value \in Values : \E name \in PropNames : ReadProperty(name, value)
  \/ Nop \/ EndOfBlock \/ BadName \/ BadToken

FdtSpec == FdtInit /\ [][FdtNext]_fdtVars

-----------------------------------------------------------------------------
(* fmt() *)

NUL == 0
Quote == 34
Backslash == 92
Printable == 32..126

Byte == 0..255
Text == Seq(Byte)

(* split("\0"): the parts that are complete and the one that is not.       *)
SplitStep ==
  [t \in [parts : Seq(Text), last : Text] \X Byte |->
     IF t[2] = NUL THEN [parts |-> Append(t[1].parts, t[1].last), last |-> <<>>]
                   ELSE [parts |-> t[1].parts, last |-> Append(t[1].last, t[2])]]
SplitAtNul(value) ==
  LET split == RunOver(SplitStep, [parts |-> <<>>, last |-> <<>>], value)
  IN  Append(split.parts, split.last)

(* Faulty variant: all empty parts at the end are dropped.                 *)
BugDropAllEmpty(value) ==
  SelectSeq(SplitAtNul(value), LAMBDA part : part # <<>>)

(* One empty part at the end is dropped: that of the terminator.           *)
StringParts(value) == LET parts == SplitAtNul(value)
                      IN  IF Last(parts) = <<>> THEN Front(parts) ELSE parts

IsText(part) == part # <<>> /\ ToSet(part) \subseteq Printable

(* replace('"', '\"').                                                     *)
EscapeStep ==
  [t \in Text \X Byte |-> IF t[2] = Quote THEN Append(Append(t[1], Backslash), Quote)
                                          ELSE Append(t[1], t[2])]
Escaped(part) == RunOver(EscapeStep, <<>>, part)

Strings(parts) == [i \in DOMAIN parts |-> Escaped(parts[i])]

Fmt(name, value) ==
  LET parts == StringParts(value) IN
  CASE value = <<>> -> [form |-> "none", text |-> <<>>]
    [] /\ value # <<>> /\ name \in StringProps /\ parts # <<>>
       /\ \A i \in DOMAIN parts : IsText(parts[i])
         -> [form |-> "strings", text |-> Strings(parts)]
    [] OTHER -> [form |-> IF Len(value) % 4 = 0 THEN "cells" ELSE "bytes",
                 text |-> value]

-----------------------------------------------------------------------------
(* render() *)

OpenLine(path) ==
  [line |-> "open", name |-> IF path = <<>> THEN "/" ELSE Last(path)]
CloseLine == [line |-> "close"]
PropLine(name, value) ==
  [line |-> "prop", name |-> name, text |-> Fmt(name, value)]

Property == [path : Paths, name : PropNames, value : Text]
Formatted == [form : {"strings"}, text : Seq(Text)]
             \cup [form : {"none", "cells", "bytes"}, text : Text]
Line == [line : {"open"}, name : NodeNames \cup {"/"}] \cup [line : {"close"}]
        \cup [line : {"prop"}, name : PropNames, text : Formatted]

(* parts[:-1], where parts = path.strip("/").split("/"): the slashes at    *)
(* both ends go first, and with them the empty parts.                      *)
Stripped(path) ==
  LET named == {i \in DOMAIN path : path[i] # ""}
  IN  IF named = {} THEN <<>> ELSE SubSeq(path, Min(named), Max(named))
ParentOf(path) ==
  IF Stripped(path) = <<>> THEN <<>> ELSE Front(Stripped(path))

(* Faulty variants: properties looked up by the name of their node, and    *)
(* children that include the children of children.                         *)
BugByStep(path) ==
  [t \in Seq(Property) \X Property |->
     IF /\ (path = <<>>) = (t[2].path = <<>>)
        /\ path # <<>> => Last(t[2].path) = Last(path)
     THEN Append(t[1], t[2]) ELSE t[1]]
BugChildStep(path) ==
  [t \in Seq(Paths) \X Paths |->
     IF t[2] # path /\ IsPrefix(path, t[2]) THEN Append(t[1], t[2]) ELSE t[1]]

(* by[path] and children[path], filled by one loop over all of them.       *)
ByStep(path) == [t \in Seq(Property) \X Property |->
                   IF t[2].path = path THEN Append(t[1], t[2]) ELSE t[1]]
By(ps, path) == RunOver(ByStep(path), <<>>, ps)

ChildStep(path) ==
  [t \in Seq(Paths) \X Paths |->
     IF t[2] # <<>> /\ ParentOf(t[2]) = path THEN Append(t[1], t[2]) ELSE t[1]]
Children(ns, path) == RunOver(ChildStep(path), <<>>, ns)

(* The paths emit() can be called with.                                    *)
Known(ns) == {<<>>} \cup ToSet(ns)

EmitStep == [t \in Seq(Line) \X Seq(Line) |-> t[1] \o t[2]]

Emit(ns, ps) ==
  LET emit[path \in Known(ns)] ==
        LET own == By(ps, path)
            inner == Children(ns, path)
        IN  <<OpenLine(path)>>
            \o [i \in DOMAIN own |-> PropLine(own[i].name, own[i].value)]
            \o RunOver(EmitStep, <<>>, [i \in DOMAIN inner |-> emit[inner[i]]])
            \o <<CloseLine>>
  IN  emit

Render == Emit(nodes, props)[<<>>]

-----------------------------------------------------------------------------
(* Properties *)

Tag == {"begin", "end", "prop"}
DepthStep == [t \in Int \X Tag |-> CASE t[2] = "begin" -> t[1] + 1
                                     [] t[2] = "end" -> t[1] - 1
                                     [] t[2] = "prop" -> t[1]]
Depth(k) == RunOver(DepthStep, 0, [i \in 1..k |-> block[i].tag])

(* No node has a slash in its name.                                        *)
PlainName(name) == Parts[name] = IF name = "" THEN <<>> ELSE <<name>>
PlainNames ==
  \A k \in DOMAIN block : block[k].tag = "begin" => PlainName(block[k].name)

DistinctPaths == \A i, j \in DOMAIN nodes :
                   i # j /\ nodes[i] = nodes[j] => nodes[i] = <<>>

(* A block as the device tree format wants it: one root node with an empty *)
(* name, properties before subnodes, distinct sibling names, no slashes.   *)
Conformant ==
  /\ PlainNames
  /\ block # <<>> /\ block[1] = Begin("") /\ DistinctPaths
  /\ \A k \in DOMAIN block : Depth(k) = 0 <=> k = Len(block)
  /\ \A k \in DOMAIN block \ {1} :
       /\ block[k].tag = "begin" => block[k].name # ""
       /\ block[k].tag = "prop" => block[k - 1].tag \in {"begin", "prop"}

LineOf(token) ==
  CASE token.tag = "begin" -> [line |-> "open", name |-> IF token.name = ""
                                                 THEN "/" ELSE token.name]
    [] token.tag = "end" -> CloseLine
    [] token.tag = "prop" -> PropLine(token.name, token.value)

(* The walk starts at the root and goes from a node to those whose path is *)
(* one name longer: a node or a property would be left out if a path above *)
(* it were missing.  None is, without a slash in a name.                   *)
NothingOrphaned ==
  PlainNames =>
    /\ \A path \in ToSet(nodes) : path # <<>> => ParentOf(path) \in Known(nodes)
    /\ \A i \in DOMAIN props : props[i].path \in Known(nodes)

(* Grouping by path and walking the groups gives the tree back: the text   *)
(* of a conformant block has its tokens as lines, in their order.          *)
RenderIsTheTree ==
  outcome = "parsed" /\ Conformant =>
    Render = [k \in DOMAIN block |-> LineOf(block[k])]

(* What a reader of the text finds: the line of each property and the      *)
(* path of the node it stands in.                                          *)
Found == [path : Paths, line : Line]
RereadStep ==
  [t \in [at : Paths, found : Seq(Found)] \X Line |->
     CASE t[2].line = "open" ->
            [at |-> IF t[2].name = "/" THEN <<>> ELSE Append(t[1].at, t[2].name),
             found |-> t[1].found]
       [] t[2].line = "close" ->
            [at |-> IF t[1].at = <<>> THEN <<>> ELSE Front(t[1].at),
             found |-> t[1].found]
       [] t[2].line = "prop" ->
            [at |-> t[1].at,
             found |-> Append(t[1].found, [path |-> t[1].at, line |-> t[2]])]]
Reread == RunOver(RereadStep, [at |-> <<>>, found |-> <<>>], Render).found

AsRead == [i \in DOMAIN props |->
             [path |-> props[i].path,
              line |-> PropLine(props[i].name, props[i].value)]]

HereStep(path) == [t \in Seq(Line) \X Found |->
                     IF t[2].path = path THEN Append(t[1], t[2].line) ELSE t[1]]
LinesAt(found, path) == RunOver(HereStep(path), <<>>, found)

(* Every accepted block without a slash in a name, however ill-formed      *)
(* otherwise (nodes left open, properties after subnodes or outside the    *)
(* root, no root), is rendered with each of its properties once, in the    *)
(* node it was read in and in the order of its node, unless two nodes      *)
(* share a path.                                                           *)
PropertiesSurvive ==
  outcome = "parsed" /\ PlainNames /\ DistinctPaths =>
    LET reread == Reread IN
    \A path \in Known(nodes) : LinesAt(reread, path) = LinesAt(AsRead, path)

(* How a device tree compiler reads a string: a backslash is dropped, the  *)
(* byte after it stands for itself.                                        *)
UnescapeStep ==
  [t \in [escape : BOOLEAN, bytes : Text] \X Byte |->
     IF t[2] = Backslash /\ ~t[1].escape THEN [escape |-> TRUE, bytes |-> t[1].bytes]
     ELSE [escape |-> FALSE, bytes |-> Append(t[1].bytes, t[2])]]
Unescaped(text) ==
  RunOver(UnescapeStep, [escape |-> FALSE, bytes |-> <<>>], text).bytes

(* The bytes it makes of a rendered value: each string with a terminator.  *)
StringStep ==
  [t \in Text \X Text |-> t[1] \o Append(Unescaped(t[2]), NUL)]
BytesOf(formatted) ==
  IF formatted.form = "strings" THEN RunOver(StringStep, <<>>, formatted.text)
                                ELSE formatted.text

(* Formatting loses no byte: compiled again, a rendered value is the one   *)
(* in the block; a list of strings without its last terminator gains just  *)
(* that.  (A backslash in a string is not escaped, so that nothing is said *)
(* of strings that hold one.)                                              *)
FormatIsReversible ==
  outcome = "reading" /\ props # <<>> =>
    LET prop == Last(props)
        formatted == Fmt(prop.name, prop.value)
    IN  \/ BytesOf(formatted) = prop.value
        \/ /\ formatted.form = "strings" /\ Last(prop.value) # NUL
           /\ BytesOf(formatted) = Append(prop.value, NUL)
        \/ formatted.form = "strings" /\ Backslash \in ToSet(prop.value)
=============================================================================
