--------------------------- MODULE MCTypedDecode ---------------------------
(* Instances of TypedCompat: the shapes with their own schemas, with and    *)
(* without a retention, and with other versions'.                           *)
EXTENDS MCTypedShapes, TypedCompat

CONSTANT MaxCells

Case(writer, shape) == [writer |-> writer, shape |-> shape, retention |-> FALSE, codec |-> FALSE]
SameSchema ==
  {Case(RefOf(s), s) : s \in {"Any", "Named", "Names", "Rows", "LineBack", "MaybeMaybe", "Boxes", "StringSet", "PairSet",
                       "Dict", "DictBox", "DictUnit", "Arr2", "Outcome", "Chosen", "Mixed",
                       "Fielded", "List", "Tree", "BoxTree", "Refs2"}}
Retaining == {[Case(RefOf(s), s) EXCEPT !.retention = TRUE] : s \in {"RefName", "RefRef", "Refs2"}}
Versions ==
  {Case("Line", s) : s \in {"LineBack", "LineMore", "LineTo", "LineNamed"}}
  \cup {Case("LineMore", "Line"), Case("LineMore", "LineNamed"), Case("Deep", "Kept"), Case("Bytes2", "Line"),
        Case("Outcome", "Outcome2"), Case("Arr2", "Arr12"), Case("Choice", "ChoiceFewer"),
        Case("Choice", "ChoiceReshaped"), Case("Fielded", "FieldedX"), Case("FieldedX", "Fielded"),
        Case("Packed", "Kept"), Case("Packeds", "Kepts"), Case("Nested", "Kept"), Case("FieldedArr", "FieldedX"),
        Case("OkOnly", "Outcome2"), Case("ErrOnly", "Outcome2"), Case("Outcome3", "Outcome2"),
        Case("string", "BoxName"), Case("Dict", "DictBox"), Case("u8", "Str")}
Codecs == {[Case(RefOf(s), s) EXCEPT !.codec = TRUE] : s \in {"Sized", "Tree"}}
AllTypedCases == SameSchema \cup Retaining \cup Versions \cup Codecs
TextCases == {Case("Chars", "Chars")}
NativeCases == {Case("Sized", "Sized")}

(* The layout of each program of a call: what its ops fill, through calls   *)
(* and payloads.                                                            *)
Nested(op) ==
  CASE op.op = "pointer" -> {op.pointee}
    [] op.op \in {"seq", "set"} -> {op.body}
    [] op.op = "option" -> {op.some}
    [] op.op = "result" -> {op.ok, op.err}
    [] op.op = "map" -> {op.key, op.value}
    [] op.op = "enum" -> {v.payload : v \in Range(op.variants)}
    [] OTHER -> {}
RECURSIVE AllPrograms(_)
AllPrograms(programs) ==
  IF programs = {} THEN {}
  ELSE programs \cup AllPrograms(UNION {Nested(op) : op \in UNION {Range(p) : p \in programs}})

RECURSIVE FilledBy(_, _)
OpFills(op, blocks) ==
  CASE FillsNothing(op) -> {}
    [] op.op = "call" -> {op.offset + s : s \in FilledBy(blocks[op.block], blocks)}
    [] op.op = "enum" -> {op.offset} \cup UNION {FilledBy(v.payload, blocks) : v \in Range(op.variants)}
    [] OTHER -> {op.offset}
FilledBy(program, blocks) == UNION {OpFills(op, blocks) : op \in Range(program)}

ProgramLayout(program, blocks) ==
  [size |-> CHOOSE n \in 0..10 : FilledBy(program, blocks) \subseteq 0..n - 1
                                  /\ \A k \in 0..n - 1 : ~FilledBy(program, blocks) \subseteq 0..k - 1,
   fills |-> [i \in DOMAIN program |-> OpFills(program[i], blocks)]]
ProgramLayouts ==
  [c \in Cases |->
    LET l == Programs[c]
    IN [p \in AllPrograms({l.program} \cup Range(l.blocks)) |-> ProgramLayout(p, l.blocks)]]

AllInputs == UNION {[1..n -> 0..Width - 1] : n \in 0..MaxCells}

=============================================================================
