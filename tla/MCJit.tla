-------------------------------- MODULE MCJit --------------------------------
(* Instances of JitCompat: shapes with a Codec of their own, and versions.  *)
EXTENDS MCTypedShapes, JitCompat

CONSTANT MaxCells

Case(writer, shape) == [writer |-> writer, shape |-> shape, codec |-> FALSE]
Codecs ==
  {[Case(RefOf(s), s) EXCEPT !.codec = TRUE] : s \in {"Anys", "Named", "Names", "Rows", "Units", "MaybeMaybe", "Boxes", "StringSet", "PairSet",
                   "DictBox", "DictUnit", "Arr2", "Outcome", "Mixed", "Fielded", "List", "Tree",
                   "RefName", "Refs2", "Sized"}}
Versions ==
  {Case("Line", "LineMore"), Case("Deep", "Kept"), Case("LineMore", "LineNamed"), Case("Choice", "ChoiceFewer"),
   Case("Fielded", "FieldedX"), Case("Outcome", "Outcome2"), Case("u8", "Str")}
AllJitCases == FoldSet(LAMBDA c, cs : Append(cs, c), <<>>, Codecs \cup Versions)
ReportCases == <<[Case("string", "RefName") EXCEPT !.codec = TRUE]>>

AllInputs == UNION {[1..n -> 0..Width - 1] : n \in 0..MaxCells}

=============================================================================
