--------------------------- MODULE MCCompatDecode ---------------------------
(* Instances of CompatDecode: every kind on its own, schema versions that   *)
(* add, drop, reorder and retype, and recursive schemas on either side.     *)
EXTENDS CompatDecode

CONSTANTS MaxCells

Field(name, schema) == [name |-> name, schema |-> schema, required |-> TRUE]
Optional(name, schema) == [name |-> name, schema |-> schema, required |-> FALSE]
Struct(fields) == [k |-> "struct", fields |-> fields]
Tuple(elements) == [k |-> "tuple", elements |-> elements]
Of(k, element) == [k |-> k, element |-> element]
Variant(name, index, payload) == [name |-> name, index |-> index, payload |-> payload]
EnumOf(variants) == [k |-> "enum", variants |-> variants]
UnitP == [k |-> "unit"]

Schemas ==
  "Point" :> Struct(<<Field("x", "u8"), Field("y", "bool")>>)
  @@ "PointSwapped" :> Struct(<<Field("y", "bool"), Field("x", "u8")>>)
  @@ "PointX" :> Struct(<<Field("x", "u8")>>)
  @@ "PointZ" :> Struct(<<Field("x", "u8"), Optional("z", "MaybeByte"), Field("y", "bool")>>)
  @@ "PointNeedsZ" :> Struct(<<Field("x", "u8"), Field("z", "u8")>>)
  @@ "PointRetyped" :> Struct(<<Field("x", "string")>>)
  @@ "Range" :> Struct(<<Field("low", "u8"), Field("high", "u8")>>)
  @@ "RangeSwapped" :> Struct(<<Field("high", "u8"), Field("low", "u8")>>)
  @@ "Points" :> Of("set", "Point")
  @@ "PointXs" :> Of("set", "PointX")
  @@ "MaybeByte" :> Of("option", "u8")
  @@ "MaybeMaybe" :> Of("option", "MaybeByte")
  @@ "Units" :> Of("list", "unit")
  @@ "Dynamics" :> Of("list", "Any")
  @@ "Any" :> [k |-> "dynamic"]
  @@ "Pair" :> [k |-> "array", element |-> "u8", dimensions |-> <<1, 2>>]
  @@ "PairFlat" :> [k |-> "array", element |-> "u8", dimensions |-> <<2>>]
  @@ "Vast" :> [k |-> "array", element |-> "u8", dimensions |-> <<3, 3, 0>>]
  @@ "Nothing" :> [k |-> "array", element |-> "u8", dimensions |-> <<0>>]
  @@ "Dictionary" :> [k |-> "map", key |-> "string", value |-> "Point"]
  @@ "DictionaryX" :> [k |-> "map", key |-> "string", value |-> "PointX"]
  @@ "Numbered" :> [k |-> "map", key |-> "u8", value |-> "u8"]
  @@ "Stamp" :> Of("semantic", "u8")
  @@ "Choice" :> EnumOf(<<Variant("none", 2, UnitP),
                          Variant("one", 0, Of("newtype", "u8")),
                          Variant("two", 1, Tuple(<<"bool", "u8">>))>>)
  @@ "ChoiceFewer" :> EnumOf(<<Variant("two", 0, Tuple(<<"bool", "u8">>)),
                               Variant("none", 1, UnitP)>>)
  @@ "ChoiceReshaped" :> EnumOf(<<Variant("one", 0, Tuple(<<"u8">>))>>)
  @@ "Fielded" :> EnumOf(<<Variant("p", 1, Struct(<<Field("x", "u8"), Field("y", "bool")>>))>>)
  @@ "FieldedX" :> EnumOf(<<Variant("p", 0, Struct(<<Field("x", "u8")>>))>>)
  @@ "Choices" :> Tuple(<<"Choice", "Units">>)
  @@ "List" :> Struct(<<Field("v", "u8"), Field("next", "MaybeList")>>)
  @@ "MaybeList" :> Of("option", "List")
  @@ "Chain" :> Struct(<<Field("next", "MaybeChain"), Optional("w", "bool"), Field("v", "u8")>>)
  @@ "MaybeChain" :> Of("option", "Chain")
  @@ "Cut" :> Struct(<<Field("v", "u8"), Field("next", "MaybeCutEnd")>>)
  @@ "MaybeCutEnd" :> Of("option", "CutEnd")
  @@ "CutEnd" :> Struct(<<Field("v", "u8")>>)
  @@ "Tree" :> Struct(<<Field("kids", "Trees")>>)
  @@ "Trees" :> Of("list", "Tree")
  @@ "TreeNamed" :> Struct(<<Field("name", "u8"), Field("kids", "TreesNamed")>>)
  @@ "TreesNamed" :> Of("list", "TreeNamed")
  @@ "Hollow" :> Struct(<<Field("none", "NoHollow"), Field("v", "u8")>>)
  @@ "NoHollow" :> [k |-> "array", element |-> "Hollow", dimensions |-> <<0>>]
  @@ "Endless" :> Struct(<<Field("next", "Endless")>>)
  @@ "First" :> Struct(<<Field("v", "u8"), Field("next", "MaybeSecond")>>)
  @@ "Second" :> Struct(<<Field("u", "bool"), Field("v", "u8"), Field("next", "MaybeSecond")>>)
  @@ "MaybeSecond" :> Of("option", "Second")

Pair2(w, r) == [writer |-> w, reader |-> r]

(* A schema with itself, with a later version, with an incompatible one.    *)
FlatCases ==
  {Pair2(x, x) : x \in {"Point", "Points", "MaybeMaybe", "Units", "Dynamics", "Pair", "Nothing",
                        "Vast", "Dictionary", "Numbered", "Stamp", "Choice", "Choices", "Fielded"}}
  \cup {Pair2("Point", r) : r \in {"PointSwapped", "PointX", "PointZ", "PointNeedsZ", "PointRetyped"}}
  \cup {Pair2("Range", "RangeSwapped"), Pair2("PointZ", "Point"), Pair2("Points", "PointXs"), Pair2("Pair", "PairFlat"),
        Pair2("Dictionary", "DictionaryX"), Pair2("Choice", "ChoiceFewer"),
        Pair2("ChoiceFewer", "Choice"), Pair2("Choice", "ChoiceReshaped"),
        Pair2("Fielded", "FieldedX"), Pair2("MaybeByte", "u8"), Pair2("Any", "u8")}
RecursiveCases ==
  {Pair2("List", "List"), Pair2("List", "Chain"), Pair2("Chain", "List"), Pair2("List", "Cut"),
   Pair2("MaybeList", "MaybeChain"),
   Pair2("Hollow", "Hollow"), Pair2("Tree", "Tree"), Pair2("TreeNamed", "Tree"), Pair2("Tree", "TreeNamed")}
AllCases == FlatCases \cup RecursiveCases
DeepCases == {Pair2("List", "List")}
EndlessCases == {Pair2("Endless", "Endless")}
TwoWriters == {Pair2("First", "List"), Pair2("Cut", "List")}

RECURSIVE AllBodies(_)
AllBodies(programs) ==
  IF programs = {} THEN {}
  ELSE programs \cup AllBodies(UNION {Held(op) : op \in UNION {Range(p) : p \in programs}})
ProgramBodies ==
  [c \in Cases |->
    LET l == Programs[c] IN IF l.ok THEN AllBodies({l.program} \cup Range(l.blocks)) ELSE {}]

AllInputs == UNION {[1..n -> 0..Width - 1] : n \in 0..MaxCells}

(* What recursive_schema_ids may return, by module RecursiveIds: ids on     *)
(* reference cycles of the reader that leave no cycle uncut.                *)
RECURSIVE ReachedFrom(_, _)
ReachedFrom(ids, avoided) ==
  LET next == ids \cup UNION {RefsOf(Kind(i)) \ avoided : i \in ids}
  IN IF next = ids THEN ids ELSE ReachedFrom(next, avoided)
After(id, avoided) == ReachedFrom(RefsOf(Kind(id)) \ avoided, avoided)
CutSets(root) ==
  LET onCycle == {i \in ReachedFrom({root}, {}) : i \in After(i, {})}
  IN {S \in SUBSET onCycle : \A i \in onCycle \ S : i \notin After(i, S)}

CallsOf(cases) == UNION {{[writer |-> c.writer, reader |-> c.reader, recursive |-> S] :
                            S \in CutSets(c.reader)} : c \in cases}
AllCalls == CallsOf(AllCases)
DeepCalls == CallsOf(DeepCases)
EndlessCalls == CallsOf(EndlessCases)
TwoWriterCalls == CallsOf(TwoWriters)

=============================================================================
