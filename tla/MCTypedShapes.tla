--------------------------- MODULE MCTypedShapes ---------------------------
(* Shapes: one for every op, shapes in shapes, and versions of schemas.     *)
(* But for Chars they hold no bool, no char, and no text that is skipped    *)
(* (ValidatesText).                                                         *)
EXTENDS TypedLower, TLC

Field(name, shape) == [name |-> name, schema |-> shape]
Struct(fields) == [k |-> "struct", fields |-> fields]
Tuple(elements) == [k |-> "tuple", elements |-> elements]
Of(k, element) == [k |-> k, element |-> element]
MapOfShape(key, value) == [k |-> "map", key |-> key, value |-> value]
Variant(name, selector, payload) == [name |-> name, selector |-> selector, payload |-> payload]
EnumOf(variants) == [k |-> "enum", variants |-> variants]
UnitP == [k |-> "unit"]

TypedShapes ==
  [p \in {"unit", "u8", "u64", "string", "char"} |-> [k |-> "primitive", p |-> p]]
  @@ "Str" :> [k |-> "borrowed"]
  @@ "Blob" :> [k |-> "opaque"]
  @@ "Any" :> [k |-> "dynamic"]
  @@ "Anys" :> Of("list", "Any")
  @@ "Named" :> Struct(<<Field("a", "Str"), Field("u", "unit"), Field("b", "Blob")>>)
  @@ "Names" :> Of("list", "string")
  @@ "Units" :> Of("list", "unit")
  @@ "Bytes2" :> Tuple(<<"u8", "u8">>)
  @@ "Rows" :> Of("list", "Bytes2")
  @@ "Line" :> Struct(<<Field("from", "Bytes2"), Field("to", "u8")>>)
  @@ "LineBack" :> Struct(<<Field("to", "u8"), Field("from", "Bytes2")>>)
  @@ "LineMore" :> Struct(<<Field("name", "Maybe"), Field("from", "Bytes2"), Field("to", "u8")>>)
  @@ "LineTo" :> Struct(<<Field("to", "u8")>>)
  @@ "LineNamed" :> Struct(<<Field("name", "string"), Field("to", "u8")>>)
  @@ "Deep" :> Struct(<<Field("drop", "Opt2"), Field("keep", "u8")>>)
  @@ "Opt2" :> Of("list", "Maybe")
  @@ "Kept" :> Struct(<<Field("keep", "u8")>>)
  @@ "Packed" :> Struct(<<Field("drop", "Arr2"), Field("keep", "u8")>>)
  @@ "Packeds" :> Of("list", "Packed")
  @@ "Kepts" :> Of("list", "Kept")
  @@ "Nested" :> Struct(<<Field("drop", "Packeds"), Field("keep", "u8")>>)
  @@ "Maybe" :> Of("option", "u8")
  @@ "MaybeName" :> Of("option", "string")
  @@ "MaybeMaybe" :> Of("option", "Maybe")
  @@ "BoxName" :> Of("box", "string")
  @@ "BoxMaybe" :> Of("box", "Maybe")
  @@ "Boxes" :> Of("list", "BoxName")
  @@ "RefName" :> Of("ref", "string")
  @@ "RefRef" :> Of("ref", "RefName")
  @@ "Refs2" :> Tuple(<<"RefRef", "RefName">>)
  @@ "StringSet" :> Of("set", "string")
  @@ "PairSet" :> Of("set", "Bytes2")
  @@ "Dict" :> MapOfShape("string", "string")
  @@ "DictBox" :> MapOfShape("string", "BoxName")
  @@ "DictUnit" :> MapOfShape("string", "unit")
  @@ "Arr2" :> [k |-> "array", element |-> "BoxName", dimensions |-> <<2>>]
  @@ "Arr12" :> [k |-> "array", element |-> "string", dimensions |-> <<1, 2>>]
  @@ "Outcome" :> [k |-> "result", ok |-> "BoxName", err |-> "Maybe"]
  @@ "Outcome2" :> [k |-> "result", ok |-> "string", err |-> "u8"]
  @@ "OkOnly" :> EnumOf(<<Variant("Ok", 0, Of("newtype", "string"))>>)
  @@ "ErrOnly" :> EnumOf(<<Variant("Err", 0, Of("newtype", "u8"))>>)
  @@ "Outcome3" :> EnumOf(<<Variant("Err", 0, Of("newtype", "u8")), Variant("Later", 1, UnitP),
                            Variant("Ok", 2, Of("newtype", "string"))>>)
  @@ "Choice" :> EnumOf(<<Variant("none", 2, UnitP),
                          Variant("one", 0, Of("newtype", "string")),
                          Variant("two", 1, Tuple(<<"u8", "BoxName">>))>>)
  @@ "ChoiceFewer" :> EnumOf(<<Variant("two", 5, Tuple(<<"u8", "string">>)), Variant("none", 4, UnitP)>>)
  @@ "ChoiceReshaped" :> EnumOf(<<Variant("one", 0, Tuple(<<"string", "u8">>))>>)
  @@ "Fielded" :> EnumOf(<<Variant("q", 3, UnitP), Variant("p", 1, Struct(<<Field("x", "u8"), Field("y", "BoxMaybe")>>))>>)
  @@ "FieldedX" :> EnumOf(<<Variant("p", 0, Struct(<<Field("z", "Maybe"), Field("x", "u8")>>))>>)
  @@ "FieldedArr" :> EnumOf(<<Variant("p", 1, Struct(<<Field("x", "u8"), Field("y", "Arr2")>>))>>)
  @@ "Chosen" :> Tuple(<<"Choice", "u8">>)
  @@ "Mixed" :> Of("list", "Choice")
  @@ "List" :> Struct(<<Field("v", "u8"), Field("next", "BoxList")>>)
  @@ "BoxList" :> Of("box", "MaybeList")
  @@ "MaybeList" :> Of("option", "List")
  @@ "Tree" :> Struct(<<Field("name", "string"), Field("kids", "Trees")>>)
  @@ "Trees" :> Of("list", "Tree")
  @@ "BoxTree" :> Of("box", "Tree")
  @@ "usize" :> [k |-> "native"]
  @@ "Sized" :> Struct(<<Field("n", "usize"), Field("u", "u8")>>)
  @@ "Chars" :> Of("list", "char")

TypedSchemas ==
  LET Own(s) == RefOf(s) = s /\ Shape(s).k # "primitive"
  IN [s \in {s \in DOMAIN TypedShapes : Own(s)} |-> SchemaKind(Shape(s))]

=============================================================================
