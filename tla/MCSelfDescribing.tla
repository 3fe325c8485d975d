-------------------------- MODULE MCSelfDescribing --------------------------
(* Small alphabets for reading values: each kind of value once or twice,    *)
(* under every tag that folds to it.                                        *)
EXTENDS SelfDescribingValues, TLC

MCNames == {"a", "b"}
MCNested == {"list", "set", "map", "struct", "enum", "some"}
MCSizes == {6, 9, 12, 17, 19, 22}
MCCounts == {0, 1, 2, 40}
MCDims == {<<>>, <<0>>, <<1>>, <<2>>, <<1, 1>>, <<128, 2>>, <<0, 128>>}

Number(n) == <<"number", n>>
Every ==
  {Scalar("unit", Null), Scalar("none", Null), Scalar("unknown", Malformed),
   Scalar("bool", <<"bool">>), Scalar("bool", Malformed),
   Scalar("u8", Number("one")), Scalar("i64", Number("one")),
   Scalar("f32", Number("half")), Scalar("f64", Number("half")),
   Scalar("u64", Number("two63")), Scalar("u128", Number("two63")),
   Scalar("u128", Number("two127")), Scalar("i128", Number("minus two64")),
   Scalar("char", <<"char">>), Scalar("char", Malformed),
   Scalar("bytes", <<"bytes">>), Scalar("string", Malformed)}
  \cup {Scalar("string", <<"string", a>>) : a \in MCNames}
  \cup {Scalar("datetime", <<"text", [date |-> d, time |-> t, frac |-> f, zone |-> z]>>) :
           d \in BOOLEAN, t \in BOOLEAN, f \in {"none", ".5", ".500000000"},
           z \in {"none", "Z", "+00:00", "-05:30"}}
  \cup {Scalar("uuid", <<"text", [digits |-> n, form |-> f]>>) :
           n \in {31, 32}, f \in {"lower, hyphenated", "upper", "plus"}}
  \cup {Scalar("qname", <<"text", [brace |-> b]>>) : b \in {"none", "closed", "open"}}
Some ==
  {Scalar("unit", Null), Scalar("u8", Number("one")),
   Scalar("i64", Number("one"))} \cup {Scalar("string", <<"string", a>>) : a \in MCNames}
Few == {Scalar("unit", Null), Scalar("string", <<"string", "a">>)}
MCScalars == 0 :> Every @@ 1 :> Some @@ 2 :> Few
=============================================================================
