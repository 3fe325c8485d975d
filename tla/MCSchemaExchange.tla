--------------------------- MODULE MCSchemaExchange ---------------------------
(* Schemas for SchemaExchange: one of every kind, generic and recursive     *)
(* ones, and the ways a schema can be ill-formed.                           *)
EXTENDS SchemaExchange

MCPrimitives == {1, 2}            \* u32 and unit
MCUnit == 2
MCAllNames == 0..6
MCQualified == {5, 6}
MCAllIds == {1, 10, 12, 99}
MCWidth == [params |-> 2, dims |-> 1, refs |-> 3, fields |-> 5, variants |-> 6]

C(id) == <<"Concrete", id, <<>>>>
G(id, args) == <<"Concrete", id, args>>
V(name) == <<"Var", name>>
Plain(id, kind) == <<id, <<>>, kind>>

Point == Plain(10, <<"Struct", 1, <<<<2, C(1), TRUE>>, <<3, C(1), FALSE>>>>>>)
Shape == Plain(11, <<"Enum", 2, <<<<1, 0, <<"Unit">>>>, <<2, 1, <<"Newtype", C(10)>>>>,
                                  <<3, 4, <<"Tuple", <<C(1), C(11)>>>>>>,
                                  <<4, 7, <<"Struct", <<<<1, C(1), TRUE>>>>>>>>>>>>)
ListOf == <<12, <<4>>, <<"List", V(4)>>>>
Points == Plain(13, <<"Struct", 3, <<<<1, G(12, <<C(10)>>), TRUE>>>>>>)
Deep == Plain(14, <<"Option", G(12, <<G(12, <<C(1)>>)>>)>>)
TooDeep == Plain(15, <<"Option", G(12, <<G(12, <<G(12, <<C(1)>>)>>)>>)>>)
Nothing == Plain(16, <<"Tuple", <<>>>>)
Pair == Plain(17, <<"Tuple", <<C(1), C(2)>>>>)
Table == Plain(18, <<"Map", C(1), C(2)>>)
Grid == Plain(19, <<"Array", C(1), <<2, 3>>>>)
Crowd == Plain(20, <<"Array", C(16), <<3, 3>>>>)
Huge == Plain(21, <<"Array", C(1), <<9, 9, 9>>>>)
Ranked == Plain(22, <<"Tensor", C(1), <<2>>>>)
Unranked == Plain(23, <<"Tensor", C(1), <<>>>>)
Stream == Plain(24, <<"Channel", "tx", C(10)>>)
Handle == Plain(25, <<"External", 1, <<C(10)>>>>)
Bare == Plain(26, <<"External", 2, <<>>>>)
Meter == Plain(27, <<"Semantic", 5, <<C(1), C(2)>>, C(1)>>)
Bag == Plain(28, <<"Set", C(1)>>)
Anything == Plain(29, <<"Dynamic">>)
Prim == Plain(1, <<"Primitive", 1>>)
Dict == <<30, <<4, 3>>, <<"Map", V(4), V(3)>>>>
Uses == Plain(31, <<"List", G(30, <<C(1), G(12, <<C(2)>>)>>)>>)
Wrap == <<32, <<4>>, <<"Struct", 1, <<<<2, G(12, <<V(4)>>), TRUE>>>>>>>>
Wraps == Plain(33, <<"Set", G(32, <<C(10)>>)>>)
Block == <<34, <<4>>, <<"Array", V(4), <<3, 3>>>>>>
Blocks == Plain(35, <<"Option", G(34, <<C(2)>>)>>)
Odd == Plain(38, <<"Option", C(39)>>)
Even == Plain(39, <<"Struct", 1, <<<<2, C(38), TRUE>>>>>>)
Poly == <<36, <<4>>, <<"Tuple", <<V(4), G(36, <<G(12, <<V(4)>>)>>)>>>>>>
Phantom == <<45, <<6>>, <<"Tuple", <<>>>>>>
Marked == Plain(46, <<"Option", G(45, <<G(45, <<C(1)>>)>>)>>)
Root == Plain(37, <<"Option", G(36, <<C(1)>>)>>)
(* Every payload and kind once more, with a parameter in it.                *)
Every == <<40, <<4>>, <<"Enum", 1, <<<<2, 0, <<"Newtype", V(4)>>>>, <<3, 1, <<"Tuple", <<V(4)>>>>>>,
                                     <<4, 2, <<"Struct", <<<<1, V(4), TRUE>>>>>>>>>>>>>>
Named == <<41, <<4>>, <<"Semantic", 6, <<V(4)>>, G(40, <<V(4)>>)>>>>
Held == <<42, <<4>>, <<"External", 2, <<G(41, <<V(4)>>)>>>>>>
Piped == <<43, <<4>>, <<"Channel", "rx", G(42, <<V(4)>>)>>>>
User == Plain(44, <<"Tensor", G(43, <<C(1)>>), <<>>>>)

NoArgs == Plain(50, <<"List", C(12)>>)
TooMany == Plain(51, <<"List", G(12, <<C(1), C(2)>>)>>)
Unbound == Plain(52, <<"List", V(4)>>)
Unbound2 == Plain(53, <<"Set", G(12, <<V(3)>>)>>)
OnPrim == Plain(54, <<"External", 1, <<G(1, <<C(2)>>)>>>>)
Missed == Plain(55, <<"Enum", 1, <<<<2, 0, <<"Tuple", <<C(99)>>>>>>>>>>)
Missed2 == Plain(60, <<"External", 1, <<G(12, <<C(99)>>)>>>>)
Twice == <<56, <<4, 4>>, <<"List", V(4)>>>>
Unnamed == Plain(57, <<"Struct", 0, <<>>>>)
NoName == <<58, <<0>>, <<"Option", V(0)>>>>
Loose == Plain(59, <<"Semantic", 1, <<>>, C(1)>>)
Forged == Plain(47, <<"Tuple", <<C(1)>>>>)

Good == {<<Shape, Point>>, <<Points, ListOf, Point>>, <<Deep, ListOf>>, <<TooDeep, ListOf>>,
         <<Pair>>, <<Table>>, <<Grid>>, <<Crowd, Nothing>>, <<Huge>>, <<Ranked>>, <<Unranked>>,
         <<Stream, Point>>, <<Handle, Point>>, <<Bare>>, <<Meter>>, <<Bag>>, <<Anything>>, <<Prim>>,
         <<Dict, Uses, ListOf>>, <<Wrap, Wraps, ListOf, Point>>, <<Blocks, Block>>, <<Marked, Phantom>>, <<Even, Odd>>,
         <<Root, Poly, ListOf>>, <<Every, Named, Held, Piped, User>>,
         <<Nothing, Bag, Anything, Prim, Table, Pair>>}
Bad == {<<NoArgs, ListOf>>, <<TooMany, ListOf>>, <<Unbound>>, <<Unbound2, ListOf>>, <<OnPrim>>, <<Missed>>,
        <<Missed2, ListOf>>, <<Twice>>, <<Unnamed>>, <<NoName>>, <<Loose>>, <<Forged>>, <<Point, Forged>>}
Alone == {<<s>> : s \in {Shape, Points, Deep, TooDeep, Every, Named, Point, ListOf, Nothing, Stream, Handle}}
MCBatches == Good \cup Bad \cup Alone
MCGenuine == UNION {Range(b) : b \in MCBatches} \ {Forged}
=============================================================================
