--------------------------- MODULE MCDurableStore ---------------------------
(* Plans with up to two regions and two aux extents of one or two cells,    *)
(* over three schemas of which one is primitive; the last plans are the     *)
(* ones the writer must refuse.                                             *)
EXTENDS DurableStore

Item(x) == <<"data", x>>
Same(schema, data) == [schema |-> schema, passes |-> <<data, data>>]
Ref(source, target, schema) == [source |-> source, target |-> target, schema |-> schema]
Aux(feature, name, number, data) ==
  [feature |-> feature, name |-> name, number |-> number, payload |-> Same(1, data)]

Root == Same(1, <<Item("r")>>)
Payloads == {<<Item("a")>>, <<Item("a"), Item("b")>>}

Plain == [schemas |-> {}, root |-> Root, regions |-> <<>>, refs |-> <<>>,
          required |-> <<>>, optional |-> <<>>, aux |-> <<>>]

OneRegion == {[Plain EXCEPT !.schemas = {2}, !.regions = <<Same(s, d)>>, !.refs = r] :
                s \in {1, 2, 3}, d \in Payloads \cup {<<>>},
                r \in {<<Ref(<<>>, 0, 2)>>, <<Ref(<<0>>, 0, 2)>>, <<Ref(<<>>, 0, 3)>>}}

TwoRegions == {[Plain EXCEPT !.schemas = {2, 3}, !.root = Same(2, <<Item("r"), Item("r")>>),
                !.regions = <<Same(2, d), Same(3, <<Item("c")>>)>>, !.refs = r] :
                d \in Payloads,
                r \in {<<Ref(<<>>, 0, 2), Ref(<<0>>, 1, 3)>>, <<Ref(<<>>, 0, 2)>>,
                       <<Ref(<<>>, 1, 3), Ref(<<1>>, 0, 2), Ref(<<0>>, 1, 3)>>,
                       <<Ref(<<>>, 0, 3), Ref(<<>>, 1, 2)>>, <<Ref(<<>>, 2, 2)>>}}

WithAux == {[Plain EXCEPT !.required = q, !.optional = o, !.aux = a] :
              q \in {<<>>, <<1>>}, o \in {<<>>, <<2>>, <<1, 2>>},
              a \in {<<>>, <<Aux(1, 1, 0, <<Item("bad")>>)>>, <<Aux(2, 1, 0, <<Item("bad")>>)>>,
                     <<Aux(1, 1, 0, <<Item("a")>>), Aux(2, 1, 0, <<Item("bad")>>)>>,
                     <<Aux(2, 1, 0, <<Item("bad")>>), Aux(2, 1, 1, <<Item("a"), Item("b")>>)>>,
                     <<Aux(2, 1, 1, <<Item("a")>>)>>}}

Unrepeatable == {[Plain EXCEPT !.root = [schema |-> s, passes |-> <<<<Item("a")>>, <<Item("b")>>>>]] : s \in {1, Generic}}

(* Files that may be overwritten in place: the same shape as plans above,   *)
(* with other bytes of the same length or other schemas.  The last one has  *)
(* a payload that begins like a shorter new one and ends in its padding.    *)
EarlierPlans == {[Plain EXCEPT !.root = Same(1, <<Item("x")>>)], [Plain EXCEPT !.schemas = {2}]} \cup
  {[Plain EXCEPT !.schemas = {2, 3}, !.root = Same(s, <<Item(x), Item("r")>>),
     !.regions = <<Same(2, <<Item(x)>>), Same(3, <<Item(y)>>)>>,
     !.refs = <<Ref(<<>>, 0, 2), Ref(<<0>>, 1, 3)>>] :
     s \in {1, 2}, x \in {"r", "x"}, y \in {"c", "y"}} \cup
  {[Plain EXCEPT !.schemas = {2, 3}, !.root = Same(2, <<Item("r"), Item("r")>>),
     !.regions = <<Same(2, <<Item("a"), Item("x")>>), Same(3, <<Item("y")>>)>>,
     !.refs = <<Ref(<<>>, 0, 2), Ref(<<0>>, 1, 3)>>]}

SmallPlans == {Plain} \cup OneRegion \cup TwoRegions \cup WithAux \cup Unrepeatable
Data0 == {Item(x) : x \in {"r", "a", "b", "c", "x", "y", "bad"}}
Junk == {Item("x")}
=============================================================================
