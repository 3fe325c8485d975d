----------------------------- MODULE SchemaForms -----------------------------
(***************************************************************************)
(* The two written forms of a schema:                                      *)
(*   interned  a member of a bundle, rust/phon-schema/src/schema_bundle.rs *)
(*   inline    a schema by itself, rust/phon-schema/src/selfdescribing.rs  *)
(* Both are read by recursive descent.  What each function reads, in its   *)
(* order, is a table here, and one walk follows the table of a form; the   *)
(* writers have tables of their own, so that a writer and a reader that    *)
(* disagree about the order of two parts can be told apart.                *)
(*                                                                         *)
(* A message is a sequence of cells <<type, content>>, one per value with  *)
(* its tag; a cell "labels" stands for the struct header and field labels  *)
(* of a value and says whether they are the ones phon writes.  A schema    *)
(* is the tuple of its parts.  Names are numbered in byte order, 0 is the  *)
(* empty name, and every other name is one byte long.                      *)
(***************************************************************************)
EXTENDS Naturals, Sequences, SequencesExt, FiniteSets

CONSTANTS
  Qualified,     \* the names QualifiedName accepts
  Primitives,    \* the ids of the primitives
  Width,         \* Width[list]: size_of an element of a list, in bytes
  MaxNesting,    \* SchemaBundleLimits::max_nesting
  MaxStrings,    \* SchemaBundleLimits::max_strings
  MaxSchemas,    \* SchemaBundleLimits::max_schemas
  MaxOwned,      \* max_owned_bytes of SchemaBundleLimits and of DecodeLimits
  MaxDepth       \* MAX_DEPTH of the inline form

-----------------------------------------------------------------------------
(* What is written, part by part: the kinds, then the other parts.          *)
InternedKindWrites ==
  [Primitive |-> <<"prim">>, Struct |-> <<"labels", "name", "fields">>,
   Enum |-> <<"labels", "name", "variants">>, Tuple |-> <<"labels", "refs">>,
   List |-> <<"labels", "ref">>, Set |-> <<"labels", "ref">>,
   Option |-> <<"labels", "ref">>, Map |-> <<"labels", "ref", "ref">>,
   Array |-> <<"labels", "ref", "dims">>, Tensor |-> <<"labels", "ref", "rank">>,
   Channel |-> <<"labels", "dir", "ref">>, Dynamic |-> <<>>,
   External |-> <<"labels", "name", "meta">>,
   Semantic |-> <<"labels", "qname", "refs", "ref">>]
InternedWrites ==
  [schema |-> <<"labels", "id", "params", "kind">>, kind |-> InternedKindWrites,
   ref |-> [Concrete |-> <<"labels", "id", "refs">>, Var |-> <<"labels", "name">>],
   field |-> <<"labels", "name", "ref", "flag">>,
   variant |-> <<"labels", "name", "word", "payload">>,
   payload |-> [Unit |-> <<>>, Newtype |-> <<"ref">>, Tuple |-> <<"refs">>, Struct |-> <<"fields">>]]

InlineKindWrites ==
  [Primitive |-> <<"prim">>, Struct |-> <<"labels", "name", "fields">>,
   Enum |-> <<"labels", "name", "variants">>, Tuple |-> <<"labels", "refs">>,
   List |-> <<"labels", "ref">>, Set |-> <<"labels", "ref">>,
   Option |-> <<"labels", "ref">>, Map |-> <<"labels", "ref", "ref">>,
   Array |-> <<"labels", "ref", "dims">>, Tensor |-> <<"labels", "ref", "rank">>,
   Channel |-> <<"labels", "dir", "ref">>, Dynamic |-> <<>>,
   External |-> <<"labels", "name", "meta">>,
   Semantic |-> <<"labels", "qname", "refs", "ref">>]
InlineWrites ==
  [schema |-> <<"labels", "id", "params", "kind">>, kind |-> InlineKindWrites,
   ref |-> [Concrete |-> <<"labels", "id", "refs">>, Var |-> <<"labels", "name">>],
   field |-> <<"labels", "name", "ref", "flag">>,
   variant |-> <<"labels", "name", "word", "payload">>,
   payload |-> [Unit |-> <<>>, Newtype |-> <<"ref">>, Tuple |-> <<"refs">>, Struct |-> <<"fields">>]]

Element == [params |-> "name", dims |-> "word", refs |-> "ref", fields |-> "field",
            variants |-> "variant", schemas |-> "schema", strings |-> "name"]

(* The cells of part nt with value v.                                       *)
RECURSIVE Written(_, _, _), WrittenAll(_, _, _)
WrittenAll(w, nts, vs) ==
  IF nts = <<>> THEN <<>>
  ELSE IF Head(nts) = "labels" THEN <<<<"labels", TRUE>>>> \o WrittenAll(w, Tail(nts), vs)
  ELSE Written(w, Head(nts), Head(vs)) \o WrittenAll(w, Tail(nts), Tail(vs))

Written(w, nt, v) ==
  CASE nt \in DOMAIN Element ->                            \* a list
         <<<<"count", Len(v)>>>> \o FlattenSeq([i \in 1..Len(v) |-> Written(w, Element[nt], v[i])])
    [] nt \in {"schema", "field", "variant"} -> WrittenAll(w, w[nt], v)
    [] nt \in {"kind", "ref", "payload"} ->                 \* an enum
         <<<<nt, v[1]>>>> \o WrittenAll(w, w[nt][v[1]], Tail(v))
    [] nt \in {"rank", "meta"} ->                           \* an Option
         IF v = <<>> THEN <<<<"some", FALSE>>>>
         ELSE <<<<"some", TRUE>>>> \o Written(w, IF nt = "rank" THEN "word" ELSE "ref", v[1])
    [] nt = "qname" -> <<<<"name", v>>>>
    [] OTHER -> <<<<nt, v>>>>

NamesIn(cells) == {cells[i][2] : i \in {j \in 1..Len(cells) : cells[j][1] = "name"}}

(* Mutant of Collected: the type parameters are not visited.                *)
Collected_NoParams(schema) == NamesIn(Written(InternedWrites, "kind", schema[3])) \ {0}

(* collect_schema: every name but the empty one.                            *)
Collected(schema) == NamesIn(Written(InternedWrites, "schema", schema)) \ {0}

(* Each name becomes its place in the string table, which idx searches.     *)
Missing == 99                  \* no place: "missing interned string"
Place(table, n) ==
  IF \E i \in 1..Len(table) : table[i] = n
  THEN CHOOSE i \in 0..Len(table) - 1 : table[i + 1] = n ELSE Missing
Interned(cells, table) ==
  [i \in 1..Len(cells) |->
    IF cells[i][1] = "name" THEN <<"index", Place(table, cells[i][2])>> ELSE cells[i]]
-----------------------------------------------------------------------------
(* What is read.  "labels" are compared with the expected ones, "anylabels" *)
(* are read and dropped.  The parts named in deeper get one more level than *)
(* their parent, and checked are those that compare it with the bound.      *)
InternedKindReads ==
  [Primitive |-> <<"prim">>, Struct |-> <<"labels", "name", "fields">>,
   Enum |-> <<"labels", "name", "variants">>, Tuple |-> <<"labels", "refs">>,
   List |-> <<"labels", "ref">>, Set |-> <<"labels", "ref">>,
   Option |-> <<"labels", "ref">>, Map |-> <<"labels", "ref", "ref">>,
   Array |-> <<"labels", "ref", "dims">>, Tensor |-> <<"labels", "ref", "rank">>,
   Channel |-> <<"labels", "dir", "ref">>, Dynamic |-> <<>>,
   External |-> <<"labels", "name", "meta">>,
   Semantic |-> <<"labels", "qname", "refs", "ref">>]
InternedReads ==
  [schema |-> <<"labels", "id", "params", "kind">>, kind |-> InternedKindReads,
   ref |-> [Concrete |-> <<"labels", "id", "refs">>, Var |-> <<"labels", "name">>],
   field |-> <<"labels", "name", "ref", "flag">>,
   variant |-> <<"labels", "name", "word", "payload">>,
   payload |-> [Unit |-> <<>>, Newtype |-> <<"ref">>, Tuple |-> <<"refs">>, Struct |-> <<"fields">>]]

InlineKindReads ==
  [Primitive |-> <<"prim">>, Struct |-> <<"anylabels", "name", "fields">>,
   Enum |-> <<"anylabels", "name", "variants">>, Tuple |-> <<"anylabels", "refs">>,
   List |-> <<"anylabels", "ref">>, Set |-> <<"anylabels", "ref">>,
   Option |-> <<"anylabels", "ref">>, Map |-> <<"anylabels", "ref", "ref">>,
   Array |-> <<"anylabels", "ref", "dims">>, Tensor |-> <<"anylabels", "ref", "rank">>,
   Channel |-> <<"anylabels", "dir", "ref">>, Dynamic |-> <<>>,
   External |-> <<"anylabels", "name", "meta">>,
   Semantic |-> <<"labels", "qname", "refs", "ref">>]
InlineReads ==
  [schema |-> <<"labels", "id", "params", "kind">>, kind |-> InlineKindReads,
   ref |-> [Concrete |-> <<"anylabels", "id", "refs">>, Var |-> <<"anylabels", "name">>],
   field |-> <<"anylabels", "name", "ref", "flag">>,
   variant |-> <<"anylabels", "name", "word", "payload">>,
   payload |-> [Unit |-> <<>>, Newtype |-> <<"ref">>, Tuple |-> <<"refs">>, Struct |-> <<"fields">>]]

InternedForm(table) ==
  [reads |-> InternedReads, inline |-> FALSE, table |-> table, max |-> MaxNesting,
   deeper |-> {"schema", "kind", "ref"}, checked |-> {"schema", "kind", "ref"}]
InlineForm ==
  [reads |-> InlineReads, inline |-> TRUE, table |-> <<>>, max |-> MaxDepth,
   deeper |-> {"schema", "kind", "ref", "refs", "fields", "field", "variant", "payload"},
   checked |-> {"schema", "kind", "ref", "field", "variant", "payload"}]

(* The reader: its position, the bytes it owns and the names it has used.   *)
Start == [ok |-> TRUE, v |-> <<>>, p |-> 0, owned |-> 0, used |-> {}]
Err(why) == [ok |-> FALSE, why |-> why]
Keep(st, v) == [st EXCEPT !.v = Append(@, v)]

Length(n) == IF n = 0 THEN 0 ELSE 1

(* Mutant of Charge: the total is overwritten by the latest charge.         *)
Charge_Forgets(st, bytes) ==
  IF st.owned + bytes > MaxOwned THEN Err("owned") ELSE [st EXCEPT !.owned = bytes]

(* OwnedBudget::charge, before anything is allocated.                       *)
Charge(st, bytes) ==
  IF st.owned + bytes > MaxOwned THEN Err("owned") ELSE [st EXCEPT !.owned = @ + bytes]

(* SchemaDecoder::string, and Dec::ix which clones from the string table.   *)
ReadName(f, st, c) ==
  IF f.inline
  THEN IF c[1] # "name" THEN Err("malformed")
       ELSE LET charged == Charge(st, Length(c[2]))
            IN IF charged.ok THEN Keep(charged, c[2]) ELSE charged
  ELSE IF c[1] # "index" \/ ~(c[2] < Len(f.table)) THEN Err("malformed")
       ELSE Keep([st EXCEPT !.used = @ \cup {c[2]}], f.table[c[2] + 1])

(* A list: its count fits in what is left, and the inline form charges the  *)
(* elements before it reserves them.                                        *)
ReadCount(f, m, st, c, nt) ==
  CASE c[1] # "count" -> Err("malformed")
    [] c[2] > Len(m) - st.p -> Err("length")
    [] OTHER -> IF f.inline THEN Charge(st, c[2] * Width[nt]) ELSE st

(* Each reads one part at depth d and appends it to the values of st.       *)
RECURSIVE Read(_, _, _, _, _), ReadAll(_, _, _, _, _), ReadMany(_, _, _, _, _, _)
ReadAll(f, m, nts, st, d) ==
  IF ~st.ok \/ nts = <<>> THEN st
  ELSE ReadAll(f, m, Tail(nts), Read(f, m, Head(nts), st, d), d)

ReadMany(f, m, nt, n, st, d) ==
  IF ~st.ok \/ n = 0 THEN st
  ELSE ReadMany(f, m, nt, n - 1, Read(f, m, nt, st, d), d)

Read(f, m, nt, st, d) ==
  IF nt \in f.checked /\ d > f.max THEN Err("depth")
  ELSE IF nt \in {"schema", "field", "variant"}
  THEN LET parts == ReadAll(f, m, f.reads[nt], [st EXCEPT !.v = <<>>],
                            IF nt \in f.deeper THEN d + 1 ELSE d)
       IN IF parts.ok THEN [parts EXCEPT !.v = Append(st.v, parts.v)] ELSE parts
  ELSE IF st.p = Len(m) THEN Err("eof")
  ELSE
    LET c == m[st.p + 1]
        then == [st EXCEPT !.p = @ + 1]
        down == IF nt \in f.deeper THEN d + 1 ELSE d
    IN CASE nt \in {"kind", "ref", "payload"} ->
              IF c[1] # nt \/ c[2] \notin DOMAIN f.reads[nt] THEN Err("malformed")
              ELSE LET parts == ReadAll(f, m, f.reads[nt][c[2]], [then EXCEPT !.v = <<c[2]>>], down)
                   IN IF parts.ok THEN [parts EXCEPT !.v = Append(st.v, parts.v)] ELSE parts
         [] nt \in DOMAIN Element ->
              LET counted == ReadCount(f, m, then, c, nt)
                  parts == ReadMany(f, m, Element[nt], c[2], [counted EXCEPT !.v = <<>>], down)
              IN IF ~counted.ok THEN counted
                 ELSE IF parts.ok THEN [parts EXCEPT !.v = Append(st.v, parts.v)] ELSE parts
         [] nt \in {"rank", "meta"} ->
              IF c[1] # "some" THEN Err("malformed")
              ELSE IF ~c[2] THEN Keep(then, <<>>)
              ELSE LET inner == Read(f, m, IF nt = "rank" THEN "word" ELSE "ref",
                                     [then EXCEPT !.v = <<>>], down)
                   IN IF inner.ok THEN [inner EXCEPT !.v = Append(st.v, inner.v)] ELSE inner
         [] nt = "labels" -> IF c = <<"labels", TRUE>> THEN then ELSE Err("malformed")
         [] nt = "anylabels" -> IF c[1] = "labels" THEN then ELSE Err("malformed")
         [] nt = "prim" ->
              IF c[1] = "prim" /\ c[2] \in Primitives THEN Keep(then, c[2]) ELSE Err("malformed")
         [] nt = "name" -> ReadName(f, then, c)
         [] nt = "qname" ->
              LET name == ReadName(f, then, c)
              IN IF name.ok /\ Last(name.v) \notin Qualified THEN Err("malformed") ELSE name
         [] OTHER -> IF c[1] = nt THEN Keep(then, c[2]) ELSE Err("malformed")

(* decode.whole-message.                                                    *)
Whole(m, st) == IF st.ok /\ st.p # Len(m) THEN Err("trailing") ELSE st
-----------------------------------------------------------------------------
(* schema_to_bytes, schema_from_bytes and schema_matches_bytes.             *)
SchemaToBytes(schema) == Written(InlineWrites, "schema", schema)
SchemaFromBytes(m) == Whole(m, Read(InlineForm, m, "schema", Start, 0))

(* ComparisonSink: it goes on consuming after the first difference.         *)
Sunk(schema, m) ==
  FoldLeft(LAMBDA s, c : [equal |-> s.equal /\ s.consumed < Len(m) /\ m[s.consumed + 1] = c,
                          consumed |-> s.consumed + 1],
           [equal |-> TRUE, consumed |-> 0], SchemaToBytes(schema))
SchemaMatchesBytes(schema, m) ==
  LET sink == Sunk(schema, m) IN sink.equal /\ sink.consumed = Len(m)
=============================================================================
