--------------------------- MODULE SelfDescribing ---------------------------
(***************************************************************************)
(* Values in self-describing form: read_value of                           *)
(* rust/phon-schema/src/selfdescribing.rs.  Module SelfDescribingValues    *)
(* has write_value.                                                        *)
(*                                                                         *)
(* A message is a sequence of cells, a tag with the header that follows    *)
(* it, or a field name.  A cell keeps its length in bytes, because counts  *)
(* are checked against the bytes that are left; every string stands for    *)
(* one of one byte.  The first reading invents the message as it goes, so  *)
(* that a run meets every message of the lengths in Sizes; a value that    *)
(* was read is then written and what was written is read again.            *)
(*                                                                         *)
(* The reader is a recursion on native frames: frames is its stack, and    *)
(* each frame carries the depth that its call was given.                   *)
(***************************************************************************)
EXTENDS Integers, Sequences, SequencesExt, FiniteSets

CONSTANTS
  MaxDepth,      \* MAX_DEPTH
  MaxWord,       \* u64::MAX: the product of the dimensions stays below it
  Sizes,         \* bound: the lengths in bytes of the messages that are read
  Scalars,       \* bound: Scalars[d]: the cells without children met at depth d
  Nested,        \* bound: the tags of containers met inside another one
  Names,         \* bound: the names of fields and variants
  Counts,        \* bound: the counts a header may claim
  Dims,          \* bound: the lists of dimensions a header may claim
  Same(_, _),    \* Eq of facet_value::Value
  Written(_)     \* write_value: the cells of a value

ASSUME LimitsAssumption == MaxDepth \in Nat /\ MaxWord \in Nat /\ Sizes \subseteq Nat
                    /\ DOMAIN Scalars = 0..MaxDepth

(* A value is told from the name of a field, and claims are unsigned words. *)
ASSUME CellsAssumption ==
  /\ \A d \in 0..MaxDepth : \A c \in Scalars[d] : c.tag # "name"
  /\ Counts \subseteq Nat /\ Dims \subseteq Seq(Nat)

VARIABLES
  size,          \* the length of the message in bytes
  msg,           \* the cells read so far, or all cells of a second reading
  pos,           \* how many cells are read
  left,          \* Reader::remaining
  frames,        \* the calls of dec_value that wait for their children
  out,           \* what the reader returned, or "running"
  first          \* empty until the first reading ends well, then what it returned

vars == <<size, msg, pos, left, frames, out, first>>
-----------------------------------------------------------------------------
(* Values, as facet_value keeps them.                                      *)
Null == <<"null">>
Array(vs) == <<"array", vs>>
Object(es) == <<"object", es>>          \* <<key, value>> in order of insertion
Kind(v) == v[1]

(* VObject::insert: a key that is there keeps its place and loses its value *)
Insert(es, k, v) ==
  IF \E i \in 1..Len(es) : es[i][1] = k
  THEN [i \in 1..Len(es) |-> IF es[i][1] = k THEN <<k, v>> ELSE es[i]]
  ELSE Append(es, <<k, v>>)
-----------------------------------------------------------------------------
(* Cells.                                                                  *)
Scalar(tag, v) == [tag |-> tag, v |-> v, n |-> 0, dims |-> <<>>]
Counted(tag, n) == [tag |-> tag, v |-> <<>>, n |-> n, dims |-> <<>>]
Dimensioned(tag, dims) == [tag |-> tag, v |-> <<>>, n |-> 0, dims |-> dims]
Named(tag, name, n) == [tag |-> tag, v |-> <<name>>, n |-> n, dims |-> <<>>]

StringSize == 4 + 1
Fixed == [unit |-> 0, none |-> 0, bool |-> 1, u8 |-> 1, u64 |-> 8, u128 |-> 16,
          i64 |-> 8, i128 |-> 16, f32 |-> 4, f64 |-> 8, char |-> 4]
Size(c) ==
  CASE c.tag = "name" -> StringSize
    [] c.tag \in DOMAIN Fixed -> 1 + Fixed[c.tag]
    [] c.tag \in {"list", "tuple", "set", "map"} -> 1 + 4
    [] c.tag \in {"array", "tensor"} -> 1 + 4 + 8 * Len(c.dims)
    [] c.tag = "struct" -> 1 + StringSize + 4
    [] c.tag \in {"some", "unknown"} -> 1
    [] OTHER -> 1 + StringSize           \* text, bytes, the name of a variant

Bytes(cells) == FoldSeq(LAMBDA c, n : n + Size(c), 0, cells)
-----------------------------------------------------------------------------
(* The texts of the extended kinds, and what parsing them gives.            *)
Malformed == <<"malformed">>

(* parse_datetime: T marks both halves, : a time, - a date.                 *)
DateTime(t) ==
  CASE t.date /\ t.time -> <<"datetime", IF t.zone = "none" THEN "local" ELSE "offset",
                             t.frac # "none", IF t.zone = "-05:30" THEN -330 ELSE 0>>
    [] t.zone # "none" -> Malformed
    [] t.time -> <<"datetime", "time", t.frac # "none", 0>>
    [] t.date /\ t.frac = "none" -> <<"datetime", "date", FALSE, 0>>
    [] OTHER -> Malformed

(* parse_uuid drops every hyphen and takes either case; 32 characters are   *)
(* left, of which from_str_radix lets the first be a plus sign.             *)
Uuid(t) ==
  IF t.digits + (IF t.form = "plus" THEN 1 ELSE 0) = 32 THEN <<"uuid">> ELSE Malformed

(* parse_qname: a brace opens the namespace and must be closed.             *)
QName(t) ==
  CASE t.brace = "none" -> <<"qname", FALSE>>
    [] t.brace = "closed" -> <<"qname", TRUE>>
    [] OTHER -> Malformed

(* The value a cell without children stands for.  Widths, and unit and      *)
(* none, are folded away.                                                   *)
Folded(c) ==
  CASE c.tag \in {"unit", "none"} -> Null
    [] c.tag = "datetime" -> DateTime(c.v[2])
    [] c.tag = "uuid" -> Uuid(c.v[2])
    [] c.tag = "qname" -> QName(c.v[2])
    [] OTHER -> c.v

-----------------------------------------------------------------------------
(* The product of the dimensions, or -1 once it leaves the 64 bits: a zero  *)
(* after the overflow does not bring it back.                               *)
Product(dims) ==
  LET product[i \in 0..Len(dims)] ==
        IF i = 0 THEN 1
        ELSE IF product[i - 1] = -1 \/ product[i - 1] * dims[i] > MaxWord THEN -1
        ELSE product[i - 1] * dims[i]
  IN product[Len(dims)]

(* How many values follow a header.                                         *)
Children(c) ==
  CASE c.tag = "map" -> 2 * c.n
    [] c.tag \in {"array", "tensor"} -> Product(c.dims)
    [] c.tag \in {"enum", "some"} -> 1
    [] OTHER -> c.n

(* A claimed count must fit in the bytes that are left: two per entry of a  *)
(* map, one per value or field otherwise.                                   *)
Claims(c, rest) == Children(c) >= 0 /\ (c.tag \notin {"enum", "some"} => Children(c) <= rest)

Container(tag) ==
  tag \in {"list", "tuple", "set", "map", "array", "tensor", "struct", "enum", "some"}
Containers ==
  {Counted(t, n) : t \in {"list", "tuple", "set", "map"}, n \in Counts}
    \cup {Dimensioned(t, ds) : t \in {"array", "tensor"}, ds \in Dims}
    \cup {Named("struct", "S", n) : n \in Counts}
    \cup {Named("enum", a, 0) : a \in Names} \cup {Counted("some", 0)}

(* The depth an option gives to its payload is its own.                     *)
Frame_SomeIsFree(c, depth) ==
  [tag |-> c.tag, depth |-> IF c.tag = "some" THEN depth - 1 ELSE depth,
   todo |-> Children(c), done |-> <<>>, names |-> IF c.tag = "enum" THEN c.v ELSE <<>>]
Frame(c, depth) ==
  [tag |-> c.tag, depth |-> depth, todo |-> Children(c), done |-> <<>>,
   names |-> IF c.tag = "enum" THEN c.v ELSE <<>>]
Root == [tag |-> "root", depth |-> -1, todo |-> 1, done |-> <<>>, names |-> <<>>]

(* The value of a container whose children are all read.                    *)
Entries(f) == [i \in 1..Len(f.done) \div 2 |-> <<f.done[2 * i - 1], f.done[2 * i]>>]
Fold(f) ==
  CASE f.tag = "some" -> f.done[1]
    [] f.tag = "enum" -> Object(<<<<f.names[1], f.done[1]>>>>)
    [] f.tag = "struct" ->
         Object(FoldLeft(LAMBDA es, i : Insert(es, f.names[i], f.done[i]),
                         <<>>, [i \in 1..Len(f.done) |-> i]))
    [] f.tag = "map" ->
         IF \A i \in 1..Len(Entries(f)) : Kind(Entries(f)[i][1]) = "string"
         THEN Object(FoldLeft(LAMBDA es, e : Insert(es, e[1][2], e[2]), <<>>, Entries(f)))
         ELSE Array([i \in 1..Len(Entries(f)) |-> Array(Entries(f)[i])])
    [] OTHER -> Array(f.done)

(* validate.uniqueness: an element once it is read, a key once its value    *)
(* is, a field before its value.                                            *)
Repeats(f, v) ==
  \/ f.tag = "set" /\ \E i \in 1..Len(f.done) : Same(f.done[i], v)
  \/ /\ f.tag = "map" /\ Len(f.done) % 2 = 1
     /\ \E i \in 1..Len(f.done) \div 2 : Same(f.done[2 * i - 1], Last(f.done))
-----------------------------------------------------------------------------
Init ==
  /\ size \in Sizes /\ left = size
  /\ msg = <<>> /\ pos = 0
  /\ frames = <<Root>> /\ out = "running" /\ first = <<>>

Top == Last(frames)
Open == out = "running" /\ Len(Top.done) < Top.todo
WantsName == Open /\ Top.tag = "struct" /\ Len(Top.names) = Len(Top.done)
WantsValue == Open /\ ~WantsName

(* The next cell: any, or the one that was written.                         *)
Offered(cells) ==
  IF first = <<>> THEN cells
  ELSE IF pos < Len(msg) THEN {msg[pos + 1]} ELSE {}

Headers == {c \in Containers : Top.tag = "root" \/ c.tag \in Nested}
Wanted ==
  IF WantsName THEN {Named("name", a, 0) : a \in Names}
  ELSE Scalars[Top.depth + 1] \cup Headers

Take(c) ==
  /\ msg' = IF first = <<>> THEN Append(msg, c) ELSE msg
  /\ pos' = pos + 1 /\ left' = left - Size(c)
  /\ UNCHANGED <<size, out, first>>

(* An error ends the reading and leaves the reader where it is.             *)
Fail(why) == out' = why /\ UNCHANGED <<size, msg, pos, left, frames, first>>

(* A value goes to the call that waits for it.                              *)
Given(fs, v) == [fs EXCEPT ![Len(fs)].done = Append(@, v)]

(* check_depth comes first, before there is anything to read.               *)
TooDeep == WantsValue /\ Top.depth + 1 > MaxDepth /\ Fail("depth")
Shallow == WantsValue /\ Top.depth + 1 <= MaxDepth

(* UnexpectedEof: nothing is left, or less than the next cell takes.        *)
Truncated ==
  /\ WantsName \/ Shallow
  /\ left = 0 \/ \E c \in Offered(Wanted) : Size(c) > left
  /\ Fail("eof")

Coming(cells) == {c \in Offered(cells) : Size(c) <= left}

ReadScalar ==
  /\ Shallow
  /\ \E c \in Coming(Scalars[Top.depth + 1]) :
       /\ ~Container(c.tag)
       /\ IF Folded(c) = Malformed THEN Fail("malformed")
          ELSE IF Repeats(Top, Folded(c)) THEN Fail("duplicate")
          ELSE Take(c) /\ frames' = Given(frames, Folded(c))

(* A container starts a call per child, one level deeper.                   *)
ReadHeader ==
  /\ Shallow
  /\ \E c \in Coming(Headers) :
       /\ Container(c.tag)
       /\ IF Claims(c, left - Size(c))
          THEN Take(c) /\ frames' = Append(frames, Frame(c, Top.depth + 1))
          ELSE Fail("length")

(* The name of a field is not compared with the earlier ones.               *)
ReadName_Any ==
  /\ WantsName
  /\ \E c \in Coming(Wanted) :
       Take(c) /\ frames' = [frames EXCEPT ![Len(frames)].names = Append(@, c.v[1])]

(* dec_struct_value: the name of the next field.                            *)
ReadName ==
  /\ WantsName
  /\ \E c \in Coming(Wanted) :
       IF Contains(Top.names, c.v[1]) THEN Fail("duplicate")
       ELSE Take(c) /\ frames' = [frames EXCEPT ![Len(frames)].names = Append(@, c.v[1])]

(* The call starts over instead of returning.                               *)
Return_Again ==
  /\ out = "running" /\ ~Open /\ Top.tag # "root"
  /\ frames' = IF Top.todo = 2 THEN frames ELSE Given(Front(frames), Fold(Top))
  /\ UNCHANGED <<size, msg, pos, left, out, first>>

(* The last child is there: the call returns.                               *)
Return ==
  /\ out = "running" /\ ~Open /\ Top.tag # "root"
  /\ IF Repeats(frames[Len(frames) - 1], Fold(Top)) THEN Fail("duplicate")
     ELSE frames' = Given(Front(frames), Fold(Top)) /\ UNCHANGED <<size, msg, pos, left, out, first>>

(* value_from_bytes: nothing may be left.                                   *)
Finish ==
  /\ out = "running" /\ ~Open /\ Top.tag = "root"
  /\ out' = IF left = 0 THEN "ok" ELSE "trailing"
  /\ UNCHANGED <<size, msg, pos, left, frames, first>>

Value == frames[1].done[1]

(* value_to_bytes, and the second reading.                                  *)
Rewrite ==
  /\ out = "ok" /\ first = <<>>
  /\ first' = <<Value>>
  /\ msg' = Written(Value) /\ pos' = 0
  /\ size' = Bytes(msg') /\ left' = size'
  /\ frames' = <<Root>> /\ out' = "running"

Next ==
  \/ TooDeep \/ ReadScalar \/ ReadHeader \/ ReadName \/ Truncated
  \/ Return \/ Finish \/ Rewrite

Spec == Init /\ [][Next]_vars /\ WF_vars(Next)
-----------------------------------------------------------------------------
(***************************************************************************)
(* The calls of dec_value that wait on each other are never more than the  *)
(* depth bound allows, whatever the message nests.                         *)
(***************************************************************************)
StackIsBounded == Len(frames) <= MaxDepth + 2

(* How many values the header of a cell promises, counted exactly, and how  *)
(* many a message holds when every header keeps its promise.                *)
Volume(dims) ==
  LET volume[i \in 0..Len(dims)] == IF i = 0 THEN 1 ELSE volume[i - 1] * dims[i]
  IN volume[Len(dims)]
Promise(c) ==
  CASE ~Container(c.tag) -> 0
    [] c.tag = "map" -> 2 * c.n
    [] c.tag \in {"array", "tensor"} -> Volume(c.dims)
    [] c.tag \in {"enum", "some"} -> 1
    [] OTHER -> c.n
Sums(s) ==
  LET sum[i \in 0..Len(s)] == IF i = 0 THEN 0 ELSE sum[i - 1] + s[i]
  IN sum
Promised(cells) == 1 + Sums([i \in 1..Len(cells) |-> Promise(cells[i])])[Len(cells)]
Held(cells) == Cardinality({i \in 1..Len(cells) : cells[i].tag # "name"})

(***************************************************************************)
(* A message that is accepted holds exactly the values its headers         *)
(* promise: no claim is cut short, and no dimension is lost to an overflow.*)
(***************************************************************************)
HoldsWhatItPromises == out = "ok" => Held(msg) = Promised(msg)

(***************************************************************************)
(* Every reading ends, and so does the reading of what was written.        *)
(***************************************************************************)
Returns == <>[](out # "running" /\ (out = "ok" => first # <<>>))
=============================================================================
