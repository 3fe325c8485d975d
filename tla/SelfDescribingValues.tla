------------------------ MODULE SelfDescribingValues ------------------------
(***************************************************************************)
(* write_value of rust/phon-schema/src/selfdescribing.rs, and what reading *)
(* and writing promise together.  Values have any depth, so these          *)
(* operators are recursive; module SelfDescribing, the reader, takes them  *)
(* as constants.                                                           *)
(***************************************************************************)
EXTENDS SelfDescribing

(* Equality of values: an object does not depend on the order of its keys.  *)
RECURSIVE SameValue(_, _)
SameValue(u, v) ==
  /\ Kind(u) = Kind(v)
  /\ CASE Kind(u) = "array" ->
            Len(u[2]) = Len(v[2]) /\ \A i \in 1..Len(u[2]) : SameValue(u[2][i], v[2][i])
       [] Kind(u) = "object" ->
            /\ Len(u[2]) = Len(v[2])
            /\ \A i \in 1..Len(u[2]) : \E j \in 1..Len(v[2]) :
                 u[2][i][1] = v[2][j][1] /\ SameValue(u[2][i][2], v[2][j][2])
       [] OTHER -> u = v
-----------------------------------------------------------------------------
(* The texts of the extended kinds.                                         *)

(* An offset of zero left out makes the time local.                         *)
DateTimeText_NoZulu(v) ==
  [date |-> v[2] # "time", time |-> v[2] # "date",
   frac |-> IF v[3] THEN ".500000000" ELSE "none",
   zone |-> IF v[2] = "offset" /\ v[4] # 0 THEN "-05:30" ELSE "none"]

(* datetime_string: nine digits when there are nanoseconds, Z for offset 0. *)
DateTimeText(v) ==
  [date |-> v[2] # "time", time |-> v[2] # "date",
   frac |-> IF v[3] THEN ".500000000" ELSE "none",
   zone |-> CASE v[2] # "offset" -> "none" [] v[4] = 0 -> "Z" [] OTHER -> "-05:30"]

(* Lower case with hyphens.                                                 *)
UuidText == [digits |-> 32, form |-> "lower, hyphenated"]

(* The namespace in braces, when there is one.                              *)
QNameText(v) == [brace |-> IF v[2] THEN "closed" ELSE "none"]

(* enc_number: f64, or the first of i64, u64, i128, u128 that holds it.     *)
NumberTag(n) ==
  CASE n = "half" -> "f64"
    [] n = "one" -> "i64"
    [] n = "two63" -> "u64"
    [] n = "minus two64" -> "i128"
    [] n = "two127" -> "u128"
-----------------------------------------------------------------------------
(* write_value.  Every container is a list, or a map with string keys.      *)
RECURSIVE WrittenForm(_)
WrittenForm(v) ==
  CASE v = Null -> <<Scalar("none", Null)>>
    [] Kind(v) = "number" -> <<Scalar(NumberTag(v[2]), v)>>
    [] Kind(v) = "datetime" -> <<Scalar("datetime", <<"text", DateTimeText(v)>>)>>
    [] Kind(v) = "uuid" -> <<Scalar("uuid", <<"text", UuidText>>)>>
    [] Kind(v) = "qname" -> <<Scalar("qname", <<"text", QNameText(v)>>)>>
    [] Kind(v) = "array" ->
         <<Counted("list", Len(v[2]))>>
           \o FlattenSeq([i \in 1..Len(v[2]) |-> WrittenForm(v[2][i])])
    [] Kind(v) = "object" ->
         <<Counted("map", Len(v[2]))>>
           \o FlattenSeq([i \in 1..Len(v[2]) |->
                <<Scalar("string", <<"string", v[2][i][1]>>)>> \o WrittenForm(v[2][i][2])])
    [] OTHER -> <<Scalar(Kind(v), v)>>    \* bool, string, bytes, char
-----------------------------------------------------------------------------
(* The scalars and names of a message in order, and those of a value.       *)
Carried(cells) ==
  FlattenSeq([i \in 1..Len(cells) |->
    CASE cells[i].tag \in {"name", "enum"} -> <<<<"string", cells[i].v[1]>>>>
      [] cells[i].tag = "struct" \/ Container(cells[i].tag) -> <<>>
      [] OTHER -> <<Folded(cells[i])>>])

RECURSIVE Leaves(_)
Leaves(v) ==
  CASE Kind(v) = "array" -> FlattenSeq([i \in 1..Len(v[2]) |-> Leaves(v[2][i])])
    [] Kind(v) = "object" ->
         FlattenSeq([i \in 1..Len(v[2]) |-> <<<<"string", v[2][i][1]>>>> \o Leaves(v[2][i][2])])
    [] OTHER -> <<v>>

(* How deep dec_value goes for what write_value makes of a value.           *)
RECURSIVE Height(_)
Height(v) ==
  CASE Kind(v) \in {"array", "object"} ->
         LET inner == {Height(IF Kind(v) = "array" THEN v[2][i] ELSE v[2][i][2]) : i \in 1..Len(v[2])}
         IN IF inner = {} THEN 0 ELSE 1 + CHOOSE h \in inner : \A k \in inner : k <= h
    [] OTHER -> 0

(***************************************************************************)
(* A message that is accepted holds exactly the values its headers         *)
(* promise, and each of its scalars, keys, field names and variant names   *)
(* is in the decoded value, in the order of the message: nothing is        *)
(* replaced by a later one of the same name and no dimension is lost.      *)
(***************************************************************************)
KeepsEveryScalar ==
  HoldsWhatItPromises /\ (out = "ok" => Carried(msg) = Leaves(Value))

(***************************************************************************)
(* What write_value writes for a decoded value is read as that value.  A   *)
(* map whose keys are not all strings becomes a list of pairs, one level   *)
(* deeper than the map was, so a value can leave the depth that the reader *)
(* allows and is then refused for that reason only.                        *)
(***************************************************************************)
RereadsWhatItWrites ==
  first # <<>> /\ out # "running" =>
    IF Height(first[1]) > MaxDepth THEN out = "depth" ELSE out = "ok" /\ first = <<Value>>
=============================================================================
