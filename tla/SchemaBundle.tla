----------------------------- MODULE SchemaBundle -----------------------------
(***************************************************************************)
(* A bundle of schemas with a shared string table: schema_bundle_to_bytes, *)
(* schema_bundle_from_bytes and the checks both make, in                   *)
(* rust/phon-schema/src/schema_bundle.rs.                                  *)
(*                                                                         *)
(* resolve_ids comes from another crate: it hashes the content of every    *)
(* schema, with the ids its references have, into the id the schema should *)
(* state.  Distinct contents get distinct ids, so what the checks learn    *)
(* from it is whether each schema is Genuine.                              *)
(***************************************************************************)
EXTENDS SchemaForms

CONSTANTS
  Genuine,       \* the schemas that state the id of their content
  MaxTotal       \* SchemaBundleLimits::max_total_bytes, in cells

LOCAL Ascending(s) == \A i \in 1..Len(s) - 1 : s[i] < s[i + 1]
Ids(schemas) == [i \in 1..Len(schemas) |-> schemas[i][1]]
FieldRefs(fields) == {f[2] : f \in Range(fields)}
PayloadRefs(payload) ==
  CASE payload[1] = "Unit" -> {}
    [] payload[1] = "Newtype" -> {payload[2]}
    [] payload[1] = "Tuple" -> Range(payload[2])
    [] OTHER -> FieldRefs(payload[2])

(* The references validate_kind visits.                                     *)
KindRefs(kind) ==
  CASE kind[1] = "Struct" -> FieldRefs(kind[3])
    [] kind[1] = "Enum" -> UNION {PayloadRefs(v[3]) : v \in Range(kind[3])}
    [] kind[1] = "Tuple" -> Range(kind[2])
    [] kind[1] \in {"List", "Set", "Option", "Array", "Tensor"} -> {kind[2]}
    [] kind[1] = "Channel" -> {kind[3]}
    [] kind[1] = "Map" -> {kind[2], kind[3]}
    [] kind[1] = "External" -> Range(kind[3])
    [] kind[1] = "Semantic" -> Range(kind[3]) \cup {kind[4]}
    [] OTHER -> {}

(* A variable is declared; a primitive has no arguments; a member gets as   *)
(* many as it has parameters; nothing else may be named.                    *)
RECURSIVE ValidRef(_, _, _)
ValidRef(ref, params, arities) ==
  IF ref[1] = "Var" THEN ref[2] \in params
  ELSE /\ IF ref[2] \in Primitives THEN ref[3] = <<>>
          ELSE ref[2] \in DOMAIN arities /\ arities[ref[2]] = Len(ref[3])
       /\ \A arg \in Range(ref[3]) : ValidRef(arg, params, arities)

ValidKind(kind, params, arities) ==
  /\ kind[1] = "Semantic" => kind[2] \in Qualified
  /\ \A ref \in KindRefs(kind) : ValidRef(ref, params, arities)

ValidShapes(schemas) ==
  LET Arity(id) == Len((CHOOSE s \in Range(schemas) : s[1] = id)[2])
      arities == [id \in Range(Ids(schemas)) |-> Arity(id)]
  IN \A schema \in Range(schemas) :
       LET params == Range(schema[2])
       IN /\ Cardinality(params) = Len(schema[2])
          /\ 0 \notin params
          /\ ValidKind(schema[3], params, arities)

ValidIds(schemas) == ValidShapes(schemas) /\ Range(schemas) \subseteq Genuine
-----------------------------------------------------------------------------
Header == <<<<"magic", TRUE>>, <<"version", TRUE>>, <<"labels", TRUE>>>>

(* The message with a given table and order of members, each under a label  *)
(* (that of the table is part of the header): the canonical one has every   *)
(* name in ascending order, once, and the members by id.                    *)
Message(table, schemas) ==
  Header \o Written(InternedWrites, "strings", table)
         \o <<<<"labels", TRUE>>>>
         \o Interned(Written(InternedWrites, "schemas", schemas), table)

SchemaBundleToBytes(schemas) ==
  LET sorted == SortSeq(schemas, LAMBDA a, b : a[1] < b[1])
      names == UNION {Collected(s) : s \in Range(schemas)}
      m == Message(SetToSortSeq(names, <), sorted)
  IN IF \/ ~IsInjective(Ids(sorted))
        \/ ~ValidIds(sorted)
        \/ <<"index", Missing>> \in Range(m)
     THEN Err("malformed")
     ELSE [ok |-> TRUE, m |-> m, schemas |-> sorted]

(* Mutant of Finished: names that no member uses are let through.           *)
Finished_Unused(m, st) ==
  CASE ~st.ok -> st
    [] st.p # Len(m) -> Err("trailing")
    [] \/ ~Ascending(Ids(st.v[2]))
       \/ ~ValidIds(st.v[2]) -> Err("malformed")
    [] OTHER -> [ok |-> TRUE, schemas |-> st.v[2], owned |-> st.owned]

(* What is checked once everything is read.                                 *)
Finished(m, st) ==
  CASE ~st.ok -> st
    [] st.p # Len(m) -> Err("trailing")
    [] \/ Cardinality(st.used) # Len(st.v[1])
       \/ ~Ascending(Ids(st.v[2]))
       \/ ~ValidIds(st.v[2]) -> Err("malformed")
    [] OTHER -> [ok |-> TRUE, schemas |-> st.v[2], owned |-> st.owned]

(* A count that is read, fits what is left and stays within a limit.        *)
Counted(m, p, limit) ==
  CASE p >= Len(m) -> Err("eof")
    [] m[p + 1][1] # "count" -> Err("malformed")
    [] m[p + 1][2] > Len(m) - p - 1 -> Err("length")
    [] m[p + 1][2] > limit -> Err("limit")
    [] OTHER -> [ok |-> TRUE]

(* The string table: copied, charged, without an empty or a repeated name.  *)
ReadTable(m) ==
  LET counted == Counted(m, Len(Header), MaxStrings)
      texts == [InternedForm(<<>>) EXCEPT !.inline = TRUE]
      n == m[Len(Header) + 1][2]
      st == ReadMany(texts, m, "name", n, [Start EXCEPT !.p = Len(Header) + 1], 0)
  IN IF ~counted.ok THEN counted
     ELSE IF st.ok /\ (0 \in Range(st.v) \/ ~Ascending(st.v)) THEN Err("malformed") ELSE st

ReadMembers(m, table) ==
  LET form == InternedForm(table.v)
      named == Read(form, m, "labels", table, 0)
      counted == Counted(m, named.p, MaxSchemas)
      st == ReadMany(form, m, "schema", m[named.p + 1][2],
                     [named EXCEPT !.v = <<>>, !.p = @ + 1], 0)
  IN IF ~named.ok THEN named
     ELSE IF ~counted.ok THEN counted
     ELSE IF st.ok THEN [st EXCEPT !.v = <<table.v, st.v>>] ELSE st

SchemaBundleFromBytes(m) ==
  IF Len(m) > MaxTotal THEN Err("limit")
  ELSE IF ~IsPrefix(Header, m) THEN Err("malformed")
  ELSE LET table == ReadTable(m)
       IN IF ~table.ok THEN table ELSE Finished(m, ReadMembers(m, table))
=============================================================================
