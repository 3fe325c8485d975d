------------------------------ MODULE Compact ------------------------------
(***************************************************************************)
(* The compact codec on dynamic values: encode_ref / decode_ref and their  *)
(* helpers in rust/phon-engine/src/compact.rs.                             *)
(*                                                                         *)
(* Schemas.  A reference is an id without type arguments; Kind(ref) is     *)
(* what compact::resolve returns.  A variant's payload is written as a     *)
(* kind too ("unit", "newtype", or the "tuple" and "struct" of a kind      *)
(* proper), because the payload walks repeat the kind walks.  Field and    *)
(* variant names are unique within a schema.                               *)
(***************************************************************************)
EXTENDS Wire, FiniteSets, TLC, SequencesExt

CONSTANTS
  Registry,      \* schema id -> kind
  MaxDepth,      \* MAX_DEPTH
  MinWireDepth   \* MIN_WIRE_DEPTH

Primitives == {"unit", "bool", "u8", "u64", "char", "string", "bytes"}

Known == Registry    \* a definition without parameters is evaluated once
Kind(ref) == CASE ref \in Primitives -> [k |-> "primitive", p |-> ref]
               [] ref \in DOMAIN Known -> Known[ref]
               [] OTHER -> [k |-> "unknown"]

(* The names and references of fields, in their order.                      *)
Names(fields) == [i \in DOMAIN fields |-> fields[i].name]
Refs(fields) == [i \in DOMAIN fields |-> fields[i].schema]

(* min_wire_size_ref: 0 for an element that provably encodes to nothing.    *)
RECURSIVE ZeroSized(_, _)
ZeroSized(ref, depth) ==
  LET k == Kind(ref) IN
  /\ depth <= MinWireDepth
  /\ CASE k.k = "primitive" -> k.p = "unit"
       [] k.k = "struct" -> \A f \in Range(k.fields) : ZeroSized(f.schema, depth + 1)
       [] k.k = "tuple" -> \A e \in Range(k.elements) : ZeroSized(e, depth + 1)
       [] k.k \in {"array", "semantic"} -> ZeroSized(k.element, depth + 1)
       [] OTHER -> FALSE
MinWire(ref) == IF ZeroSized(ref, 0) THEN 0 ELSE 1

VariantsAt(variants, index) == SelectSeq(variants, LAMBDA v : v.index = index)

Repeat(x, n) == [i \in 1..n |-> x]
Alternate(x, y, n) == [i \in 1..2 * n |-> IF i % 2 = 1 THEN x ELSE y]

RECURSIVE DecodeRef(_, _, _, _), DecodeKind(_, _, _, _), DecodeAll(_, _, _, _, _, _)

DecodeRef(ref, b, p, depth) ==
  IF depth > MaxDepth THEN Err("depth")
  ELSE LET k == Kind(ref)
       IN DecodeKind(k, b, p, IF k.k = "primitive" THEN depth ELSE depth + 1)

(* The loops of decode_kind: the references in order, `unique' for a set.   *)
DecodeAll(refs, unique, b, p, depth, done) ==
  IF Len(done) = Len(refs) THEN Ok(done, p)
  ELSE Then(DecodeRef(refs[Len(done) + 1], b, p, depth), LAMBDA x :
         IF unique /\ x.v \in Range(done) THEN Malformed
         ELSE DecodeAll(refs, unique, b, x.p, depth, Append(done, x.v)))

DecodeKind(k, b, p, depth) ==
  LET All(refs, unique, at) == DecodeAll(refs, unique, b, at, depth, <<>>) IN
  CASE k.k = "primitive" -> DecodePrimitive(k.p, b, p)
    [] k.k = "unit" -> Ok(Null, p)
    [] k.k \in {"newtype", "semantic"} -> DecodeRef(k.element, b, p, depth)
    [] k.k = "struct" ->
         OnOk(All(Refs(k.fields), FALSE, p), LAMBDA s : Object(Names(k.fields), s))
    [] k.k = "tuple" -> OnOk(All(k.elements, FALSE, p), Array)
    [] k.k \in {"list", "set"} ->
         Then(ReadLen(MinWire(k.element), b, p), LAMBDA n :
           OnOk(All(Repeat(k.element, n.v), k.k = "set", n.p), Array))
    [] k.k = "array" ->
         Then(FixedCount(k.dimensions, MinWire(k.element), b, p), LAMBDA n :
           OnOk(All(Repeat(k.element, n.v), FALSE, n.p), Array))
    [] k.k = "map" ->
         Then(ReadLen(1, b, p), LAMBDA n :
           Then(All(Alternate(k.key, k.value, n.v), FALSE, n.p), MapOf))
    [] k.k = "option" ->
         Then(ReadCell(b, p), LAMBDA c :
           CASE c.v = 0 -> Ok(Null, c.p)
             [] c.v = 1 -> DecodeRef(k.element, b, c.p, depth)
             [] OTHER -> Malformed)
    [] k.k = "enum" ->
         Then(ReadCell(b, p), LAMBDA c :
           IF VariantsAt(k.variants, c.v) = <<>> THEN Malformed
           ELSE LET v == Head(VariantsAt(k.variants, c.v))
                IN OnOk(DecodeKind(v.payload, b, c.p, depth),
                        LAMBDA x : Object(<<v.name>>, <<x>>)))
    [] k.k = "dynamic" -> ReadValue(b, p)
    [] OTHER -> Err("unsupported")

(* compact::from_bytes                                                      *)
Decode(root, b) == Whole(DecodeRef(root, b, 0, 0), b)

EncodePrimitive(v, prim) ==
  CASE prim = "unit" /\ v = Null -> Ok(<<>>, 0)
    [] prim = "bool" /\ v[1] = "bool" -> Ok(<<v[2]>>, 0)
    [] prim = "u8" /\ v[1] = "number" -> Ok(<<v[2] % Width>>, 0)
    [] prim = "char" /\ v[1] = "char" -> Ok(<<v[2]>>, 0)
    [] prim = "bytes" /\ v[1] = "bytes" -> Ok(<<v[2]>>, 0)
    [] prim = "string" /\ v[1] = "string" ->
         Ok(<<CHOOSE c \in 0..Width - 1 : Text(c) = v>>, 0)
    [] OTHER -> Err("mismatch")

(* Mutant of Tag: the position is written where the declared index belongs. *)
Tag_Position(variants, i) == i - 1

(* What write_u32(out, variant.index) writes for the i-th variant.          *)
Tag(variants, i) == variants[i].index

RECURSIVE EncodeKind(_, _), EncodeAll(_, _)

EncodeAll(refs, values) ==
  IF refs = <<>> THEN Ok(<<>>, 0)
  ELSE Then(EncodeKind(Kind(Head(refs)), Head(values)), LAMBDA x :
         OnOk(EncodeAll(Tail(refs), Tail(values)), LAMBDA r : x.v \o r))

EncodeKind(k, v) ==
  LET Counted(refs, values, n) == OnOk(EncodeAll(refs, values), LAMBDA r : <<n>> \o r) IN
  CASE k.k = "primitive" -> EncodePrimitive(v, k.p)
    [] k.k = "unit" -> Ok(<<>>, 0)
    [] k.k \in {"newtype", "semantic"} -> EncodeKind(Kind(k.element), v)
    [] k.k = "struct" /\ v[1] = "object" ->
         IF Range(Names(k.fields)) \subseteq DOMAIN v[2]
         THEN EncodeAll(Refs(k.fields), [i \in DOMAIN k.fields |-> v[2][k.fields[i].name]])
         ELSE Err("mismatch")
    [] k.k = "tuple" /\ v[1] = "array" ->
         IF Len(v[2]) = Len(k.elements) THEN EncodeAll(k.elements, v[2]) ELSE Err("mismatch")
    [] k.k \in {"list", "set"} /\ v[1] = "array" ->
         Counted(Repeat(k.element, Len(v[2])), v[2], Len(v[2]))
    [] k.k = "array" /\ v[1] = "array" ->
         IF Overflows(k.dimensions) THEN Malformed
         ELSE IF Len(v[2]) = Product(k.dimensions)
         THEN EncodeAll(Repeat(k.element, Len(v[2])), v[2]) ELSE Err("mismatch")
    [] k.k = "map" /\ v[1] = "object" ->
         LET keys == SetToSeq(DOMAIN v[2])
             n == Len(keys)
             flat == [i \in 1..2 * n |-> LET key == keys[(i + 1) \div 2]
                                         IN IF i % 2 = 1 THEN <<"string", key>> ELSE v[2][key]]
         IN Counted(Alternate(k.key, k.value, n), flat, n)
    [] k.k = "option" ->
         IF v = Null THEN Ok(<<0>>, 0)
         ELSE OnOk(EncodeKind(Kind(k.element), v), LAMBDA r : <<1>> \o r)
    [] k.k = "enum" /\ v[1] = "object" ->
         LET at == {i \in DOMAIN k.variants : DOMAIN v[2] = {k.variants[i].name}}
             i == CHOOSE i \in at : TRUE
         IN IF at = {} THEN Err("mismatch")
            ELSE OnOk(EncodeKind(k.variants[i].payload, v[2][k.variants[i].name]),
                      LAMBDA r : <<Tag(k.variants, i)>> \o r)
    [] k.k = "dynamic" -> EncodePrimitive(v, "u8")
    [] OTHER -> Err("mismatch")

(* compact::to_bytes                                                        *)
Encode(root, v) == EncodeKind(Kind(root), v)

=============================================================================
