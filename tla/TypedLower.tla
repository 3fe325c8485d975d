----------------------------- MODULE TypedLower -----------------------------
(***************************************************************************)
(* The schema of a Rust type, its descriptor, and their lowering to memory *)
(* programs: Builder and build_descriptor of rust/phon/src/derive.rs,      *)
(* lower_typed and lower_decode of rust/phon-engine/src/typed.rs, and skip *)
(* of rust/phon-ir/src/ir.rs.                                              *)
(*                                                                         *)
(* A shape is a Rust type.  It has a kind like a schema's, with shapes for *)
(* references, or is a pointer, a borrowed string or an opaque field, whose*)
(* schema is that of what it holds, or an integer as wide as the platform's*)
(* pointers.  A shape that has a schema of its own, primitives included,   *)
(* has the schema's name.  Sizes are in slots, fields in declaration order.*)
(***************************************************************************)
EXTENDS CompatPlan

CONSTANT Shapes      \* name -> shape

ShapeOf == Shapes    \* a definition without parameters is evaluated once
Shape(s) == ShapeOf[s]

(* ref_of: pointers and borrowing are invisible to the schema.              *)
RECURSIVE RefOf(_)
RefTo(s, k) ==
  CASE k.k \in {"box", "ref"} -> RefOf(k.element)
    [] k.k = "borrowed" -> "string"
    [] k.k = "opaque" -> "bytes"
    [] k.k = "native" -> "u64"
    [] OTHER -> s
RefOf(s) == RefTo(s, Shape(s))

(* field_default: a field has a default when its type is an option.         *)
HasDefault(s) == Shape(s).k = "option"

(* struct_kind, intern_*, variant_payload: the schema of a shape.           *)
SchemaFields(fields) ==
  [i \in DOMAIN fields |-> [name |-> fields[i].name, schema |-> RefOf(fields[i].schema),
                            required |-> ~HasDefault(fields[i].schema)]]
RECURSIVE SchemaKind(_)
SchemaKind(k) ==
  CASE k.k = "struct" -> [k |-> "struct", fields |-> SchemaFields(k.fields)]
    [] k.k = "tuple" -> [k |-> "tuple", elements |-> [i \in DOMAIN k.elements |-> RefOf(k.elements[i])]]
    [] k.k = "map" -> [k |-> "map", key |-> RefOf(k.key), value |-> RefOf(k.value)]
    [] k.k = "enum" ->
         [k |-> "enum",
          variants |-> [i \in DOMAIN k.variants |->
                          [name |-> k.variants[i].name, index |-> i - 1,
                           payload |-> SchemaKind(k.variants[i].payload)]]]
    [] k.k = "result" ->
         [k |-> "enum",
          variants |-> <<[name |-> "Ok", index |-> 0, payload |-> [k |-> "newtype", element |-> RefOf(k.ok)]],
                         [name |-> "Err", index |-> 1, payload |-> [k |-> "newtype", element |-> RefOf(k.err)]]>>]
    [] k.k = "array" -> [k |-> "array", element |-> RefOf(k.element), dimensions |-> k.dimensions]
    [] k.k \in {"list", "set", "option", "newtype"} -> [k |-> k.k, element |-> RefOf(k.element)]
    [] OTHER -> k

-----------------------------------------------------------------------------
(* Descriptors.                                                             *)

(* The payload of a variant is a record of its fields, as shapes.           *)
FieldShapes(k) ==
  CASE k.k = "struct" -> [i \in DOMAIN k.fields |-> k.fields[i].schema]
    [] k.k = "tuple" -> k.elements
    [] k.k = "newtype" -> <<k.element>>
    [] OTHER -> <<>>

RECURSIVE Size(_)
SizeOf(shapes) == FoldLeft(LAMBDA n, s : n + Size(s), 0, shapes)
SizeIn(k) ==
  CASE k.k = "primitive" -> IF k.p = "unit" THEN 0 ELSE 1
    [] k.k \in {"struct", "tuple"} -> SizeOf(FieldShapes(k))
    [] k.k = "array" -> Product(k.dimensions) * Size(k.element)
    [] k.k = "enum" ->
         1 + LET sizes == {SizeOf(FieldShapes(v.payload)) : v \in Range(k.variants)}
             IN CHOOSE n \in sizes : \A x \in sizes : x <= n
    [] OTHER -> 1
Size(s) == SizeIn(Shape(s))

(* phon_schema::identity::recursive_schema_ids: the ids on reference cycles.*)
RECURSIVE SchemaRefs(_), Reachable(_)
SchemaRefs(k) ==
  CASE k.k \in {"primitive", "unit", "dynamic", "unknown"} -> {}
    [] k.k = "map" -> {k.key, k.value}
    [] k.k = "tuple" -> Range(k.elements)
    [] k.k = "struct" -> Range(Refs(k.fields))
    [] k.k = "enum" -> UNION {SchemaRefs(v.payload) : v \in Range(k.variants)}
    [] OTHER -> {k.element}
Reachable(ids) ==
  LET next == ids \cup UNION {SchemaRefs(Kind(i)) : i \in ids}
  IN IF next = ids THEN ids ELSE Reachable(next)
Cyclic(id) == id \in Reachable(SchemaRefs(Kind(id)))
RecursiveSchemaIds(root) == {id \in Reachable({root}) : Cyclic(id)}

(* build_descriptor with RecCtx::enter and exit: every use of a recursive   *)
(* schema is a stand-in, and its body is a block.                           *)
RECURSIVE Descriptor(_), Body(_)
Descriptor(s) ==
  IF RefOf(s) = s /\ Cyclic(s) THEN [access |-> "recurse", schema |-> s, size |-> Size(s)] ELSE Body(s)

Record(k, first) ==
  [fields |-> [i \in DOMAIN FieldShapes(k) |->
                 [offset |-> first + SizeOf(SubSeq(FieldShapes(k), 1, i - 1)),
                  descriptor |-> Descriptor(FieldShapes(k)[i]),
                  default |-> HasDefault(FieldShapes(k)[i])]]]

Access(k, schema, size) ==
  LET With(access, facts) == [access |-> access, schema |-> schema, size |-> size] @@ facts
      Plain(access) == With(access, <<>>)
  IN
  CASE k.k = "primitive" -> Plain(IF k.p = "string" THEN "text" ELSE "scalar")
    [] k.k = "native" -> Plain("native")
    [] k.k = "borrowed" -> Plain("borrow")
    [] k.k \in {"opaque", "dynamic"} -> Plain(k.k)
    [] k.k \in {"box", "ref"} ->
         With("pointer", [pointee |-> Descriptor(k.element), retain |-> k.k = "ref"])
    [] k.k \in {"struct", "tuple"} -> With("record", Record(k, 0))
    [] k.k \in {"list", "set", "option"} -> With(k.k, [element |-> Descriptor(k.element)])
    [] k.k = "array" -> With("array", [element |-> Descriptor(k.element), count |-> Product(k.dimensions)])
    [] k.k = "map" -> With("map", [key |-> Descriptor(k.key), value |-> Descriptor(k.value)])
    [] k.k = "result" -> With("result", [ok |-> Descriptor(k.ok), err |-> Descriptor(k.err)])
    [] k.k = "enum" ->
         With("enum", [variants |-> [i \in DOMAIN k.variants |->
                         [selector |-> k.variants[i].selector, record |-> Record(k.variants[i].payload, 1)]]])

Body(s) == Access(Shape(s), RefOf(s), Size(s))

DescriptorBlocks(root) == [id \in RecursiveSchemaIds(root) |-> Body(id)]

-----------------------------------------------------------------------------
(* Lowering: a program, or Incompatible.                                    *)
Ops(ops) == [ok |-> TRUE, ops |-> ops]
Joined(parts) ==
  IF \A i \in DOMAIN parts : parts[i].ok
  THEN Ops(FlattenSeq([i \in DOMAIN parts |-> parts[i].ops])) ELSE Incompatible
Around(bodies, Wrap(_)) ==
  IF \A i \in DOMAIN bodies : bodies[i].ok
  THEN Ops(<<Wrap([i \in DOMAIN bodies |-> bodies[i].ops])>>) ELSE Incompatible

(* element_min_wire: 0 for an element that is read from no bytes at all.    *)
ElementMinWire(ops) == IF \A i \in DOMAIN ops : ops[i].op = "scalar" /\ ops[i].size = 0 THEN 0 ELSE 1

(* The parts of a descriptor that are lowered on their own, and where.      *)
Children(d, at) ==
  LET Child(role, child, place) == [role |-> role, descriptor |-> child, at |-> place] IN
  CASE d.access = "pointer" -> <<Child("self", d.pointee, 0)>>
    [] d.access \in {"option", "list", "set"} -> <<Child("element", d.element, 0)>>
    [] d.access = "map" -> <<Child("key", d.key, 0), Child("value", d.value, 0)>>
    [] d.access = "array" -> [i \in 1..d.count |-> Child("element", d.element, at + (i - 1) * d.element.size)]
    [] OTHER -> <<>>

(* What the two lowerings share, given the programs of the children.        *)
LowerShared(d, at, parts) ==
  CASE d.access = "scalar" -> Ops(<<[op |-> "scalar", offset |-> at, size |-> d.size]>>)
    [] d.access \in {"text", "borrow", "opaque", "dynamic"} -> Ops(<<[op |-> d.access, offset |-> at]>>)
    [] d.access = "array" -> Joined(parts)
    [] d.access = "pointer" ->
         Around(parts, LAMBDA b :
           [op |-> "pointer", offset |-> at, pointee |-> b[1], size |-> d.pointee.size, retain |-> d.retain])
    [] d.access = "option" ->
         Around(parts, LAMBDA b : [op |-> "option", offset |-> at, some |-> b[1], size |-> d.element.size])
    [] d.access = "list" ->
         Around(parts, LAMBDA b :
           [op |-> "seq", offset |-> at, minWire |-> ElementMinWire(b[1]), stride |-> d.element.size, body |-> b[1]])
    [] d.access = "set" ->
         Around(parts, LAMBDA b :
           [op |-> "set", offset |-> at, minWire |-> ElementMinWire(b[1]), size |-> d.element.size, body |-> b[1]])
    [] d.access = "map" ->
         Around(parts, LAMBDA b :
           [op |-> "map", offset |-> at, key |-> b[1], value |-> b[2],
            keySize |-> d.key.size, valueSize |-> d.value.size])

ResultOp(d, at, okArm, errArm, okIndex, errIndex) ==
  Around(<<okArm, errArm>>, LAMBDA b :
    [op |-> "result", offset |-> at, okIndex |-> okIndex, errIndex |-> errIndex, ok |-> b[1], err |-> b[2],
     okSize |-> d.ok.size, errSize |-> d.err.size])
EnumOp(at, payloads, wires, selectors, writerOnly) ==
  Around(payloads, LAMBDA b :
    [op |-> "enum", offset |-> at, writerOnly |-> writerOnly,
     variants |-> [i \in DOMAIN payloads |-> [wire |-> wires[i], selector |-> selectors[i], payload |-> b[i]]]])

(* lower_node: the program of one schema.                                   *)
RECURSIVE LowerNode(_, _)
(* Mutant of LowerRecord: a nested record's fields are put at the outer's.  *)
LowerRecord_Outer(record, at) ==
  Joined([i \in DOMAIN record.fields |-> LowerNode(record.fields[i].descriptor, record.fields[i].offset)])

LowerRecord(record, at) ==
  Joined([i \in DOMAIN record.fields |-> LowerNode(record.fields[i].descriptor, at + record.fields[i].offset)])
LowerNode(d, at) ==
  CASE d.access = "recurse" -> Ops(<<[op |-> "call", block |-> d.schema, offset |-> at]>>)
    [] d.access = "native" -> Ops(<<[op |-> "native", offset |-> at]>>)
    [] d.access = "record" -> LowerRecord(d, at)
    [] d.access = "result" -> ResultOp(d, at, LowerNode(d.ok, 0), LowerNode(d.err, 0), 0, 1)
    [] d.access = "enum" ->
         LET n == DOMAIN d.variants
         IN EnumOp(at, [i \in n |-> LowerRecord(d.variants[i].record, at)], [i \in n |-> i - 1],
                   [i \in n |-> d.variants[i].selector], {})
    [] OTHER ->
         LET parts == Children(d, at)
         IN LowerShared(d, at, [i \in DOMAIN parts |-> LowerNode(parts[i].descriptor, parts[i].at)])

(* skip_op carries neither fixed arrays nor semantic types.                 *)
Skippable(ref) == \A id \in Reachable({ref}) : Kind(id).k \notin {"array", "semantic", "unknown"}
RECURSIVE SkipOp(_)
SkipAll(refs) == [i \in DOMAIN refs |-> SkipOp(refs[i])]
SkipPayload(k) ==
  CASE k.k = "newtype" -> SkipAll(<<k.element>>)
    [] k.k = "tuple" -> SkipAll(k.elements)
    [] k.k = "struct" -> SkipAll(Refs(k.fields))
    [] OTHER -> <<>>
SkipOp(ref) ==
  LET k == Kind(ref) IN
  CASE k.k = "primitive" -> [s |-> "cells", count |-> IF k.p = "unit" THEN 0 ELSE 1]
    [] k.k = "dynamic" -> [s |-> "cells", count |-> 1]
    [] k.k \in {"struct", "tuple"} -> [s |-> "struct", fields |-> SkipPayload(k)]
    [] k.k = "enum" ->
         [s |-> "enum", arms |-> [i \in DOMAIN k.variants |->
                                    [wire |-> k.variants[i].index, fields |-> SkipPayload(k.variants[i].payload)]]]
    [] k.k \in {"list", "set"} -> [s |-> "seq", fields |-> SkipAll(<<k.element>>)]
    [] k.k = "map" -> [s |-> "seq", fields |-> SkipAll(<<k.key, k.value>>)]
    [] k.k = "option" -> [s |-> "option", some |-> SkipOp(k.element)]

(* phon_ir::ir::skip steps over a value and checks its counts and tags only.*)
RECURSIVE SkipWire(_, _, _), SkipSeq(_, _, _)
SkipSeq(ops, b, p) ==
  IF ops = <<>> THEN Ok(Null, p)
  ELSE Then(SkipWire(Head(ops), b, p), LAMBDA x : SkipSeq(Tail(ops), b, x.p))
SkipWire(op, b, p) ==
  CASE op.s = "cells" -> IF p + op.count <= Len(b) THEN Ok(Null, p + op.count) ELSE Malformed
    [] op.s = "struct" -> SkipSeq(op.fields, b, p)
    [] op.s = "seq" ->
         Then(ReadLen(1, b, p), LAMBDA n : SkipSeq(FlattenSeq(Repeat(op.fields, n.v)), b, n.p))
    [] op.s = "option" ->
         Then(ReadCell(b, p), LAMBDA c :
           CASE c.v = 0 -> Ok(Null, c.p)
             [] c.v = 1 -> SkipWire(op.some, b, c.p)
             [] OTHER -> Malformed)
    [] op.s = "enum" ->
         Then(ReadCell(b, p), LAMBDA c :
           LET arm == SelectSeq(op.arms, LAMBDA a : a.wire = c.v)
           IN IF arm = <<>> THEN Malformed ELSE SkipSeq(Head(arm).fields, b, c.p))

(* lower_decode_node: a writer's schema against the reader's descriptor.    *)
RECURSIVE LowerDecodeNode(_, _, _)

(* tuple_fields: a tuple is a record of fields named by position.           *)
NamedFields(k) ==
  IF k.k = "struct" THEN k.fields ELSE [i \in DOMAIN k.elements |-> [name |-> i, schema |-> k.elements[i]]]

(* lower_decode_record and lower_decode_variant_struct.                     *)
LowerDecodeFields(w, r, record, at) ==
  LET missing == ReaderOnly(w, r)
      Field(j) == record.fields[j]
      Step(i) ==
        IF Matches(w, r)[i] # {}
        THEN LET j == CHOOSE j \in Matches(w, r)[i] : TRUE
             IN LowerDecodeNode(w[i].schema, Field(j).descriptor, at + Field(j).offset)
        ELSE IF Skippable(w[i].schema) THEN Ops(<<[op |-> "skip", skip |-> SkipOp(w[i].schema)]>>)
        ELSE Incompatible
      Fill(j) ==
        IF Field(j).default THEN Ops(<<[op |-> "default", offset |-> at + Field(j).offset]>>) ELSE Incompatible
  IN Joined([i \in DOMAIN w |-> Step(i)] \o [i \in DOMAIN missing |-> Fill(missing[i])])

(* lower_decode_payload                                                     *)
LowerDecodePayload(w, r, record, at) ==
  IF w.k # r.k THEN Incompatible ELSE
  CASE w.k = "unit" -> Ops(<<>>)
    [] w.k = "struct" -> LowerDecodeFields(w.fields, r.fields, record, at)
    [] w.k = "newtype" ->
         LowerDecodeNode(w.element, record.fields[1].descriptor, at + record.fields[1].offset)
    [] w.k = "tuple" ->
         IF Len(w.elements) # Len(r.elements) THEN Incompatible
         ELSE Joined([i \in DOMAIN w.elements |->
                        LowerDecodeNode(w.elements[i], record.fields[i].descriptor, at + record.fields[i].offset)])

(* lower_decode_enum                                                        *)
LowerDecodeEnum(w, r, d, at) ==
  LET taken == Taken(w, r)
      Reader(t) == CHOOSE j \in Matches(w, r)[taken[t]] : TRUE
  IN EnumOp(at,
            [t \in DOMAIN taken |->
               LowerDecodePayload(w[taken[t]].payload, r[Reader(t)].payload, d.variants[Reader(t)].record, at)],
            [t \in DOMAIN taken |-> w[taken[t]].index],
            [t \in DOMAIN taken |-> d.variants[Reader(t)].selector],
            {w[i].index : i \in DOMAIN w \ Range(taken)})

(* lower_decode_result                                                      *)
LowerDecodeResult(w, d, at) ==
  LET Arm(name) == SelectSeq(w, LAMBDA v : v.name = name)
      Lowers(arm, reader) ==
        IF arm[1].payload.k # "newtype" THEN Incompatible ELSE LowerDecodeNode(arm[1].payload.element, reader, 0)
  IN IF <<>> \in {Arm("Ok"), Arm("Err")} THEN Incompatible
     ELSE ResultOp(d, at, Lowers(Arm("Ok"), d.ok), Lowers(Arm("Err"), d.err),
                   Arm("Ok")[1].index, Arm("Err")[1].index)

(* Mutant of KindsMeet: the dimensions of an array are not compared.        *)
KindsMeet_AnyArray(k, d) ==
  CASE d.access \in {"scalar", "native", "text", "borrow"} -> k = Kind(d.schema)
    [] d.access = "opaque" -> k = Kind("bytes")
    [] d.access = "record" -> k.k \in {"struct", "tuple"} /\ k.k = Kind(d.schema).k
    [] d.access = "result" -> k.k = "enum"
    [] d.access = "pointer" -> TRUE
    [] OTHER -> k.k = d.access

(* Which descriptors a writer's kind may meet, apart from its parts.        *)
KindsMeet(k, d) ==
  CASE d.access \in {"scalar", "native", "text", "borrow"} -> k = Kind(d.schema)
    [] d.access = "opaque" -> k = Kind("bytes")
    [] d.access = "array" -> k.k = "array" /\ k.dimensions = Kind(d.schema).dimensions
    [] d.access = "record" -> k.k \in {"struct", "tuple"} /\ k.k = Kind(d.schema).k
    [] d.access = "result" -> k.k = "enum"
    [] d.access = "pointer" -> TRUE
    [] OTHER -> k.k = d.access

LowerDecodeNode(writer, d, at) ==
  LET w == Kind(writer)
      r == Kind(d.schema)
      parts == Children(d, at)
      Part(child) == LowerDecodeNode(IF child.role = "self" THEN writer ELSE w[child.role], child.descriptor, child.at)
  IN CASE d.access = "recurse" -> Ops(<<[op |-> "call", block |-> d.schema, offset |-> at]>>)
       [] d.access # "recurse" /\ ~KindsMeet(w, d) -> Incompatible
       [] d.access = "native" -> Ops(<<[op |-> "scalar", offset |-> at, size |-> 1]>>)
       [] d.access = "record" -> LowerDecodeFields(NamedFields(w), NamedFields(r), d, at)
       [] d.access = "enum" -> LowerDecodeEnum(w.variants, r.variants, d, at)
       [] d.access = "result" -> LowerDecodeResult(w.variants, d, at)
       [] OTHER -> LowerShared(d, at, [i \in DOMAIN parts |-> Part(parts[i])])

(* lower_typed and lower_decode: the program of the root and of each block. *)
Program(root, bodies, shape) ==
  [ok |-> root.ok /\ \A id \in DOMAIN bodies : bodies[id].ok,
   size |-> Size(shape),
   program |-> IF root.ok THEN root.ops ELSE <<>>,
   blocks |-> [id \in DOMAIN bodies |-> IF bodies[id].ok THEN bodies[id].ops ELSE <<>>]]
LowerTyped(shape) ==
  LET blocks == DescriptorBlocks(RefOf(shape))
  IN Program(LowerNode(Descriptor(shape), 0), [id \in DOMAIN blocks |-> LowerNode(blocks[id], 0)], shape)
LowerDecode(writer, shape) ==
  LET blocks == DescriptorBlocks(RefOf(shape))
  IN Program(LowerDecodeNode(writer, Descriptor(shape), 0),
             [id \in DOMAIN blocks |-> LowerDecodeNode(id, blocks[id], 0)], shape)

=============================================================================
