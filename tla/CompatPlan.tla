----------------------------- MODULE CompatPlan -----------------------------
(***************************************************************************)
(* The compatibility planner of rust/phon-engine/src/plan.rs with the      *)
(* matching rules of compat.rs: build_plan turns a writer and a reader     *)
(* schema into a tree of nodes, lower_canonical flattens the tree into the *)
(* stack program the interpreter runs, and exec walks the tree.            *)
(*                                                                         *)
(* `recursive' is the set recursive_schema_ids(reader) computed, which     *)
(* module RecursiveIds models.  A variant's payload plan is a node too,    *)
(* "null" for a unit variant and "newtype" for a newtype one.              *)
(***************************************************************************)
EXTENDS Compact

Call(id) == [n |-> "call", block |-> id]

(* RecCtx, and what the planning functions return.                          *)
Context(recursive) == [recursive |-> recursive, blocks |-> <<>>, building |-> {}]
Planned(node, rec) == [ok |-> TRUE, node |-> node, rec |-> rec]
Incompatible == [ok |-> FALSE]
OnPlanned(res, F(_)) == IF res.ok THEN Planned(F(res.node), res.rec) ELSE res

(* Mutant of Matches: fields are matched by position.                       *)
Matches_ByPosition(w, r) ==
  [i \in DOMAIN w |-> {i} \cap DOMAIN r]

(* match_fields / match_variants: for each writer entry, the reader entry   *)
(* of the same name, if there is one.                                       *)
Matches(w, r) ==
  [i \in DOMAIN w |-> {j \in DOMAIN r : r[j].name = w[i].name}]

ReaderOnly(w, r) ==
  SelectSeq([j \in DOMAIN r |-> j], LAMBDA j : \A i \in DOMAIN w : j \notin Matches(w, r)[i])
Taken(w, r) == SelectSeq([i \in DOMAIN w |-> i], LAMBDA i : Matches(w, r)[i] # {})
Partner(w, r, i) == r[CHOOSE j \in Matches(w, r)[i] : TRUE]

(* Mutant of CanDefault: a required field is filled like any other.         *)
CanDefault_Always(field) == TRUE

CanDefault(field) == ~field.required

StructNode(w, r, nodes) ==
  LET taken == Taken(w, r) IN
  [n |-> "struct",
   steps |-> [i \in DOMAIN w |->
                IF Matches(w, r)[i] = {} THEN [take |-> FALSE, writer |-> w[i].schema]
                ELSE [take |-> TRUE, reader |-> Partner(w, r, i).name,
                      node |-> nodes[CHOOSE t \in DOMAIN taken : taken[t] = i]]],
   defaults |-> [d \in DOMAIN ReaderOnly(w, r) |-> r[ReaderOnly(w, r)[d]].name]]

(* A later writer variant with the same index replaces an earlier one.      *)
EnumNode(w, r, nodes) ==
  LET taken == Taken(w, r)
      Arm(t) == [reader |-> Partner(w, r, taken[t]).name, payload |-> nodes[t]]
      At(idx) == {t \in DOMAIN taken : w[taken[t]].index = idx}
  IN [n |-> "enum",
      arms |-> [idx \in {w[taken[t]].index : t \in DOMAIN taken} |->
                  Arm(CHOOSE t \in At(idx) : \A u \in At(idx) : u <= t)]]

RECURSIVE PlanRef(_, _, _, _), PlanRefs(_, _, _, _), PlanKinds(_, _, _, _), PlanKind(_, _, _, _)

(* plan_ref: a recursive reader schema is planned once, into a block.       *)
PlanRef(w, r, rec, depth) ==
  IF depth > MaxDepth THEN Incompatible
  ELSE IF r \notin rec.recursive THEN PlanKind(Kind(w), Kind(r), rec, depth)
  ELSE IF r \in DOMAIN rec.blocks \cup rec.building THEN Planned(Call(r), rec)
  ELSE Then(PlanKind(Kind(w), Kind(r), [rec EXCEPT !.building = @ \cup {r}], depth), LAMBDA body :
         Planned(Call(r), [body.rec EXCEPT !.building = @ \ {r},
                                           !.blocks = r :> body.node @@ @]))

(* The loops over pairs: each plan starts from the context the last left.   *)
PlanRefs(ws, rs, rec, depth) ==
  IF ws = <<>> THEN Planned(<<>>, rec)
  ELSE Then(PlanRef(Head(ws), Head(rs), rec, depth), LAMBDA x :
         OnPlanned(PlanRefs(Tail(ws), Tail(rs), x.rec, depth), LAMBDA s : <<x.node>> \o s))

PlanKinds(ws, rs, rec, depth) ==
  IF ws = <<>> THEN Planned(<<>>, rec)
  ELSE Then(PlanKind(Head(ws), Head(rs), rec, depth), LAMBDA x :
         OnPlanned(PlanKinds(Tail(ws), Tail(rs), x.rec, depth), LAMBDA s : <<x.node>> \o s))

(* plan_kind, plan_struct, plan_enum and plan_payload.                      *)
PlanKind(w, r, rec, depth) ==
  LET Parts(ws, rs) == PlanRefs(ws, rs, rec, depth + 1)
      Part(F(_)) == OnPlanned(Parts(<<w.element>>, <<r.element>>), LAMBDA s : F(s[1]))
  IN
  IF w.k # r.k THEN Incompatible ELSE
  CASE w.k = "primitive" ->
         IF w.p = r.p THEN Planned([n |-> "scalar", p |-> w.p], rec) ELSE Incompatible
    [] w.k = "unit" -> Planned([n |-> "null"], rec)
    [] w.k = "dynamic" -> Planned([n |-> "dynamic"], rec)
    [] w.k = "newtype" -> Part(LAMBDA x : [n |-> "newtype", element |-> x])
    [] w.k = "option" -> Part(LAMBDA x : [n |-> "option", element |-> x])
    [] w.k \in {"list", "set"} ->
         Part(LAMBDA x : [n |-> "seq", set |-> w.k = "set", minWire |-> MinWire(w.element),
                          element |-> x])
    [] w.k = "array" ->
         IF w.dimensions # r.dimensions THEN Incompatible
         ELSE Part(LAMBDA x : [n |-> "array", dimensions |-> w.dimensions,
                               minWire |-> MinWire(w.element), element |-> x])
    [] w.k = "map" ->
         OnPlanned(Parts(<<w.key, w.value>>, <<r.key, r.value>>),
                   LAMBDA s : [n |-> "map", key |-> s[1], value |-> s[2]])
    [] w.k = "tuple" ->
         IF Len(w.elements) # Len(r.elements) THEN Incompatible
         ELSE OnPlanned(Parts(w.elements, r.elements), LAMBDA s : [n |-> "tuple", elements |-> s])
    [] w.k = "struct" ->
         LET taken == Taken(w.fields, r.fields) IN
         IF \E j \in Range(ReaderOnly(w.fields, r.fields)) : ~CanDefault(r.fields[j])
         THEN Incompatible
         ELSE OnPlanned(Parts([t \in DOMAIN taken |-> w.fields[taken[t]].schema],
                              [t \in DOMAIN taken |-> Partner(w.fields, r.fields, taken[t]).schema]),
                        LAMBDA s : StructNode(w.fields, r.fields, s))
    [] w.k = "enum" ->
         LET taken == Taken(w.variants, r.variants) IN
         OnPlanned(PlanKinds([t \in DOMAIN taken |-> w.variants[taken[t]].payload],
                             [t \in DOMAIN taken |-> Partner(w.variants, r.variants, taken[t]).payload],
                             rec, depth),
                   LAMBDA s : EnumNode(w.variants, r.variants, s))
    [] OTHER -> Incompatible

BuildPlan(w, r, recursive) == PlanRef(w, r, Context(recursive), 0)

RECURSIVE Lower(_)
LowerAll(nodes) == FlattenSeq([i \in DOMAIN nodes |-> Lower(nodes[i])])

(* lower_canonical_node, _struct and _payload.                              *)
Lower(node) ==
  CASE node.n \in {"scalar", "dynamic", "null", "call"} -> <<[op |-> node.n, arg |-> node]>>
    [] node.n = "newtype" -> Lower(node.element)
    [] node.n = "struct" ->
         LET takes == SelectSeq(node.steps, LAMBDA s : s.take) IN
         FlattenSeq([i \in DOMAIN node.steps |->
                       LET s == node.steps[i]
                       IN IF s.take THEN Lower(s.node) ELSE <<[op |-> "skip", writer |-> s.writer]>>])
           \o [i \in DOMAIN node.defaults |-> [op |-> "null"]]
           \o <<[op |-> "object",
                 keys |-> [i \in DOMAIN takes |-> takes[i].reader] \o node.defaults]>>
    [] node.n = "tuple" ->
         LowerAll(node.elements) \o <<[op |-> "array", count |-> Len(node.elements)]>>
    [] node.n = "enum" ->
         <<[op |-> "enum", arms |-> [i \in DOMAIN node.arms |->
              [reader |-> node.arms[i].reader, payload |-> Lower(node.arms[i].payload)]]]>>
    [] node.n = "seq" ->
         <<[op |-> "seq", set |-> node.set, minWire |-> node.minWire, body |-> Lower(node.element)]>>
    [] node.n = "array" ->
         <<[op |-> "fixed", dimensions |-> node.dimensions, minWire |-> node.minWire,
            body |-> Lower(node.element)]>>
    [] node.n = "map" -> <<[op |-> "map", key |-> Lower(node.key), value |-> Lower(node.value)]>>
    [] node.n = "option" -> <<[op |-> "option", some |-> Lower(node.element)]>>

(* CanonicalValueProgram: the program of the root and one per block.        *)
LowerBlocks(blocks) == [id \in DOMAIN blocks |-> Lower(blocks[id])]

RECURSIVE Exec(_, _, _, _, _), ExecAll(_, _, _, _, _, _, _), ExecSteps(_, _, _, _, _, _)

ExecAll(nodes, unique, b, p, blocks, depth, done) ==
  IF Len(done) = Len(nodes) THEN Ok(done, p)
  ELSE Then(Exec(nodes[Len(done) + 1], b, p, blocks, depth), LAMBDA x :
         IF unique /\ x.v \in Range(done) THEN Malformed
         ELSE ExecAll(nodes, unique, b, x.p, blocks, depth, Append(done, x.v)))

(* The loop of exec_struct: what a Skip reads is dropped.                   *)
ExecSteps(steps, b, p, blocks, depth, done) ==
  IF steps = <<>> THEN Ok(done, p)
  ELSE LET s == Head(steps) IN
       Then(IF s.take THEN Exec(s.node, b, p, blocks, depth) ELSE DecodeRef(s.writer, b, p, depth),
            LAMBDA x : ExecSteps(Tail(steps), b, x.p, blocks, depth,
                                 IF s.take THEN Append(done, x.v) ELSE done))

(* exec, exec_struct and exec_payload.                                      *)
Exec(node, b, p, blocks, depth) ==
  LET All(nodes, unique, at) == ExecAll(nodes, unique, b, at, blocks, depth + 1, <<>>) IN
  IF depth > MaxDepth THEN Err("depth") ELSE
  CASE node.n = "scalar" -> DecodePrimitive(node.p, b, p)
    [] node.n = "dynamic" -> ReadValue(b, p)
    [] node.n = "null" -> Ok(Null, p)
    [] node.n = "call" ->
         IF node.block \in DOMAIN blocks THEN Exec(blocks[node.block], b, p, blocks, depth + 1)
         ELSE Malformed
    [] node.n = "newtype" -> Exec(node.element, b, p, blocks, depth + 1)
    [] node.n = "struct" ->
         LET takes == SelectSeq(node.steps, LAMBDA s : s.take)
             names == [i \in DOMAIN takes |-> takes[i].reader] \o node.defaults
         IN OnOk(ExecSteps(node.steps, b, p, blocks, depth + 1, <<>>),
                 LAMBDA s : Object(names, s \o Repeat(Null, Len(node.defaults))))
    [] node.n = "tuple" -> OnOk(All(node.elements, FALSE, p), Array)
    [] node.n = "seq" ->
         Then(ReadLen(node.minWire, b, p), LAMBDA n :
           OnOk(All(Repeat(node.element, n.v), node.set, n.p), Array))
    [] node.n = "array" ->
         Then(FixedCount(node.dimensions, node.minWire, b, p), LAMBDA n :
           OnOk(All(Repeat(node.element, n.v), FALSE, n.p), Array))
    [] node.n = "map" ->
         Then(ReadLen(1, b, p), LAMBDA n :
           Then(All(Alternate(node.key, node.value, n.v), FALSE, n.p), MapOf))
    [] node.n = "option" ->
         Then(ReadCell(b, p), LAMBDA c :
           CASE c.v = 0 -> Ok(Null, c.p)
             [] c.v = 1 -> Exec(node.element, b, c.p, blocks, depth + 1)
             [] OTHER -> Malformed)
    [] node.n = "enum" ->
         Then(ReadCell(b, p), LAMBDA c :
           IF c.v \notin DOMAIN node.arms THEN Err("writer-only")
           ELSE OnOk(Exec(node.arms[c.v].payload, b, c.p, blocks, depth),
                     LAMBDA x : Object(<<node.arms[c.v].reader>>, <<x>>)))

(* decode_with_plan                                                         *)
DecodeWithPlan(plan, b) == Whole(Exec(plan.node, b, 0, plan.rec.blocks, 0), b)

=============================================================================
