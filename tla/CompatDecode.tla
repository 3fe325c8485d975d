---------------------------- MODULE CompatDecode ----------------------------
(***************************************************************************)
(* The planner, the tree walk, the interpreter and the codec together: one *)
(* behaviour is one decode_via_ir call (module Interp), and what it and    *)
(* decode_with_plan return is compared with module Translation.            *)
(***************************************************************************)
EXTENDS Interp, CompatPlan, Translation

CONSTANT Cases       \* [writer, reader, recursive]: the calls considered; the
                     \* last is what recursive_schema_ids made of the reader

(* What build_plan and lower_canonical make of each call.                   *)
Trees == [c \in Cases |-> BuildPlan(c.writer, c.reader, c.recursive)]
Programs ==
  [c \in Cases |->
    IF Trees[c].ok
    THEN [ok |-> TRUE, program |-> Lower(Trees[c].node), blocks |-> LowerBlocks(Trees[c].rec.blocks)]
    ELSE [ok |-> FALSE]]
Plan == Trees[call]
SkipFromRoot(ref, b, p) == DecodeRef(ref, b, p, 0)

Writer == call.writer
Reader == call.reader

(* What the message says to its writer, and what the walk makes of it.      *)
Written == Decode(Writer, input)
Walked == DecodeWithPlan(Plan, input)
TooDeep(res) == ~res.ok /\ res.why = "depth"
Same(res, v) == res.ok /\ res.v = v

(* A plan is built exactly for compatible schemas, so incompatibility is    *)
(* found before a byte is read (build_plan, plan_kind and the match_fields  *)
(* and match_variants rules; spec r[compat.plan-first], r[compat.type-match]).*)
PlansExactlyCompatible ==
  pos = 0 => (Plan.ok <=> <<Writer, Reader>> \in Compatible)

(* The plan's tree walk (exec) returns the translation of the value the     *)
(* writer's own schema reads from the same bytes, and fails where either    *)
(* does not exist; only the depth bound may make the two differ.            *)
WalkTranslates ==
  result # Pending /\ Plan.ok =>
    \A walked \in {Walked}, written \in {Written} :
      \/ TooDeep(walked) \/ TooDeep(written)
      \/ ~written.ok /\ ~walked.ok
      \/ /\ written.ok
         /\ \E promised \in {Translate(Kind(Writer), Kind(Reader), written.v)} :
              IF promised.ok THEN Same(walked, promised.v) ELSE ~walked.ok

(* The interpreter (run_program, step_intrinsic, after_return) and the tree *)
(* walk (exec) agree on every message: the same value, or both fail; only   *)
(* the walk's depth bound may make them differ.                             *)
InterpreterAgrees ==
  result # Pending /\ Plan.ok =>
    \E walked \in {Walked} :
      \/ TooDeep(walked)
      \/ result.ok /\ Same(walked, result.v)
      \/ ~result.ok /\ ~walked.ok

(* A value the codec read can be written again (encode_kind), and what is   *)
(* written reads back as the same value (decode_kind): no schema lets the   *)
(* two walks disagree about order, tags or counts.                          *)
RereadsWhatItWrites ==
  result # Pending =>
    \A written \in {Written} : written.ok =>
      \E again \in {Encode(Writer, written.v)} :
        again.ok /\ Same(Decode(Writer, again.v), written.v)

(* A call whose writer's schema reads a byte before it comes back to itself *)
(* returns: each round of a loop, each return and each call of a block      *)
(* makes the run loop of interp.rs progress, through nested containers and  *)
(* loops over nothing.  Of other schemas see BlocksAreBounded.  The         *)
(* fairness is that of a thread running straight-line code.                 *)
Returns == Productive(Writer) => <>(result # Pending)

-----------------------------------------------------------------------------
(* docs/content/spec.md:2281 (r[ir.total]): "Recursion depth is bounded per *)
(* r[validate.depth]", by which "a message or schema that nests deeper is a *)
(* decode error".  CallBlock counts nothing, so struct A { a: A } calls its *)
(* block again and again without reading a byte, and never returns.         *)
BlocksAreBounded ==
  Plan.ok =>
    Cardinality({i \in DOMAIN frames : frames[i].prog \in Range(Plans[call].blocks)}) <= MaxDepth

(* interp.rs: "The two must agree value-for-value", with no exception for   *)
(* the depth bound of the tree walk (exec tests depth, the run loop does    *)
(* not; spec r[ir.total]: "Recursion depth is bounded per r[validate.depth]").*)
AgreesValueForValue ==
  result # Pending /\ Plan.ok => (result.ok <=> Walked.ok)

(* plan_ref keys a recursive block by the reader's schema alone, so the     *)
(* plan of a second writer schema met under the same reader schema is the   *)
(* first one's: what the plan reads is not what was written.                *)
EveryWriterTranslates == WalkTranslates

=============================================================================
