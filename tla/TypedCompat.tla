---------------------------- MODULE TypedCompat ----------------------------
(***************************************************************************)
(* The typed decoder run on programs lowered from descriptors: memory is   *)
(* owned as a Rust value is, whatever the message and wherever decoding    *)
(* stops, and the value in memory is the one the codec on dynamic values   *)
(* and module Translation promise.                                         *)
(***************************************************************************)
EXTENDS TypedOwnership, TypedEncode, TypedLower, Translation

CONSTANT Cases       \* [writer, shape, retention, codec]: the calls considered

(* A Codec decodes with the program it encodes with, other callers with one *)
(* that lower_decode made for the writer's schema.                          *)
DecodeProgram(c) == IF c.codec THEN LowerTyped(c.shape) ELSE LowerDecode(c.writer, c.shape)
Programs ==
  [c \in Cases |-> DecodeProgram(c) @@ [retention |-> c.retention, encode |-> LowerTyped(c.shape)]]

Writer == call.writer
Reader == RefOf(call.shape)

-----------------------------------------------------------------------------
(* decode_with accepts exactly the messages whose value has a translation,  *)
(* and encoding what it built and reading that with the reader's schema     *)
(* gives the translation: field offsets, selectors, tags, counts, skips and *)
(* defaults of the two lowerings fit together.  An adapter may refuse, and  *)
(* references may not be kept by a caller without a retention.              *)
TypedAgrees ==
  result # Pending /\ lowered.ok /\ mem[Destination.at].live =>
    \A written \in {Decode(Writer, input)} :
      \/ ~written.ok /\ (written.why = "depth" \/ Failed)
      \/ Failure("adapter")
      \/ Failure("range") /\ \E c \in Range(input) : c > NativeMax
      \/ Failure("unsupported") /\ ~call.retention
      \/ /\ written.ok
         /\ \E promised \in {Translate(Kind(Writer), Kind(Reader), written.v)} :
              IF ~promised.ok THEN Failed
              ELSE /\ ~Failed
                   /\ Decode(Reader, EncodeWith(mem, lowered.encode)).v = promised.v

(* What lower_decode refuses though the rules of compatibility allow it: a  *)
(* field that the reader lacks and skip_op does not carry, in a struct or a *)
(* variant, and a Result whose writer has no Ok or no Err.                  *)
RefusesFields(w, r) ==
  /\ w.k = "struct" /\ r.k = "struct"
  /\ \E f \in Range(w.fields) : SameName(r.fields, f) = {} /\ ~Skippable(f.schema)
Refuses(writer, reader) ==
  LET w == Kind(writer)
      r == Kind(reader) IN
  \/ RefusesFields(w, r)
  \/ /\ w.k = "enum" /\ r.k = "enum"
     /\ \/ \E v \in Range(r.variants) :
             /\ SameName(w.variants, v) # {}
             /\ RefusesFields(Match(w.variants, v).payload, v.payload)
        \/ Shape(reader).k = "result" /\ {"Ok", "Err"} \ {v.name : v \in Range(w.variants)} # {}
Carried == Largest({x \in References \X References : ~Refuses(x[1], x[2])})

(* lower_decode succeeds exactly for compatible schemas of which no level   *)
(* is refused as above, so no program is made that would build a value of   *)
(* another type in memory, and no other pair is turned away.  (Two more     *)
(* differences are not among the calls: tuples of different lengths meet as *)
(* records here, and a recursive reader is lowered against its own schema   *)
(* whatever the writer's is.)                                               *)
LowersExactlyCarried ==
  pos = 0 => (lowered.ok <=> <<Writer, Reader>> \in Carried)

(* lower_decode's doc: when the writer's schema is the reader's, "the       *)
(* result is equivalent to [`lower`] (no skips/defaults)", so the program   *)
(* that decodes is the one that encodes (lower_node and lower_decode_node). *)
SameSchemaLowersSame ==
  pos = 0 /\ Writer = Reader =>
    lowered.encode.program = lowered.program /\ lowered.encode.blocks = lowered.blocks

(* A call returns whose schemas, the writer's and the reader's, read a byte *)
(* before they come back to themselves: each continuation makes the run     *)
(* loop progress.  The fairness is that of a thread running straight-line   *)
(* code.                                                                    *)
Returns == Productive(Writer) /\ Productive(Reader) => <>(result # Pending)

-----------------------------------------------------------------------------
(* docs/content/spec.md:1652 (r[validate.text]): "A `string` is validated   *)
(* as UTF-8, and a `char` as a Unicode scalar value [...] before the value  *)
(* is exposed".  MemOp::Scalar copies a char's bytes as they come.          *)
ValidatesText ==
  result # Pending /\ lowered.ok /\ ~Decode(Writer, input).ok => Failed

(* docs/content/spec.md:1518 (r[compat.skip-writer-only]): "A field present *)
(* in the writer schema but absent from the reader schema is skipped", and  *)
(* :1576 (r[compat.enum]): "A reader variant the writer lacks is fine".     *)
(* skip_op and lower_decode_result refuse some of either (see Refuses).     *)
CompatibleLowers ==
  pos = 0 /\ <<Writer, Reader>> \in Compatible => lowered.ok

(* docs/content/spec.md:491: a `usize` is a `u64` on every platform, and "a *)
(* 32-bit implementation widens on encode and rejects out-of-range wire     *)
(* values before narrowing on decode".  lower_decode_node lowers it to a    *)
(* scalar of the wire's width, which is wider than the field.               *)
NativeIntsFit ==
  result # Pending /\ result.ok /\ mem[Destination.at].live =>
    \A op \in Range(lowered.encode.program) :
      op.op = "native" => mem[Destination.at].slots[op.offset].v <= NativeMax

=============================================================================
