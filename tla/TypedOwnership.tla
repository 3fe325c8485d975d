--------------------------- MODULE TypedOwnership ---------------------------
(***************************************************************************)
(* Who owns the memory of a typed decode call: DecodeInterp builds a value *)
(* in raw memory, where nothing records an owner (typed.rs, RawScratch,    *)
(* RawArrayBuffer and RetainedScratch).                                    *)
(*                                                                         *)
(* The properties are those of every call of module TypedDecode whose      *)
(* programs fit the memory they write to.                                  *)
(***************************************************************************)
EXTENDS TypedDecode

CONSTANT Layouts     \* call -> program it may run -> the slots it takes, and
                     \* which of them each of its ops fills

-----------------------------------------------------------------------------
(* A program is laid out when each op fills slots of its own, and whatever  *)
(* an op calls fits where it runs: the offsets and sizes of a Rust layout.  *)
Fits(F, program, size) == program \in DOMAIN F /\ F[program].size <= size /\ size \in Nat
Filled(F, program) == UNION {F[program].fills[k] : k \in DOMAIN program}

FillsNothing(op) == op.op = "skip" \/ (op.op = "scalar" /\ op.size = 0)
OpLaidOut(F, blocks, op, fills, size) ==
  /\ op.op = "call" =>
       LET block == blocks[op.block]
       IN /\ op.block \in DOMAIN blocks /\ op.offset \in Nat
          /\ block \in DOMAIN F /\ op.offset + F[block].size <= size
          /\ {op.offset + s : s \in Filled(F, block)} \subseteq fills
  /\ op.op = "enum" =>
       /\ DOMAIN op.variants \subseteq Nat
       /\ \A i \in DOMAIN op.variants :
            LET payload == op.variants[i].payload
            IN Fits(F, payload, size) /\ Filled(F, payload) \subseteq fills \ {op.offset}
  /\ op.op = "seq" => Fits(F, op.body, op.stride)
  /\ op.op = "set" => Fits(F, op.body, op.size)
  /\ op.op = "map" => Fits(F, op.key, op.keySize) /\ Fits(F, op.value, op.valueSize)
  /\ op.op = "option" => Fits(F, op.some, op.size)
  /\ op.op = "result" => Fits(F, op.ok, op.okSize) /\ Fits(F, op.err, op.errSize)
  /\ op.op = "pointer" => Fits(F, op.pointee, op.size)
  /\ op.op # "call" /\ ~FillsNothing(op) => op.offset \in fills

ProgramLaidOut(F, blocks, program) ==
  LET layout == F[program] IN
  /\ Len(program) \in Nat /\ DOMAIN program = 1..Len(program)
  /\ layout.size \in Nat
  /\ \A k \in DOMAIN program :
       /\ layout.fills[k] \subseteq 0..layout.size - 1
       /\ \A j \in DOMAIN program \ {k} : layout.fills[j] \cap layout.fills[k] = {}
       /\ OpLaidOut(F, blocks, program[k], layout.fills[k], layout.size)

WellLaidOut(l, F) ==
  /\ l.size \in Nat
  /\ l.ok => /\ Fits(F, l.program, l.size)
             /\ \A program \in DOMAIN F : ProgramLaidOut(F, l.blocks, program)

ASSUME LayoutAssumption == \A c \in Calls : WellLaidOut(Lowered[c], Layouts[c])

(* A message is cells, and skip ends inside of it (phon_ir::ir::skip).      *)
ASSUME InputAssumption == \A b \in Inputs : b \in Seq(Nat)
ASSUME SkipAssumption ==
  \A c \in Calls : \A program \in DOMAIN Layouts[c] : \A k \in DOMAIN program :
    program[k].op = "skip" =>
      \A b \in Inputs : \A p \in 0..Len(b) :
        LET x == SkipValue(program[k].skip, b, p) IN x.ok => x.p \in p..Len(b)

-----------------------------------------------------------------------------
Failed == result # Pending /\ ~result.ok
Failure(reason) == Failed /\ result.why = reason
LiveIn(m) == {a \in DOMAIN m : m[a].live}
Live == LiveIn(mem)

(* Places are inside live memory, and a call that ends well is back at the  *)
(* caller's storage (RestoreBase and every previous_base).                  *)
TypeOK ==
  /\ pos \in 0..Len(input)
  /\ ~Failed => /\ \A i \in DOMAIN frames : frames[i].next \in 1..Len(frames[i].prog) + 1
                /\ frames = <<>> => base = Destination
                /\ \A a \in {base.at} \cap Live : base.slot \in 0..Cardinality(DOMAIN mem[a].slots)

(* What names a node as its own: the caller, a waiting continuation's       *)
(* scratch, the retained pointees, or a handle in memory that is alive.     *)
Owners(a) ==
  {<<"caller">> : x \in {Destination.at} \cap {a} \cap Live}
  \cup {<<"frame", i>> : i \in {i \in DOMAIN frames : a \in Scratches(frames[i].then)}}
  \cup {<<"retained", i>> : i \in {i \in DOMAIN retained : retained[i] = a}}
  \cup UNION {{<<"slot", b, s>> : s \in {s \in DOMAIN mem[b].slots : a \in Owns(mem[b].slots[s])}} : b \in Live}

(* Every allocation has exactly one owner while decoding goes on and after  *)
(* it ends well: nothing leaks and nothing is freed twice, through moves    *)
(* out of scratch memory, adopted buffers, replaced map entries and drops.  *)
(* A failure may leak, but never leaves two owners, nor one of freed memory.*)
OneOwner ==
  \A a \in DOMAIN mem :
    LET n == Cardinality(Owners(a))
    IN IF a \notin Live THEN n = 0 ELSE IF Failed THEN n <= 1 ELSE n = 1

(* An op writes uninitialized memory that is alive, once: the place of the  *)
(* next op, and the handle a waiting continuation will fill (from_raw_parts,*)
(* init_some, init_ok, init_err, init_from_value do not drop what was there).*)
Fresh(place) == mem[place.at].live /\ mem[place.at].slots[place.slot] = Uninit
FreshTarget ==
  /\ Running /\ Top.next <= Len(Top.prog) => Op.op = "call" \/ FillsNothing(Op) \/ Fresh(Here)
  /\ \A i \in DOMAIN frames :
       LET t == frames[i].then IN
       /\ t.c = "seq" => Fresh(t.list)
       /\ t.c = "init" => Fresh(t.handle)

(* A decoded reference points into memory that is alive (RetainedScratch,   *)
(* DecodeRetention), until its holder is dropped.                           *)
RefsLive ==
  ~Failed => \A a \in Live : \A s \in DOMAIN mem[a].slots :
    mem[a].slots[s].h = "ref" => mem[a].slots[s].at \in Live

=============================================================================
