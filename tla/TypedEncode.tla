---------------------------- MODULE TypedEncode ----------------------------
(***************************************************************************)
(* The typed encoder: EncodeInterp of rust/phon-engine/src/typed.rs, which *)
(* reads a value where it lies in memory and never fails.  Its frames are  *)
(* nested calls here: a program encodes to the cells of its ops in order.  *)
(***************************************************************************)
EXTENDS TypedMemory, SequencesExt

(* Eq of two values in memory: what they look like, without addresses.      *)
RECURSIVE Look(_, _)
LookAt(m, c) ==
  CASE c.h \in {"text", "some", "ok", "err", "box", "ref", "vec"} -> <<c.h, Look(m, c.at)>>
    [] c.h = "set" -> {Look(m, c.of[i]) : i \in DOMAIN c.of}
    [] c.h = "map" -> {<<Look(m, e.k), Look(m, e.v)>> : e \in c.of}
    [] OTHER -> c
Look(m, a) == [i \in DOMAIN m[a].slots |-> LookAt(m, m[a].slots[i])]
LooksSame(m, a, b) == Look(m, a) = Look(m, b)

-----------------------------------------------------------------------------
RECURSIVE EncodeOp(_, _, _, _), EncodeOps(_, _, _, _), EncodeEach(_, _, _, _),
          EncodeEntries(_, _, _, _)

EncodeOps(m, place, prog, blocks) ==
  IF prog = <<>> THEN <<>>
  ELSE EncodeOp(m, place, Head(prog), blocks) \o EncodeOps(m, place, Tail(prog), blocks)

(* The loops over elements: one program at each place.                      *)
EncodeEach(m, places, prog, blocks) ==
  IF places = <<>> THEN <<>>
  ELSE EncodeOps(m, Head(places), prog, blocks) \o EncodeEach(m, Tail(places), prog, blocks)

EncodeEntries(m, entries, op, blocks) ==
  IF entries = <<>> THEN <<>>
  ELSE EncodeOps(m, At(Head(entries).k), op.key, blocks)
         \o EncodeOps(m, At(Head(entries).v), op.value, blocks)
         \o EncodeEntries(m, Tail(entries), op, blocks)

EncodeOp(m, place, op, blocks) ==
  LET c == m[place.at].slots[place.slot + op.offset]
      Inner(prog) == EncodeOps(m, At(c.at), prog, blocks)
  IN
  CASE op.op = "scalar" -> IF op.size = 0 THEN <<>> ELSE <<c.v>>
    [] op.op \in {"native", "dynamic", "borrow"} -> <<c.v>>
    [] op.op = "opaque" -> <<Serialized(c)>>
    [] op.op = "text" -> <<m[c.at].slots[0].v>>
    [] op.op = "call" ->
         EncodeOps(m, [place EXCEPT !.slot = @ + op.offset], blocks[op.block], blocks)
    [] op.op = "pointer" -> EncodeOps(m, PointerBorrow(c), op.pointee, blocks)
    [] op.op = "option" -> IF OptionIsSome(c) THEN <<1>> \o Inner(op.some) ELSE <<0>>
    [] op.op = "result" ->
         IF ResultIsOk(c) THEN <<op.okIndex>> \o Inner(op.ok) ELSE <<op.errIndex>> \o Inner(op.err)
    [] op.op = "enum" ->
         LET variant == Head(SelectSeq(op.variants, LAMBDA v : v.selector = c.v))
         IN <<variant.wire>> \o EncodeOps(m, place, variant.payload, blocks)
    [] op.op = "seq" ->
         <<c.count>> \o EncodeEach(m, ListElements(c), op.body, blocks)
    [] op.op = "set" ->
         LET of == SetElements(c)
         IN <<Len(of)>> \o EncodeEach(m, [i \in DOMAIN of |-> At(of[i])], op.body, blocks)
    [] op.op = "map" -> <<Len(MapEntries(c))>> \o EncodeEntries(m, MapEntries(c), op, blocks)

(* encode_with                                                              *)
EncodeWith(m, encoder) == EncodeOps(m, Destination, encoder.program, encoder.blocks)

=============================================================================
