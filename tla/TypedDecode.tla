----------------------------- MODULE TypedDecode -----------------------------
(***************************************************************************)
(* The typed decoder: DecodeInterp of rust/phon-engine/src/typed.rs, which *)
(* builds a value in raw memory, run by Weavy's external run loop.  A      *)
(* behaviour is one decode call and what its caller may do afterwards.     *)
(*                                                                         *)
(* Memory is that of module TypedMemory.  Programs are given (module       *)
(* TypedLower makes them).  Allocation succeeds, and copies that fuse,     *)
(* group_record_scalars and owned_sequence_op merge are made one by one.   *)
(***************************************************************************)
EXTENDS Wire, TypedMemory

CONSTANTS
  Lowered,           \* call -> what lowering returned for it, and whether the
                     \* caller takes a DecodeRetention
  Inputs,            \* the messages considered
  NativeMax,         \* the largest cell that fits a native-sized integer
  SkipValue(_, _, _)  \* phon_ir::ir::skip(op, input, pos)

Calls == DOMAIN Lowered

VARIABLES
  call, lowered, input, \* the call, its program, and the message
  frames, base,      \* Weavy's frames, DecodeInterp::base
  pos, retained,     \* DecodeInterp::reader and ::retained
  mem,               \* the nodes
  result             \* Pending, then what the call returns

vars == <<call, lowered, input, frames, base, pos, retained, mem, result>>
given == <<call, lowered, input>>

Pending == [pending |-> TRUE]
NoneC == [c |-> "none"]
Frame(prog, then) == [prog |-> prog, next |-> 1, then |-> then]

Init ==
  /\ call \in Calls /\ lowered = Lowered[call]
  /\ base = Destination /\ pos = 0 /\ retained = <<>>
  /\ mem = <<Allocate(lowered.size)>>
  /\ IF lowered.ok
     THEN /\ input \in Inputs
          /\ frames = <<Frame(lowered.program, NoneC)>>
          /\ result = Pending
     ELSE input = <<>> /\ frames = <<>> /\ result = Err("incompatible")

Running == result = Pending /\ frames # <<>>
Top == frames[Len(frames)]
AtOp(ops) == Running /\ Top.next <= Len(Top.prog) /\ Top.prog[Top.next].op \in ops
AtEnd(conts) == Running /\ Top.next > Len(Top.prog) /\ Top.then.c \in conts
Op == Top.prog[Top.next]
Advanced == [frames EXCEPT ![Len(frames)].next = @ + 1]
Popped == SubSeq(frames, 1, Len(frames) - 1)
Called(at, body, then) == Append(at, Frame(body, then))

Place(offset) == [base EXCEPT !.slot = @ + offset]
Here == Place(Op.offset)

(* The allocations a waiting continuation owns (RawScratch, RawArrayBuffer).*)
Scratches(then) ==
  CASE then.c \in {"seq", "set", "init"} -> {then.scratch}
    [] then.c \in {"key", "value"} -> {then.scratch, then.value}
    [] OTHER -> {}

(* An error unwinds the frames: their scratch is freed, not dropped, and    *)
(* the retained pointees are dropped (RetainedScratch::drop).  The cursors  *)
(* go with the interpreter.                                                 *)
Waiting(fs) == UNION {Scratches(fs[i].then) : i \in DOMAIN fs}
Kept == {retained[i] : i \in DOMAIN retained}
FailFrom(m, fs, why) ==
  /\ result' = Err(why) /\ frames' = <<>> /\ retained' = <<>>
  /\ mem' = Dropped(Freed(m, Waiting(fs)), Kept)
  /\ base' = Destination /\ pos' = 0
  /\ UNCHANGED given
Fail(why) == FailFrom(mem, frames, why)

(* Go on with the op done, or call a program first, at another base.        *)
Continue(m, p) ==
  /\ mem' = m /\ pos' = p /\ frames' = Advanced
  /\ UNCHANGED <<given, base, retained, result>>
Enter(fs, m, place, body, then) ==
  /\ mem' = m /\ base' = place /\ frames' = Append(fs, Frame(body, then))
  /\ UNCHANGED <<given, retained, result>>
Restore(fs, m, previous) ==
  /\ mem' = m /\ base' = previous /\ frames' = fs
  /\ UNCHANGED <<given, retained, result>>
Stored(content, p) == Continue(Put(mem, Here, content), p)

-----------------------------------------------------------------------------
(* Ops that need no frame.                                                  *)

(* A scalar of no width (unit) copies nothing.                              *)
Scalar ==
  /\ AtOp({"scalar"})
  /\ \/ Op.size = 0 /\ Continue(mem, pos)
     \/ /\ Op.size = 1
        /\ \E x \in {ReadCell(input, pos)} :
             IF ~x.ok THEN Fail(x.why) ELSE Stored([h |-> "scalar", v |-> x.v], x.p)

(* A native-sized integer, narrower in memory than on the wire.             *)
Native ==
  /\ AtOp({"native"})
  /\ \E x \in {ReadCell(input, pos)} :
       IF ~x.ok THEN Fail(x.why)
       ELSE IF x.v > NativeMax THEN Fail("range")
       ELSE Stored([h |-> "scalar", v |-> x.v], x.p)

Dynamic ==
  /\ AtOp({"dynamic"})
  /\ \E x \in {ReadCell(input, pos)} :
       IF ~x.ok THEN Fail(x.why) ELSE Stored([h |-> "scalar", v |-> x.v], x.p)

(* Owned text: validated, then copied into a buffer of its own.             *)
Bytes ==
  /\ AtOp({"text"})
  /\ \E x \in {ReadText(input, pos)} :
       IF ~x.ok THEN Fail(x.why)
       ELSE Continue(OwnedText(mem, Here, x.v), x.p)

(* Borrowed text points into the message.                                   *)
Borrow ==
  /\ AtOp({"borrow"})
  /\ \E x \in {ReadText(input, pos)} :
       IF ~x.ok THEN Fail(x.why) ELSE Continue(SetBorrowed(mem, Here, x.v), x.p)

(* The adapter of an opaque field takes the span, or rejects it.            *)
Opaque ==
  /\ AtOp({"opaque"})
  /\ \E x \in {ReadCell(input, pos)} :
       IF ~x.ok THEN Fail(x.why)
       ELSE Continue(Deserialized(mem, Here, x.v), x.p) \/ Fail("adapter")

Skip ==
  /\ AtOp({"skip"})
  /\ \E x \in {SkipValue(Op.skip, input, pos)} :
       IF ~x.ok THEN Fail(x.why) ELSE Continue(mem, x.p)

(* The default thunk of an absent reader field, here an option's None.      *)
Default ==
  /\ AtOp({"default"})
  /\ Continue(DefaultInit(mem, Here), pos)

-----------------------------------------------------------------------------
(* Ops that call a program, and what happens when it is over.               *)

CallBlock ==
  /\ AtOp({"call"})
  /\ Enter(Advanced, mem, Here, lowered.blocks[Op.block], [c |-> "restore", base |-> base])
  /\ UNCHANGED pos

(* Mutant of RestoreBase: the block's base stays.                           *)
RestoreBase_Stays ==
  /\ AtEnd({"restore"})
  /\ Restore(Popped, mem, base)
  /\ UNCHANGED pos

RestoreBase ==
  /\ AtEnd({"restore"})
  /\ Restore(Popped, mem, Top.then.base)
  /\ UNCHANGED pos

(* An enum's payload runs at the enum's own base.                           *)
Enum ==
  /\ AtOp({"enum"})
  /\ \E x \in {ReadCell(input, pos)} :
       IF ~x.ok THEN Fail(x.why)
       ELSE LET at == {i \in DOMAIN Op.variants : Op.variants[i].wire = x.v}
                first == CHOOSE i \in at : \A j \in at : i <= j
            IN IF at = {} THEN Fail(IF x.v \in Op.writerOnly THEN "writer-only" ELSE "malformed")
               ELSE /\ Enter(Advanced, Put(mem, Here, [h |-> "scalar", v |-> Op.variants[first].selector]),
                             base, Op.variants[first].payload, NoneC)
                    /\ pos' = x.p

(* Mutant of Return: the payload's frame is not popped.                     *)
Return_Keeps ==
  /\ AtEnd({"none"})
  /\ Restore(frames, mem, base)
  /\ UNCHANGED pos

Return ==
  /\ AtEnd({"none"})
  /\ Restore(Popped, mem, base)
  /\ UNCHANGED pos

(* MemOp::Sequence: the buffer is adopted when every slot is filled.        *)
Sequence ==
  /\ AtOp({"seq"})
  /\ \E n \in {ReadLen(Op.minWire, input, pos)} :
       IF ~n.ok THEN Fail(n.why)
       ELSE LET m == Append(mem, Allocate(n.v * Op.stride))
                first == At(Latest(m))
            IN IF n.v = 0 THEN Continue(ListAdopts(m, Here, Latest(m), 0, Op.stride), n.p)
               ELSE /\ Enter(Advanced, m, first, Op.body,
                             [c |-> "seq", op |-> Op, base |-> base, scratch |-> Latest(m),
                              next |-> 1, count |-> n.v, list |-> Here])
                    /\ pos' = n.p

(* Mutants of AfterSequence: the adopted buffer is freed; every element is  *)
(* written to the first slot.                                               *)
AfterSequence_Frees ==
  /\ AtEnd({"seq"})
  /\ LET t == Top.then IN
       IF t.next = t.count
       THEN Restore(Popped, ListAdopts(Freed(mem, {t.scratch}), t.list, t.scratch, t.count, t.op.stride), t.base)
       ELSE Enter(Popped, mem, [at |-> t.scratch, slot |-> t.next * t.op.stride], t.op.body,
                  [t EXCEPT !.next = @ + 1])
  /\ UNCHANGED pos
AfterSequence_First ==
  /\ AtEnd({"seq"})
  /\ LET t == Top.then IN
       IF t.next = t.count
       THEN Restore(Popped, ListAdopts(mem, t.list, t.scratch, t.count, t.op.stride), t.base)
       ELSE Enter(Popped, mem, [at |-> t.scratch, slot |-> 0], t.op.body, [t EXCEPT !.next = @ + 1])
  /\ UNCHANGED pos

AfterSequence ==
  /\ AtEnd({"seq"})
  /\ LET t == Top.then IN
       IF t.next = t.count
       THEN Restore(Popped, ListAdopts(mem, t.list, t.scratch, t.count, t.op.stride), t.base)
       ELSE Enter(Popped, mem, [at |-> t.scratch, slot |-> t.next * t.op.stride], t.op.body,
                  [t EXCEPT !.next = @ + 1])
  /\ UNCHANGED pos

-----------------------------------------------------------------------------
(* Sets and maps: the handle is initialized first, then each element is     *)
(* built in scratch memory and moved in.                                    *)

(* decode_next_set_element                                                  *)
NextSetElement(fs, m, then) ==
  IF then.remaining = 0 THEN Restore(fs, m, then.base)
  ELSE Enter(fs, Append(m, Allocate(then.op.size)), At(Len(m) + 1), then.op.body,
             [then EXCEPT !.remaining = @ - 1, !.scratch = Len(m) + 1])

Set ==
  /\ AtOp({"set"})
  /\ \E n \in {ReadLen(Op.minWire, input, pos)} :
       IF ~n.ok THEN Fail(n.why)
       ELSE /\ NextSetElement(Advanced, SetInit(mem, Here),
                              [c |-> "set", op |-> Op, base |-> base, scratch |-> 0,
                               set |-> Here, remaining |-> n.v])
            /\ pos' = n.p

(* The element is moved out of its scratch even when it is refused.         *)
AfterSet ==
  /\ AtEnd({"set"})
  /\ LET t == Top.then
         m == SetInsert(mem, t.set, t.scratch)
     IN IF SetHas(mem, t.set, t.scratch) THEN FailFrom(m, Popped, "duplicate")
        ELSE NextSetElement(Popped, m, t) /\ UNCHANGED pos

(* decode_next_map_entry                                                    *)
NextMapEntry(fs, m, then) ==
  IF then.remaining = 0 THEN Restore(fs, m, then.base)
  ELSE Enter(fs, Append(Append(m, Allocate(then.op.keySize)), Allocate(then.op.valueSize)),
             At(Len(m) + 1), then.op.key,
             [then EXCEPT !.c = "key", !.scratch = Len(m) + 1, !.value = Len(m) + 2])

Map ==
  /\ AtOp({"map"})
  /\ \E n \in {ReadLen(1, input, pos)} :
       IF ~n.ok THEN Fail(n.why)
       ELSE /\ NextMapEntry(Advanced, MapInit(mem, Here),
                            [c |-> "key", op |-> Op, base |-> base, scratch |-> 0, value |-> 0,
                             map |-> Here, total |-> n.v, remaining |-> n.v])
            /\ pos' = n.p

AfterKey ==
  /\ AtEnd({"key"})
  /\ LET t == Top.then IN
       Enter(Popped, mem, At(t.value), t.op.value, [t EXCEPT !.c = "value"])
  /\ UNCHANGED pos

(* Duplicate keys show only in the length of the finished map.              *)
AfterValue ==
  /\ AtEnd({"value"})
  /\ \E m \in {MapInsert(mem, Top.then.map, Top.then.scratch, Top.then.value)} :
       LET t == [Top.then EXCEPT !.remaining = @ - 1]
       IN IF t.remaining = 0 /\ MapLen(m, t.map) # t.total
          THEN FailFrom(m, Popped, "duplicate")
          ELSE NextMapEntry(Popped, m, t) /\ UNCHANGED pos

-----------------------------------------------------------------------------
(* Options, results and pointers: decode_into_via_init builds the value in  *)
(* scratch memory, then it is moved into the handle; the pointee of a       *)
(* reference stays in its scratch, which is retained.                       *)
ViaInit(kind, body, size, p) ==
  /\ Enter(Advanced, Append(mem, Allocate(size)), At(Latest(mem) + 1), body,
           [c |-> "init", kind |-> kind, base |-> base, scratch |-> Latest(mem) + 1, handle |-> Here])
  /\ pos' = p

Option ==
  /\ AtOp({"option"})
  /\ \E x \in {ReadCell(input, pos)} :
       IF ~x.ok THEN Fail(x.why)
       ELSE \/ x.v = 0 /\ Continue(OptionInitNone(mem, Here), x.p)
            \/ x.v = 1 /\ ViaInit("some", Op.some, Op.size, x.p)
            \/ x.v > 1 /\ Fail("malformed")

Result ==
  /\ AtOp({"result"})
  /\ \E x \in {ReadCell(input, pos)} :
       IF ~x.ok THEN Fail(x.why)
       ELSE \/ x.v = Op.okIndex /\ ViaInit("ok", Op.ok, Op.okSize, x.p)
            \/ x.v # Op.okIndex /\ x.v = Op.errIndex /\ ViaInit("err", Op.err, Op.errSize, x.p)
            \/ x.v \notin {Op.okIndex, Op.errIndex} /\ Fail("malformed")

Pointer ==
  /\ AtOp({"pointer"})
  /\ ViaInit(IF Op.retain THEN "ref" ELSE "box", Op.pointee, Op.size, pos)

(* Mutant of AfterInit: the pointee of a reference is not retained.         *)
AfterInit_Frees ==
  /\ AtEnd({"init"})
  /\ LET t == Top.then
         m == InitThunk(mem, t.handle, t.kind, t.scratch)
     IN /\ mem' = IF t.kind = "ref" THEN Freed(m, {t.scratch}) ELSE m
        /\ base' = t.base
  /\ frames' = Popped
  /\ UNCHANGED <<given, pos, retained, result>>

AfterInit ==
  /\ AtEnd({"init"})
  /\ LET t == Top.then
     IN /\ mem' = InitThunk(mem, t.handle, t.kind, t.scratch)
        /\ retained' = IF t.kind = "ref" THEN Append(retained, t.scratch) ELSE retained
        /\ base' = t.base
  /\ frames' = Popped
  /\ UNCHANGED <<given, pos, result>>

-----------------------------------------------------------------------------
(* The end of decode_with and decode_with_retention, and their caller.      *)

(* Mutant of Finish: trailing bytes are accepted.                           *)
Finish_Trailing ==
  /\ result = Pending /\ frames = <<>>
  /\ IF retained # <<>> /\ ~lowered.retention THEN Fail("unsupported")
     ELSE /\ result' = Ok(Destination.at, pos)
          /\ UNCHANGED <<given, frames, base, pos, retained, mem>>

Finish ==
  /\ result = Pending /\ frames = <<>>
  /\ IF pos # Len(input) THEN Fail("malformed")
     ELSE IF retained # <<>> /\ ~lowered.retention THEN Fail("unsupported")
     ELSE /\ result' = Ok(Destination.at, pos)
          /\ UNCHANGED <<given, frames, base, pos, retained, mem>>

(* The caller drops the value, and only then what was retained for it.      *)
DropValue ==
  /\ result # Pending /\ result.ok /\ mem[Destination.at].live
  /\ mem' = Dropped(mem, {Destination.at})
  /\ UNCHANGED <<given, frames, base, pos, retained, result>>

DropRetained ==
  /\ result # Pending /\ result.ok /\ ~mem[Destination.at].live /\ retained # <<>>
  /\ mem' = Dropped(mem, Kept) /\ retained' = <<>>
  /\ UNCHANGED <<given, frames, base, pos, result>>

Step ==
  \/ Scalar \/ Native \/ Dynamic \/ Bytes \/ Borrow \/ Opaque \/ Skip \/ Default
  \/ CallBlock \/ RestoreBase \/ Enum \/ Return
  \/ Sequence \/ AfterSequence \/ Set \/ AfterSet \/ Map \/ AfterKey \/ AfterValue
  \/ Option \/ Result \/ Pointer \/ AfterInit \/ Finish

Next == Step \/ DropValue \/ DropRetained

Spec == Init /\ [][Next]_vars /\ WF_vars(Step)

=============================================================================
