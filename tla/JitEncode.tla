------------------------------ MODULE JitEncode ------------------------------
(***************************************************************************)
(* The native encoder: NativeEncode::run of rust/phon-jit/src/native.rs    *)
(* and the encode stencils of rust/phon-jit/stencils/stencils.rs.          *)
(*                                                                         *)
(* The stencils write through a raw pointer into the buffer of a Vec that  *)
(* grows: the context holds the pointer, the capacity and how much is      *)
(* written, the Vec has a length of its own.  A reallocation gives the     *)
(* buffer a new generation; what is written through a pointer of an older  *)
(* one, or past the capacity, is lost.  A span is two cells here, its      *)
(* length and what the adapter wrote.                                      *)
(***************************************************************************)
EXTENDS TypedMemory, SequencesExt

CONSTANTS Junk, Zeroes, SpanLength,   \* cells no value is written as: unwritten, a placeholder, a length
          Hints,                      \* last_size: what earlier values took
          Headroom                    \* how much more than it is asked for a Vec may reserve

VARIABLES
  native, mem,  \* the code that runs, and the memory it reads
  out,          \* the Vec: generation of its buffer, the buffer, len
  pc, cx,       \* EncCtx: base, ptr, pos, cap, prog
  stack,        \* stencils that wait for a chain, with the chains still to run
  written       \* Pending, then the encoded value

given == <<native, mem>>
state == <<out, pc, cx, stack, written>>

Pending == [pending |-> TRUE]
Idle == [base |-> Destination, ptr |-> 0, pos |-> 0, cap |-> 0, prog |-> [stream |-> 0, at |-> 0]]
Buffer(gen, cap, kept) == [i \in 1..cap |-> IF i <= Len(kept) THEN kept[i] ELSE Junk]

Init ==
  /\ out = [gen |-> 0, cells |-> <<>>, len |-> 0]
  /\ pc = 0 /\ cx = Idle /\ stack = <<>> /\ written = Pending

(* run, given the code and a value to encode.                               *)
Start ==
  /\ \E hint \in Hints :
       /\ out' = [gen |-> 1, cells |-> Buffer(1, hint, <<>>), len |-> 0]
       /\ cx' = [Idle EXCEPT !.ptr = 1, !.cap = hint, !.prog = [stream |-> native.top.prog, at |-> 1]]
  /\ pc' = native.top.entry
  /\ UNCHANGED <<given, stack, written>>

AtStencil(kind) == written = Pending /\ pc # 0 /\ native.code[pc].stencil = kind
WordAt(i) == native.progs[cx.prog.stream][cx.prog.at + i]
Info == native.infos[WordAt(0).is][WordAt(0).v]
Content(offset) == mem[cx.base.at].slots[cx.base.slot + offset]
Handle == Content(Info.offset)

(* Vec::reserve: what is within len is kept.                                *)
Reserved(v, cap) ==
  [v EXCEPT !.gen = @ + 1, !.cells = Buffer(v.gen + 1, cap, SubSeq(v.cells, 1, v.len))]

(* Room for what a stencil writes: jit_grow.                                *)
Grow(v, c, need) ==
  IF need <= c.cap THEN {[v |-> v, c |-> c]}
  ELSE {[v |-> [Reserved([v EXCEPT !.len = c.pos], need + extra) EXCEPT !.len = 0],
         c |-> [c EXCEPT !.ptr = v.gen + 1, !.cap = need + extra]] : extra \in Headroom}

(* Writing through the raw pointer.                                         *)
Store(v, ptr, at, cell) ==
  IF ptr = v.gen /\ at <= Len(v.cells) THEN [v EXCEPT !.cells[at] = cell] ELSE v
Room(cells) == Grow(out, cx, cx.pos + Len(cells))
Filled(r, cells) ==
  FoldLeftDomain(LAMBDA v, i : Store(v, r.c.ptr, r.c.pos + i, cells[i]), r.v, cells)
Past(c, cells) == [c EXCEPT !.pos = @ + Len(cells)]

(* A stencil ends, or calls chains in turn, each at a place.                *)
Continue(v, c, words) ==
  /\ out' = v /\ pc' = native.code[pc].cont
  /\ cx' = [c EXCEPT !.prog.at = @ + words]
  /\ UNCHANGED <<given, stack, written>>
Enter(waiting, v, c, wait, calls) ==
  /\ out' = v /\ pc' = Head(calls).chain.entry
  /\ cx' = [c EXCEPT !.base = Head(calls).place, !.prog = [stream |-> Head(calls).chain.prog, at |-> 1]]
  /\ stack' = Append(waiting, [wait EXCEPT !.calls = Tail(calls)])
  /\ UNCHANGED <<given, written>>
Call(v, c, calls) ==
  IF calls = <<>> THEN Continue(v, c, 1)
  ELSE Enter(stack, v, c, [pc |-> pc, base |-> c.base, prog |-> [c.prog EXCEPT !.at = @ + 1], calls |-> calls], calls)
Emit(cells, words) == \E r \in Room(cells) : Continue(Filled(r, cells), Past(r.c, cells), words)
EmitThenCall(cells, calls) == \E r \in Room(cells) : Call(Filled(r, cells), Past(r.c, cells), calls)
To(chain, place) == [chain |-> chain, place |-> place]

-----------------------------------------------------------------------------
Scalar ==
  /\ AtStencil("scalar")
  /\ Emit(IF WordAt(1).v = 0 THEN <<>> ELSE <<Content(WordAt(0).v).v>>, 2)

Bytes ==
  /\ AtStencil("text")
  /\ Emit(<<IF Handle.h = "text" THEN mem[Handle.at].slots[0].v ELSE Handle.v>>, 1)

(* Between set_len and the refresh the Vec is the callee's: it appends, and *)
(* may reallocate.                                                          *)
Pushed(v, cell) ==
  IF v.len < Len(v.cells) THEN {[v EXCEPT !.len = @ + 1, !.cells[v.len + 1] = cell]}
  ELSE {[Reserved(v, v.len + 1 + extra) EXCEPT !.len = v.len + 1, !.cells[v.len + 1] = cell] : extra \in Headroom}
Refreshed(c, v) == [c EXCEPT !.ptr = v.gen, !.cap = Len(v.cells), !.pos = v.len]

Dynamic ==
  /\ AtStencil("dynamic")
  /\ \E v \in Pushed([out EXCEPT !.len = cx.pos], Handle.v) : Continue(v, Refreshed(cx, v), 1)

(* Mutant of Opaque: the length goes through the pointer of before.         *)
Opaque_Stale ==
  /\ AtStencil("opaque")
  /\ \E r \in Room(<<Zeroes>>) :
       \E v \in Pushed([Filled(r, <<Zeroes>>) EXCEPT !.len = cx.pos + 1], Serialized(Handle)) :
         Continue(Store(v, r.c.ptr, cx.pos + 1, SpanLength), Refreshed(r.c, v), 1)

(* The length of the span is written when the adapter is done.              *)
Opaque ==
  /\ AtStencil("opaque")
  /\ \E r \in Room(<<Zeroes>>) :
       \E v \in Pushed([Filled(r, <<Zeroes>>) EXCEPT !.len = cx.pos + 1], Serialized(Handle)) :
         LET c == Refreshed(r.c, v)
         IN Continue(Store(v, c.ptr, cx.pos + 1, SpanLength), c, 1)

-----------------------------------------------------------------------------
(* Stencils that call chains.                                               *)

Sequence ==
  /\ AtStencil("seq")
  /\ EmitThenCall(<<Handle.count>>,
       [i \in 1..Handle.count |-> To(Info.sub, ListElements(Handle)[i])])

Set ==
  /\ AtStencil("set")
  /\ LET of == SetElements(Handle)
     IN EmitThenCall(<<Len(of)>>, [i \in DOMAIN of |-> To(Info.sub, At(of[i]))])

(* The entries in the iterator's order.                                     *)
Map ==
  /\ AtStencil("map")
  /\ LET entries == MapEntries(Handle)
     IN EmitThenCall(<<Len(entries)>>,
          FlattenSeq([i \in DOMAIN entries |->
            <<To(Info.key, At(entries[i].k)), To(Info.value, At(entries[i].v))>>]))

Option ==
  /\ AtStencil("option")
  /\ \/ ~OptionIsSome(Handle) /\ EmitThenCall(<<0>>, <<>>)
     \/ OptionIsSome(Handle) /\ EmitThenCall(<<1>>, <<To(Info.sub, At(Handle.at))>>)

Result ==
  /\ AtStencil("result")
  /\ \/ ResultIsOk(Handle) /\ EmitThenCall(<<Info.okIndex>>, <<To(Info.ok, At(Handle.at))>>)
     \/ ~ResultIsOk(Handle) /\ EmitThenCall(<<Info.errIndex>>, <<To(Info.err, At(Handle.at))>>)

Pointer ==
  /\ AtStencil("pointer")
  /\ Call(out, cx, <<To(Info.sub, PointerBorrow(Handle))>>)

CallBlock ==
  /\ AtStencil("call")
  /\ Call(out, cx, <<To(Info.chain, [cx.base EXCEPT !.slot = @ + Info.offset])>>)

(* The payload runs at the enum's own base.                                 *)
Enum ==
  /\ AtStencil("enum")
  /\ LET variant == Info.variants[CHOOSE i \in DOMAIN Info.variants : Info.variants[i].selector = Handle.v]
     IN EmitThenCall(<<variant.wire>>, <<To(variant.payload, cx.base)>>)

Done ==
  /\ AtStencil("done")
  /\ pc' = 0
  /\ UNCHANGED <<given, out, cx, stack, written>>

(* A chain is back: the next one, or on with the outer base and stream.     *)
After ==
  /\ written = Pending /\ pc = 0 /\ stack # <<>>
  /\ LET w == stack[Len(stack)]
         others == SubSeq(stack, 1, Len(stack) - 1)
     IN IF w.calls # <<>> THEN Enter(others, out, cx, w, w.calls)
        ELSE /\ pc' = native.code[w.pc].cont /\ stack' = others
             /\ cx' = [cx EXCEPT !.base = w.base, !.prog = w.prog]
             /\ UNCHANGED <<given, out, written>>

(* The Vec adopts what was written.                                         *)
Finish ==
  /\ written = Pending /\ pc = 0 /\ stack = <<>> /\ cx.ptr # 0
  /\ written' = [cells |-> SubSeq(out.cells, 1, cx.pos)]
  /\ out' = [gen |-> 0, cells |-> <<>>, len |-> 0] /\ cx' = Idle
  /\ UNCHANGED <<given, pc, stack>>

Step ==
  \/ Scalar \/ Bytes \/ Dynamic \/ Opaque \/ Sequence \/ Set \/ Map \/ Option \/ Result
  \/ Pointer \/ CallBlock \/ Enum \/ Done \/ After \/ Finish

=============================================================================
