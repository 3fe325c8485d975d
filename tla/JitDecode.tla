------------------------------ MODULE JitDecode ------------------------------
(***************************************************************************)
(* The native decoder: NativeDecode::run of rust/phon-jit/src/native.rs    *)
(* and the decode stencils of rust/phon-jit/stencils/stencils.rs.          *)
(*                                                                         *)
(* Stencils pass one context along.  A stencil that calls a chain waits on *)
(* the machine stack with its locals, and looks at the status when the     *)
(* chain is back: on an error it frees its scratch and returns as well.    *)
(***************************************************************************)
EXTENDS Wire, TypedMemory, TLC

CONSTANTS
  Lowered,             \* call -> a lowered program, or that there is none
  Images,              \* call -> what the compiler made of it
  Inputs,              \* the messages considered
  SkipValue(_, _, _)   \* jit_skip_walk: phon_ir::ir::skip(op, input, pos)

VARIABLES
  call, lowered, native, \* the call, its program, and the code made of it
  input,       \* the message
  pc,          \* the stencil to run; 0 when the last one has returned
  cx,          \* Ctx: wire, base, prog and status
  stack,       \* stencils that wait for a chain
  mem, result

vars == <<call, lowered, native, input, pc, cx, stack, mem, result>>
given == <<call, lowered, native, input>>

Pending == [pending |-> TRUE]
StreamOf(chain) == [stream |-> chain.prog, at |-> 1]

Init ==
  /\ call \in DOMAIN Lowered /\ lowered = Lowered[call] /\ native = Images[call]
  /\ mem = <<Allocate(lowered.size)>> /\ stack = <<>>
  /\ IF lowered.ok
     THEN /\ input \in Inputs
          /\ pc = native.top.entry
          /\ cx = [wire |-> 0, base |-> Destination, prog |-> StreamOf(native.top), status |-> 0]
          /\ result = Pending
     ELSE /\ input = <<>> /\ pc = 0 /\ result = Err("incompatible")
          /\ cx = [wire |-> 0, base |-> Destination, prog |-> [stream |-> 0, at |-> 0], status |-> 0]

AtStencil(kind) == result = Pending /\ pc # 0 /\ native.code[pc].stencil = kind
WordAt(i) == native.progs[cx.prog.stream][cx.prog.at + i]
Info == native.infos[WordAt(0).is][WordAt(0).v]
Place(offset) == [cx.base EXCEPT !.slot = @ + offset]
Here == Place(Info.offset)

(* A stencil ends: it branches on, having taken its words, or returns with  *)
(* a status.                                                                *)
Continue(m, wire, words) ==
  /\ mem' = m /\ pc' = native.code[pc].cont
  /\ cx' = [cx EXCEPT !.wire = wire, !.prog.at = @ + words]
  /\ UNCHANGED <<given, stack, result>>
Bail(m, waiting, status) ==
  /\ mem' = m /\ pc' = 0 /\ stack' = waiting /\ cx' = [cx EXCEPT !.status = status]
  /\ UNCHANGED <<given, result>>
Refuse(status) == Bail(mem, stack, status)

(* A stencil calls a chain, keeping its locals, outer_prog and outer_base.  *)
Locals == [kind |-> native.code[pc].stencil, pc |-> pc, base |-> cx.base, info |-> Info,
           prog |-> [cx.prog EXCEPT !.at = @ + 1]]
Enter(waiting, m, wire, place, chain, wait) ==
  /\ mem' = m /\ pc' = chain.entry
  /\ cx' = [cx EXCEPT !.wire = wire, !.base = place, !.prog = StreamOf(chain)]
  /\ stack' = Append(waiting, [called |-> chain] @@ wait)
  /\ UNCHANGED <<given, result>>

(* The chain is back.                                                       *)
Waiter == stack[Len(stack)]
Others == SubSeq(stack, 1, Len(stack) - 1)
Returned == result = Pending /\ pc = 0 /\ stack # <<>>
Back(kind) == Returned /\ cx.status = 0 /\ Waiter.kind = kind

(* Mutant of Resume: outer_prog is not restored.                            *)
Resume_Stream(m) ==
  /\ mem' = m /\ pc' = native.code[Waiter.pc].cont /\ stack' = Others
  /\ cx' = [cx EXCEPT !.base = Waiter.base]
  /\ UNCHANGED <<given, result>>

Resume(m) ==
  /\ mem' = m /\ pc' = native.code[Waiter.pc].cont /\ stack' = Others
  /\ cx' = [cx EXCEPT !.base = Waiter.base, !.prog = Waiter.prog]
  /\ UNCHANGED <<given, result>>

(* What the waiting stencil allocated and has not given away.               *)
Held(wait) ==
  CASE wait.kind \in {"seq", "set", "option", "result", "pointer"} -> {wait.scratch}
    [] wait.kind = "map" -> {wait.key, wait.value}
    [] OTHER -> {}

(* Mutant of Unwind: the scratch stays allocated.                           *)
Unwind_Leaks ==
  /\ Returned /\ cx.status # 0
  /\ Bail(mem, Others, cx.status)

(* Each stencil's status check after a chain it called.                     *)
Unwind ==
  /\ Returned /\ cx.status # 0
  /\ Bail(Freed(mem, Held(Waiter)), Others, cx.status)

Done ==
  /\ AtStencil("done")
  /\ pc' = 0
  /\ UNCHANGED <<given, cx, stack, mem, result>>

-----------------------------------------------------------------------------
(* Stencils that call no chain.                                             *)

(* A scalar of no width (unit) copies nothing.  A run of scalars checks and *)
(* copies its segments one by one.                                          *)
Scalar ==
  /\ AtStencil("scalar")
  /\ LET offset == WordAt(0).v
         size == WordAt(1).v
     IN IF cx.wire + size > Len(input) THEN Refuse(1)
        ELSE Continue(IF size = 0 THEN mem
                      ELSE Put(mem, Place(offset), [h |-> "scalar", v |-> input[cx.wire + 1]]),
                      cx.wire + size, 2)

(* jit_read_value writes the error itself.                                  *)
Dynamic ==
  /\ AtStencil("dynamic")
  /\ \E x \in {ReadCell(input, cx.wire)} :
       IF ~x.ok THEN Refuse(8) ELSE Continue(Put(mem, Here, [h |-> "scalar", v |-> x.v]), x.p, 1)

(* A run of bytes: bounds first, then the validator.                        *)
Bytes ==
  /\ AtStencil("text")
  /\ \E x \in {ReadCell(input, cx.wire)} :
       IF ~x.ok THEN Refuse(1)
       ELSE IF x.v \notin Valid THEN Refuse(2)
       ELSE Continue(OwnedText(mem, Here, x.v), x.p, 1)

Borrow ==
  /\ AtStencil("borrow")
  /\ \E x \in {ReadCell(input, cx.wire)} :
       IF ~x.ok THEN Refuse(1)
       ELSE IF x.v \notin Valid THEN Refuse(2)
       ELSE Continue(SetBorrowed(mem, Here, x.v), x.p, 1)

Opaque ==
  /\ AtStencil("opaque")
  /\ \E x \in {ReadCell(input, cx.wire)} :
       IF ~x.ok THEN Refuse(1)
       ELSE \/ Continue(Deserialized(mem, Here, x.v), x.p, 1)
            \/ Refuse(7)

Default ==
  /\ AtStencil("default")
  /\ Continue(DefaultInit(mem, Here), cx.wire, 1)

(* A null from jit_skip_walk says only that the skip failed.                *)
SkipStencil ==
  /\ AtStencil("skip")
  /\ \E x \in {SkipValue(Info.skip, input, cx.wire)} :
       IF ~x.ok THEN Refuse(1) ELSE Continue(mem, x.p, 1)

-----------------------------------------------------------------------------
(* Stencils that call a chain.                                              *)

CallBlock ==
  /\ AtStencil("call")
  /\ Enter(stack, mem, cx.wire, Here, Info.chain, Locals)
AfterCall == Back("call") /\ Resume(mem)

(* The payload runs at the enum's own base.                                 *)
Enum ==
  /\ AtStencil("enum")
  /\ \E x \in {ReadCell(input, cx.wire)} :
       IF ~x.ok THEN Refuse(1)
       ELSE LET at == {i \in DOMAIN Info.variants : Info.variants[i].wire = x.v}
                found == Info.variants[CHOOSE i \in at : \A j \in at : i <= j]
            IN IF at = {} THEN Refuse(IF x.v \in Info.writerOnly THEN 5 ELSE 4)
               ELSE Enter(stack, Put(mem, Here, [h |-> "scalar", v |-> found.selector]), x.p,
                          cx.base, found.payload, Locals)
AfterEnum == Back("enum") /\ Resume(mem)

(* The count of a sequence, a set or a map, checked against what is left.   *)
CountAt(minWire) ==
  LET x == ReadCell(input, cx.wire)
      most == IF minWire = 0 THEN ZstCap ELSE (Len(input) - x.p) \div minWire
  IN IF x.ok /\ x.v > most THEN Malformed ELSE x

Sequence ==
  /\ AtStencil("seq")
  /\ \E n \in {CountAt(Info.minWire)} :
       IF ~n.ok THEN Refuse(1)
       ELSE \E m \in {Append(mem, Allocate(n.v * Info.stride))} :
              IF n.v = 0 THEN Continue(ListAdopts(m, Here, Latest(m), 0, Info.stride), n.p, 1)
              ELSE Enter(stack, m, n.p, At(Latest(m)), Info.element,
                         [scratch |-> Latest(m), next |-> 1, count |-> n.v, handle |-> Here] @@ Locals)
(* Mutant of AfterSequence: the element count does not advance.             *)
AfterSequence_Stuck ==
  /\ Back("seq")
  /\ LET w == Waiter IN
       IF w.next = w.count THEN Resume(ListAdopts(mem, w.handle, w.scratch, w.count, w.info.stride))
       ELSE Enter(Others, mem, cx.wire, [at |-> w.scratch, slot |-> w.next * w.info.stride], w.info.element, w)

AfterSequence ==
  /\ Back("seq")
  /\ LET w == Waiter IN
       IF w.next = w.count THEN Resume(ListAdopts(mem, w.handle, w.scratch, w.count, w.info.stride))
       ELSE Enter(Others, mem, cx.wire, [at |-> w.scratch, slot |-> w.next * w.info.stride], w.info.element,
                  [w EXCEPT !.next = @ + 1])

(* The loop of a set: scratch for the next element, or on to the next op.   *)
NextSetElement(waiting, m, wire, wait) ==
  Enter(waiting, Append(m, Allocate(wait.info.size)), wire, At(Len(m) + 1), wait.info.element,
        [wait EXCEPT !.entry = @ + 1, !.scratch = Len(m) + 1])
Set ==
  /\ AtStencil("set")
  /\ \E n \in {CountAt(Info.minWire)} :
       IF ~n.ok THEN Refuse(1)
       ELSE LET m == SetInit(mem, Here)
            IN IF n.v = 0 THEN Continue(m, n.p, 1)
               ELSE NextSetElement(stack, m, n.p,
                      [entry |-> 0, count |-> n.v, scratch |-> 0, handle |-> Here] @@ Locals)
(* insert drops an element it has; the scratch is freed in any case.        *)
AfterSet ==
  /\ Back("set")
  /\ LET w == Waiter
         m == SetInsert(mem, w.handle, w.scratch)
     IN IF SetHas(mem, w.handle, w.scratch) THEN Bail(m, Others, 9)
        ELSE IF w.entry = w.count THEN Resume(m)
        ELSE NextSetElement(Others, m, cx.wire, w)

(* The loop of a map: scratch for a key and a value.                        *)
NextMapEntry(waiting, m, wire, wait) ==
  Enter(waiting, m \o <<Allocate(wait.info.keySize), Allocate(wait.info.valueSize)>>, wire, At(Len(m) + 1),
        wait.info.key, [wait EXCEPT !.entry = @ + 1, !.key = Len(m) + 1, !.value = Len(m) + 2, !.half = "key"])
Map ==
  /\ AtStencil("map")
  /\ \E n \in {CountAt(1)} :
       IF ~n.ok THEN Refuse(1)
       ELSE LET m == MapInit(mem, Here)
            IN IF n.v = 0 THEN Continue(m, n.p, 1)
               ELSE NextMapEntry(stack, m, n.p,
                      [entry |-> 0, count |-> n.v, key |-> 0, value |-> 0, half |-> "key", handle |-> Here] @@ Locals)
AfterKey ==
  /\ Back("map") /\ Waiter.half = "key"
  /\ Enter(Others, mem, cx.wire, At(Waiter.value), Waiter.info.value, [Waiter EXCEPT !.half = "value"])

(* Mutant of AfterValue: the length of the finished map is not checked.     *)
AfterValue_Collapses ==
  /\ Back("map") /\ Waiter.half = "value"
  /\ \E m \in {MapInsert(mem, Waiter.handle, Waiter.key, Waiter.value)} :
       IF Waiter.entry < Waiter.count THEN NextMapEntry(Others, m, cx.wire, Waiter)
       ELSE Resume(m)

(* Equal keys show only in the length of the finished map.                  *)
AfterValue ==
  /\ Back("map") /\ Waiter.half = "value"
  /\ \E m \in {MapInsert(mem, Waiter.handle, Waiter.key, Waiter.value)} :
       IF Waiter.entry < Waiter.count THEN NextMapEntry(Others, m, cx.wire, Waiter)
       ELSE IF MapLen(m, Waiter.handle) # Waiter.count
       THEN Bail(m, Others, 6)
       ELSE Resume(m)

(* Options, results and pointers build the value in scratch memory; the     *)
(* init thunk moves it into the handle, and the scratch is freed.  The init *)
(* thunk of a reference keeps the scratch's address instead.                *)
InScratch(size, wire, chain, init) ==
  Enter(stack, Append(mem, Allocate(size)), wire, At(Len(mem) + 1), chain,
        [scratch |-> Len(mem) + 1, init |-> init, handle |-> Here] @@ Locals)
InitFrom(wait) ==
  Freed(InitThunk(mem, wait.handle, wait.init, wait.scratch), {wait.scratch})

Option ==
  /\ AtStencil("option")
  /\ \E x \in {ReadCell(input, cx.wire)} :
       IF ~x.ok THEN Refuse(1)
       ELSE \/ x.v = 0 /\ Continue(OptionInitNone(mem, Here), x.p, 1)
            \/ x.v = 1 /\ InScratch(Info.size, x.p, Info.some, "some")
            \/ x.v > 1 /\ Refuse(3)
AfterOption == Back("option") /\ Resume(InitFrom(Waiter))

Result ==
  /\ AtStencil("result")
  /\ \E x \in {ReadCell(input, cx.wire)} :
       IF ~x.ok THEN Refuse(1)
       ELSE \/ x.v = Info.okIndex /\ InScratch(Info.okSize, x.p, Info.ok, "ok")
            \/ x.v # Info.okIndex /\ x.v = Info.errIndex /\ InScratch(Info.errSize, x.p, Info.err, "err")
            \/ x.v \notin {Info.okIndex, Info.errIndex} /\ Refuse(4)
AfterResult == Back("result") /\ Resume(InitFrom(Waiter))

Pointer ==
  /\ AtStencil("pointer")
  /\ InScratch(Info.size, cx.wire, Info.pointee, Info.init)
AfterPointer == Back("pointer") /\ Resume(InitFrom(Waiter))

-----------------------------------------------------------------------------
(* The end of run, and its caller.                                          *)
ErrorOf(status) ==
  CASE status = 5 -> "writer-only"
    [] status \in {6, 9} -> "duplicate"
    [] status = 7 -> "adapter"
    [] OTHER -> "malformed"

Finish ==
  /\ result = Pending /\ pc = 0 /\ stack = <<>>
  /\ result' = IF cx.status # 0 THEN Err(ErrorOf(cx.status))
               ELSE IF cx.wire # Len(input) THEN Malformed
               ELSE Ok(Destination.at, cx.wire)
  /\ UNCHANGED <<given, pc, cx, stack, mem>>

DropValue ==
  /\ result # Pending /\ result.ok /\ mem[Destination.at].live
  /\ mem' = Dropped(mem, {Destination.at})
  /\ UNCHANGED <<given, pc, cx, stack, result>>

Step ==
  \/ Scalar \/ Dynamic \/ Bytes \/ Borrow \/ Opaque \/ Default \/ SkipStencil
  \/ CallBlock \/ AfterCall \/ Enum \/ AfterEnum \/ Sequence \/ AfterSequence
  \/ Set \/ AfterSet \/ Map \/ AfterKey \/ AfterValue
  \/ Option \/ AfterOption \/ Result \/ AfterResult \/ Pointer \/ AfterPointer
  \/ Unwind \/ Done \/ Finish

Next == Step \/ DropValue

Spec == Init /\ [][Next]_vars /\ WF_vars(Step)

=============================================================================
