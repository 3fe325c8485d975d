------------------------------- MODULE Interp -------------------------------
(***************************************************************************)
(* The value interpreter: rust/phon-engine/src/interp.rs run by Weavy, an  *)
(* external crate whose run loop is modelled from how interp.rs uses it.   *)
(* A behaviour is one decode_via_ir call: what planning and lowering made  *)
(* of the two schemas (module CompatPlan) is given, and run.               *)
(*                                                                         *)
(* The machine is a stack of frames, each a program, the index of its next *)
(* op and the continuation that is run when the program is over; and a     *)
(* stack of values.  One step is one op or one return.                     *)
(***************************************************************************)
EXTENDS Wire, Integers, SequencesExt

CONSTANTS
  Lowered,         \* call -> whether a plan could be built, its program and
                   \* its blocks
  Bodies,          \* call -> the programs it may run: the root, the blocks,
                   \* and whatever their ops hold
  Inputs,          \* the messages considered
  SkipRef(_, _, _) \* decode_ref(writer, input, pos) at depth 0

Plans == Lowered       \* a definition without parameters is evaluated once
Calls == DOMAIN Plans

VARIABLES
  call, input,   \* the call and its message
  frames, stack, \* Weavy's frames and Interp::stack
  pos,           \* Interp::reader
  result         \* Pending, then what the call returns

vars == <<call, input, frames, stack, pos, result>>
given == <<call, input>>

Pending == [pending |-> TRUE]
NoneC == [c |-> "none"]
Frame(prog, then) == [prog |-> prog, next |-> 1, then |-> then]

(* build_plan fails before a byte is read; otherwise the root is run.       *)
Init ==
  /\ call \in Calls
  /\ IF Plans[call].ok
     THEN /\ input \in Inputs
          /\ frames = <<Frame(Plans[call].program, NoneC)>>
          /\ result = Pending
     ELSE input = <<>> /\ frames = <<>> /\ result = Err("incompatible")
  /\ stack = <<>> /\ pos = 0

Running == result = Pending /\ frames # <<>>
Top == frames[Len(frames)]
AtOp(ops) == Running /\ Top.next <= Len(Top.prog) /\ Top.prog[Top.next].op \in ops
Op == Top.prog[Top.next]
Advanced == [frames EXCEPT ![Len(frames)].next = @ + 1]
Popped == SubSeq(frames, 1, Len(frames) - 1)

Fail(why) == result' = Err(why) /\ UNCHANGED <<given, frames, stack, pos>>

(* Control::Continue, Control::CallProgram(Then) and Control::CallBlock     *)
(* from the frames `at', with the values `values' on the stack.             *)
Continue(at, values) == frames' = at /\ stack' = values
CallThen(at, body, then, values) == frames' = Append(at, Frame(body, then)) /\ stack' = values

Push(values, v) == Append(values, v)
TopValues(n) == SubSeq(stack, Len(stack) - n + 1, Len(stack))
Without(n) == SubSeq(stack, 1, Len(stack) - n)

(* Scalar, Dynamic and Null push one value.                                 *)
Leaf ==
  /\ AtOp({"scalar", "dynamic", "null"})
  /\ LET x == CASE Op.op = "scalar" -> DecodePrimitive(Op.arg.p, input, pos)
                [] Op.op = "dynamic" -> ReadValue(input, pos)
                [] OTHER -> Ok(Null, pos)
     IN IF ~x.ok THEN Fail(x.why)
        ELSE Continue(Advanced, Push(stack, x.v)) /\ pos' = x.p /\ UNCHANGED <<given, result>>

(* Mutant of Skip: the skipped value is left on the stack.                  *)
Skip_Keeps ==
  /\ AtOp({"skip"})
  /\ LET x == SkipRef(Op.writer, input, pos)
     IN IF ~x.ok THEN Fail(x.why)
        ELSE Continue(Advanced, Push(stack, x.v)) /\ pos' = x.p /\ UNCHANGED <<given, result>>

(* Skip walks the writer's field by its own schema, from depth 0.           *)
Skip ==
  /\ AtOp({"skip"})
  /\ LET x == SkipRef(Op.writer, input, pos)
     IN IF ~x.ok THEN Fail(x.why)
        ELSE Continue(Advanced, stack) /\ pos' = x.p /\ UNCHANGED <<given, result>>

(* Object and Array: split_off underflows, and panics, on a short stack.    *)
Assemble ==
  /\ AtOp({"object", "array"})
  /\ LET n == IF Op.op = "object" THEN Len(Op.keys) ELSE Op.count
     IN IF n > Len(stack) THEN Fail("panic")
        ELSE /\ Continue(Advanced,
                         Push(Without(n), IF Op.op = "object" THEN Object(Op.keys, TopValues(n))
                                          ELSE Array(TopValues(n))))
             /\ UNCHANGED <<given, pos, result>>

(* Continuation::Seq, FixedArray, MapKey and MapValue: what a container     *)
(* still has to read and what it has read; a map alternates two bodies.     *)
Repeated(c, unique, bodies, n) ==
  [c |-> c, set |-> unique, bodies |-> bodies, remaining |-> n, done |-> <<>>]
NextBody(then) == then.bodies[(Len(then.done) % Len(then.bodies)) + 1]
Collected(then) == IF then.c = "map" THEN MapOf(Ok(then.done, pos)).v ELSE Array(then.done)

(* Mutant of CallRepeated: the loop over nothing returns to the same op.    *)
CallRepeated_Again(then) ==
  IF then.remaining = 0 THEN Continue(frames, stack)
  ELSE CallThen(Advanced, NextBody(then), then, stack)

(* call_repeated: an empty container is pushed at once.                     *)
CallRepeated(then) ==
  IF then.remaining = 0 THEN Continue(Advanced, Push(stack, Collected(then)))
  ELSE CallThen(Advanced, NextBody(then), then, stack)

Container ==
  /\ AtOp({"seq", "map", "fixed"})
  /\ LET x == CASE Op.op = "seq" -> ReadLen(Op.minWire, input, pos)
                [] Op.op = "map" -> ReadLen(1, input, pos)
                [] OTHER -> FixedCount(Op.dimensions, Op.minWire, input, pos)
         bodies == IF Op.op = "map" THEN <<Op.key, Op.value>> ELSE <<Op.body>>
     IN IF ~x.ok THEN Fail(x.why)
        ELSE /\ CallRepeated(Repeated(Op.op, Op.op = "seq" /\ Op.set, bodies, x.v))
             /\ pos' = x.p
             /\ UNCHANGED <<given, result>>

Option ==
  /\ AtOp({"option"})
  /\ LET x == ReadCell(input, pos) IN
     CASE ~x.ok \/ x.v > 1 -> Fail("malformed")
       [] x.ok /\ x.v = 0 ->
            Continue(Advanced, Push(stack, Null)) /\ pos' = x.p /\ UNCHANGED <<given, result>>
       [] OTHER ->
            CallThen(Advanced, Op.some, NoneC, stack) /\ pos' = x.p /\ UNCHANGED <<given, result>>

Enum ==
  /\ AtOp({"enum"})
  /\ LET x == ReadCell(input, pos) IN
     IF ~x.ok THEN Fail(x.why)
     ELSE IF x.v \notin DOMAIN Op.arms THEN Fail("writer-only")
     ELSE /\ CallThen(Advanced, Op.arms[x.v].payload,
                      [c |-> "payload", reader |-> Op.arms[x.v].reader], stack)
          /\ pos' = x.p /\ UNCHANGED <<given, result>>

CallBlock ==
  /\ AtOp({"call"})
  /\ IF Op.arg.block \notin DOMAIN Plans[call].blocks THEN Fail("malformed")
     ELSE CallThen(Advanced, Plans[call].blocks[Op.arg.block], NoneC, stack)
          /\ UNCHANGED <<given, pos, result>>

Value == stack[Len(stack)]

(* A block, or the body of an option, is over: its value stays where it is. *)
Return ==
  /\ Running /\ Top.next > Len(Top.prog) /\ Top.then = NoneC
  /\ frames' = Popped
  /\ UNCHANGED <<given, stack, pos, result>>

(* Mutant of Accepts: a repeated set element is let through.                *)
Accepts_Repeated(then, v) ==
  then.c = "map" =>
    LET n == Len(then.done) IN
    IF n % 2 = 0 THEN v[1] = "string"
    ELSE \A i \in 1..n - 1 : i % 2 = 1 => then.done[i] # then.done[n]

(* What after_return checks of the value it pops: a set element is new; a   *)
(* map key is a string, and new when its value arrives.                     *)
Accepts(then, v) ==
  LET n == Len(then.done) IN
  /\ then.set => v \notin Range(then.done)
  /\ then.c = "map" /\ n % 2 = 0 => v[1] = "string"
  /\ then.c = "map" /\ n % 2 = 1 =>
       \A i \in 1..n - 1 : i % 2 = 1 => then.done[i] # then.done[n]

(* after_return of a loop: collect the value, then go round again or push   *)
(* the container.                                                           *)
AfterRepeated ==
  /\ Running /\ Top.next > Len(Top.prog) /\ Top.then.c \in {"seq", "map", "fixed"}
  /\ IF stack = <<>> \/ ~Accepts(Top.then, Value) THEN Fail("malformed")
     ELSE /\ LET done == Append(Top.then.done, Value)
                 round == Len(done) % Len(Top.then.bodies) = 0
                 then == [Top.then EXCEPT !.done = done, !.remaining = IF round THEN @ - 1 ELSE @]
             IN IF then.remaining = 0 THEN Continue(Popped, Push(Without(1), Collected(then)))
                ELSE CallThen(Popped, NextBody(then), then, Without(1))
          /\ UNCHANGED <<given, pos, result>>

(* after_return of EnumPayload: the payload becomes a one-key object.       *)
AfterPayload ==
  /\ Running /\ Top.next > Len(Top.prog) /\ Top.then.c = "payload"
  /\ IF stack = <<>> THEN Fail("malformed")
     ELSE /\ Continue(Popped, Push(Without(1), Object(<<Top.then.reader>>, <<Value>>)))
          /\ UNCHANGED <<given, pos, result>>

(* finish_interp: no bytes left, and the result on top of the stack.        *)
Finish ==
  /\ result = Pending /\ frames = <<>>
  /\ IF pos # Len(input) \/ stack = <<>> THEN Fail("malformed")
     ELSE /\ result' = Ok(Value, pos)
          /\ stack' = Without(1)
          /\ UNCHANGED <<given, frames, pos>>

Next ==
  \/ Leaf \/ Skip \/ Assemble \/ Container \/ Option \/ Enum \/ CallBlock
  \/ Return \/ AfterRepeated \/ AfterPayload \/ Finish

Spec == Init /\ [][Next]_vars /\ WF_vars(Next)

-----------------------------------------------------------------------------
(* How many values an op takes from the stack, and what it leaves of them   *)
(* (an op that runs a body leaves the value of the body, or the container). *)
Takes(op) == CASE op.op = "object" -> Len(op.keys)
               [] op.op = "array" -> op.count
               [] OTHER -> 0
Net(op) == IF op.op = "skip" THEN 0 ELSE 1 - Takes(op)

(* The sums of a sequence's first elements: what a program's ops, or the    *)
(* open frames, have left on the stack so far.                              *)
Sums(s) ==
  LET sum[i \in 0..Len(s)] == IF i = 0 THEN 0 ELSE sum[i - 1] + s[i]
  IN sum
Heights(prog) == Sums([i \in 1..Len(prog) |-> Net(prog[i])])
Left(frame) == Heights(frame.prog)[frame.next - 1]
Owed == Sums([i \in 1..Len(frames) |-> Left(frames[i])])[Len(frames)]

(* What lowering makes (phon_ir::ir): a complete subtree nets one value,    *)
(* which is what lets Object and Array split their children off by count,   *)
(* and an op that calls a block names one of the plan.                      *)
Held(op) ==
  CASE op.op \in {"seq", "fixed"} -> {op.body}
    [] op.op = "map" -> {op.key, op.value}
    [] op.op = "option" -> {op.some}
    [] op.op = "enum" -> {op.arms[v].payload : v \in DOMAIN op.arms}
    [] OTHER -> {}
Balanced(prog) ==
  /\ Len(prog) \in Nat
  /\ \A i \in 1..Len(prog) : Takes(prog[i]) \in Nat /\ Takes(prog[i]) <= Heights(prog)[i - 1]
  /\ Heights(prog)[Len(prog)] = 1
Blocks(prog) == {prog[i].arg.block : i \in {j \in 1..Len(prog) : prog[j].op = "call"}}
WellLowered(l, bodies) ==
  l.ok =>
    /\ l.program \in bodies /\ \A block \in DOMAIN l.blocks : l.blocks[block] \in bodies
    /\ \A prog \in bodies :
         /\ Balanced(prog) /\ Blocks(prog) \subseteq DOMAIN l.blocks
         /\ \A i \in 1..Len(prog) : Held(prog[i]) \subseteq bodies

ASSUME LoweredAssumption == \A c \in Calls : WellLowered(Plans[c], Bodies[c])

(* A message is cells; the codec reads inside of it, and fails without      *)
(* panicking.                                                               *)
ASSUME InputAssumption == \A b \in Inputs : b \in Seq(Nat)
ASSUME SkipAssumption ==
  \A c \in Calls : Plans[c].ok =>
    \A prog \in Bodies[c] : \A i \in 1..Len(prog) : prog[i].op = "skip" =>
      \A b \in Inputs : \A p \in 0..Len(b) :
        LET x == SkipRef(prog[i].writer, b, p)
        IN x.ok \in BOOLEAN /\ IF x.ok THEN x.p \in p..Len(b) ELSE x.why # "panic"

(* What every state of a run satisfies.  The stack holds exactly what the   *)
(* executed ops of the open frames left, a frame under another one still    *)
(* waiting for its last op's value, so that no op finds it too short; every *)
(* op that calls a block names one the plan built; the reader stays inside  *)
(* the message; and a call that returns a value has used everything up.     *)
TypeOK ==
  /\ pos \in 0..Len(input)
  /\ frames # <<>> => Len(stack) = Owed - (Len(frames) - 1)
  /\ \A i \in DOMAIN frames : /\ frames[i].next \in 1..Len(frames[i].prog) + 1
                              /\ Blocks(frames[i].prog) \subseteq DOMAIN Plans[call].blocks
  /\ result # Pending /\ result.ok => stack = <<>>
  /\ result # Pending /\ ~result.ok => result.why # "panic"

=============================================================================
