------------------------------ MODULE JitCompat ------------------------------
(***************************************************************************)
(* The native decoder against the interpreter: the same programs, run by   *)
(* module JitDecode after compilation and by module TypedDecode as they    *)
(* are.  A call whose program is not handed to the compiler ends at once   *)
(* here; it is the interpreter's.                                          *)
(***************************************************************************)
EXTENDS JitDecode, JitCompile, TypedEncode, TypedLower, Translation

CONSTANTS
  Cases,             \* a sequence of [writer, shape, codec], the calls considered
  Hints, Headroom    \* see module JitEncode

VARIABLES
  encoder,                               \* [program, blocks, native] of the shape
  out, encodePc, encodeCx, encodeStack, written,   \* module JitEncode
  seen               \* FramesSeen, kept because it is looked at often

(* A Codec decodes with the program it encodes with.                        *)
DecodeProgram(c) == IF c.codec THEN LowerTyped(c.shape) ELSE LowerDecode(c.writer, c.shape)
Handed(plan) == [plan EXCEPT !.ok = @ /\ NativeDecodeSupported(plan)]
JitPrograms == [i \in DOMAIN Cases |-> [retention |-> FALSE] @@ Handed(DecodeProgram(Cases[i]))]
JitImages ==
  [i \in DOMAIN Cases |-> IF JitPrograms[i].ok THEN CompiledDecode(JitPrograms[i]) ELSE NoLayout]
JitEncoders ==
  [i \in DOMAIN Cases |->
    LET plan == LowerTyped(Cases[i].shape)
    IN [lowered |-> plan, native |-> IF NativeEncodeSupported(plan) THEN CompiledEncode(plan) ELSE NoLayout]]

encodeVars == <<out, encodePc, encodeCx, encodeStack, written>>

Enc == INSTANCE JitEncode WITH
  native <- encoder.native, pc <- encodePc, cx <- encodeCx, stack <- encodeStack,
  Junk <- Width, Zeroes <- Width + 1, SpanLength <- Width + 2

-----------------------------------------------------------------------------
(* What the interpreter would be doing.  A chain that runs or waits is a    *)
(* frame; a stencil that waits is a continuation.  After an error the       *)
(* interpreter has nothing left, while the stencils still return.           *)
Refused == IF result = Pending THEN cx.status # 0 ELSE ~result.ok
FactsOf(chain) == native.chains[CHOOSE k \in DOMAIN native.chains : native.chains[k].entry = chain.entry]
ChainAt(depth) == FactsOf(IF depth = 0 THEN native.top ELSE stack[depth].called)
Position(facts, at) == CHOOSE i \in DOMAIN facts.starts : facts.starts[i] = at

Continuation(wait, op) ==
  CASE wait.kind = "call" -> [c |-> "restore", base |-> wait.base]
    [] wait.kind = "enum" -> [c |-> "none"]
    [] wait.kind = "seq" ->
         [c |-> "seq", op |-> op, base |-> wait.base, scratch |-> wait.scratch,
          next |-> wait.next, count |-> wait.count, list |-> wait.handle]
    [] wait.kind = "set" ->
         [c |-> "set", op |-> op, base |-> wait.base, scratch |-> wait.scratch,
          set |-> wait.handle, remaining |-> wait.count - wait.entry]
    [] wait.kind = "map" ->
         [c |-> wait.half, op |-> op, base |-> wait.base, scratch |-> wait.key, value |-> wait.value,
          map |-> wait.handle, total |-> wait.count, remaining |-> wait.count - wait.entry + 1]
    [] OTHER ->
         [c |-> "init", kind |-> wait.init, base |-> wait.base, scratch |-> wait.scratch, handle |-> wait.handle]

FrameSeen(depth) ==
  LET facts == ChainAt(depth)
  IN [prog |-> facts.program,
      next |-> IF depth < Len(stack) THEN Position(facts, stack[depth + 1].pc) + 1
               ELSE IF pc = 0 THEN Len(facts.starts) ELSE Position(facts, pc),
      then |-> IF depth = 0 THEN [c |-> "none"]
               ELSE LET caller == ChainAt(depth - 1)
                    IN Continuation(stack[depth], caller.program[Position(caller, stack[depth].pc)])]
FramesSeen ==
  IF Refused \/ (pc = 0 /\ stack = <<>>) THEN <<>>
  ELSE [i \in 1..Len(stack) + 1 |-> FrameSeen(i - 1)]

-----------------------------------------------------------------------------
(* The two together: what was decoded is encoded, before its holder drops   *)
(* it, by the code made of the shape's own program.                         *)
Encoding == encodeCx.ptr # 0
JitInit == Init /\ Enc!Init /\ encoder = JitEncoders[call] /\ seen = FramesSeen
DecodeStep == Step /\ UNCHANGED <<encoder, encodeVars>> /\ seen' = FramesSeen'
Drop == DropValue /\ ~Encoding /\ UNCHANGED <<encoder, encodeVars>> /\ seen' = FramesSeen'
StartEncode ==
  /\ result # Pending /\ result.ok /\ mem[Destination.at].live /\ ~Encoding /\ written = Enc!Pending
  /\ encoder.native.chains # <<>>
  /\ UNCHANGED <<vars, encoder, seen>> /\ Enc!Start
EncodeStep == Encoding /\ UNCHANGED <<vars, encoder, seen>> /\ Enc!Step
JitNext == DecodeStep \/ Drop \/ StartEncode \/ EncodeStep
jitVars == <<vars, encoder, encodeVars, seen>>
JitSpec == JitInit /\ [][JitNext]_jitVars /\ WF_jitVars(DecodeStep) /\ WF_jitVars(EncodeStep)

Interp == INSTANCE TypedDecode WITH
  NativeMax <- Width,
  frames <- seen,
  base <- IF Refused THEN Destination ELSE cx.base,
  pos <- IF Refused THEN 0 ELSE cx.wire,
  retained <- <<>>,
  mem <- IF Refused THEN Freed(mem, UNION {Held(stack[i]) : i \in DOMAIN stack}) ELSE mem,
  result <- IF result = Pending /\ cx.status # 0 THEN Err(ErrorOf(cx.status)) ELSE result

-----------------------------------------------------------------------------
(* r[exec.jit-optional] (docs/content/spec.md:1854): a JIT "produces        *)
(* results identical to the interpreter".  Every step of the native decoder *)
(* is a step of the interpreter or invisible to it: the same value in the   *)
(* same memory, the same allocations owned by the same handles, the same    *)
(* refusals, and nothing leaked while the stencils return from an error.    *)
ImplementsInterpreter == Interp!Init /\ [][Interp!Next]_(Interp!vars)

(* Code and stream stay in step: the stencil about to run finds the words   *)
(* of its own kind, with no hole left unfilled and the info the right one;  *)
(* nested chains are laid out between a stencil and its continuation, and   *)
(* share one code buffer and one list of infos per kind.                    *)
InStep ==
  result = Pending /\ pc # 0 =>
    LET kind == native.code[pc].stencil
        stream == native.progs[cx.prog.stream]
    IN IF kind = "done" THEN cx.prog.at = Len(stream) + 1
       ELSE /\ cx.prog.at <= Len(stream)
            /\ WordAt(0).is = IF kind = "scalar" THEN "imm" ELSE kind

(* The native encoder writes what the interpreter writes, whatever the      *)
(* buffer's first capacity and wherever it grows: no cell goes to a buffer  *)
(* that was given up or is lost in a move, the length of every span is      *)
(* filled in, and nothing is left that was never written.                   *)
JitEncodes ==
  written # Enc!Pending =>
    SelectSeq(written.cells, LAMBDA c : c # Width + 2) = EncodeWith(mem, encoder.lowered)

(* docs/content/spec.md:1860: a strict mode "records every subtree its JIT  *)
(* could not compile and fell back on".  record_decode_fallbacks and        *)
(* decode_program_supported each have a list of their own.                  *)
FallbacksAreRecorded ==
  LET NotCompiled == DecodeProgram(Cases[call]).ok /\ ~lowered.ok
  IN NotCompiled => FallbackReport(lowered).decode # {}

(* Every run of the native code returns: chains are finite, a stencil       *)
(* branches forward, loops count, and a block called inside of itself has   *)
(* read a byte (of schemas for which it has not, nothing is claimed).  The  *)
(* fairness is that of a running thread.                                    *)
JitReturns ==
  /\ Productive(Cases[call].writer) /\ Productive(RefOf(Cases[call].shape)) => <>(result # Pending)
  /\ Encoding ~> ~Encoding

=============================================================================
