----------------------------- MODULE JitCompile -----------------------------
(***************************************************************************)
(* The copy-and-patch compiler: Compiler and EncCompiler of                *)
(* rust/phon-jit/src/native.rs, over Weavy's StencilLayout.                *)
(*                                                                         *)
(* A program becomes a chain: one stencil per op, then a done stencil.     *)
(* Stencils are copied one after another into one code buffer, the chains  *)
(* an op calls right after the op's own stencil, so a stencil continues    *)
(* where its patched branch says.  A chain has a stream of words that its  *)
(* stencils take in order: the immediates of a scalar, or a pointer to an  *)
(* info, which is a hole until a second pass fills it.                     *)
(*                                                                         *)
(* Alignment, thunks and addresses are left out: an info names what its    *)
(* thunks do, and a run of scalars is its segments as scalars of their own.*)
(* Native-sized integers, at which the compiler panics, are not among the  *)
(* ops.                                                                    *)
(***************************************************************************)
EXTENDS Naturals, SequencesExt

Word(is, v) == [is |-> is, v |-> v]
Hole == Word("hole", 0)

(* StencilLayout: code, streams, and what the walk collects.  `chains'      *)
(* records which program each chain was laid out for and is read by no code.*)
InfoKinds == {"pointer", "seq", "set", "map", "text", "borrow", "option", "result",
              "opaque", "dynamic", "call", "enum", "default", "skip"}
NoLayout ==
  [code |-> <<>>, progs |-> <<>>, infos |-> [k \in InfoKinds |-> <<>>], fixups |-> <<>>, chains |-> <<>>]
CodeLen(c) == Len(c.code)
StartChain(c) == [c EXCEPT !.progs = Append(@, <<>>)]
EmitStencil(c, stencil) == [c EXCEPT !.code = Append(@, [stencil |-> stencil, cont |-> 0])]
PushWords(c, prog, words) == [c EXCEPT !.progs[prog] = @ \o words]

(* The programs an op calls; each is compiled to a chain of its own.        *)
SubPrograms(op) ==
  CASE op.op = "pointer" -> <<op.pointee>>
    [] op.op \in {"seq", "set"} -> <<op.body>>
    [] op.op = "option" -> <<op.some>>
    [] op.op = "result" -> <<op.ok, op.err>>
    [] op.op = "map" -> <<op.key, op.value>>
    [] op.op = "enum" -> [i \in DOMAIN op.variants |-> op.variants[i].payload]
    [] OTHER -> <<>>

(* The decoder's infos.  A reference's pointee is retained by the           *)
(* interpreter; the compiler does not look at `retain', and what init does  *)
(* with the pointee is the thunk's affair.                                  *)
BytesInfo(op) == [offset |-> op.offset]
AdaptedInfo(op) == [offset |-> op.offset]
FillInfo(op) == IF op.op = "skip" THEN [skip |-> op.skip] ELSE [offset |-> op.offset]
CallBlockInfo(op) == [offset |-> op.offset, block |-> op.block]
LeafInfo(op) ==
  CASE op.op \in {"text", "borrow"} -> BytesInfo(op)
    [] op.op \in {"opaque", "dynamic"} -> AdaptedInfo(op)
    [] op.op \in {"default", "skip"} -> FillInfo(op)
    [] op.op = "call" -> CallBlockInfo(op)
PointerInfo(op, subs) ==
  [offset |-> op.offset, size |-> op.size, init |-> IF op.retain THEN "ref" ELSE "box", pointee |-> subs[1]]
SeqInfo(op, subs) ==
  [offset |-> op.offset, stride |-> op.stride, minWire |-> op.minWire, element |-> subs[1]]
SetInfo(op, subs) ==
  [offset |-> op.offset, size |-> op.size, minWire |-> op.minWire, element |-> subs[1]]
OptInfo(op, subs) == [offset |-> op.offset, size |-> op.size, some |-> subs[1]]
ResultInfo(op, subs) ==
  [offset |-> op.offset, okIndex |-> op.okIndex, errIndex |-> op.errIndex,
   okSize |-> op.okSize, errSize |-> op.errSize, ok |-> subs[1], err |-> subs[2]]
MapInfo(op, subs) ==
  [offset |-> op.offset, keySize |-> op.keySize, valueSize |-> op.valueSize, key |-> subs[1], value |-> subs[2]]
EnumInfo(op, subs) ==
  [offset |-> op.offset, writerOnly |-> op.writerOnly,
   variants |-> [i \in DOMAIN subs |-> [wire |-> op.variants[i].wire, selector |-> op.variants[i].selector,
                                        payload |-> subs[i]]]]
DecInfo(op, subs) ==
  CASE op.op = "pointer" -> PointerInfo(op, subs)
    [] op.op = "seq" -> SeqInfo(op, subs)
    [] op.op = "set" -> SetInfo(op, subs)
    [] op.op = "option" -> OptInfo(op, subs)
    [] op.op = "result" -> ResultInfo(op, subs)
    [] op.op = "map" -> MapInfo(op, subs)
    [] op.op = "enum" -> EnumInfo(op, subs)
    [] OTHER -> LeafInfo(op)

(* The encoder's stencils and infos: borrowed text goes through the bytes   *)
(* stencil, and nothing says how much memory a value takes.                 *)
EncStencil(op) == IF op.op = "borrow" THEN "text" ELSE op.op
EncSubInfo(op, subs) == [offset |-> op.offset, sub |-> subs[1]]
EncResultInfo(op, subs) ==
  [offset |-> op.offset, okIndex |-> op.okIndex, errIndex |-> op.errIndex, ok |-> subs[1], err |-> subs[2]]
EncMapInfo(op, subs) == [offset |-> op.offset, key |-> subs[1], value |-> subs[2]]
EncEnumInfo(op, subs) ==
  [offset |-> op.offset,
   variants |-> [i \in DOMAIN subs |-> [wire |-> op.variants[i].wire, selector |-> op.variants[i].selector,
                                        payload |-> subs[i]]]]
EncInfo(op, subs) ==
  CASE op.op = "enum" -> EncEnumInfo(op, subs)
    [] op.op \in {"pointer", "seq", "set", "option"} -> EncSubInfo(op, subs)
    [] op.op = "result" -> EncResultInfo(op, subs)
    [] op.op = "map" -> EncMapInfo(op, subs)
    [] OTHER -> LeafInfo(op)

-----------------------------------------------------------------------------
(* The first pass: compile_chain.                                           *)
RECURSIVE CompileChain(_, _, _), CompileAll(_, _, _), LayOps(_, _, _, _, _)

(* Mutant of InfoIndex: the info is numbered before the chains its op calls,*)
(* which may push infos of their own.                                       *)
InfoIndex_Early(before, after, kind) == Len(before.infos[kind]) + 1

InfoIndex(before, after, kind) == Len(after.infos[kind]) + 1

(* One op: its stencil, its words, its chains, and the hole to fill.        *)
LayOp(c, prog, op, encodes) ==
  LET kind == IF encodes THEN EncStencil(op) ELSE op.op
      emitted == EmitStencil(c, kind)
  IN IF op.op = "scalar" THEN PushWords(emitted, prog, <<Word("imm", op.offset), Word("imm", op.size)>>)
     ELSE LET reserved == PushWords(emitted, prog, <<Hole>>)
              all == CompileAll(reserved, SubPrograms(op), encodes)
              info == IF encodes THEN EncInfo(op, all.chains) ELSE DecInfo(op, all.chains)
              fixup == [prog |-> prog, slot |-> Len(reserved.progs[prog]), kind |-> kind,
                        info |-> InfoIndex(c, all.c, kind)]
          IN [all.c EXCEPT !.infos[kind] = Append(@, info), !.fixups = Append(@, fixup)]

CompileAll(c, programs, encodes) ==
  IF programs = <<>> THEN [c |-> c, chains |-> <<>>]
  ELSE LET first == CompileChain(c, Head(programs), encodes)
           rest == CompileAll(first.c, Tail(programs), encodes)
       IN [c |-> rest.c, chains |-> <<first.chain>> \o rest.chains]

(* The ops in order, and where each one's stencil starts.                   *)
LayOps(c, prog, ops, starts, encodes) ==
  IF ops = <<>> THEN [c |-> c, starts |-> starts]
  ELSE LayOps(LayOp(c, prog, Head(ops), encodes), prog, Tail(ops), Append(starts, CodeLen(c) + 1), encodes)

(* Every branch goes to the next op, the last to done.                      *)
PatchChain(c, starts) ==
  LET done == CodeLen(c)
  IN [c EXCEPT !.code = [at \in DOMAIN c.code |->
        IF \E i \in DOMAIN starts : starts[i] = at
        THEN [c.code[at] EXCEPT !.cont = LET i == CHOOSE i \in DOMAIN starts : starts[i] = at
                                         IN IF i = Len(starts) THEN done ELSE starts[i + 1]]
        ELSE c.code[at]]]

CompileChain(c, program, encodes) ==
  LET chain == [entry |-> CodeLen(c) + 1, prog |-> Len(c.progs) + 1]
      laid == LayOps(StartChain(c), chain.prog, program, <<>>, encodes)
      done == EmitStencil(laid.c, "done")
      facts == chain @@ [program |-> program, starts |-> Append(laid.starts, CodeLen(done))]
  IN [c |-> [PatchChain(done, laid.starts) EXCEPT !.chains = Append(@, facts)], chain |-> chain]

-----------------------------------------------------------------------------
(* The second pass: what could not be known before every chain was placed.  *)

(* The infos get the entries of their chains: those an op lists it has      *)
(* already here, a call's is that of its block (block_chains).              *)
BindCalls(infos, blockChains) ==
  [infos EXCEPT !["call"] = [i \in DOMAIN @ |->
     [offset |-> @[i].offset, chain |-> blockChains[@[i].block]]]]

(* fill_prog_word, for every fixup.                                         *)
FillSlots(progs, fixups) ==
  [p \in DOMAIN progs |-> [s \in DOMAIN progs[p] |->
     IF \E f \in Range(fixups) : f.prog = p /\ f.slot = s
     THEN LET f == CHOOSE f \in Range(fixups) : f.prog = p /\ f.slot = s IN Word(f.kind, f.info)
     ELSE progs[p][s]]]

(* compile_with_blocks of NativeDecode and of NativeEncode.                 *)
Compiled(lowered, encodes) ==
  LET ids == SetToSeq(DOMAIN lowered.blocks)
      top == CompileChain(NoLayout, lowered.program, encodes)
      all == CompileAll(top.c, [i \in DOMAIN ids |-> lowered.blocks[ids[i]]], encodes)
      blockChains == [id \in DOMAIN lowered.blocks |->
                        all.chains[CHOOSE i \in DOMAIN ids : ids[i] = id]]
  IN [code |-> all.c.code, progs |-> FillSlots(all.c.progs, all.c.fixups),
      infos |-> BindCalls(all.c.infos, blockChains), top |-> top.chain, chains |-> all.c.chains]
CompiledDecode(lowered) == Compiled(lowered, FALSE)
CompiledEncode(lowered) == Compiled(lowered, TRUE)
-----------------------------------------------------------------------------
(* Which programs a Codec has compiled, and what it reports of the others:  *)
(* the JIT part of rust/phon/src/lib.rs.  A program that is not supported   *)
(* is interpreted instead.                                                  *)
AllOf(lowered, Supported(_)) ==
  Supported(lowered.program) /\ \A id \in DOMAIN lowered.blocks : Supported(lowered.blocks[id])

RECURSIVE DecodeProgramSupported(_), EncodeProgramSupported(_)

(* Mutant of DecodeProgramSupported: a pointer is supported when its        *)
(* pointee is.                                                              *)
DecodeProgramSupported_References(program) ==
  \A i \in DOMAIN program :
    /\ program[i].op # "native"
    /\ \A nested \in Range(SubPrograms(program[i])) : DecodeProgramSupported(nested)

DecodeProgramSupported(program) ==
  \A i \in DOMAIN program :
    /\ program[i].op # "native"
    /\ program[i].op = "pointer" => ~program[i].retain
    /\ \A nested \in Range(SubPrograms(program[i])) : DecodeProgramSupported(nested)
EncodeProgramSupported(program) ==
  \A i \in DOMAIN program :
    /\ program[i].op \notin {"native", "skip", "default"}
    /\ \A nested \in Range(SubPrograms(program[i])) : EncodeProgramSupported(nested)

NativeDecodeSupported(lowered) == AllOf(lowered, DecodeProgramSupported)
NativeEncodeSupported(lowered) == AllOf(lowered, EncodeProgramSupported)

(* The strict recording: the paths of the ops that are not supported.       *)
RECURSIVE RecordFallbacks(_, _, _)
RecordFallbacks(program, path, ops) ==
  {Append(path, i) : i \in {i \in DOMAIN program : program[i].op \in ops}}
  \cup UNION {LET nested == SubPrograms(program[i])
              IN UNION {RecordFallbacks(nested[j], path \o <<i, j>>, ops) : j \in DOMAIN nested}
                : i \in DOMAIN program}
FallbackReport(lowered) ==
  LET All(ops) == UNION {RecordFallbacks(p, <<>>, ops) :
                           p \in {lowered.program} \cup {lowered.blocks[id] : id \in DOMAIN lowered.blocks}}
  IN [decode |-> All({"native"}), encode |-> All({"native", "skip", "default"})]

=============================================================================
