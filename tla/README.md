# Formal model of phon

phon is a typed binary format with an execution engine. Schemas are content
addressed; a reader plans how to read a writer's bytes before it sees them; the
plan is run by a tree walk, a linear-IR interpreter or a JIT; and durable files
keep a root value, lazily read regions and auxiliary data behind digests. This
directory holds the TLA+ modules for its core, the TLC instances that check
them and the proofs TLAPS checks.

## Inventory

| Component | State | Operations | What is hard | What makes it right | Here |
|---|---|---|---|---|---|
| Recursive reader schemas (`phon-engine/src/plan.rs`) | visited and on-stack sets, stack, marked set | `visit_schema` | overlapping cycles, listing order | every cycle cut, nothing else marked, the walk ends | `RecursiveIds` |
| Compatibility planner (`plan.rs`, `compat.rs`) | blocks, blocks being built | `build_plan`, lowering, tree walk `exec` | recursion on either side, name matching against wire order | a plan exists exactly for compatible schemas; running it translates | `CompatPlan`, `Translation` |
| Value interpreter (`interp.rs`) | frames, value stack, reader | ops, continuations | loops turned into continuations, stack discipline, no bound on depth | agrees with the tree walk, returns when the schema reads a byte before it comes back to itself | `Interp` |
| Compact codec (`compact.rs`, `bytes.rs`) | reader position | encode, decode | count limits, zero-sized elements, tags against positions | rereads what it writes | `Compact` (partly) |
| Durable writer (`phon-storage/src/durable_file.rs`, `write_to`) | sink, emitted parts, bytes written | passes, short writes, errors | partial writes, stops, digests before data | publishes the whole file or reports | `DurableWrite` |
| Durable file format and reader (same file) | destination, earlier file, damage | plan, layout, parse, feature admission | overwriting in place, derived offsets, digests | whole payloads, of one generation where digests can tell; no damaged payload; verdict per feature | `DurableFile`, `DurableStore` |
| Opaque program cache (`phon/src/derive.rs`, `inner_program`) | map behind an `RwLock` | lookup, build, publish | racing misses, guards, panic on an unsupported shape | settles once, everyone shares, returns | `ProgramCache` |
| Typed decode/encode (`typed.rs`, `phon-ir/src/ir.rs`, descriptors and thunks of `derive.rs`) | frames, scratch, base pointer, retained pointees, raw memory | two lowerings, memory ops, continuations, encode, skip | partial failure, ownership, offsets against wire order | one owner per allocation; the value in memory is the promised translation | `TypedMemory`, `TypedDecode` and the other `Typed*` (partly) |
| JIT (`phon-jit/src/native.rs`, `stencils/stencils.rs`, `phon/src/lib.rs`) | code and word streams, context, machine stack, growing buffer | two compilers, two runs, a stencil per op | two cursors that must stay in step; errors that unwind through native frames; a raw pointer into a buffer that moves | the interpreter's results, step by step | `JitCompile`, `JitDecode`, `JitEncode`, `JitCompat` |
| Self-describing codec (`phon-schema/src/selfdescribing.rs`) | reader, native frames, uniqueness checks, budget of owned bytes | `read_value`, `write_value`, schemas by themselves | claims before data, depth, repeated names, texts of the extended kinds | all of the message is in the value; it reads what it writes; the stack is bounded | `SelfDescribing`, `SelfDescribingValues`, `SchemaForms` |
| Schema bundles and registries (`schema_bundle.rs`, `Registry::try_new` and `resolve` of `compact.rs`) | string and schema tables, budgets, ids | write, read, admit, resolve | a writer of two passes, one canonical form, budgets, substitution one level at a time | what is written is admitted, what is admitted is canonical and resolves | `SchemaForms`, `SchemaBundle`, `SchemaRegistry`, `SchemaExchange` |
| Schema identity (TypeScript, Swift; Rust uses the external crate taxon) | Tarjan stacks, hashes | `resolveIds`, identity walk | mutual recursion, batch order | same id from every member and order | no: in Rust it is another crate; planned |
| Number formats, names, constant tables | none | conversions | | | as data |
| TypeScript and Swift engines | as the Rust ones | as the Rust ones | same rules in three languages | agreement on the conformance vectors | no: repeat the Rust ones |
| Threaded closures (`phon-jit/src/lower.rs`) | none | closures over scalars, pointers and sequences | | | no: the native code's test oracle, used by no codec |
| Code generators, conformance, benches, examples | none | text, measurements | | | no |

How they interact: a bundle, or a schema by itself, is read and admitted; a
registry resolves its ids and substitutes its parameters; the planner marks the
reader's recursive ids, builds a tree of nodes with one block per marked id, and
lowers it; the interpreter and the tree walk read the same bytes, calling the
compact codec for writer-only fields. `derive` builds descriptors, caches lowered
programs for opaque handles, and runs them from any thread; a `Codec` compiles what
the JIT supports and interprets the rest. The durable writer
streams the compact bytes of root and regions; the durable reader hands verified
extents back to the decoder.

## Modules

**`RecursiveIds`** (`MCRecursiveIds`, `RecursiveIdsProofs`). One behaviour is one
`recursive_schema_ids` call. `stack` is the native call stack, `todo` the unread
part of each frame's loop, `visited`, `onStack` and `recursive` the collections
of the code; `BackEdge`, `PassOver`, `Descend` and `Return` are the branches of
the loop. The listing order of references is arbitrary, so a step takes any of
them. `rank` and `clock` are history.

**`Publication`, `DurableWrite`** (`MCDurableWrite`, `DurableWriteProofs`).
`Publication` says what a caller of `write_to` may rely on: the destination is a
prefix of the file and "ok" means the whole file. `DurableWrite` is `write_to`
over a sink that may take part of a buffer, return an error or stop, and is
shown to implement it.

**`DurableFile`, `DurableStore`** (`MCDurableStore`, `DurableStoreProofs`). `DurableFile` is the format as operators in cells of eight bytes: `Canonical`, `Freezable`, `Layout` for the
writer and `HeaderOk`, `DescriptorsOk`, `PlacementOk`, `RolesOk`, `SchemasOk`,
`Diagnosed` for the reader, one per group of checks in `parse` and
`admit_features`. `DurableStore` composes it with `DurableWrite`: a plan is
written over an earlier file that nobody truncated, the process may stop, and
one stored field may be damaged. Bytes, hash values and encodings are abstract;
a digest is the data it covers.

**`OnceMap`, `ProgramCache`** (`ProgramCacheProofs`; TLC runs `ProgramCache` itself).
`inner_program` per thread: take the read guard, hit or miss, build without a
guard, take the write guard, publish with `entry().or_insert`. `OnceMap` is a map
whose entries are settled once; `ProgramCache` implements it.

**`Wire`, `Compact`, `CompatPlan`, `Interp`, `Translation`, `CompatDecode`**
(`MCCompatDecode`, `InterpProofs`). `Wire` is the reader's cursor: one cell, text, counts
bounded by what is left, and the values made of them. `Compact` is the codec over messages of cells (one cell per
scalar, tag, count or presence byte, so padding and byte lengths are out).
`CompatPlan` is `plan_ref` with its context of blocks, `plan_kind`, lowering and
`exec`. A variant's payload is a kind, because `plan_payload`, `exec_payload` and
`decode_payload` repeat the walks of a kind at the same depths. `Interp` is one
`decode_via_ir` call step by step: each op of `step_intrinsic` is an action, each
`after_return` another; Weavy's run loop is an external crate modelled from its
use (push a frame, run a continuation when its program is over). It takes the
lowered programs and skipping as CONSTANTS, so that it reaches no RECURSIVE
operator and can be proved about; `CompatDecode` gives it what `CompatPlan` and
`Compact` make of each pair of schemas. `Translation`
is the promise: compatibility as the largest relation closed under the rules,
translation of a decoded value with neither plans, blocks nor bytes, and which
schemas read a byte before they come back to themselves (`Productive`).
`CompatDecode` compares them. The recursive ids of the reader are any set of ids
on cycles that leaves no cycle uncut, which is what `RecursiveIds` is shown to
compute; the model does not depend on the listing order. Which of several
failures is reported first is out.

**`TypedLower`, `TypedMemory`, `TypedDecode`, `TypedOwnership`, `TypedEncode`,
`TypedCompat`** (`MCTypedShapes`, `MCTypedDecode`, `TypedOwnershipProofs`).
`TypedLower` is the way from a Rust type to a memory program: the schema of a type
(`Builder` in `derive.rs`), to which pointers, borrowing and opaque fields are
invisible; descriptors with slot offsets and blocks for recursive types;
`lower_node` for one schema, `lower_decode_node` for a writer's schema against the
reader's descriptor, and `skip`. `TypedMemory` is raw memory and the thunks of
`derive.rs` that initialize, fill and read a handle. Memory is made of nodes, a
node is an allocation of slots, and a slot is uninitialized, or holds a scalar or
a handle that may own nodes. No variable records ownership: an owner is whatever
still names a node, so a node named twice, or not at all, shows as such.
`ptr::read` of a value gives it a new node, because its scratch is freed without a
drop. `TypedDecode` is `DecodeInterp`, one action per `MemOp` and one per
continuation. An error unwinds the frames as their destructors would. The caller's
later drops of the value and of the `DecodeRetention` are actions too.
`TypedDecode` takes programs, skipping and equality as CONSTANTS, so that it
reaches no RECURSIVE operator and can be proved about. `TypedOwnership` states
who owns its memory, for programs that are laid out in the memory they write to. `TypedEncode` is the encoder, a
function of memory. `TypedCompat` states what the three promise together, with
`Translation` as the reference again.

**`JitCompile`, `JitDecode`, `JitEncode`, `JitCompat`** (`MCJit`).
`JitCompile` lays a program out: one stencil per op and a done stencil, the
chains an op calls right after its own stencil, a stream of words per chain,
infos in a list per kind, holes filled in a second pass; and what
`phon/src/lib.rs` hands to the compiler and reports of it. `JitDecode` runs the
code: one action per stencil, and one for each return of a nested chain; the
machine stack holds the locals of the stencils that wait. `JitEncode` writes
through a raw pointer into a vector that moves when it grows and when an adapter
appends to it: a buffer has a generation, and what goes through an older pointer,
or past the capacity, is lost. `JitCompat` maps the native decoder to
`TypedDecode` (INSTANCE ... WITH): the context's base and position, the stencils'
locals as continuations, the status as the result, and memory as it is, except
that scratch held by stencils on their way out counts as freed from the moment
the interpreter would have freed it.

**`SelfDescribing`, `SelfDescribingValues`** (`MCSelfDescribing`,
`SelfDescribingProofs`). The reader of self-describing values as a stack of
`dec_value` calls over a message of cells, each with its length in bytes, since
claims are compared with the bytes left. The first reading invents the message
cell by cell; what was read is written by `WrittenForm` and read again. Values
have any depth, so equality and writing are recursive and reach the reader as
CONSTANTS.

**`SchemaForms`, `SchemaBundle`, `SchemaRegistry`, `SchemaExchange`**
(`MCSchemaExchange`). `SchemaForms` holds what each function of the two schema
codecs writes and reads, part by part, as tables, one for each writer and one for
each reader, and the walk that follows a table, with its nesting and owned-bytes
checks. `SchemaBundle` is the bundle around the members: collection of names,
string table, order, and the checks of `schema_bundle_to_bytes` and
`schema_bundle_from_bytes`. `SchemaRegistry` is `Registry::try_new`, resolution with
substitution, and the zero-size test. `SchemaExchange` composes them: a batch is
written as a bundle, or one schema by itself, by phon or by another writer that
checks nothing; a cell may be changed, removed or doubled, or the message cut;
it is read, made a registry, and a codec walks along the references. Ids are
hashes of content made by another crate, so a schema either states its own id or
does not (`Genuine`); the grammar of qualified names is a set of names.

`Compact`, `CompatPlan`, `Translation`, `TypedLower`, `TypedEncode`,
`JitCompile`, `SelfDescribingValues`, `SchemaForms` and what extends them use
RECURSIVE operators and are for TLC only. The other
modules have none.

## Runs

| Run | Instance | Shows |
|---|---|---|
| `walk` | all graphs of four schemas with at most two references each | cycles cut, nothing else marked, the walk ends; four ids suffice for two overlapping cycles with a cross edge |
| `write` | short files, every short write, error and stop | success means the whole file; anything else is a prefix of it |
| `store` | 75 plans with up to two regions and two aux extents, eleven earlier files, every prefix, every single-field damage | whole payloads, of one generation when the files are laid out alike, whole files admitted, damage not served, schemas of regions, verdicts of features |
| `cache` | three threads, two calls each, two good shapes and one bad | exclusive guards, one program per shape, calls return |
| `compat` | 39 schema pairs, every choice of recursive ids, all messages of up to five cells of three values | plans exactly for compatible pairs; walk, interpreter and translation agree; rereading; a call returns when its schema is productive |
| `compat_blocks` (violation) | two writer schemas under one recursive reader schema | the second writer's bytes are read by the first one's plan |
| `compat_depth` (violation) | `struct A { a: A }` | the run loop opens block after block and counts no depth |
| `typed` | 25 shapes with their own schema, two with a Codec, 24 pairs of versions; all messages of up to five cells of three values | one owner per allocation, fresh targets, live references, agreement with the translation through the encoder, both lowerings alike, lowering exactly for the compatible pairs that the decoder carries (below), a call returns when its schemas are productive |
| `typed_native` (violation) | a native-sized integer that is narrower in memory | a decoder lowered for a writer's schema writes past its range |
| `jit` | shapes with their own Codec, 7 pairs of versions, all messages of up to four cells, two first capacities, growth with and without headroom | the native decoder refines the interpreter, code and stream stay in step, the native encoder writes what the interpreter writes, both return for productive schemas |
| `value` | every tag at the top, fewer inside, messages of 6 to 22 bytes, depth bound 2 | no scalar, key or name is lost, what is written is reread, the stack is bounded, the reading ends |
| `bundle` | 50 batches of schemas of every kind, well- and ill-formed; written by phon in either form or by another writer, with at most one damage; walks of up to six references | what phon writes is admitted, admitted messages are canonical and resolve; a schema by itself is charged for its names and lists, a bundle for each name of its table once |

Further configurations were run by hand. Their properties are in the modules, each
with the line it quotes.

| Property | Configuration | TLC finds |
|---|---|---|
| `GenericCyclesAreCut` | `RecursiveIds.cfg` with `Ids = {a, b, c}`, `Generic = {b}` and the invariant | cycles through generic schemas are not cut |
| `AgreesValueForValue` | `CompatDecode.cfg` with `MaxDepth = 4`, `Cases <- DeepCalls` and the invariant | the interpreter decodes what the tree walk refuses as too deep |
| `CompatibleLowers` | `TypedDecode.cfg` with the invariant | compatible pairs that the typed decoder refuses to lower |
| `ValidatesText` | `TypedDecode.cfg` with `Cases <- TextCases` and the invariant | an invalid `char` is decoded into memory (docs/content/spec.md:1652) |
| `PaddingIsZero`, `RegionsReachable` | `DurableStore.cfg` with the invariant | padding and reachability are not checked by `parse` |
| `FallbacksAreRecorded` | `Jit.cfg` with `Cases <- ReportCases` and the invariant | a decoder that was not compiled is missing from the report of fallbacks |
| `RetainsWithinLimit` | `SchemaExchange.cfg` with the invariant | a bundle within `max_owned_bytes` whose members hold more, since copies of names are not charged |
| `ArraysAreBounded` | `SchemaExchange.cfg` with the invariant | an array of a type parameter is not bounded again when unit replaces the parameter; a decoder's own count check still refuses it |

Bounds. Two regions and two aux extents are the least with two of each role, so
that orders and shared offsets matter. Three threads let two race while a third
finds the result. Five cells hold a two-element list of structs, a three-node
linked list, a map of two entries with equal keys; `MaxDepth = 8` is reached by
no plan of these schemas but by some messages, so both sides of the bound occur,
`ZstCap = 2` is exceeded by a count cell, and `MaxWord = 8` by dimensions whose
product `checked_mul` refuses, although the last of them is 0. `Width = 3` gives a value outside bool,
outside an option's presence byte and outside a two-variant enum. The shapes of
`typed` have one for every op, pointers and options inside lists, sets, maps,
arrays, results and enums, a reference to a reference, and two recursive types,
one through an option and one through a list, which nest deep enough for a block
to be entered inside itself twice. Five cells suffice to fail inside the second
element of any container. `jit` has four, since each call is compiled, decoded and
encoded again: enough for two elements, a nested failure, and a buffer that grows
in the middle of a span. In `value` a depth bound of 2 can be met below every
container, `MaxWord = 255` is exceeded by the dimensions 128 and 2, and a count of 40
claims more than any message holds. The limits of `bundle` (`MaxStrings = 5`,
`MaxSchemas = 5`, `MaxOwned = 24`, `MaxTotal = 106`, `MaxNesting = 4`, `MaxDepth = 6`,
`ZstCountCap = 8`, `MaxCount = 100`, `MinWireDepth = 4`) are small enough that batches
are refused for depth, for owned bytes, for the size of a table, for their number
(one batch has six members), for their length (106 cells are the longest bundle
that is admitted, and damage may double one) and for an array's count, and large enough for generic schemas within generic schemas; `MaxSteps = 6`
passes through each of their levels.

Fairness. `RecursiveIds`, `Interp`, `TypedDecode`, the native code,
`SelfDescribing` and the cache assume that a thread in
straight-line code goes on: weak fairness of the step. `cache` gives each thread
its own, because threads are scheduled independently. A thread has finitely many
calls in the model (`MaxCalls = 2`), so an endless stream of readers that starves
a writer does not occur; the standard library leaves the lock's priority
unspecified, so nothing is claimed about it. A panic on an unsupported shape
happens outside the lock and does not poison it; at the `extern "C"` boundary it
aborts the process. `DurableWrite` and `DurableStore` claim no liveness: a
process may stop anywhere. Nor does `SchemaExchange`, whose readers are operators.

Deadlock checking is off where one behaviour is one call that returns.

## Proofs

| Theorem | For every | Argument |
|---|---|---|
| `RecursiveIdsProofs!IInvHolds` | finite registry, root, order | `IInv`: the collections mirror the stack, ranks are distinct and each returned id's targets are marked, or returned earlier |
| `RecursiveIdsProofs!CyclesAreCut` | same | on an unmarked cycle ranks would fall all the way round; an induction over the naturals on the least rank gives the contradiction |
| `RecursiveIdsProofs!OnlyCyclesHold` | same | `StackIsPath`: each frame refers to the one above it, so the segment a back edge cuts closes on itself |
| `DurableWriteProofs!WriteKeepsStep`, `WritePublishes` | file, chunk bound | the emitted parts and the sink's contents are one prefix of the file; every step is a step of `Publication` or a stutter |
| `ProgramCacheProofs!CacheInvariant`, `CacheSettlesOnce` | set of threads and shapes | the write guard excludes every other guard; a caller's program is the settled one; the map changes only by adding entries |
| `SelfDescribingProofs!DepthsFollowTheStack`, `DepthBoundsTheStack` | depth bound, alphabet of cells, message | `DepthInv`: the depth a call was handed is its place in the stack; a header is read only below the bound |
| `SelfDescribingProofs!ReadsWhatIsPromised` | same | `CountInv`: below |
| `DurableStoreProofs!LayoutAsPlanned` | plan that repeats its payloads | every cell of the file has its place: an induction over the rows of the table, and one over the payloads with the padding before each |
| `DurableStoreProofs!PlanParses` | freezable plan with a closed bundle | check by check through `parse`, on the cells `LayoutAsPlanned` names |
| `DurableStoreProofs!StoreKeepsStep` | plans, earlier files, garbage, chunk | `StoreInv`: the stored bytes are the frozen plan's layout, the write loop's invariant holds until damage, and damage leaves one field changed |
| `DurableStoreProofs!StoreIsOneGeneration` | same | below |
| `DurableStoreProofs!DamageIsCaught`, `RegionSchemas` | same | below |
| `DurableStoreProofs!WrittenIsRead`, `VerdictsOfFeatures` | same, any set of features | a whole file is its plan's layout, so `PlanParses` and the places of the aux extents apply |
| `TypedOwnershipProofs!OwnsOnce`, `WritesFresh`, `KeepsPointees`, `TypeCorrect`, `LeaksNothing` | laid out programs, message | below |
| `InterpProofs!StackDiscipline` | balanced programs, message, codec that stays inside the message | below |

The strengthening is needed because the properties speak of finished calls only:
`EveryCycleIsCut` says nothing of a walk in progress, and "ok means whole" says
nothing of a writer half way through a part; and the depth check looks at a number
that calls hand on, not at the stack it is to bound, so `StackIsBounded` needs
that the two agree, through values given to waiting calls and through every
return. `StoreInv` is needed because the format's properties read bytes and say
nothing of how they came about; its part for the write loop is the invariant of
`DurableWriteProofs`, used through INSTANCE with the layouts as the files. TLC
checked each invariant first, `StoreInv` too (358458 states).

The argument for the durable store. What the destination holds is a prefix of
the new file followed by the tail of the earlier one. A prefix that ends before
the file does is rejected on an empty destination, because the header states the
length. Over an earlier file, an extent's data either equals what its digest
cells name, and a digest names a whole payload of one of the two plans; or the
digest cells are not whole, and no check accepts them. That is all digests can
give: a table cut between two rows can pair rows of both files, and TLC has an
instance where a reader admits such a mixture, as docs/content/spec.md:1275 says
it may ("they do not make a mixed generation transactionally consistent"). When
the two files are laid out alike, a prefix that ends inside the table leaves every
payload old, so every digest must match the old payloads; one that ends after
the table leaves every digest new. Hence `OneGeneration` has these two parts.
With one damaged field, placement is minimal and fixed by the lengths, so a
changed table position, count, offset or file length is refused; a digest covers
the length of its extent and has four cells, of which at least three still say
what was planned, so a changed length or payload is refused too. The schemas of
regions have no digest: the reader's own references hold them.

The argument for typed decoding. `TypedOwnershipProofs!IInv` has two layers. Of memory it
says who owns what: `Sound`, the nodes that something outside of memory holds (the
caller's storage, scratch of waiting continuations, retained pointees) are alive,
and any other live node is named by at most one slot; `Rooted`, whatever is alive
can be reached from what is held, so that a node is named by at least one, and no
handles in a circle keep each other alive; `RefsInto`, references point at
retained nodes. Each thunk is shown to change what is held and nothing else
(`SetInsertOwned`, `MapInsertOwned`, `InitOwned`, `TextOwned` and so on), and
dropping to free exactly what only the dropped handles reach. Of the frames it
says what each still owes: the slots its coming ops fill, and the slots that its
continuation will fill or hand to the next element; all of them are
uninitialized and no two frames owe the same. `Ready` has, besides, slots that
nobody owes and nodes that nobody names: an op takes its slots from its frame
(`AdvanceReady`), allocates (`AllocateReady`), writes (`ChangeReady`) and gives what
is left to the frame it pushes (`PushReady`), and the end of a frame hands back
what its continuation owed (`PopReady`). Every action is a few of these moves.
`OneOwner` alone is not inductive: it counts owners, and a move out of scratch
keeps the count only if the scratch was named nowhere else and its slot was
still unset. TLC checked the invariant first, with the places and debts of the
frames computed from the stack.

The argument for the interpreter. A program is `Balanced` when no op finds fewer
values than the ops before it left, and the whole leaves one. `Stacked` says
that the value stack has, for each frame, what its ops have left so far, less
one for each frame that is under another one: such a frame has counted the value
it waits for before it is there. `TypeOK` alone is not inductive: it knows
neither that a waiting frame has left the value it counts, nor that what a
continuation repeats is balanced too. An op within a frame moves the count by
what the op nets (`AdvanceStacked`), a call adds a frame that has left
nothing (`PushStacked`), and a return takes one away that has left exactly one
value (`PopStacked`). So `split_off` never underflows, whatever the plan, the
bytes and the codec do, and a call that succeeds returns the only value there is.
The sums over frames and ops are functions by recursion, for which `Recursion`
below gives the equations.

The argument for self-describing values. `HoldsWhatItPromises`, the part of
`KeepsEveryScalar` that counts, speaks of accepted messages; `CountInv` says of
every state that the values read and the values awaited are those promised. A
call awaits the children that it does not have yet (`Waits`); the one it is
reading has a call of its own above it, and is not counted twice. A header adds
the values it promises to what is awaited (`PushAwaits`), a scalar or a return
gives one to the call below (`GivenAwaits`, `PopAwaits`), the name of a field
none (`NamedAwaits`). `ClaimsAreExact` is where the numbers come in: a count of
dimensions that `checked_mul` lets pass is their product as integers. When the
root returns, nothing is awaited. The theorem is about the first reading; the
second reads what `Written` made, a CONSTANT of the module, and stays with TLC.

Induction over data. The library's induction theorems take an operator as a
parameter and cannot be used, so `DataInduction` derives what is needed for
sets of naturals (`SetInduction`, `BoundedInduction`) from the least element of a
set, and from that `Recursion`: a function defined by recursion over a bounded
range exists and satisfies its equation. Layout, offsets, what a drop reaches,
what frames left and what calls await are such functions; for the last two it has
sums (`TotalsFacts`, `TotalsAgree`). It also holds the lemmas on sequences of
anything (`IsSeq`: no set of elements is named), which these machines use.

Assumptions are the named ASSUMEs of the modules: finite id sets, a positive
chunk; cells of payloads are told from cells of headers (`FileAssumption`: a
reader takes a field it does not expect as one no check accepts); plans hold what
`DurableFilePlan`'s fields can hold, and an earlier file is one `write_to` made
(`PlansAssumption`); a damaged field reads as another value of its kind or as
such a cell (`GarbageAssumption`). A typed program is laid out
as a Rust layout is: its ops fill slots of their own, inside of the memory they run
in (`LayoutAssumption`, which TLC evaluates on every program that the lowering
makes for `typed`); a message is a sequence of numbers and `skip` ends inside of
it (`InputAssumption`, `SkipAssumption`). Programs of the value interpreter are
balanced and call only blocks of their plan (`LoweredAssumption`, which TLC
evaluates on every program that the lowering makes for `compat`; that lowering
always makes such programs is an induction over a plan, which stays with TLC),
its messages are sequences, and skipping ends inside of them. The cell
of a scalar is told from that of a field's name, and claims are unsigned words
(`CellsAssumption`). Digests are abstract throughout, so the proofs
assume blake3 has no collisions.

Model-checked only: liveness; the planner, the typed lowerings, the JIT's
compiler, the scalars, texts and rewriting of self-describing values, and the
schema codecs, whose operators are RECURSIVE; the invariants of `CompatDecode`, of `TypedCompat` other than ownership, and of
`JitCompat`, which reach those modules; and so far the machines of `JitDecode` and `JitEncode`.

## Where the code and its documents disagree

`PROJECT.json` lists each that a run shows, with its lines; the others have a
configuration above. In short: recursive-schema detection stops at generic
schemas; the durable reader admits nonzero padding and unreachable regions; the
interpreter has no depth bound, and for a schema such as `struct A { a: A }`, which
comes back to itself before it reads a byte, one call never returns and its
frames grow; the report of fallbacks misses decoders; a
native-sized integer is not narrowed with a check when the writer's schema is
lowered; and a block is keyed by the reader schema alone, so two writer
schemas under one recursive reader schema share the first one's plan. The
last has two effects: incompatible pairs are planned, and compatible ones are
read by the wrong plan. `compat` leaves such pairs out, and schemas that come back
to themselves without a byte; the first are in `compat_blocks`, the others in
`compat_depth`, and `Returns` and `JitReturns` claim nothing of the latter. The
typed decoder copies a `char` or a `bool` into memory unchecked; `typed` has
neither, and no text that is skipped.

The typed lowering turns compatible pairs away, which docs/content/spec.md:1518
and 1576 do not: a field that the reader lacks and `skip_op` does not carry (a
fixed array or a semantic type, typed.rs:1268, or what holds one; a datetime,
uuid or qname too, which are not among the model's primitives), and a `Result` whose
writer's enum has no `Ok` or no `Err` (typed.rs:1141). `Refuses` in `TypedCompat`
lists them, `LowersExactlyCarried` says that no other pair is refused, and
`CompatibleLowers` is what the document asks.

Read while modelling, without a run of their own:
- `visit_schema` marks the stack segment of a back edge, while r[ir.inlining]
  speaks of strongly connected components; a member with only a cross edge back
  is spliced, harmlessly, since every cycle is still cut.
- The typed lowering meets tuples as records (`tuple_fields`): it skips or
  defaults what one of them lacks, where `plan_kind` compares their lengths.
  `LowersExactlyCarried` is about tuples of one length.
- Skipping does not validate: text, set and map uniqueness are unchecked in
  writer-only fields, and a list of zero-size elements is bounded by the bytes
  left, so a valid one may be refused. `skip_op` on a recursive writer-only field
  does not end.
- A map whose keys are not strings has no dynamic value, but a typed one. In
  self-describing form it is folded to a list of pairs, one level deeper, so a
  value that was accepted at the full depth is refused when it is rewritten
  (docs/content/spec.md:828 says that a value round-trips itself).
- `schema_bundle_to_bytes` and the writer of a schema by itself have no nesting check
  while the readers do, so they write what is refused on reading. A `Semantic`
  whose name is not qualified is written by itself and refused on reading. A
  bundle with an empty name cannot be written.
- The bundle reader clones a name for each index that refers to it without
  charging the owned bytes again, drops the table that was charged, and reserves
  the lists of members by their count. So `ChargesWhatIsSpelledOut` says of a bundle
  that its table is charged once, and `RetainsWithinLimit` is refuted.
- `parse_uuid` counts 32 characters after the hyphens are gone, the first of
  which may be a plus sign.
- docs/content/spec.md:1163 to 1196 lists unreachable schemas and channel and
  external kinds among what admission rejects; the bundle reader alone does not.
- `Registry::try_new` checks no arity, so a registry made of schemas that came by
  themselves can fail to resolve; `AdmittedResolves` is about bundles.
- `encode_primitive` (compact.rs:558) writes 0 for a number that does not fit 64
  bits and truncates one that does not fit its field. `write_to`
  (durable_file.rs:201) reports success for a plan whose schemas are not in its
  bundle. No property covers either.
- A recursive reader block of `lower_decode` is lowered against the reader's own
  schema, whatever the writer's is.

## Not modelled

In the JIT: relocation, alignment, addresses, statistics, and the grouping of
scalars into runs, whose segments are scalars here. The threaded closures of
`lower.rs` carry scalars, pointers and one-way sequences and serve tests only. The
code generators, benches, examples and probes have no state of their own. The
TypeScript and Swift planners, codecs and durable readers repeat the Rust rules;
their own hazard is the identity of members of one cycle (schema.ts:334), which
Rust leaves to the external crate taxon. Within modelled parts: generic
substitution in the planner, padding and byte widths of compact values, tensors,
channels and externals as values, hash functions, the grammar of qualified names,
labels of self-describing schemas beyond whether they are the usual ones. Of the
typed path: fused and bulk copies, transparent newtypes, copy-on-write fields,
reading facet's reflection, failing allocation, lists of unit.

## Plan

1. `Identity`: Tarjan's algorithm and the identity walk of the TypeScript and
   Swift packages; ids independent of the batch order and of the entry member.
2. `DurableStore` with the bundles of `SchemaBundle` instead of id sets.
3. Generic references in `Compact` and `CompatPlan`, over `SchemaRegistry`.
4. The rest of the typed path: copy-on-write, transparent newtypes, bulk copies;
   tuples of different lengths with a rule of their own; other versions of
   recursive shapes.
5. Proofs: `JitCompat`'s `InStep`, with the compiler's output characterised by
   an assumption TLC checks, as `Interp` and `TypedDecode` have theirs.
