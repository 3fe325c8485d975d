---------------------------- MODULE DurableStore ----------------------------
(***************************************************************************)
(* One durable file from its plan to a reader: the writer freezes a plan,  *)
(* runs the write loop of DurableWrite against a sink that may stop or     *)
(* fail anywhere, possibly over an earlier file that is not truncated      *)
(* first; a stored file may later lose a field to damage, and a reader may *)
(* open the destination at any moment.  Reading is a function              *)
(* of the bytes (parse borrows them immutably), so it is an operator of    *)
(* DurableFile and the properties speak of what a reader would accept in   *)
(* each reachable state.                                                   *)
(***************************************************************************)
EXTENDS DurableFile

CONSTANTS
  Plans,       \* the plans a caller may hand to write_to
  Earlier,     \* the plans whose files a destination may hold before the call
  Features,    \* feature names: a reader's registry knows some of them
  Garbage      \* cells that replace a damaged one, besides another field value

VARIABLES before, plan, refused, damaged, pc, bytes, written, sink

storeVars == <<before, plan, refused, damaged, pc, bytes, written, sink>>

(* An earlier file is one write_to made.                                    *)
ASSUME PlansAssumption ==
  (\A p \in Plans \cup Earlier : IsPlan(p)) /\ \A p \in Earlier : Freezable(p)

(* A damaged field that reads as nothing a check accepts.                   *)
ASSUME GarbageAssumption == Garbage \subseteq Datum

Cells == UNION {ToSet(Layout(p)) : p \in Plans}
W == INSTANCE DurableWrite WITH Byte <- Cells, Files <- {Layout(p) : p \in Plans}

Init == /\ before \in {<<>>} \cup {<<p>> : p \in Earlier}
        /\ plan \in Plans /\ refused = FALSE /\ damaged = FALSE /\ W!WInit

(* What the destination holds: what the sink took over what was there.      *)
Dest ==
  LET old == IF before = <<>> THEN <<>> ELSE Layout(before[1])
  IN  sink \o SubSeq(old, Len(sink) + 1, Len(old))

(* write_to: the plan is frozen into memory before the first call of the    *)
(* sink, or refused.                                                        *)
Freeze ==
  /\ ~refused /\ Freezable(plan)
  /\ W!Begin(Layout(plan))
  /\ UNCHANGED <<before, plan, refused, damaged>>

Refuse ==
  /\ pc = "idle" /\ ~refused /\ ~Freezable(plan)
  /\ refused' = TRUE
  /\ UNCHANGED <<before, plan, damaged, pc, bytes, written, sink>>

Write == W!Loop /\ UNCHANGED <<before, plan, refused, damaged>>

Stop == pc # "idle" /\ ~damaged /\ W!Crash /\ UNCHANGED <<before, plan, refused, damaged>>

(* What a damaged field may read as instead: another number, another kind   *)
(* or number of an extent, another schema, or garbage.                      *)
Corrupt(cell) ==
  Garbage \cup
  CASE cell[1] = "u64" -> {U64(n) : n \in {cell[2] + 1, cell[2] + 2} \cup (1..cell[2] \cap {cell[2] - 1, cell[2] - 2})}
    [] cell[1] = "role" -> {<<"role", k, n>> : k \in 0..3, n \in 0..2}
    [] cell[1] = "slot" -> {<<"slot", s>> : s \in 0..3}
    [] cell[1] = "format" -> {<<"format", f, n>> : f \in {1, 2}, n \in {cell[3] - 1, cell[3] + 1}}
    [] OTHER -> {}

(* After the writer reported success, one field of the stored file changes. *)
Damage ==
  /\ pc = "ok" /\ before = <<>> /\ ~damaged /\ damaged' = TRUE
  /\ \E i \in 1..Len(sink) : \E c \in Corrupt(sink[i]) :
       c # sink[i] /\ sink' = [sink EXCEPT ![i] = c]
  /\ UNCHANGED <<before, plan, refused, pc, bytes, written>>

Next == Freeze \/ Refuse \/ Write \/ Stop \/ Damage

Spec == Init /\ [][Next]_storeVars

-----------------------------------------------------------------------------
(* The plan's root, region and aux payload bytes in file order.             *)
PlannedData(p) == [i \in 2..Len(Extents(p, 1)) |-> Extents(p, 1)[i].data]
AdmittedData(b) == [i \in 2..Count(b) |-> Data(b, i)]

(* Every schema the plan's extents name is a primitive or in its bundle.    *)
Closed(p) == \A i \in 2..Len(Extents(p, 1)) : Extents(p, 1)[i].schema \in Primitive \cup p.schemas

Whole == pc \in {"ok", "crashed"} /\ ~damaged /\ bytes # <<>> /\ Dest = bytes

(* Whatever the sink took before an error, a short write or a crash, what a *)
(* reader admits is made of whole payloads: each extent it hands out is, to *)
(* the last byte, an extent of the new plan or of the earlier file.  The    *)
(* digests promise no more when the two files are laid out differently      *)
(* (docs/content/spec.md: "they do not make a mixed generation              *)
(* transactionally consistent"); when every extent keeps its length the     *)
(* payloads are all new or all old.  On an empty destination nothing short  *)
(* of the whole file is admitted.                                           *)
Generations == {plan} \cup ToSet(before)

PayloadsAreWhole(b) ==
  \A i \in 1..Count(b) : \E q \in Generations : \E e \in ToSet(Extents(q, 1)) :
    Data(b, i) = e.data

SameShape(p, q) ==
  /\ Len(ManifestCells(Manifest(p))) = Len(ManifestCells(Manifest(q)))
  /\ Len(Extents(p, 1)) = Len(Extents(q, 1))
  /\ \A i \in DOMAIN Extents(p, 1) : Len(Extents(p, 1)[i].data) = Len(Extents(q, 1)[i].data)

OneGeneration ==
  /\ \A p \in Generations : ~damaged /\ Parses(Dest, p.refs) =>
       /\ PayloadsAreWhole(Dest)
       /\ (\A q \in Generations : SameShape(plan, q)) =>
            \E q \in Generations : AdmittedData(Dest) = PlannedData(q)
  /\ ~damaged /\ before = <<>> /\ Parses(Dest, plan.refs) => bytes # <<>> /\ Dest = bytes

(* A completely written file of a plan with a closed bundle is admitted by  *)
(* the reader of the same code, and hands back the planned payloads, aux    *)
(* identities and region count.                                             *)
WrittenIsAdmitted ==
  Whole /\ Closed(plan) =>
    /\ Parses(Dest, plan.refs)
    /\ AdmittedData(Dest) = PlannedData(plan)
    /\ ManifestOf(Dest) = Manifest(plan)
    /\ RegionCount(Dest) = Len(plan.regions)

(* When one field of a stored file is damaged, a reader either rejects the  *)
(* file or hands back every payload exactly as it was planned.              *)
DamageIsNotServed ==
  damaged /\ Parses(Dest, plan.refs) => AdmittedData(Dest) = PlannedData(plan)

(* An admitted file refers to its regions at the schema they were planned   *)
(* with: a region whose schema slot was damaged is not served.              *)
RegionSchemasHold ==
  before = <<>> /\ Parses(Dest, plan.refs) =>
    \A r \in DOMAIN plan.regions : Slot(Dest, r + 2) = plan.regions[r].schema

(* Feature admission end to end: whatever a reader knows, the verdict only  *)
(* depends on the required features of the plan, each judged by its own     *)
(* aux payloads; the optional ones cost exactly their own bad extents.      *)
OwnAux(f) == {k \in DOMAIN plan.aux : plan.aux[k].feature = f}
BadAux(f) == \E k \in OwnAux(f) : <<"data", "bad">> \in ToSet(plan.aux[k].payload.passes[1])
FeatureVerdicts ==
  Whole /\ Closed(plan) =>
    \A known \in SUBSET Features :
      /\ RequiredHold(Dest, known) <=> \A f \in ToSet(plan.required) : f \in known /\ ~BadAux(f)
      /\ Discarded(Dest, known) =
           Cardinality(UNION {OwnAux(f) : f \in {g \in ToSet(plan.optional) \cap known : BadAux(g)}})

-----------------------------------------------------------------------------
(* docs/content/spec.md: "Readers reject any other declared alignment,      *)
(* non-minimal offset, nonzero padding, overlap, trailing bytes, or         *)
(* undeclared gap."  parse never looks at the padding.                      *)
PaddingIsZero ==
  damaged /\ Parses(Dest, plan.refs) =>
    \A i \in 1..Len(bytes) : bytes[i] = Zero => Dest[i] = Zero

(* docs/content/spec.md: admission "requires every Region to be reachable   *)
(* from Root".  validate_region_graph only asks that something refers to    *)
(* each region, so regions that only refer to each other are admitted.      *)
Reached(p) ==
  LET step(S) == S \cup {<<p.refs[i].target>> : i \in {i \in DOMAIN p.refs : p.refs[i].source \in S}}
      reach[n \in Nat] == IF n = 0 THEN {<<>>} ELSE step(reach[n - 1])
  IN  reach[Len(p.regions) + 1]
RegionsReachable ==
  Parses(Dest, plan.refs) => \A r \in DOMAIN plan.regions : <<r - 1>> \in Reached(plan)

=============================================================================
