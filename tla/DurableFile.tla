----------------------------- MODULE DurableFile -----------------------------
(***************************************************************************)
(* The durable compact file format of                                      *)
(* rust/phon-storage/src/durable_file.rs: what DurableFilePlan freezes and *)
(* lays out, and what StructuralFileView::parse and admit_features accept. *)
(*                                                                         *)
(* A file is a sequence of cells of eight bytes, the grain of every header *)
(* and descriptor field: a 32-byte header is four cells, a 72-byte         *)
(* descriptor nine, the alignment of 16 bytes two.  A cell carries a tag   *)
(* for the field it was written as; a reader that takes a cell written as  *)
(* another field reads a value no check accepts.  Manifests, bundles and   *)
(* digests are symbolic: each cell names its whole content, so two of them *)
(* are equal exactly when their contents are (blake3 is collision free).   *)
(* Sizes are counted in cells, so a length is a multiple of eight bytes.   *)
(***************************************************************************)
EXTENDS Naturals, Sequences, FiniteSets, SequencesExt

CONSTANTS
  Datum,       \* the cells payloads are made of
  Primitive,   \* schema ids of the built-in primitives, which no bundle carries
  Generic      \* stands for any schema reference with type arguments

FIXED_HEADER == 4
DESCRIPTOR_SIZE == 9
ALIGNMENT == 2
NoSchema == 0      \* schema slot zero
SchemaIds == Nat \ {NoSchema}

ASSUME FileAssumption ==
  /\ \A c \in Datum : c[1] = "data"
  /\ Primitive \subseteq SchemaIds /\ Generic \in SchemaIds

AlignUp(n) == ((n + ALIGNMENT - 1) \div ALIGNMENT) * ALIGNMENT

Zero == <<"zero", 0>>
U64(n) == <<"u64", n>>
Pad(b) == b \o [i \in 1..(AlignUp(Len(b)) - Len(b)) |-> Zero]

(* A symbolic encoding of `value' in n cells.                               *)
Coded(tag, value, n) == [i \in 1..n |-> <<tag, value, i>>]
IsCoded(tag, cells) ==
  cells # <<>> /\ cells[1][1] = tag /\ cells = Coded(tag, cells[1][2], Len(cells))

-----------------------------------------------------------------------------
(* FeatureManifest: two lists of feature names and the aux identities.      *)
NoManifest == [required |-> <<>>, optional |-> <<>>, aux |-> <<>>]

StrictlySorted(names) == \A i \in 1..(Len(names) - 1) : names[i] < names[i + 1]

NotAfter(a, b) ==
  \/ a.feature < b.feature
  \/ a.feature = b.feature /\ a.name < b.name
  \/ a.feature = b.feature /\ a.name = b.name /\ a.number <= b.number

Canonical(m) ==
  /\ StrictlySorted(m.required) /\ StrictlySorted(m.optional)
  /\ ToSet(m.required) \cap ToSet(m.optional) = {}
  /\ \A i \in 1..(Len(m.aux) - 1) : NotAfter(m.aux[i], m.aux[i + 1])
  /\ \A i \in DOMAIN m.aux :
       /\ m.aux[i].feature \in ToSet(m.required) \cup ToSet(m.optional)
       /\ m.aux[i].number = Cardinality({j \in 1..(i - 1) :
            m.aux[j].feature = m.aux[i].feature /\ m.aux[j].name = m.aux[i].name})

ManifestCells(m) ==
  IF m = NoManifest THEN <<>>
  ELSE Coded("manifest", m, 2 + Len(m.required) + Len(m.optional) + Len(m.aux))

BundleCells(ids) == Coded("bundle", ids, 1 + Cardinality(ids))

(* Mutant of ValidGraph: the schema of a reference is not compared.         *)
ValidGraph_AnySchema(schemas, refs) ==
  /\ \A i \in DOMAIN refs : refs[i].target < Len(schemas)
  /\ \A r \in 1..Len(schemas) : \E i \in DOMAIN refs : refs[i].target + 1 = r

(* validate_region_graph: every reference names an existing region at that  *)
(* region's schema, and every region is named by some reference.            *)
ValidGraph(schemas, refs) ==
  /\ \A i \in DOMAIN refs :
       refs[i].target < Len(schemas) /\ schemas[refs[i].target + 1] = refs[i].schema
  /\ \A r \in 1..Len(schemas) : \E i \in DOMAIN refs : refs[i].target + 1 = r

-----------------------------------------------------------------------------
(* Writing.  A payload is a schema reference and the bytes its source       *)
(* yields on the counting pass and on the emitting pass; a reference's      *)
(* source is <<>> for Root and <<r>> for region r.                          *)
Payload == [schema : SchemaIds, passes : [1..2 -> Seq(Datum)]]
AuxPayload == [feature : Nat, name : Nat, number : Nat, payload : Payload]
RegionRef == [source : Seq(Nat), target : Nat, schema : SchemaIds]

(* What the fields of DurableFilePlan can hold before anything is checked.  *)
IsPlan(p) ==
  /\ p \in [schemas : SUBSET SchemaIds, root : Payload, regions : Seq(Payload),
            refs : Seq(RegionRef), required : Seq(Nat), optional : Seq(Nat),
            aux : Seq(AuxPayload)]
  /\ IsFiniteSet(p.schemas)

Extent(kind, number, schema, data) ==
  [kind |-> kind, number |-> number, schema |-> schema, data |-> data]

Extents(p, pass) ==
  <<Extent(0, 0, NoSchema, BundleCells(p.schemas)),
    Extent(1, 0, p.root.schema, p.root.passes[pass])>>
  \o [i \in DOMAIN p.regions |->
        Extent(2, i - 1, p.regions[i].schema, p.regions[i].passes[pass])]
  \o [i \in DOMAIN p.aux |->
        Extent(3, p.aux[i].number, p.aux[i].payload.schema, p.aux[i].payload.passes[pass])]

Manifest(p) ==
  [required |-> p.required, optional |-> p.optional,
   aux |-> [i \in DOMAIN p.aux |-> [feature |-> p.aux[i].feature,
                                    name |-> p.aux[i].name, number |-> p.aux[i].number]]]

(* Mutant of Freezable: the emitting pass is compared by length only.       *)
Freezable_SameLength(p) ==
  /\ ValidGraph([i \in DOMAIN p.regions |-> p.regions[i].schema], p.refs)
  /\ Canonical(Manifest(p))
  /\ \A i \in DOMAIN Extents(p, 1) :
       /\ Extents(p, 1)[i].schema # Generic
       /\ Len(Extents(p, 2)[i].data) = Len(Extents(p, 1)[i].data)

(* write_to_vec's error paths: region graph, manifest, schema slots, and a  *)
(* payload that does not repeat.  Its call of schema_bundle_to_bytes cannot *)
(* fail: the fields of a SchemaBundle are private to the crate that makes   *)
(* one in schema_bundle_from_bytes alone, and SchemaExchange's              *)
(* AdmittedIsCanonical says that what was read there is written again.      *)
Freezable(p) ==
  /\ ValidGraph([i \in DOMAIN p.regions |-> p.regions[i].schema], p.refs)
  /\ Canonical(Manifest(p))
  /\ \A i \in DOMAIN Extents(p, 1) : Extents(p, 1)[i].schema # Generic
  /\ Extents(p, 2) = Extents(p, 1)

(* The cursor: the first extent goes after the envelope, each later one     *)
(* after its predecessor.                                                   *)
Offsets(envelope, extents) ==
  LET offset[i \in DOMAIN extents] ==
        AlignUp(IF i = 1 THEN envelope ELSE offset[i - 1] + Len(extents[i - 1].data))
  IN  offset

Descriptor(extent, offset) ==
  <<<<"role", extent.kind, extent.number>>, U64(offset), U64(Len(extent.data)), U64(ALIGNMENT),
    <<"slot", extent.schema>>>> \o Coded("digest", extent.data, 4)

(* One row per extent.                                                      *)
Rows(extents, offset) ==
  LET rows[i \in 0..Len(extents)] ==
        IF i = 0 THEN <<>> ELSE rows[i - 1] \o Descriptor(extents[i], offset[i])
  IN  rows[Len(extents)]

(* Everything before the first extent: fixed header, manifest and table.    *)
Envelope(p) ==
  LET extents == Extents(p, 1)
      n == Len(extents)
      manifest == ManifestCells(Manifest(p))
      table == FIXED_HEADER + Len(manifest)
      offset == Offsets(table + n * DESCRIPTOR_SIZE, extents)
      header == <<<<"magic", 0>>, <<"format", 1, n>>,
                  U64(offset[n] + Len(extents[n].data)), U64(table)>>
  IN  header \o manifest \o Rows(extents, offset)

(* The forward pass: each payload after the padding of what is before it.   *)
Emitted(front, extents) ==
  LET out[i \in 0..Len(extents)] ==
        IF i = 0 THEN front ELSE Pad(out[i - 1]) \o extents[i].data
  IN  out[Len(extents)]

Layout(p) == Emitted(Envelope(p), Extents(p, 2))

-----------------------------------------------------------------------------
(* Reading.  The fields parse looks at in a byte sequence b; each is used   *)
(* only once the checks before it have passed.                              *)
Count(b) == b[2][3]
FileLen(b) == b[3][2]
Table(b) == b[4][2]
TableEnd(b) == Table(b) + Count(b) * DESCRIPTOR_SIZE
FieldCell(b, i, f) == b[Table(b) + (i - 1) * DESCRIPTOR_SIZE + f]
Kind(b, i) == FieldCell(b, i, 1)[2]
Number(b, i) == FieldCell(b, i, 1)[3]
Offset(b, i) == FieldCell(b, i, 2)[2]
DataLen(b, i) == FieldCell(b, i, 3)[2]
Slot(b, i) == FieldCell(b, i, 5)[2]
Digest(b, i) == [j \in 1..4 |-> FieldCell(b, i, 5 + j)]
End(b, i) == Offset(b, i) + DataLen(b, i)
Data(b, i) == SubSeq(b, Offset(b, i) + 1, End(b, i))

HeaderOk(b) ==
  /\ Len(b) >= FIXED_HEADER
  /\ b[1] = <<"magic", 0>>
  /\ b[2][1] = "format" /\ b[2][2] = 1
  /\ b[3] = U64(Len(b))
  /\ b[4][1] = "u64" /\ Table(b) \in FIXED_HEADER..Len(b)

ManifestOf(b) ==
  IF Table(b) = FIXED_HEADER THEN NoManifest ELSE b[FIXED_HEADER + 1][2]

ManifestOk(b) ==
  Table(b) > FIXED_HEADER =>
    /\ IsCoded("manifest", SubSeq(b, FIXED_HEADER + 1, Table(b)))
    /\ SubSeq(b, FIXED_HEADER + 1, Table(b)) = ManifestCells(ManifestOf(b))
    /\ Canonical(ManifestOf(b))

DescriptorsOk(b) ==
  /\ TableEnd(b) <= Len(b)
  /\ \A i \in 1..Count(b) :
       /\ FieldCell(b, i, 1)[1] = "role" /\ FieldCell(b, i, 5)[1] = "slot"
       /\ \A f \in {2, 3} : FieldCell(b, i, f)[1] = "u64"
       /\ FieldCell(b, i, 4) = U64(ALIGNMENT) /\ Offset(b, i) % ALIGNMENT = 0

(* Mutant of PlacementOk: extents are not checked against their digests.    *)
PlacementOk_NoDigest(b) ==
  /\ \A i \in 1..Count(b) :
       /\ Offset(b, i) = AlignUp(IF i = 1 THEN TableEnd(b) ELSE End(b, i - 1))
       /\ End(b, i) <= FileLen(b)
  /\ FileLen(b) = IF Count(b) = 0 THEN AlignUp(TableEnd(b)) ELSE End(b, Count(b))

(* Minimal placement in order, contents that match their digests, and the   *)
(* last extent ending the file.                                             *)
PlacementOk(b) ==
  /\ \A i \in 1..Count(b) :
       /\ Offset(b, i) = AlignUp(IF i = 1 THEN TableEnd(b) ELSE End(b, i - 1))
       /\ End(b, i) <= FileLen(b)
       /\ Digest(b, i) = Coded("digest", Data(b, i), 4)
  /\ FileLen(b) = IF Count(b) = 0 THEN AlignUp(TableEnd(b)) ELSE End(b, Count(b))

(* The extents after Root of kind 2 up to the first of another kind.        *)
RegionCount(b) ==
  Cardinality({i \in 3..Count(b) : \A j \in 3..i : Kind(b, j) = 2})

RolesOk(b) ==
  LET regions == RegionCount(b)  aux == ManifestOf(b).aux IN
  /\ Count(b) >= 2 /\ Kind(b, 1) = 0 /\ Kind(b, 2) = 1
  /\ \A r \in 1..regions : Number(b, r + 2) = r - 1
  /\ Count(b) = regions + 2 + Len(aux)
  /\ \A k \in DOMAIN aux :
       Kind(b, regions + 2 + k) = 3 /\ Number(b, regions + 2 + k) = aux[k].number

(* The bundle decodes, and every other extent's closed schema is known.     *)
SchemasOk(b) ==
  /\ IsCoded("bundle", Data(b, 1))
  /\ Data(b, 1) = BundleCells(Data(b, 1)[1][2])
  /\ \A i \in 2..Count(b) :
       Slot(b, i) # NoSchema /\ Slot(b, i) \in Primitive \cup Data(b, 1)[1][2]

Parses(b, refs) ==
  /\ HeaderOk(b) /\ ManifestOk(b) /\ DescriptorsOk(b) /\ PlacementOk(b)
  /\ RolesOk(b) /\ SchemasOk(b)
  /\ ValidGraph([r \in 1..RegionCount(b) |-> Slot(b, r + 2)], refs)

-----------------------------------------------------------------------------
(* Feature admission against the features a registry knows; `Rejects' is    *)
(* what a validator says of the aux payloads it is handed.                  *)
AuxData(b, f) ==
  LET aux == ManifestOf(b).aux IN
  [k \in {k \in DOMAIN aux : aux[k].feature = f} |-> Data(b, RegionCount(b) + 2 + k)]

Rejects(data) == \E k \in DOMAIN data : <<"data", "bad">> \in ToSet(data[k])

(* Mutant of RequiredHold: an unknown feature is ignored when required too. *)
RequiredHold_Known(b, known) ==
  \A f \in ToSet(ManifestOf(b).required) \cap known : ~Rejects(AuxData(b, f))

RequiredHold(b, known) ==
  \A f \in ToSet(ManifestOf(b).required) : f \in known /\ ~Rejects(AuxData(b, f))

(* Mutant of Diagnosed: a validator is handed every aux extent.             *)
Diagnosed_AnyAux(b, known) ==
  {f \in ToSet(ManifestOf(b).optional) : f \in known /\
     \E g \in ToSet(ManifestOf(b).optional) : Rejects(AuxData(b, g))}

Diagnosed(b, known) ==
  {f \in ToSet(ManifestOf(b).optional) : f \in known /\ Rejects(AuxData(b, f))}

(* discarded_aux: the extents of the diagnosed features.                    *)
Discarded(b, known) ==
  Cardinality({k \in DOMAIN ManifestOf(b).aux : ManifestOf(b).aux[k].feature \in Diagnosed(b, known)})
=============================================================================
