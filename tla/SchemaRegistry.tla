---------------------------- MODULE SchemaRegistry ----------------------------
(***************************************************************************)
(* Registry::try_new and compact::resolve: what a received closure must    *)
(* satisfy before it is executable, and how a reference to a generic       *)
(* schema becomes a kind without variables.                                *)
(* rust/phon-engine/src/compact.rs.                                        *)
(***************************************************************************)
EXTENDS SchemaBundle

CONSTANTS
  Unit,          \* the id of the primitive unit
  ZstCountCap,   \* ZST_COUNT_CAP
  MaxCount,      \* u64::MAX
  MinWireDepth   \* MIN_WIRE_DEPTH

Composite(members, id) == CHOOSE s \in Range(members) : s[1] = id

(* Mutant of Substituted: the arguments of a reference are left alone.      *)
Substituted_Shallow(ref, params, args) ==
  IF ref[1] = "Var" /\ Contains(params, ref[2])
  THEN args[CHOOSE i \in 1..Len(params) : params[i] = ref[2]] ELSE ref

(* substitute_ref: positions are unique in an admitted schema.              *)
RECURSIVE Substituted(_, _, _)
Substituted(ref, params, args) ==
  IF ref[1] = "Var"
  THEN IF Contains(params, ref[2])
       THEN args[CHOOSE i \in 1..Len(params) : params[i] = ref[2]] ELSE ref
  ELSE <<"Concrete", ref[2], [i \in 1..Len(ref[3]) |-> Substituted(ref[3][i], params, args)]>>

SubstitutedAll(refs, params, args) ==
  [i \in 1..Len(refs) |-> Substituted(refs[i], params, args)]
SubstitutedFields(fields, params, args) ==
  [i \in 1..Len(fields) |-> [fields[i] EXCEPT ![2] = Substituted(@, params, args)]]
SubstitutedPayload(payload, params, args) ==
  CASE payload[1] = "Unit" -> payload
    [] payload[1] = "Newtype" -> [payload EXCEPT ![2] = Substituted(@, params, args)]
    [] payload[1] = "Tuple" -> [payload EXCEPT ![2] = SubstitutedAll(@, params, args)]
    [] OTHER -> [payload EXCEPT ![2] = SubstitutedFields(@, params, args)]

SubstitutedKind(kind, params, args) ==
  LET Ref(r) == Substituted(r, params, args)
      All(rs) == SubstitutedAll(rs, params, args)
  IN CASE kind[1] \in {"Primitive", "Dynamic"} -> kind
       [] kind[1] = "Struct" -> [kind EXCEPT ![3] = SubstitutedFields(@, params, args)]
       [] kind[1] = "Enum" ->
            [kind EXCEPT ![3] = [i \in DOMAIN @ |->
               [@[i] EXCEPT ![3] = SubstitutedPayload(@, params, args)]]]
       [] kind[1] = "Tuple" -> [kind EXCEPT ![2] = All(@)]
       [] kind[1] \in {"List", "Set", "Option", "Array", "Tensor"} -> [kind EXCEPT ![2] = Ref(@)]
       [] kind[1] = "Channel" -> [kind EXCEPT ![3] = Ref(@)]
       [] kind[1] = "Map" -> [kind EXCEPT ![2] = Ref(@), ![3] = Ref(@)]
       [] kind[1] = "External" -> [kind EXCEPT ![3] = All(@)]
       [] kind[1] = "Semantic" -> [kind EXCEPT ![3] = All(@), ![4] = Ref(@)]

(* resolve.                                                                 *)
Resolve(members, ref) ==
  IF ref[1] = "Var" THEN Err("unbound")
  ELSE IF ref[2] \in Primitives
  THEN IF ref[3] = <<>> THEN [ok |-> TRUE, kind |-> <<"Primitive", ref[2]>>] ELSE Err("arguments")
  ELSE IF ref[2] \notin Range(Ids(members)) THEN Err("unknown")
  ELSE LET schema == Composite(members, ref[2])
       IN IF Len(schema[2]) # Len(ref[3]) THEN Err("arity")
          ELSE [ok |-> TRUE, kind |-> SubstitutedKind(schema[3], schema[2], ref[3])]
-----------------------------------------------------------------------------
(* is_zero_sized_ref: what cannot be resolved is not zero-sized.            *)
RECURSIVE IsZeroSized(_, _, _)
IsZeroSized(members, ref, depth) ==
  LET resolved == Resolve(members, ref)
      kind == resolved.kind
      Each(refs) == \A r \in refs : IsZeroSized(members, r, depth + 1)
  IN /\ depth <= MinWireDepth
     /\ resolved.ok
     /\ CASE kind[1] = "Primitive" -> kind[2] = Unit
          [] kind[1] \in {"Struct", "Tuple", "Array"} -> Each(KindRefs(kind))
          [] kind[1] = "Semantic" -> Each({kind[4]})
          [] OTHER -> FALSE

Times(x, y) == IF x > MaxCount THEN x ELSE x * y       \* stays above once it is
CountOf(dimensions) == FoldLeft(Times, 1, dimensions)

(* validate_fixed_array_caps: only the array kinds of members have a count. *)
WithinCaps(members, kind) ==
  kind[1] = "Array" =>
    /\ CountOf(kind[3]) <= MaxCount
    /\ IsZeroSized(members, kind[2], 0) => CountOf(kind[3]) <= ZstCountCap

RECURSIVE Provided(_, _)
Provided(ref, ids) ==
  ref[1] = "Concrete" =>
    /\ ref[2] \in ids \cup Primitives
    /\ \A arg \in Range(ref[3]) : Provided(arg, ids)

(* validate_bundle.                                                         *)
TryNew(members) ==
  CASE ~(Range(members) \subseteq Genuine) -> Err("identity")
    [] \E s \in Range(members) : \E ref \in KindRefs(s[3]) :
         ~Provided(ref, Range(Ids(members))) -> Err("unknown")
    [] \E s \in Range(members) : ~WithinCaps(members, s[3]) -> Err("caps")
    [] OTHER -> [ok |-> TRUE]
=============================================================================
