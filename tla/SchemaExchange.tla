---------------------------- MODULE SchemaExchange ----------------------------
(***************************************************************************)
(* Schemas on their way from one program to another: a batch is written as *)
(* a bundle, or one schema by itself; another implementation may write the *)
(* bundle its own way; a cell may be damaged; what is read back is made a  *)
(* registry, and a codec then follows references through it.               *)
(***************************************************************************)
EXTENDS SchemaRegistry

CONSTANTS
  Batches,     \* the batches that are sent, each a sequence of schemas
  AllNames,    \* the names a writer or damage may use
  AllIds,      \* the ids damage may use
  MaxSteps     \* references followed in one walk

VARIABLES
  sent,        \* the batch
  writer,      \* who wrote the message: "phon", "foreign", or nobody yet
  form,        \* "bundle" or "inline"
  message,     \* the cells
  hurt,        \* a cell was damaged
  received,    \* the reader's result
  registered,  \* the result of try_new on it
  at,          \* the reference the walk is at: at most one
  steps        \* references followed so far
vars == <<sent, writer, form, message, hurt, received, registered, at, steps>>

Init ==
  /\ sent \in Batches
  /\ writer = "none" /\ form \in {"bundle", "inline"}
  /\ message = <<>> /\ hurt = FALSE
  /\ received = Err("nothing") /\ registered = Err("nothing")
  /\ at = <<>> /\ steps = 0

(* schema_bundle_to_bytes writes, or refuses.                               *)
Write ==
  LET bundle == SchemaBundleToBytes(sent)
  IN /\ writer = "none" /\ form = "bundle"
     /\ IF bundle.ok THEN message' = bundle.m /\ writer' = "phon"
        ELSE writer' = "refused" /\ UNCHANGED message
     /\ UNCHANGED <<sent, form, hurt, received, registered, at, steps>>

WriteInline ==
  /\ writer = "none" /\ form = "inline" /\ Len(sent) = 1
  /\ message' = SchemaToBytes(sent[1]) /\ writer' = "phon"
  /\ UNCHANGED <<sent, form, hurt, received, registered, at, steps>>

(* Another writer checks nothing, and orders the table and the members at   *)
(* will.                                                                    *)
WriteForeign ==
  LET names == UNION {NamesIn(Written(InternedWrites, "schema", s)) : s \in Range(sent)}
      Tables == {SetToSortSeq(T, <) : T \in {names, names \ {0}} \cup {names \cup {n} : n \in AllNames}}
  IN /\ writer = "none" /\ form = "bundle"
     /\ \E table \in Tables : \E t \in {table, Reverse(table), table \o table} :
        \E members \in {sent, Reverse(sent), sent \o sent} :
          message' = Message(t, members)
     /\ writer' = "foreign"
     /\ UNCHANGED <<sent, form, hurt, received, registered, at, steps>>

(* What a damaged cell may be instead.                                      *)
Instead(c) ==
  {<<"junk", 0>>} \cup
  (CASE c[1] \in {"magic", "version", "labels", "some", "flag"} -> {<<c[1], ~c[2]>>}
     [] c[1] = "name" -> {<<"name", n>> : n \in AllNames}
     [] c[1] = "index" -> {<<"index", n>> : n \in 0..Cardinality(AllNames)}
     [] c[1] \in {"id", "prim"} -> {<<c[1], id>> : id \in AllIds}
     [] c[1] \in {"count", "word"} -> {<<c[1], c[2] + 1>>, <<c[1], IF c[2] = 0 THEN 0 ELSE c[2] - 1>>}
     [] c[1] \in {"kind", "ref", "payload"} ->
          {<<c[1], tag>> : tag \in DOMAIN InternedReads[c[1]] \cup {"Other"}}
     [] c[1] = "dir" -> {<<"dir", "tx">>, <<"dir", "rx">>})

Damage ==
  /\ writer \in {"phon", "foreign"} /\ ~hurt /\ received = Err("nothing")
  /\ \E i \in 1..Len(message) :
       \/ \E c \in Instead(message[i]) \ {message[i]} : message' = [message EXCEPT ![i] = c]
       \/ message' = RemoveAt(message, i)
       \/ message' = InsertAt(message, i, message[i])
       \/ message' = SubSeq(message, 1, i - 1)
  /\ hurt' = TRUE
  /\ UNCHANGED <<sent, writer, form, received, registered, at, steps>>

Receive ==
  /\ writer \in {"phon", "foreign"} /\ received = Err("nothing")
  /\ received' =
       IF form = "bundle" THEN SchemaBundleFromBytes(message)
       ELSE LET st == SchemaFromBytes(message)
            IN IF st.ok THEN [ok |-> TRUE, schemas |-> st.v, owned |-> st.owned] ELSE st
  /\ UNCHANGED <<sent, writer, form, message, hurt, registered, at, steps>>

Register ==
  /\ received.ok /\ registered = Err("nothing")
  /\ registered' = TryNew(received.schemas)
  /\ UNCHANGED <<sent, writer, form, message, hurt, received, at, steps>>

(* A codec starts at a member without parameters and resolves one reference *)
(* after the other.                                                         *)
Enter ==
  /\ registered.ok /\ at = <<>>
  /\ \E s \in Range(received.schemas) :
       s[2] = <<>> /\ at' = <<<<"Concrete", s[1], <<>>>>>>
  /\ UNCHANGED <<sent, writer, form, message, hurt, received, registered, steps>>

Follow ==
  /\ at # <<>> /\ steps < MaxSteps
  /\ LET resolved == Resolve(received.schemas, at[1])
     IN resolved.ok /\ \E ref \in KindRefs(resolved.kind) : at' = <<ref>>
  /\ steps' = steps + 1
  /\ UNCHANGED <<sent, writer, form, message, hurt, received, registered>>

Next == Write \/ WriteInline \/ WriteForeign \/ Damage \/ Receive \/ Register \/ Enter \/ Follow
Spec == Init /\ [][Next]_vars
-----------------------------------------------------------------------------
Sum(F(_), s) == FoldSeq(LAMBDA x, acc : F(x) + acc, 0, s)

(* How deep the two readers are when they reach a reference of a kind, and  *)
(* how much deeper its arguments take them.                                 *)
RECURSIVE ArgsDepth(_)
ArgsDepth(ref) ==
  IF ref[1] = "Var" \/ ref[3] = <<>> THEN 0
  ELSE 1 + Max({ArgsDepth(arg) : arg \in Range(ref[3])})

PayloadDepths(payload) ==
  {3} \cup {(CASE payload[1] = "Newtype" -> 4 [] payload[1] = "Tuple" -> 5 [] OTHER -> 6)
              + 2 * ArgsDepth(r) : r \in PayloadRefs(payload)}
       \cup (IF payload[1] = "Struct" THEN {5 : f \in Range(payload[2])} ELSE {})
InlineDepths(kind) ==
  {1} \cup
  (CASE kind[1] = "Enum" -> {2 : v \in Range(kind[3])} \cup UNION {PayloadDepths(v[3]) : v \in Range(kind[3])}
     [] kind[1] = "Semantic" -> {3 + 2 * ArgsDepth(r) : r \in Range(kind[3])} \cup {2 + 2 * ArgsDepth(kind[4])}
     [] OTHER -> {(CASE kind[1] = "Struct" -> 4 [] kind[1] = "Tuple" -> 3 [] OTHER -> 2)
                    + 2 * ArgsDepth(r) : r \in KindRefs(kind)})
BundleDepths(kind) == {1} \cup {2 + ArgsDepth(r) : r \in KindRefs(kind)}

(* What one decoded schema owns: its names, and its lists by element.       *)
RECURSIVE RefOwns(_)
RefOwns(ref) ==
  IF ref[1] = "Var" THEN Length(ref[2]) ELSE Width.refs * Len(ref[3]) + Sum(RefOwns, ref[3])
RefsOwn(refs) == Width.refs * Len(refs) + Sum(RefOwns, refs)
FieldsOwn(fields) ==
  LET Owns(f) == Length(f[1]) + RefOwns(f[2]) IN Width.fields * Len(fields) + Sum(Owns, fields)
VariantOwns(v) ==
  Length(v[1]) + (CASE v[3][1] = "Unit" -> 0 [] v[3][1] = "Newtype" -> RefOwns(v[3][2])
                    [] v[3][1] = "Tuple" -> RefsOwn(v[3][2]) [] OTHER -> FieldsOwn(v[3][2]))
KindOwns(kind) ==
  CASE kind[1] \in {"Primitive", "Dynamic"} -> 0
    [] kind[1] = "Struct" -> Length(kind[2]) + FieldsOwn(kind[3])
    [] kind[1] = "Enum" -> Length(kind[2]) + Width.variants * Len(kind[3]) + Sum(VariantOwns, kind[3])
    [] kind[1] = "Tuple" -> RefsOwn(kind[2])
    [] kind[1] = "Array" -> RefOwns(kind[2]) + Width.dims * Len(kind[3])
    [] kind[1] = "Map" -> RefOwns(kind[2]) + RefOwns(kind[3])
    [] kind[1] = "Channel" -> RefOwns(kind[3])
    [] kind[1] = "External" -> Length(kind[2]) + Sum(RefOwns, kind[3])
    [] kind[1] = "Semantic" -> Length(kind[2]) + RefsOwn(kind[3]) + RefOwns(kind[4])
    [] OTHER -> RefOwns(kind[2])
SchemaOwns(s) == Width.params * Len(s[2]) + Sum(Length, s[2]) + KindOwns(s[3])

BundleNames == UNION {NamesIn(SchemaToBytes(s)) : s \in Range(sent)}
BundleFits ==
  /\ \A s \in Range(sent) : \A d \in BundleDepths(s[3]) : d <= MaxNesting
  /\ Cardinality(BundleNames) <= MaxStrings /\ Cardinality(BundleNames) <= MaxOwned
  /\ Len(sent) <= MaxSchemas /\ Len(message) <= MaxTotal
InlineFits ==
  /\ \A d \in InlineDepths(sent[1][3]) : d <= MaxDepth
  /\ SchemaOwns(sent[1]) <= MaxOwned
  /\ sent[1][3][1] = "Semantic" => sent[1][3][2] \in Qualified

(* A bundle is refused by its own writer only for distinct reasons the      *)
(* format cannot express, and whatever phon wrote, in either form, it reads *)
(* back as the same schemas, in the order of their ids, unless a limit of   *)
(* the reader is in the way.                                                *)
WrittenIsAdmitted ==
  /\ writer = "refused" =>
       0 \in BundleNames \/ ~IsInjective(Ids(sent)) \/ ~ValidIds(sent)
  /\ (writer = "phon" /\ ~hurt /\ received # Err("nothing")) =>
       IF received.ok
       THEN /\ Len(received.schemas) = Len(sent) /\ Range(received.schemas) = Range(sent)
            /\ \A i \in 2..Len(sent) : received.schemas[i - 1][1] < received.schemas[i][1]
       ELSE IF form = "bundle" THEN ~BundleFits ELSE ~InlineFits

(* There is one message per bundle: whoever wrote it, and whatever happened *)
(* to it, a message that is admitted is the one phon writes for what was    *)
(* read.  For a schema by itself schema_matches_bytes says so exactly when  *)
(* the labels the reader skips are the usual ones.                          *)
AdmittedIsCanonical ==
  received.ok =>
    IF form = "bundle"
    THEN LET again == SchemaBundleToBytes(received.schemas) IN again.ok /\ again.m = message
    ELSE SchemaMatchesBytes(received.schemas[1], message) <=> <<"labels", FALSE>> \notin Range(message)

(* r[type-system.generic-resolution]: an admitted bundle is refused by      *)
(* Registry::try_new for the size of an array only, and a codec never meets *)
(* a variable, an unknown id or a wrong number of arguments in it, however  *)
(* far it follows the references.                                           *)
AdmittedResolves ==
  form = "bundle" =>
    /\ registered.ok \/ registered.why \in {"nothing", "caps"}
    /\ at # <<>> => Resolve(received.schemas, at[1]).ok

(* The bytes charged to the caller's limit are, whatever the order in which *)
(* pieces are met: of a schema by itself, every name and list that is kept  *)
(* (OwnedBudget::charge, SchemaDecoder::reserve); of a bundle, every name   *)
(* of its string table once (Dec::string), however often members use it.    *)
(* The table is dropped, and the copies that are kept are not charged.      *)
ChargesWhatIsSpelledOut ==
  received.ok =>
    /\ received.owned <= MaxOwned
    /\ received.owned =
         IF form = "inline" THEN SchemaOwns(received.schemas[1])
         ELSE Cardinality(UNION {NamesIn(SchemaToBytes(s)) : s \in Range(received.schemas)})

(* bytes.rs:152, of the limit: "Decoding would retain more owned bytes than *)
(* the caller permits".  Dec::ix clones a name for each use of it and the   *)
(* lists of a bundle are reserved by their count, neither with a charge.    *)
RetainsWithinLimit ==
  received.ok => Sum(SchemaOwns, received.schemas) <= MaxOwned

(* compact.rs:156 says that try_new bounds fixed arrays whose elements take *)
(* no bytes; an element that is a type parameter is not looked at again     *)
(* when the parameter is replaced.                                          *)
ArraysAreBounded ==
  at # <<>> =>
    LET resolved == Resolve(received.schemas, at[1])
    IN (resolved.ok /\ resolved.kind[1] = "Array" /\ IsZeroSized(received.schemas, resolved.kind[2], 0))
         => CountOf(resolved.kind[3]) <= ZstCountCap
=============================================================================
