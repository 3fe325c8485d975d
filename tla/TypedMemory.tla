----------------------------- MODULE TypedMemory -----------------------------
(***************************************************************************)
(* The memory the typed programs work on, for the interpreter and for the  *)
(* native code.                                                            *)
(*                                                                         *)
(* Memory is a sequence of nodes: allocations of slots, one slot per field *)
(* of a record or element of a buffer.  Node 1 is the caller's storage.  A *)
(* slot is uninitialized, or holds a scalar or a handle; a handle may own  *)
(* nodes.  Moving a value out of scratch memory gives it a new node, since *)
(* the address changes and the scratch is freed without dropping.  Nothing *)
(* records who owns a node: an owner is whatever still names it.  An       *)
(* allocation of no bytes, a dangling pointer in the code, is a node of no *)
(* slots.                                                                  *)
(***************************************************************************)
EXTENDS Naturals, Sequences, FiniteSets
LOCAL INSTANCE SequencesExt

CONSTANT Equal(_, _, _)   \* Eq of a set's elements or a map's keys: nodes of a memory

Uninit == [h |-> "uninit"]
Allocate(size) == [live |-> TRUE, slots |-> [i \in 0..size - 1 |-> Uninit]]
At(node) == [at |-> node, slot |-> 0]
Destination == At(1)

Put(m, place, content) == [m EXCEPT ![place.at].slots[place.slot] = content]

(* The nodes a handle owns; a reference owns nothing.                       *)
Owns(content) ==
  CASE content.h \in {"vec", "text", "some", "ok", "err", "box"} -> {content.at}
    [] content.h = "set" -> {content.of[i] : i \in DOMAIN content.of}
    [] content.h = "map" -> {e.k : e \in content.of} \cup {e.v : e \in content.of}
    [] OTHER -> {}
OwnedBy(m, a) == UNION {Owns(m[a].slots[i]) : i \in DOMAIN m[a].slots}

(* Dropping a value drops what it owns.                                     *)
Dropped(m, roots) ==
  LET reach[n \in 0..Len(m)] ==
        IF n = 0 THEN roots ELSE UNION {{a} \cup OwnedBy(m, a) : a \in reach[n - 1]}
      gone == reach[Len(m)]
  IN [a \in DOMAIN m |-> IF a \in gone THEN [m[a] EXCEPT !.live = FALSE] ELSE m[a]]

(* Freeing scratch memory drops nothing that is in it.                      *)
Freed(m, nodes) ==
  [a \in DOMAIN m |-> IF a \in nodes THEN [m[a] EXCEPT !.live = FALSE] ELSE m[a]]

(* ptr::read of the value in a scratch node: it lives on in a new node.     *)
Moved(m, a) == Append(Freed(m, {a}), m[a])
Latest(m) == Len(m)

-----------------------------------------------------------------------------
(* The thunks that rust/phon/src/derive.rs binds to a descriptor: the       *)
(* operations of a handle's type, which alone knows its layout.             *)
HandleAt(m, place) == m[place.at].slots[place.slot]

(* from_raw_parts: a list adopts a filled buffer, and so does text.         *)
ListAdopts(m, place, buffer, count, stride) ==
  Put(m, place, [h |-> "vec", at |-> buffer, count |-> count, stride |-> stride])
ListElements(content) ==
  [i \in 1..content.count |-> [at |-> content.at, slot |-> (i - 1) * content.stride]]
TextAdopts(m, place, buffer) == Put(m, place, [h |-> "text", at |-> buffer])

(* set_borrowed: text that points into the message.                         *)
SetBorrowed(m, place, v) == Put(m, place, [h |-> "borrow", v |-> v])

(* What an adapter makes of a span may point into the message, too.         *)
Deserialized(m, place, v) == Put(m, place, [h |-> "borrow", v |-> v])
Serialized(content) == content.v

(* The default of a field that the writer lacks is an option's None.        *)
DefaultInit(m, place) == Put(m, place, [h |-> "none"])

(* Sets: insert takes the element out of its scratch, and drops it when it  *)
(* is there already.                                                        *)
SetInit(m, place) == Put(m, place, [h |-> "set", of |-> <<>>])
SetHas(m, place, scratch) ==
  \E i \in DOMAIN HandleAt(m, place).of : Equal(m, HandleAt(m, place).of[i], scratch)
SetInsert(m, place, scratch) ==
  LET moved == Moved(m, scratch)
  IN IF SetHas(m, place, scratch) THEN Dropped(moved, {Latest(moved)})
     ELSE Put(moved, place, [HandleAt(m, place) EXCEPT !.of = Append(@, Latest(moved))])
SetElements(content) == content.of

(* Maps: insert keeps the key it has; the new key and the old value are     *)
(* dropped.                                                                 *)
MapInit(m, place) == Put(m, place, [h |-> "map", of |-> {}])
MapLen(m, place) == Cardinality(HandleAt(m, place).of)
MapEntries(content) == SetToSeq(content.of)
MapInsert(m, place, key, value) ==
  LET of == HandleAt(m, place).of
      moved == Moved(Moved(m, key), value)
      k == Len(m) + 1
      v == Len(m) + 2
      twins == {e \in of : Equal(m, e.k, key)}
      twin == CHOOSE e \in twins : TRUE
  IN IF twins = {} THEN Put(moved, place, [h |-> "map", of |-> of \cup {[k |-> k, v |-> v]}])
     ELSE Put(Dropped(moved, {k, twin.v}), place,
              [h |-> "map", of |-> (of \ {twin}) \cup {[k |-> twin.k, v |-> v]}])

(* Options, results and owning pointers take the value out of its scratch;  *)
(* a reference points at it.                                                *)
MovedInto(m, place, kind, scratch) ==
  Put(Moved(m, scratch), place, [h |-> kind, at |-> Len(m) + 1])
OptionInitNone(m, place) == Put(m, place, [h |-> "none"])
OptionInitSome(m, place, scratch) == MovedInto(m, place, "some", scratch)
OptionIsSome(content) == content.h = "some"
ResultInit(m, place, arm, scratch) == MovedInto(m, place, arm, scratch)
ResultIsOk(content) == content.h = "ok"
PointerInit(m, place, scratch) == MovedInto(m, place, "box", scratch)
PointerBorrow(content) == At(content.at)
ReferenceInit(m, place, scratch) == Put(m, place, [h |-> "ref", at |-> scratch])

(* The init thunk of an op that builds its value in scratch memory.         *)
InitThunk(m, place, kind, scratch) ==
  CASE kind = "some" -> OptionInitSome(m, place, scratch)
    [] kind \in {"ok", "err"} -> ResultInit(m, place, kind, scratch)
    [] kind = "box" -> PointerInit(m, place, scratch)
    [] kind = "ref" -> ReferenceInit(m, place, scratch)
-----------------------------------------------------------------------------
(* Owned text: a buffer of its own, filled with the run of the message.     *)
OwnedText(m, place, v) ==
  Append(TextAdopts(m, place, Latest(m) + 1),
         [live |-> TRUE, slots |-> [i \in {0} |-> [h |-> "scalar", v |-> v]]])

=============================================================================
