------------------------ MODULE TypedOwnershipProofs ------------------------
(***************************************************************************)
(* The memory of a typed decode call is owned as a Rust value is: for every*)
(* call whose programs are laid out, every message, every Eq and every     *)
(* skip that stays in the message.                                         *)
(***************************************************************************)
EXTENDS TypedOwnership, DataInduction, SequenceTheorems, FiniteSetTheorems, TLAPS

-----------------------------------------------------------------------------
(* The inductive invariant.  Memory first: sequences of nodes whose handles *)
(* are of the shapes the thunks make.                                       *)
IsPlace(p) == p \in [at : Nat, slot : Nat]
IsContent(c) ==
  /\ c.h = "set" => c = [h |-> "set", of |-> c.of] /\ IsSeq(c.of)
  /\ c.h = "map" =>
       /\ c = [h |-> "map", of |-> c.of]
       /\ \A e \in c.of :
            /\ e = [k |-> e.k, v |-> e.v] /\ e.k # e.v
            /\ \A f \in c.of \ {e} : {e.k, e.v} \cap {f.k, f.v} = {}
Extent(node) == Cardinality(DOMAIN node.slots)
IsNode(node) ==
  /\ node = [live |-> node.live, slots |-> [s \in DOMAIN node.slots |-> node.slots[s]]]
  /\ node.live \in BOOLEAN
  /\ Extent(node) \in Nat /\ DOMAIN node.slots = 0..Extent(node) - 1
  /\ \A s \in DOMAIN node.slots : IsContent(node.slots[s])
IsMemory(m) == IsSeq(m) /\ \A a \in DOMAIN m : IsNode(m[a])

(* Held are the nodes that something outside of memory owns: they are live, *)
(* and every other live node is named by one slot of one live node.         *)
Sound(m, held) ==
  /\ held \subseteq LiveIn(m)
  /\ \A a \in DOMAIN m : OwnedBy(m, a) \subseteq DOMAIN m
  /\ \A a \in LiveIn(m) : OwnedBy(m, a) \subseteq LiveIn(m) \ held
  /\ \A a, b \in LiveIn(m) : \A s \in DOMAIN m[a].slots : \A t \in DOMAIN m[b].slots :
       Owns(m[a].slots[s]) \cap Owns(m[b].slots[t]) # {} => a = b /\ s = t

(* What is live can be reached from what is held: no handles in a circle.   *)
Closed(m, S) == \A a \in S : OwnedBy(m, a) \subseteq S
Rooted(m, held) == \A S \in SUBSET LiveIn(m) : held \subseteq S /\ Closed(m, S) => S = LiveIn(m)

RefsInto(m, kept) ==
  \A a \in LiveIn(m) : \A s \in DOMAIN m[a].slots : m[a].slots[s].h = "ref" => m[a].slots[s].at \in kept

-----------------------------------------------------------------------------
(* Then the frames.  A frame runs at a place, and owes the slots that it    *)
(* will write: those of the ops to come, and those that its continuation    *)
(* will write or hand out.                                                  *)
Slot(p, s) == [at |-> p.at, slot |-> p.slot + s]
Span(p, S) == {Slot(p, s) : s \in S}
Holds(m, p) == IsPlace(p) /\ p.at \in DOMAIN m /\ p.slot \in DOMAIN m[p.at].slots
Unset(m, P) == \A p \in P : Holds(m, p) /\ HandleAt(m, p) = Uninit
Room(m, p, size) == IsPlace(p) /\ p.at \in DOMAIN m /\ p.slot + size <= Extent(m[p.at])

Ahead(F, f) == UNION {F[f.prog].fills[k] : k \in f.next..Len(f.prog)}

(* Each kind of continuation: where its frame runs, and what it owes.       *)
RestoreOK(t, at, before) ==
  t = [c |-> "restore", base |-> before] /\ at.at = before.at
SeqOK(F, f, t, at, before, m, owed) ==
  /\ t = [c |-> "seq", op |-> t.op, base |-> before, scratch |-> at.at,
          next |-> t.next, count |-> t.count, list |-> t.list]
  /\ t.next \in Nat \ {0} /\ t.count \in Nat /\ t.next <= t.count
  /\ Fits(F, t.op.body, t.op.stride) /\ f.prog = t.op.body
  /\ at.slot = (t.next - 1) * t.op.stride /\ Extent(m[at.at]) = t.count * t.op.stride
  /\ t.list.at = before.at /\ t.list \in owed
  /\ {[at |-> at.at, slot |-> s] : s \in t.next * t.op.stride..t.count * t.op.stride - 1} \subseteq owed
SetOK(F, t, at, before, m) ==
  /\ t = [c |-> "set", op |-> t.op, base |-> before, scratch |-> at.at, set |-> t.set, remaining |-> t.remaining]
  /\ t.remaining \in Nat /\ Fits(F, t.op.body, t.op.size)
  /\ t.set.at = before.at /\ Holds(m, t.set) /\ HandleAt(m, t.set).h = "set"
MapOK(F, t, before, m) ==
  /\ t = [c |-> t.c, op |-> t.op, base |-> before, scratch |-> t.scratch, value |-> t.value,
          map |-> t.map, total |-> t.total, remaining |-> t.remaining]
  /\ t.remaining \in Nat \ {0} /\ t.value # t.scratch
  /\ Fits(F, t.op.key, t.op.keySize) /\ Fits(F, t.op.value, t.op.valueSize)
  /\ t.map.at = before.at /\ Holds(m, t.map) /\ HandleAt(m, t.map).h = "map"
KeyOK(F, t, at, before, m, owed) ==
  /\ MapOK(F, t, before, m) /\ t.scratch = at.at
  /\ Room(m, At(t.value), t.op.valueSize) /\ Span(At(t.value), 0..t.op.valueSize - 1) \subseteq owed
ValueOK(F, t, at, before, m) ==
  /\ MapOK(F, t, before, m) /\ t.value = at.at
InitOK(t, at, before, owed) ==
  /\ t = [c |-> "init", kind |-> t.kind, base |-> before, scratch |-> at.at, handle |-> t.handle]
  /\ t.kind \in {"some", "ok", "err", "box", "ref"}
  /\ t.handle.at = before.at /\ t.handle \in owed

Waits(F, f, at, before, m, owed) ==
  LET t == f.then IN
  \/ t = NoneC /\ at = before
  \/ t.c = "restore" /\ RestoreOK(t, at, before)
  \/ t.c = "seq" /\ SeqOK(F, f, t, at, before, m, owed)
  \/ t.c = "set" /\ SetOK(F, t, at, before, m)
  \/ t.c = "key" /\ KeyOK(F, t, at, before, m, owed)
  \/ t.c = "value" /\ ValueOK(F, t, at, before, m)
  \/ t.c = "init" /\ InitOK(t, at, before, owed)

FrameOK(F, f, at, before, m, mine, owed) ==
  /\ f = [prog |-> f.prog, next |-> f.next, then |-> f.then]
  /\ f.prog \in DOMAIN F /\ f.next \in 1..Len(f.prog) + 1
  /\ Room(m, at, F[f.prog].size) /\ Span(at, Ahead(F, f)) \subseteq mine
  /\ Waits(F, f, at, before, m, owed)

(* ats: where the frames run; mine, owed: what the ops and continuations owe*)
Before(ats, i) == IF i = 1 THEN Destination ELSE ats[i - 1]
Framed(F, fs, ats, mine, owed, m) ==
  /\ IsSeq(fs) /\ IsSeq(ats) /\ Len(ats) = Len(fs)
  /\ \A i \in DOMAIN fs :
       /\ FrameOK(F, fs[i], ats[i], Before(ats, i), m, mine[i], owed[i])
       /\ Unset(m, mine[i] \cup owed[i]) 
       /\ mine[i] \cap owed[i] = {}
       /\ \A j \in DOMAIN fs \ {i} : (mine[i] \cup owed[i]) \cap (mine[j] \cup owed[j]) = {}
       /\ ats[i].at \in {Destination.at} \cup UNION {Scratches(fs[j].then) : j \in 1..i}

(* No node has two owners outside of memory.                                *)
Apart(fs, kept) ==
  /\ \A i \in DOMAIN fs : \A j \in DOMAIN fs \ {i} : Scratches(fs[i].then) \cap Scratches(fs[j].then) = {}
  /\ \A i, j \in DOMAIN kept : kept[i] = kept[j] => i = j
  /\ \A i \in DOMAIN kept : kept[i] # Destination.at /\ kept[i] \notin Waiting(fs)
  /\ Destination.at \notin Waiting(fs)

(* A call goes on: its frames run at these places, its memory is owned by   *)
(* them, the retained nodes and itself.  Within a step there may be slots   *)
(* that nobody owes any more, and nodes that the step itself holds.         *)
Owned(m, held, kept) == IsMemory(m) /\ Sound(m, held) /\ Rooted(m, held) /\ RefsInto(m, kept)
KeptOf(kept) == {kept[i] : i \in DOMAIN kept}
Ours(fs, kept) == {Destination.at} \cup Waiting(fs) \cup KeptOf(kept)
Spare(fs, mine, owed, m, spare) ==
  Unset(m, spare) /\ \A i \in DOMAIN fs : (mine[i] \cup owed[i]) \cap spare = {}
Ready(F, fs, at, m, kept, spare, hand) ==
  /\ \E ats, mine, owed :
       /\ Framed(F, fs, ats, mine, owed, m) /\ at = Before(ats, Len(fs) + 1)
       /\ Spare(fs, mine, owed, m, spare)
  /\ IsSeq(kept) /\ Apart(fs, kept) /\ hand \cap Ours(fs, kept) = {}
  /\ Owned(m, Ours(fs, kept) \cup hand, KeptOf(kept))

(* A call is over: nothing of it is left but the value and what is retained *)
(* for it, and after a failure the storage and what has leaked.             *)
Over(m, kept, failed) ==
  LET held == ({Destination.at} \cap LiveIn(m)) \cup KeptOf(kept)
  IN /\ IsMemory(m) /\ IsSeq(kept) /\ Apart(<<>>, kept) /\ Sound(m, held)
     /\ Destination.at \in DOMAIN m
     /\ IF failed THEN kept = <<>> ELSE Owned(m, held, KeptOf(kept))

IInv ==
  /\ call \in Calls /\ lowered = Lowered[call]
  /\ input \in Seq(Nat) /\ (lowered.ok => input \in Inputs) /\ pos \in 0..Len(input)
  /\ result = Pending => lowered.ok /\ Ready(Layouts[call], frames, base, mem, retained, {}, {})
  /\ result # Pending => frames = <<>> /\ base = Destination /\ Over(mem, retained, ~result.ok)

-----------------------------------------------------------------------------
(* What the operations on memory change.                                    *)
LEMMA MemoryDomain ==
  ASSUME NEW m, IsMemory(m)
  PROVE  DOMAIN m = 1..Len(m) /\ Len(m) \in Nat /\ IsSeq(m)
BY SeqDomain DEF IsMemory

LEMMA NodeSlots ==
  ASSUME NEW x, IsNode(x)
  PROVE  x.slots = [s \in DOMAIN x.slots |-> x.slots[s]]
BY DEF IsNode

LEMMA SameSlots ==
  ASSUME NEW x, IsNode(x), NEW live \in BOOLEAN
  PROVE  LET y == [live |-> live, slots |-> x.slots] IN IsNode(y) /\ y.live = live /\ y.slots = x.slots
<1> DEFINE y == [live |-> live, slots |-> x.slots]
<1>1. y.live = live /\ y.slots = x.slots
  OBVIOUS
<1>2. x.slots = [s \in DOMAIN x.slots |-> x.slots[s]]
  BY NodeSlots
<1>3. y = [live |-> y.live, slots |-> [s \in DOMAIN y.slots |-> y.slots[s]]]
  BY <1>1, <1>2
<1> HIDE DEF y
<1>4. IsNode(y)
  BY <1>1, <1>3 DEF IsNode, Extent
<1> QED
  BY <1>1, <1>4 DEF y

LEMMA FreedFacts ==
  ASSUME NEW m, IsMemory(m), NEW X
  PROVE  /\ IsMemory(Freed(m, X)) /\ Len(Freed(m, X)) = Len(m) /\ DOMAIN Freed(m, X) = DOMAIN m
         /\ \A a \in DOMAIN m : Freed(m, X)[a].slots = m[a].slots
         /\ LiveIn(Freed(m, X)) = LiveIn(m) \ X
<1> DEFINE n == Freed(m, X)
<1>1. DOMAIN m = 1..Len(m) /\ Len(m) \in Nat /\ IsSeq(m)
  BY MemoryDomain
<1>2. n = [a \in 1..Len(m) |-> n[a]]
  BY <1>1 DEF Freed
<1>3. IsSeq(n) /\ Len(n) = Len(m) /\ DOMAIN n = DOMAIN m
  BY <1>1, <1>2, FunctionIsSeq
<1>4. ASSUME NEW a \in DOMAIN m
      PROVE  IsNode(n[a]) /\ n[a].slots = m[a].slots /\ (n[a].live <=> m[a].live /\ a \notin X)
  <2>1. IsNode(m[a])
    BY DEF IsMemory
  <2>2. n[a] = IF a \in X THEN [m[a] EXCEPT !.live = FALSE] ELSE m[a]
    BY DEF Freed
  <2>3. m[a] = [live |-> m[a].live, slots |-> m[a].slots]
    BY <2>1 DEF IsNode
  <2>4. CASE a \in X
    <3>1. n[a] = [live |-> FALSE, slots |-> m[a].slots]
      BY <2>2, <2>3, <2>4
    <3>2. FALSE \in BOOLEAN
      OBVIOUS
    <3> DEFINE y == [live |-> FALSE, slots |-> m[a].slots]
    <3>3. IsNode(y) /\ y.live = FALSE /\ y.slots = m[a].slots
      BY <2>1, <3>2, SameSlots
    <3>4. n[a] = y /\ ~y.live
      BY <3>1, <3>3
    <3> HIDE DEF n, y
    <3> QED
      BY <2>4, <3>3, <3>4
  <2>5. CASE a \notin X
    BY <2>1, <2>2, <2>5
  <2> QED
    BY <2>4, <2>5
<1>5. IsMemory(n)
  BY <1>3, <1>4 DEF IsMemory
<1>6. LiveIn(n) = LiveIn(m) \ X
  BY <1>3, <1>4 DEF LiveIn
<1> QED
  BY <1>3, <1>4, <1>5, <1>6

LEMMA AddedFacts ==
  ASSUME NEW m, IsMemory(m), NEW node, IsNode(node), node.live
  PROVE  /\ IsMemory(Append(m, node)) /\ Len(Append(m, node)) = Len(m) + 1
         /\ DOMAIN Append(m, node) = DOMAIN m \cup {Len(m) + 1} /\ Len(m) + 1 \notin DOMAIN m
         /\ \A a \in DOMAIN m : Append(m, node)[a] = m[a]
         /\ Append(m, node)[Len(m) + 1] = node
         /\ LiveIn(Append(m, node)) = LiveIn(m) \cup {Len(m) + 1}
<1> DEFINE n == Append(m, node)
<1>1. DOMAIN m = 1..Len(m) /\ Len(m) \in Nat /\ IsSeq(m)
  BY MemoryDomain
<1>2. /\ IsSeq(n) /\ Len(n) = Len(m) + 1 /\ DOMAIN n = 1..Len(m) + 1
      /\ \A a \in 1..Len(m) : n[a] = m[a]
      /\ n[Len(m) + 1] = node
  BY <1>1, Appended
<1> HIDE DEF n
<1>3. DOMAIN n = DOMAIN m \cup {Len(m) + 1} /\ Len(m) + 1 \notin DOMAIN m
  BY <1>1, <1>2
<1>4. IsMemory(n)
  BY <1>1, <1>2, <1>3 DEF IsMemory
<1>5. LiveIn(n) = LiveIn(m) \cup {Len(m) + 1}
  BY <1>1, <1>2, <1>3 DEF LiveIn
<1> QED
  BY <1>1, <1>2, <1>3, <1>4, <1>5 DEF n

LEMMA PutFacts ==
  ASSUME NEW m, IsMemory(m), NEW place, Holds(m, place), NEW content, IsContent(content)
  PROVE  /\ IsMemory(Put(m, place, content)) /\ Len(Put(m, place, content)) = Len(m)
         /\ DOMAIN Put(m, place, content) = DOMAIN m
         /\ \A a \in DOMAIN m :
              /\ DOMAIN Put(m, place, content)[a].slots = DOMAIN m[a].slots
              /\ \A s \in DOMAIN m[a].slots :
                   Put(m, place, content)[a].slots[s] =
                     IF a = place.at /\ s = place.slot THEN content ELSE m[a].slots[s]
         /\ LiveIn(Put(m, place, content)) = LiveIn(m)
<1> DEFINE n == Put(m, place, content)
           b == place.at
           x == [m[b] EXCEPT !.slots = [m[b].slots EXCEPT ![place.slot] = content]]
<1>1. DOMAIN m = 1..Len(m) /\ Len(m) \in Nat /\ IsSeq(m)
  BY MemoryDomain
<1>2. b \in DOMAIN m /\ place.slot \in DOMAIN m[b].slots /\ IsNode(m[b])
  BY DEF Holds, IsMemory
<1>3. n = [m EXCEPT ![b] = x]
  BY <1>2 DEF Put
<1>4. /\ IsSeq(n) /\ Len(n) = Len(m) /\ DOMAIN n = DOMAIN m /\ n[b] = x
      /\ \A a \in DOMAIN m : a # b => n[a] = m[a]
  <2> HIDE DEF b, x
  <2>1. LET t == [m EXCEPT ![b] = x]
        IN /\ IsSeq(t) /\ Len(t) = Len(m) /\ DOMAIN t = 1..Len(m) /\ t[b] = x
           /\ \A i \in 1..Len(m) : i # b => t[i] = m[i]
    BY <1>1, <1>2, Replaced
  <2> HIDE DEF n
  <2> QED
    BY <1>1, <1>3, <2>1
<1> HIDE DEF n
<1>5. m[b] = [live |-> m[b].live, slots |-> m[b].slots]
  BY <1>2 DEF IsNode
<1>6. /\ x = [live |-> m[b].live, slots |-> x.slots] /\ DOMAIN x.slots = DOMAIN m[b].slots
      /\ x.slots = [m[b].slots EXCEPT ![place.slot] = content]
      /\ \A s \in DOMAIN m[b].slots : x.slots[s] = IF s = place.slot THEN content ELSE m[b].slots[s]
  BY <1>2, <1>5
<1>7. x.live = m[b].live /\ x.slots = [s \in DOMAIN x.slots |-> x.slots[s]]
  BY <1>6
<1> HIDE DEF x
<1>8. IsNode(x)
  BY <1>2, <1>6, <1>7 DEF IsNode, Extent
<1>9. IsMemory(n)
  BY <1>4, <1>8 DEF IsMemory
<1>10. LiveIn(n) = LiveIn(m)
  BY <1>4, <1>7 DEF LiveIn
<1>11. ASSUME NEW a \in DOMAIN m
       PROVE  /\ DOMAIN n[a].slots = DOMAIN m[a].slots
              /\ \A s \in DOMAIN m[a].slots :
                   n[a].slots[s] = IF a = place.at /\ s = place.slot THEN content ELSE m[a].slots[s]
  BY <1>4, <1>6
<1> QED
  BY <1>4, <1>9, <1>10, <1>11 DEF n

-----------------------------------------------------------------------------
(* Who owns what, before and after.                                         *)
LEMMA OwnedBySlots ==
  ASSUME NEW m, NEW n, NEW a, NEW b, m[a].slots = n[b].slots
  PROVE  OwnedBy(m, a) = OwnedBy(n, b)
BY DEF OwnedBy

LEMMA SlotOwns ==
  ASSUME NEW m, NEW a
  PROVE  /\ \A s \in DOMAIN m[a].slots : Owns(m[a].slots[s]) \subseteq OwnedBy(m, a)
         /\ \A x \in OwnedBy(m, a) : \E s \in DOMAIN m[a].slots : x \in Owns(m[a].slots[s])
<1> DEFINE f == m[a].slots
<1>1. OwnedBy(m, a) = UNION {Owns(f[i]) : i \in DOMAIN f}
  BY DEF OwnedBy
<1> HIDE DEF f
<1>2. \A s \in DOMAIN f : Owns(f[s]) \subseteq OwnedBy(m, a)
  BY <1>1
<1>3. \A x \in OwnedBy(m, a) : \E s \in DOMAIN f : x \in Owns(f[s])
  BY <1>1
<1> QED
  BY <1>2, <1>3 DEF f

(* Freeing what is held, without dropping what is in it.                    *)
LEMMA FreedSound ==
  ASSUME NEW m, IsMemory(m), NEW held, Sound(m, held), NEW X \in SUBSET held
  PROVE  Sound(Freed(m, X), held \ X)
<1> DEFINE n == Freed(m, X)
<1>1. /\ DOMAIN n = DOMAIN m
      /\ \A a \in DOMAIN m : n[a].slots = m[a].slots
      /\ LiveIn(n) = LiveIn(m) \ X
  BY FreedFacts
<1> HIDE DEF n
<1>2. \A a \in DOMAIN m : OwnedBy(n, a) = OwnedBy(m, a)
  BY <1>1, OwnedBySlots
<1>3. LiveIn(m) \subseteq DOMAIN m /\ LiveIn(n) \subseteq LiveIn(m)
  BY <1>1 DEF LiveIn
<1>4. held \ X \subseteq LiveIn(n)
  BY <1>1 DEF Sound
<1>5. \A a \in DOMAIN n : OwnedBy(n, a) \subseteq DOMAIN n
  BY <1>1, <1>2 DEF Sound
<1>6. \A a \in LiveIn(n) : OwnedBy(n, a) \subseteq LiveIn(n) \ (held \ X)
  BY <1>1, <1>2, <1>3 DEF Sound
<1>7. ASSUME NEW a \in LiveIn(n), NEW b \in LiveIn(n), NEW s \in DOMAIN n[a].slots, NEW t \in DOMAIN n[b].slots,
             Owns(n[a].slots[s]) \cap Owns(n[b].slots[t]) # {}
      PROVE  a = b /\ s = t
  <2>1. n[a].slots = m[a].slots /\ n[b].slots = m[b].slots /\ a \in LiveIn(m) /\ b \in LiveIn(m)
    BY <1>1, <1>3
  <2> QED
    BY <1>7, <2>1 DEF Sound
<1> QED
  BY <1>4, <1>5, <1>6, <1>7 DEF Sound, n

(* G: X and whatever it owns, directly or not.                              *)
Least(m, X, G) ==
  /\ X \subseteq G /\ G \subseteq DOMAIN m /\ Closed(m, G)
  /\ \A S \in SUBSET DOMAIN m : X \subseteq S /\ Closed(m, S) => G \subseteq S

(* n is m without the nodes of G.                                           *)
Without(m, n, G) ==
  /\ DOMAIN n = DOMAIN m /\ LiveIn(n) = LiveIn(m) \ G
  /\ \A a \in DOMAIN m : n[a].slots = m[a].slots

(* Dropping what is held drops exactly what nothing else can reach.         *)
LEMMA GoneSound ==
  ASSUME NEW m, NEW n, NEW held, NEW X \in SUBSET held, NEW G, Least(m, X, G),
         Without(m, n, G), Sound(m, held)
  PROVE  /\ Sound(n, held \ X) /\ X \subseteq G /\ G \subseteq LiveIn(m)
         /\ (held \ X) \cap G = {}
         /\ Rooted(m, held) => Rooted(n, held \ X)
<1> USE DEF Without
<1>1. \A a \in DOMAIN m : OwnedBy(n, a) = OwnedBy(m, a)
  BY OwnedBySlots
<1>2. LiveIn(m) \subseteq DOMAIN m /\ LiveIn(n) \subseteq LiveIn(m)
  BY DEF LiveIn
<1>3. X \subseteq LiveIn(m) /\ Closed(m, LiveIn(m))
  BY DEF Sound, Closed
<1>4. G \subseteq LiveIn(m)
  BY <1>2, <1>3 DEF Least
<1>5. \A g \in G : g \in X \/ \E b \in G : g \in OwnedBy(m, b)
  <2> DEFINE S == {g \in G : g \in X \/ \E b \in G : g \in OwnedBy(m, b)}
  <2>1. X \subseteq S /\ S \in SUBSET DOMAIN m
    BY DEF Least
  <2>2. Closed(m, S)
    BY DEF Least, Closed
  <2> HIDE DEF S
  <2>3. G \subseteq S
    BY <2>1, <2>2 DEF Least
  <2> QED
    BY <2>3 DEF S
<1>6. (held \ X) \cap G = {}
  BY <1>4, <1>5 DEF Sound
<1>7. held \ X \subseteq LiveIn(n)
  BY <1>6 DEF Sound
<1>8. \A a \in DOMAIN n : OwnedBy(n, a) \subseteq DOMAIN n
  BY <1>1 DEF Sound
<1>9. ASSUME NEW a \in LiveIn(n), NEW x \in OwnedBy(n, a)
      PROVE  x \in LiveIn(n) \ (held \ X)
  <2>1. a \in LiveIn(m) /\ a \notin G /\ x \in OwnedBy(m, a) /\ a \in DOMAIN m
    BY <1>1, <1>2, <1>9
  <2>2. x \in LiveIn(m) /\ x \notin held
    BY <2>1 DEF Sound
  <2>3. ASSUME x \in G PROVE FALSE
    <3>1. PICK b \in G : x \in OwnedBy(m, b)
      BY <1>5, <2>2, <2>3
    <3>2. PICK s \in DOMAIN m[a].slots : x \in Owns(m[a].slots[s])
      BY <2>1, SlotOwns
    <3>3. PICK t \in DOMAIN m[b].slots : x \in Owns(m[b].slots[t])
      BY <3>1, SlotOwns
    <3>4. Owns(m[a].slots[s]) \cap Owns(m[b].slots[t]) # {}
      BY <3>2, <3>3
    <3>5. a = b
      BY <1>4, <2>1, <3>4 DEF Sound
    <3> QED
      BY <2>1, <3>5
  <2> QED
    BY <2>2, <2>3
<1>10. ASSUME NEW a \in LiveIn(n), NEW b \in LiveIn(n), NEW s \in DOMAIN n[a].slots, NEW t \in DOMAIN n[b].slots,
              Owns(n[a].slots[s]) \cap Owns(n[b].slots[t]) # {}
       PROVE  a = b /\ s = t
  <2>1. n[a].slots = m[a].slots /\ n[b].slots = m[b].slots /\ a \in LiveIn(m) /\ b \in LiveIn(m)
    BY <1>2
  <2> QED
    BY <1>10, <2>1 DEF Sound
<1>11. Sound(n, held \ X)
  BY <1>7, <1>8, <1>9, <1>10 DEF Sound
<1>12. ASSUME Rooted(m, held), NEW S \in SUBSET LiveIn(n), held \ X \subseteq S, Closed(n, S)
       PROVE  S = LiveIn(n)
  <2> DEFINE T == S \cup G
  <2>1. T \in SUBSET LiveIn(m) /\ held \subseteq T
    BY <1>2, <1>4, <1>12 DEF Least
  <2>2. Closed(m, T)
    <3>1. \A a \in S : a \in DOMAIN m /\ OwnedBy(m, a) \subseteq S
      BY <1>1, <1>2, <1>12 DEF Closed
    <3>2. \A a \in G : OwnedBy(m, a) \subseteq G
      BY DEF Least, Closed
    <3> QED
      BY <3>1, <3>2 DEF Closed
  <2>3. T = LiveIn(m)
    BY <1>12, <2>1, <2>2 DEF Rooted
  <2> QED
    BY <2>3
<1>13. Rooted(m, held) => Rooted(n, held \ X)
  BY <1>12 DEF Rooted
<1> QED
  BY <1>4, <1>6, <1>11, <1>13 DEF Least

(* The closure that Dropped computes in as many rounds as there are nodes.  *)
LEMMA DroppedFrees ==
  ASSUME NEW m, IsMemory(m), \A a \in DOMAIN m : OwnedBy(m, a) \subseteq DOMAIN m,
         NEW X \in SUBSET DOMAIN m
  PROVE  \E G : Least(m, X, G) /\ Dropped(m, X) = Freed(m, G)
<1> DEFINE N == Len(m)
           D == DOMAIN m
           V == SUBSET D
           Grow(Z) == UNION {{a} \cup OwnedBy(m, a) : a \in Z}
           step == [i \in 1..N |-> [Z \in V |-> Grow(Z)]]
           Rounds(r) == [n \in 0..N |-> IF n = 0 THEN X ELSE Grow(r[n - 1])]
           reach == CHOOSE r : r = Rounds(r)
<1>0. D = 1..N /\ N \in Nat /\ 0 \in 0..N /\ N \in 0..N
      /\ (\A i \in 1..N : i \in 0..N /\ i - 1 \in 0..N /\ i # 0)
      /\ (\A i \in 0..N : i # 0 => i \in 1..N)
      /\ (\A i \in 0..N - 1 : i \in 0..N /\ i + 1 \in 1..N /\ (i + 1) - 1 = i)
  BY MemoryDomain
<1>1. \A Z \in V : Grow(Z) \in V /\ Z \subseteq Grow(Z) /\ \A a \in Z : OwnedBy(m, a) \subseteq Grow(Z)
  OBVIOUS
<1>2. \A Z : \A S : Z \subseteq S /\ Closed(m, S) => Grow(Z) \subseteq S
  BY DEF Closed
<1>3. Dropped(m, X) = Freed(m, reach[N])
  BY DEF Dropped, Freed
<1> HIDE DEF Grow, D
<1>4. PICK g : SolvedBy(g, V, X, N, step)
  <2>1. step \in [1..N -> [V -> V]] /\ X \in V
    BY <1>1 DEF D
  <2> HIDE DEF step, V
  <2>2. StepsOn(V, N, step)
    BY <1>0, <2>1 DEF StepsOn
  <2> QED
    BY <2>1, <2>2, Recursion
<1>5. g \in [0..N -> V] /\ g[0] = X /\ \A i \in 1..N : g[i] = step[i][g[i - 1]]
  <2> HIDE DEF step, V
  <2> QED
    BY <1>4 DEF SolvedBy
<1>6. \A i \in 1..N : g[i] = Grow(g[i - 1])
  BY <1>0, <1>5
<1>7. g = Rounds(g)
  <2>1. g = [n \in 0..N |-> g[n]]
    BY <1>5
  <2>2. \A n \in 0..N : g[n] = IF n = 0 THEN X ELSE Grow(g[n - 1])
    BY <1>0, <1>5, <1>6
  <2> QED
    BY <2>1, <2>2
<1>8. reach = Rounds(reach)
  <2> HIDE DEF Rounds
  <2> QED
    BY <1>7
<1>9. reach[0] = X /\ \A i \in 0..N - 1 : reach[i + 1] = Grow(reach[i])
  BY <1>0, <1>8
<1> HIDE DEF reach, step, Rounds
<1>10. \A i \in 0..N : reach[i] \in V
  <2> DEFINE T == {i \in 0..N : reach[i] \in V}
  <2>1. 0 \in T /\ \A i \in 0..N - 1 : i \in T => i + 1 \in T
    BY <1>0, <1>1, <1>9, SMTT(30) DEF D
  <2> HIDE DEF T
  <2>2. \A i \in 0..N : i \in T
    BY <1>0, <2>1, BoundedInduction
  <2> QED
    BY <2>2 DEF T
<1>11. X \subseteq reach[N]
  <2> DEFINE T == {i \in 0..N : X \subseteq reach[i]}
  <2>1. 0 \in T /\ \A i \in 0..N - 1 : i \in T => i + 1 \in T
    <3>1. \A i \in 0..N - 1 : reach[i] \subseteq reach[i + 1]
      BY <1>0, <1>1, <1>9, <1>10
    <3> QED
      BY <1>0, <1>9, <3>1
  <2> HIDE DEF T
  <2>2. \A i \in 0..N : i \in T
    BY <1>0, <2>1, BoundedInduction
  <2> QED
    BY <1>0, <2>2 DEF T
<1>12. ASSUME NEW S \in SUBSET D, X \subseteq S, Closed(m, S)
       PROVE  reach[N] \subseteq S
  <2> DEFINE T == {i \in 0..N : reach[i] \subseteq S}
  <2>1. 0 \in T /\ \A i \in 0..N - 1 : i \in T => i + 1 \in T
    BY <1>0, <1>2, <1>9, <1>12
  <2> HIDE DEF T
  <2>2. \A i \in 0..N : i \in T
    BY <1>0, <2>1, BoundedInduction
  <2> QED
    BY <1>0, <2>2 DEF T
<1>13. IsFiniteSet(D) /\ Cardinality(D) = N
  <2>1. IsFiniteSet(1..N) /\ Cardinality(1..N) = IF 1 > N THEN 0 ELSE N - 1 + 1
    BY <1>0, FS_Interval
  <2> QED
    BY <1>0, <2>1
<1>14. Closed(m, reach[N])
  <2> DEFINE T == {i \in 0..N : Closed(m, reach[i]) \/ Cardinality(reach[i]) >= i}
  <2>1. \A Z \in V : IsFiniteSet(Z) /\ Cardinality(Z) \in Nat
    BY <1>13, FS_Subset, FS_CardinalityType
  <2>2. 0 \in T
    BY <1>0, <1>10, <2>1
  <2>3. ASSUME NEW i \in 0..N - 1, i \in T PROVE i + 1 \in T
    <3>1. reach[i] \in V /\ reach[i + 1] \in V /\ reach[i + 1] = Grow(reach[i]) /\ reach[i] \subseteq reach[i + 1]
      BY <1>0, <1>1, <1>9, <1>10, SMTT(30)
    <3>2. CASE Closed(m, reach[i])
      <4>1. reach[i + 1] = reach[i]
        BY <1>2, <3>1, <3>2
      <4> QED
        BY <1>0, <2>3, <3>2, <4>1
    <3>3. CASE ~Closed(m, reach[i])
      <4>1. PICK a \in reach[i] : ~(OwnedBy(m, a) \subseteq reach[i])
        BY <3>3 DEF Closed
      <4>2. reach[i] # reach[i + 1]
        BY <1>1, <3>1, <4>1
      <4>3. Cardinality(reach[i]) < Cardinality(reach[i + 1])
        BY <2>1, <3>1, <4>2, FS_Subset
      <4>4. Cardinality(reach[i]) >= i
        BY <2>3, <3>3
      <4>5. Cardinality(reach[i + 1]) >= i + 1
        BY <2>1, <3>1, <4>3, <4>4
      <4> QED
        BY <1>0, <2>3, <4>5
    <3> QED
      BY <3>2, <3>3
  <2>4. \A i \in 0..N : i \in T
    <3> HIDE DEF T
    <3> QED
      BY <1>0, <2>2, <2>3, BoundedInduction
  <2>5. CASE Cardinality(reach[N]) >= N
    <3>1. reach[N] \subseteq D /\ Cardinality(reach[N]) <= Cardinality(D)
      BY <1>0, <1>10, <1>13, FS_Subset
    <3>2. reach[N] = D
      BY <1>0, <1>13, <2>1, <2>5, <3>1, FS_Subset
    <3> QED
      BY <3>2 DEF Closed, D
  <2> QED
    BY <1>0, <2>4, <2>5
<1>15. Least(m, X, reach[N])
  BY <1>0, <1>10, <1>11, <1>12, <1>14 DEF Least, D
<1> QED
  BY <1>3, <1>15

LEMMA DroppedSound ==
  ASSUME NEW m, IsMemory(m), NEW held, Sound(m, held), NEW X \in SUBSET held
  PROVE  /\ IsMemory(Dropped(m, X)) /\ Len(Dropped(m, X)) = Len(m) /\ DOMAIN Dropped(m, X) = DOMAIN m
         /\ \A a \in DOMAIN m : Dropped(m, X)[a].slots = m[a].slots
         /\ LiveIn(Dropped(m, X)) \subseteq LiveIn(m) \ X
         /\ Sound(Dropped(m, X), held \ X)
         /\ Rooted(m, held) => Rooted(Dropped(m, X), held \ X)
<1> DEFINE n == Dropped(m, X)
<1>1. X \subseteq DOMAIN m /\ \A a \in DOMAIN m : OwnedBy(m, a) \subseteq DOMAIN m
  BY DEF Sound, LiveIn
<1>2. PICK G : Least(m, X, G) /\ n = Freed(m, G)
  BY <1>1, DroppedFrees
<1>3. /\ IsMemory(n) /\ Len(n) = Len(m) /\ DOMAIN n = DOMAIN m
      /\ \A a \in DOMAIN m : n[a].slots = m[a].slots
      /\ LiveIn(n) = LiveIn(m) \ G
  BY <1>2, FreedFacts
<1> HIDE DEF n
<1>4. /\ Sound(n, held \ X) /\ X \subseteq G
      /\ Rooted(m, held) => Rooted(n, held \ X)
  <2>1. Without(m, n, G)
    BY <1>3 DEF Without
  <2> QED
    BY <1>2, <2>1, GoneSound
<1> QED
  BY <1>3, <1>4 DEF n

(* A new allocation that owns nothing.                                      *)
LEMMA AddedSound ==
  ASSUME NEW m, IsMemory(m), NEW held, Sound(m, held), NEW node, IsNode(node), node.live,
         \A s \in DOMAIN node.slots : Owns(node.slots[s]) = {}
  PROVE  /\ Sound(Append(m, node), held \cup {Len(m) + 1})
         /\ Rooted(m, held) => Rooted(Append(m, node), held \cup {Len(m) + 1})
<1> DEFINE n == Append(m, node)
           new == Len(m) + 1
<1>1. /\ DOMAIN n = DOMAIN m \cup {new} /\ new \notin DOMAIN m
      /\ \A a \in DOMAIN m : n[a] = m[a]
      /\ n[new] = node
      /\ LiveIn(n) = LiveIn(m) \cup {new}
  BY AddedFacts
<1> HIDE DEF n, new
<1>2. (\A a \in DOMAIN m : OwnedBy(n, a) = OwnedBy(m, a)) /\ OwnedBy(n, new) = {}
  <2>1. \A a \in DOMAIN m : OwnedBy(n, a) = OwnedBy(m, a)
    BY <1>1, OwnedBySlots
  <2>2. OwnedBy(n, new) = {}
    BY <1>1, SlotOwns
  <2> QED
    BY <2>1, <2>2
<1>3. LiveIn(m) \subseteq DOMAIN m /\ held \subseteq LiveIn(m)
  BY DEF LiveIn, Sound
<1>4. \A a \in DOMAIN n : OwnedBy(n, a) \subseteq DOMAIN n
  BY <1>1, <1>2 DEF Sound
<1>5. \A a \in LiveIn(n) : OwnedBy(n, a) \subseteq LiveIn(n) \ (held \cup {new})
  <2>1. \A a \in LiveIn(m) : OwnedBy(m, a) \subseteq LiveIn(m) \ held
    BY DEF Sound
  <2> QED
    BY <1>1, <1>2, <1>3, <2>1
<1>6. ASSUME NEW a \in LiveIn(n), NEW b \in LiveIn(n), NEW s \in DOMAIN n[a].slots, NEW t \in DOMAIN n[b].slots,
             Owns(n[a].slots[s]) \cap Owns(n[b].slots[t]) # {}
      PROVE  a = b /\ s = t
  <2>1. a # new /\ b # new
    BY <1>1, <1>6
  <2>2. a \in LiveIn(m) /\ b \in LiveIn(m) /\ n[a] = m[a] /\ n[b] = m[b]
    BY <1>1, <1>3, <2>1
  <2> QED
    BY <1>6, <2>2 DEF Sound
<1>7. Sound(n, held \cup {new})
  BY <1>1, <1>3, <1>4, <1>5, <1>6 DEF Sound
<1>8. ASSUME Rooted(m, held), NEW S \in SUBSET LiveIn(n), held \cup {new} \subseteq S, Closed(n, S)
      PROVE  S = LiveIn(n)
  <2> DEFINE T == S \ {new}
  <2>1. T \in SUBSET LiveIn(m) /\ held \subseteq T
    BY <1>1, <1>3, <1>8
  <2>2. Closed(m, T)
    <3>1. \A a \in T : a \in DOMAIN m /\ OwnedBy(m, a) \subseteq S /\ OwnedBy(m, a) \subseteq DOMAIN m
      BY <1>2, <1>3, <1>8, <2>1 DEF Closed, Sound
    <3> QED
      BY <1>1, <3>1 DEF Closed
  <2>3. T = LiveIn(m)
    BY <1>8, <2>1, <2>2 DEF Rooted
  <2> QED
    BY <1>1, <1>8, <2>3
<1> QED
  BY <1>7, <1>8 DEF Rooted, n, new

(* What is held moves to a new node, and stays held.                        *)
LEMMA MovedFacts ==
  ASSUME NEW m, IsMemory(m), NEW a \in LiveIn(m)
  PROVE  /\ IsMemory(Moved(m, a)) /\ Len(Moved(m, a)) = Len(m) + 1
         /\ DOMAIN Moved(m, a) = DOMAIN m \cup {Len(m) + 1} /\ Len(m) + 1 \notin DOMAIN m
         /\ \A b \in DOMAIN m : Moved(m, a)[b].slots = m[b].slots
         /\ Moved(m, a)[Len(m) + 1].slots = m[a].slots
         /\ LiveIn(Moved(m, a)) = (LiveIn(m) \ {a}) \cup {Len(m) + 1}
<1> DEFINE k == Freed(m, {a})
<1>1. /\ IsMemory(k) /\ Len(k) = Len(m) /\ DOMAIN k = DOMAIN m
      /\ \A b \in DOMAIN m : k[b].slots = m[b].slots
      /\ LiveIn(k) = LiveIn(m) \ {a}
  BY FreedFacts
<1>2. IsNode(m[a]) /\ m[a].live /\ a \in DOMAIN m
  BY DEF IsMemory, LiveIn
<1>3. Moved(m, a) = Append(k, m[a])
  BY DEF Moved
<1> HIDE DEF k
<1>4. /\ IsMemory(Append(k, m[a])) /\ Len(Append(k, m[a])) = Len(k) + 1
      /\ DOMAIN Append(k, m[a]) = DOMAIN k \cup {Len(k) + 1} /\ Len(k) + 1 \notin DOMAIN k
      /\ \A b \in DOMAIN k : Append(k, m[a])[b] = k[b]
      /\ Append(k, m[a])[Len(k) + 1] = m[a]
      /\ LiveIn(Append(k, m[a])) = LiveIn(k) \cup {Len(k) + 1}
  BY <1>1, <1>2, AddedFacts
<1> QED
  BY <1>1, <1>3, <1>4

LEMMA MovedSound ==
  ASSUME NEW m, IsMemory(m), NEW held, Sound(m, held), NEW a \in held
  PROVE  LET new == Len(m) + 1
             rest == (held \ {a}) \cup {new}
         IN Sound(Moved(m, a), rest) /\ (Rooted(m, held) => Rooted(Moved(m, a), rest))
<1> DEFINE n == Moved(m, a)
           new == Len(m) + 1
           rest == (held \ {a}) \cup {new}
<1>0. a \in LiveIn(m) /\ a \in DOMAIN m /\ LiveIn(m) \subseteq DOMAIN m /\ held \subseteq LiveIn(m)
  BY DEF Sound, LiveIn
<1>1. /\ DOMAIN n = DOMAIN m \cup {new} /\ new \notin DOMAIN m
      /\ \A b \in DOMAIN m : n[b].slots = m[b].slots
      /\ n[new].slots = m[a].slots
      /\ LiveIn(n) = (LiveIn(m) \ {a}) \cup {new}
  BY <1>0, MovedFacts
<1> HIDE DEF n, new
<1>2. (\A b \in DOMAIN m : OwnedBy(n, b) = OwnedBy(m, b)) /\ OwnedBy(n, new) = OwnedBy(m, a)
  BY <1>1, OwnedBySlots
<1>3. \A b \in LiveIn(m) : OwnedBy(m, b) \subseteq LiveIn(m) \ held
  BY DEF Sound
<1>4. \A b \in DOMAIN m : OwnedBy(m, b) \subseteq DOMAIN m
  BY DEF Sound
<1>5. rest \subseteq LiveIn(n)
  BY <1>0, <1>1
<1>6. \A b \in DOMAIN n : OwnedBy(n, b) \subseteq DOMAIN n
  BY <1>0, <1>1, <1>2, <1>4
<1>7. \A b \in LiveIn(n) : OwnedBy(n, b) \subseteq LiveIn(n) \ rest
  <2> SUFFICES ASSUME NEW b \in LiveIn(n), NEW x \in OwnedBy(n, b)
               PROVE  x \in LiveIn(n) /\ x \notin rest
    OBVIOUS
  <2>1. x \in LiveIn(m) /\ x \notin held
    BY <1>0, <1>1, <1>2, <1>3
  <2> QED
    BY <1>0, <1>1, <2>1
<1>8. ASSUME NEW b \in LiveIn(n), NEW c \in LiveIn(n), NEW s \in DOMAIN n[b].slots, NEW t \in DOMAIN n[c].slots,
             Owns(n[b].slots[s]) \cap Owns(n[c].slots[t]) # {}
      PROVE  b = c /\ s = t
  <2> DEFINE Old(x) == IF x = new THEN a ELSE x
  <2>1. \A x \in LiveIn(n) : Old(x) \in LiveIn(m) /\ n[x].slots = m[Old(x)].slots
    BY <1>0, <1>1
  <2>2. \A x, y \in LiveIn(n) : Old(x) = Old(y) => x = y
    BY <1>0, <1>1
  <2> HIDE DEF Old
  <2>3. Old(b) = Old(c) /\ s = t
    BY <1>8, <2>1 DEF Sound
  <2> QED
    BY <2>2, <2>3
<1>9. Sound(n, rest)
  BY <1>5, <1>6, <1>7, <1>8 DEF Sound
<1>10. ASSUME Rooted(m, held), NEW S \in SUBSET LiveIn(n), rest \subseteq S, Closed(n, S)
       PROVE  S = LiveIn(n)
  <2> DEFINE T == (S \ {new}) \cup {a}
  <2>1. T \in SUBSET LiveIn(m) /\ held \subseteq T
    BY <1>0, <1>1, <1>10
  <2>2. \A b \in S : OwnedBy(n, b) \subseteq S
    BY <1>10 DEF Closed
  <2>3. \A b \in T : OwnedBy(m, b) \subseteq S /\ OwnedBy(m, b) \subseteq DOMAIN m
    BY <1>0, <1>1, <1>2, <1>4, <1>10, <2>1, <2>2
  <2>4. Closed(m, T)
    BY <1>1, <2>3 DEF Closed
  <2>5. T = LiveIn(m)
    BY <1>10, <2>1, <2>4 DEF Rooted
  <2> QED
    BY <1>0, <1>1, <1>10, <2>5
<1> QED
  BY <1>9, <1>10 DEF Rooted, n, new

(* n is m with another content at a place.                                  *)
Rewritten(m, n, place, content) ==
  /\ DOMAIN n = DOMAIN m /\ LiveIn(n) = LiveIn(m)
  /\ \A a \in DOMAIN m :
       /\ DOMAIN n[a].slots = DOMAIN m[a].slots
       /\ \A s \in DOMAIN m[a].slots :
            n[a].slots[s] = IF a = place.at /\ s = place.slot THEN content ELSE m[a].slots[s]

(* What the new content owns was held or owned here, and what it no longer  *)
(* owns is held.                                                            *)
LEMMA RewrittenSound ==
  ASSUME NEW m, NEW n, NEW held, Sound(m, held), NEW place, Holds(m, place), NEW content,
         Rewritten(m, n, place, content), place.at \in held,
         NEW gained \in SUBSET (held \ {place.at}), NEW lost \in SUBSET Owns(HandleAt(m, place)),
         Owns(content) = (Owns(HandleAt(m, place)) \ lost) \cup gained
  PROVE  LET rest == (held \ gained) \cup lost
         IN Sound(n, rest) /\ (Rooted(m, held) => Rooted(n, rest))
<1> DEFINE rest == (held \ gained) \cup lost
           p == place.at
           q == place.slot
           old == HandleAt(m, place)
<1>0. /\ p \in LiveIn(m) /\ q \in DOMAIN m[p].slots /\ old = m[p].slots[q]
      /\ LiveIn(m) \subseteq DOMAIN m /\ held \subseteq LiveIn(m)
  BY DEF Sound, LiveIn, HandleAt, Holds
<1>1. /\ DOMAIN n = DOMAIN m /\ LiveIn(n) = LiveIn(m)
      /\ \A a \in DOMAIN m : DOMAIN n[a].slots = DOMAIN m[a].slots
      /\ \A a \in DOMAIN m : \A s \in DOMAIN m[a].slots : a # p \/ s # q => n[a].slots[s] = m[a].slots[s]
      /\ n[p].slots[q] = content
  BY <1>0 DEF Rewritten
<1> HIDE DEF old, p, q
<1>2. /\ \A a \in DOMAIN m : OwnedBy(m, a) \subseteq DOMAIN m
      /\ \A a \in LiveIn(m) : OwnedBy(m, a) \subseteq LiveIn(m) \ held
  BY DEF Sound
<1>3. Owns(content) = (Owns(old) \ lost) \cup gained /\ lost \subseteq Owns(old)
  BY DEF old
<1>4. Owns(old) \subseteq OwnedBy(m, p)
  BY <1>0, SlotOwns
<1>5. gained \subseteq held /\ p \in held /\ p \notin gained
  BY DEF p
<1>6. ASSUME NEW a \in LiveIn(m), NEW s \in DOMAIN m[a].slots, a # p \/ s # q
      PROVE  Owns(m[a].slots[s]) \cap Owns(old) = {}
  BY <1>0, <1>6 DEF Sound
<1>7. \A a \in DOMAIN m : OwnedBy(n, a) \subseteq OwnedBy(m, a) \cup gained
  <2> SUFFICES ASSUME NEW a \in DOMAIN m, NEW x \in OwnedBy(n, a) PROVE x \in OwnedBy(m, a) \cup gained
    OBVIOUS
  <2>1. PICK s \in DOMAIN n[a].slots : x \in Owns(n[a].slots[s])
    BY SlotOwns
  <2>2. Owns(m[a].slots[s]) \subseteq OwnedBy(m, a) /\ s \in DOMAIN m[a].slots
    BY <1>1, SlotOwns
  <2>3. CASE a = p /\ s = q
    BY <1>0, <1>1, <1>3, <1>4, <2>1, <2>3
  <2>4. CASE a # p \/ s # q
    BY <1>1, <2>1, <2>2, <2>4
  <2> QED
    BY <2>3, <2>4
<1>8. \A a \in DOMAIN m : OwnedBy(m, a) \subseteq OwnedBy(n, a) \cup (IF a = p THEN lost ELSE {})
  <2> SUFFICES ASSUME NEW a \in DOMAIN m, NEW x \in OwnedBy(m, a)
               PROVE  x \in OwnedBy(n, a) \cup (IF a = p THEN lost ELSE {})
    OBVIOUS
  <2>1. PICK s \in DOMAIN m[a].slots : x \in Owns(m[a].slots[s])
    BY SlotOwns
  <2>2. Owns(n[a].slots[s]) \subseteq OwnedBy(n, a)
    BY <1>1, SlotOwns
  <2>3. CASE a = p /\ s = q
    BY <1>0, <1>1, <1>3, <2>1, <2>2, <2>3
  <2>4. CASE a # p \/ s # q
    BY <1>1, <2>1, <2>2, <2>4
  <2> QED
    BY <2>3, <2>4
<1>9. rest \subseteq LiveIn(n)
  BY <1>0, <1>1, <1>2, <1>3, <1>4
<1>10. \A a \in DOMAIN n : OwnedBy(n, a) \subseteq DOMAIN n
  BY <1>0, <1>1, <1>2, <1>5, <1>7
<1>11. ASSUME NEW a \in LiveIn(n), NEW x \in OwnedBy(n, a)
       PROVE  x \in LiveIn(n) \ rest
  <2>1. a \in LiveIn(m) /\ a \in DOMAIN m
    BY <1>0, <1>1
  <2>2. PICK s \in DOMAIN n[a].slots : x \in Owns(n[a].slots[s])
    BY SlotOwns
  <2>3. s \in DOMAIN m[a].slots /\ Owns(m[a].slots[s]) \subseteq OwnedBy(m, a)
    BY <1>1, <2>1, SlotOwns
  <2>4. CASE a = p /\ s = q
    BY <1>0, <1>1, <1>2, <1>3, <1>4, <1>5, <2>2, <2>4
  <2>5. CASE a # p \/ s # q
    <3>1. n[a].slots[s] = m[a].slots[s]
      BY <1>1, <2>1, <2>3, <2>5
    <3>2. x \notin Owns(old)
      BY <1>6, <2>1, <2>2, <2>3, <2>5, <3>1
    <3>3. x \in LiveIn(m) \ held
      BY <1>2, <2>1, <2>2, <2>3, <3>1
    <3> QED
      BY <1>1, <1>3, <3>2, <3>3
  <2> QED
    BY <2>4, <2>5
<1>12. ASSUME NEW a \in LiveIn(n), NEW b \in LiveIn(n), NEW s \in DOMAIN n[a].slots, NEW t \in DOMAIN n[b].slots,
              Owns(n[a].slots[s]) \cap Owns(n[b].slots[t]) # {}
       PROVE  a = b /\ s = t
  <2>1. a \in LiveIn(m) /\ b \in LiveIn(m) /\ s \in DOMAIN m[a].slots /\ t \in DOMAIN m[b].slots
    BY <1>0, <1>1
  <2>2. ASSUME NEW c \in LiveIn(m), NEW u \in DOMAIN m[c].slots, c # p \/ u # q
        PROVE  Owns(n[c].slots[u]) \cap Owns(content) = {} /\ n[c].slots[u] = m[c].slots[u]
    <3>1. n[c].slots[u] = m[c].slots[u]
      BY <1>0, <1>1, <2>2
    <3>2. Owns(m[c].slots[u]) \cap Owns(old) = {} /\ Owns(m[c].slots[u]) \cap held = {}
      BY <1>2, <1>6, <2>2, SlotOwns
    <3> QED
      BY <1>3, <1>5, <3>1, <3>2
  <2>3. CASE a = p /\ s = q
    BY <1>1, <1>12, <2>1, <2>2, <2>3
  <2>4. CASE b = p /\ t = q
    BY <1>1, <1>12, <2>1, <2>2, <2>4
  <2>5. CASE (a # p \/ s # q) /\ (b # p \/ t # q)
    BY <1>12, <2>1, <2>2, <2>5 DEF Sound
  <2> QED
    BY <2>3, <2>4, <2>5
<1>13. Sound(n, rest)
  BY <1>9, <1>10, <1>11, <1>12 DEF Sound
<1>14. ASSUME Rooted(m, held), NEW S \in SUBSET LiveIn(n), rest \subseteq S, Closed(n, S)
       PROVE  S = LiveIn(n)
  <2>1. \A a \in S : OwnedBy(n, a) \subseteq S
    BY <1>14 DEF Closed
  <2>2. p \in S /\ lost \subseteq S
    BY <1>5, <1>14
  <2>3. gained \subseteq S
    BY <1>0, <1>1, <1>3, <2>1, <2>2, SlotOwns
  <2>4. held \subseteq S /\ S \in SUBSET LiveIn(m)
    BY <1>1, <1>14, <2>3
  <2>5. Closed(m, S)
    BY <1>0, <1>8, <2>1, <2>2, <2>4 DEF Closed
  <2> QED
    BY <1>1, <1>14, <2>4, <2>5 DEF Rooted
<1> QED
  BY <1>13, <1>14 DEF Rooted

-----------------------------------------------------------------------------
(* Memory between two steps, and what a step leaves alone: slots that are   *)
(* still owed (those not in Q), and the handles that are being filled.      *)
Keeps(m, n, Q) ==
  /\ DOMAIN m \subseteq DOMAIN n
  /\ \A a \in DOMAIN m :
       /\ DOMAIN n[a].slots = DOMAIN m[a].slots
       /\ \A s \in DOMAIN m[a].slots :
            /\ m[a].slots[s] = Uninit /\ [at |-> a, slot |-> s] \notin Q => n[a].slots[s] = Uninit
            /\ m[a].slots[s].h \in {"set", "map"} => n[a].slots[s].h = m[a].slots[s].h

LEMMA KeepsMore ==
  ASSUME NEW m, NEW k, NEW n, NEW P, NEW Q, Keeps(m, k, P), Keeps(k, n, Q)
  PROVE  Keeps(m, n, P \cup Q)
BY DEF Keeps

LEMMA SameSlotsKeep ==
  ASSUME NEW m, NEW n, NEW Q, DOMAIN m \subseteq DOMAIN n, \A a \in DOMAIN m : n[a].slots = m[a].slots
  PROVE  Keeps(m, n, Q)
BY DEF Keeps

LEMMA AddOwned ==
  ASSUME NEW m, NEW held, NEW kept, Owned(m, held, kept), NEW node, IsNode(node), node.live,
         \A s \in DOMAIN node.slots : node.slots[s].h \in {"uninit", "scalar"}
  PROVE  /\ Owned(Append(m, node), held \cup {Len(m) + 1}, kept)
         /\ Keeps(m, Append(m, node), {})
<1> DEFINE n == Append(m, node)
           new == Len(m) + 1
<1>1. \A s \in DOMAIN node.slots : Owns(node.slots[s]) = {} /\ node.slots[s].h # "ref"
  BY DEF Owns
<1>2. /\ IsMemory(n) /\ DOMAIN n = DOMAIN m \cup {new}
      /\ \A a \in DOMAIN m : n[a] = m[a]
      /\ n[new] = node
      /\ LiveIn(n) = LiveIn(m) \cup {new}
  BY AddedFacts DEF Owned
<1>3. Sound(n, held \cup {new}) /\ Rooted(n, held \cup {new})
  BY <1>1, AddedSound DEF Owned
<1> HIDE DEF n, new
<1>4. RefsInto(n, kept)
  <2>1. \A a \in LiveIn(m) : a \in DOMAIN m
    BY DEF LiveIn
  <2> QED
    BY <1>1, <1>2, <2>1 DEF RefsInto, Owned
<1>5. Keeps(m, n, {})
  BY <1>2, SameSlotsKeep
<1> QED
  BY <1>2, <1>3, <1>4, <1>5 DEF Owned, n, new

LEMMA MoveOwned ==
  ASSUME NEW m, NEW held, NEW kept, Owned(m, held, kept), NEW a \in held
  PROVE  /\ Owned(Moved(m, a), (held \ {a}) \cup {Len(m) + 1}, kept)
         /\ Keeps(m, Moved(m, a), {})
<1> DEFINE n == Moved(m, a)
           new == Len(m) + 1
<1>1. a \in LiveIn(m) /\ LiveIn(m) \subseteq DOMAIN m
  BY DEF Owned, Sound, LiveIn
<1>2. /\ IsMemory(n) /\ DOMAIN n = DOMAIN m \cup {new}
      /\ \A b \in DOMAIN m : n[b].slots = m[b].slots
      /\ n[new].slots = m[a].slots
      /\ LiveIn(n) = (LiveIn(m) \ {a}) \cup {new}
  BY <1>1, MovedFacts DEF Owned
<1>3. Sound(n, (held \ {a}) \cup {new}) /\ Rooted(n, (held \ {a}) \cup {new})
  BY MovedSound DEF Owned
<1> HIDE DEF n, new
<1>4. RefsInto(n, kept)
  BY <1>1, <1>2 DEF RefsInto, Owned
<1>5. Keeps(m, n, {})
  BY <1>2, SameSlotsKeep
<1> QED
  BY <1>2, <1>3, <1>4, <1>5 DEF Owned, n, new

LEMMA DropOwned ==
  ASSUME NEW m, NEW held, NEW kept, Owned(m, held, kept), NEW X \in SUBSET held
  PROVE  /\ Owned(Dropped(m, X), held \ X, kept)
         /\ Keeps(m, Dropped(m, X), {})
<1> DEFINE n == Dropped(m, X)
<1>1. /\ IsMemory(n) /\ DOMAIN n = DOMAIN m
      /\ \A a \in DOMAIN m : n[a].slots = m[a].slots
      /\ LiveIn(n) \subseteq LiveIn(m) \ X
      /\ Sound(n, held \ X)
      /\ Rooted(n, held \ X)
  BY DroppedSound DEF Owned
<1> HIDE DEF n
<1>2. RefsInto(n, kept)
  <2>1. \A a \in LiveIn(m) : a \in DOMAIN m
    BY DEF LiveIn
  <2> QED
    BY <1>1, <2>1 DEF RefsInto, Owned
<1>3. Keeps(m, n, {})
  BY <1>1, SameSlotsKeep
<1> QED
  BY <1>1, <1>2, <1>3 DEF Owned, n

(* How a handle at a place may change: from uninitialized to anything, or   *)
(* from one state of a set or map to another.                               *)
Changes(old, new, kept) ==
  /\ old = Uninit \/ (old.h \in {"set", "map"} /\ new.h = old.h)
  /\ new.h = "ref" => new.at \in kept

LEMMA RewriteOwned ==
  ASSUME NEW m, NEW held, NEW kept, Owned(m, held, kept), NEW n, IsMemory(n),
         NEW place, Holds(m, place), NEW content, Rewritten(m, n, place, content), place.at \in held,
         NEW more, kept \subseteq more, Changes(HandleAt(m, place), content, more),
         NEW gained \in SUBSET (held \ {place.at}), NEW lost \in SUBSET Owns(HandleAt(m, place)),
         Owns(content) = (Owns(HandleAt(m, place)) \ lost) \cup gained
  PROVE  /\ Owned(n, (held \ gained) \cup lost, more)
         /\ Keeps(m, n, {place})
<1>1. Sound(n, (held \ gained) \cup lost) /\ Rooted(n, (held \ gained) \cup lost)
  BY RewrittenSound DEF Owned
<1>2. RefsInto(n, more)
  <2> SUFFICES ASSUME NEW a \in LiveIn(n), NEW s \in DOMAIN n[a].slots, n[a].slots[s].h = "ref"
               PROVE  n[a].slots[s].at \in more
    BY DEF RefsInto
  <2>1. a \in LiveIn(m) /\ a \in DOMAIN m /\ s \in DOMAIN m[a].slots
    BY DEF Rewritten, LiveIn
  <2>2. n[a].slots[s] = IF a = place.at /\ s = place.slot THEN content ELSE m[a].slots[s]
    BY <2>1 DEF Rewritten
  <2>3. CASE a = place.at /\ s = place.slot
    BY <2>2, <2>3 DEF Changes
  <2>4. CASE ~(a = place.at /\ s = place.slot)
    BY <2>1, <2>2, <2>4 DEF Owned, RefsInto
  <2> QED
    BY <2>3, <2>4
<1>3. Keeps(m, n, {place})
  <2>1. place = [at |-> place.at, slot |-> place.slot]
    BY DEF Holds, IsPlace
  <2>2. ASSUME NEW a \in DOMAIN m, NEW s \in DOMAIN m[a].slots
        PROVE  /\ m[a].slots[s] = Uninit /\ [at |-> a, slot |-> s] \notin {place} => n[a].slots[s] = Uninit
               /\ m[a].slots[s].h \in {"set", "map"} => n[a].slots[s].h = m[a].slots[s].h
    <3>1. n[a].slots[s] = IF a = place.at /\ s = place.slot THEN content ELSE m[a].slots[s]
      BY DEF Rewritten
    <3>2. CASE a = place.at /\ s = place.slot
      <4>1. m[a].slots[s] = HandleAt(m, place) /\ n[a].slots[s] = content
        BY <3>1, <3>2 DEF HandleAt
      <4>2. [at |-> a, slot |-> s] = place
        BY <2>1, <3>2
      <4>3. Uninit.h = "uninit"
        BY DEF Uninit
      <4> QED
        BY <4>1, <4>2, <4>3 DEF Changes
    <3>3. CASE ~(a = place.at /\ s = place.slot)
      BY <3>1, <3>3
    <3> QED
      BY <3>2, <3>3
  <2> QED
    BY <2>2 DEF Keeps, Rewritten
<1> QED
  BY <1>1, <1>2, <1>3 DEF Owned

LEMMA PutOwned ==
  ASSUME NEW m, NEW held, NEW kept, Owned(m, held, kept),
         NEW place, Holds(m, place), NEW content, IsContent(content), place.at \in held,
         NEW more, kept \subseteq more, Changes(HandleAt(m, place), content, more),
         NEW gained \in SUBSET (held \ {place.at}), NEW lost \in SUBSET Owns(HandleAt(m, place)),
         Owns(content) = (Owns(HandleAt(m, place)) \ lost) \cup gained
  PROVE  /\ Owned(Put(m, place, content), (held \ gained) \cup lost, more)
         /\ Keeps(m, Put(m, place, content), {place})
<1> DEFINE n == Put(m, place, content)
<1>1. IsMemory(n) /\ Rewritten(m, n, place, content)
  BY PutFacts DEF Owned, Rewritten
<1> HIDE DEF n
<1>2. Owned(n, (held \ gained) \cup lost, more) /\ Keeps(m, n, {place})
  BY <1>1, RewriteOwned
<1> QED
  BY <1>2 DEF n

(* A slot is written for the first time.                                    *)
LEMMA PutFresh ==
  ASSUME NEW m, NEW held, NEW kept, Owned(m, held, kept),
         NEW place, Unset(m, {place}), place.at \in held,
         NEW content, IsContent(content), Owns(content) \subseteq held \ {place.at},
         NEW more, kept \subseteq more, content.h = "ref" => content.at \in more
  PROVE  /\ Owned(Put(m, place, content), held \ Owns(content), more)
         /\ Keeps(m, Put(m, place, content), {place})
<1>1. Holds(m, place) /\ HandleAt(m, place) = Uninit
  BY DEF Unset
<1>2. Owns(HandleAt(m, place)) = {}
  BY <1>1 DEF Owns, Uninit
<1>3. Changes(HandleAt(m, place), content, more)
  BY <1>1 DEF Changes
<1> DEFINE gained == Owns(content)
           lost == {}
<1>4. /\ gained \in SUBSET (held \ {place.at}) /\ lost \in SUBSET Owns(HandleAt(m, place))
      /\ Owns(content) = (Owns(HandleAt(m, place)) \ lost) \cup gained
  BY <1>2
<1>5. /\ Owned(Put(m, place, content), (held \ gained) \cup lost, more)
      /\ Keeps(m, Put(m, place, content), {place})
  <2> HIDE DEF gained, lost
  <2> QED
    BY <1>1, <1>3, <1>4, PutOwned
<1> QED
  BY <1>5

-----------------------------------------------------------------------------
(* The thunks, on memory that is owned.                                     *)
LEMMA HandleKept ==
  ASSUME NEW m, NEW n, NEW place, Keeps(m, n, {place}), Holds(m, place), HandleAt(m, place).h \in {"set", "map"}
  PROVE  Keeps(m, n, {})
<1>1. ASSUME NEW a \in DOMAIN m, NEW s \in DOMAIN m[a].slots, m[a].slots[s] = Uninit
      PROVE  [at |-> a, slot |-> s] # place
  <2>1. HandleAt(m, [at |-> a, slot |-> s]) = Uninit
    BY <1>1 DEF HandleAt
  <2>2. Uninit.h = "uninit"
    BY DEF Uninit
  <2> QED
    BY <2>1, <2>2
<1> QED
  BY <1>1 DEF Keeps

LEMMA HandleIs ==
  ASSUME NEW m, IsMemory(m), NEW place, Holds(m, place)
  PROVE  IsContent(HandleAt(m, place)) /\ Owns(HandleAt(m, place)) \subseteq OwnedBy(m, place.at)
BY SlotOwns DEF IsMemory, IsNode, Holds, HandleAt

LEMMA SetInsertOwned ==
  ASSUME NEW m, NEW held, NEW kept, Owned(m, held, kept),
         NEW place, Holds(m, place), HandleAt(m, place).h = "set", place.at \in held,
         NEW scratch \in held, scratch # place.at
  PROVE  /\ Owned(SetInsert(m, place, scratch), held \ {scratch}, kept)
         /\ Keeps(m, SetInsert(m, place, scratch), {})
<1> DEFINE k == Len(m) + 1
           n == Moved(m, scratch)
           rest == (held \ {scratch}) \cup {k}
           old == HandleAt(m, place)
           new == [old EXCEPT !.of = Append(@, k)]
<1>1. /\ IsMemory(m) /\ DOMAIN m = 1..Len(m) /\ Len(m) \in Nat /\ held \subseteq LiveIn(m)
      /\ LiveIn(m) \subseteq DOMAIN m /\ k \notin held
  <2>1. IsMemory(m) /\ held \subseteq LiveIn(m) /\ LiveIn(m) \subseteq DOMAIN m
    BY DEF Owned, Sound, LiveIn
  <2> QED
    BY <2>1, MemoryDomain
<1>2. Owned(n, rest, kept) /\ Keeps(m, n, {}) /\ Len(n) = k
  BY <1>1, MoveOwned, MovedFacts
<1>3. n[place.at].slots = m[place.at].slots /\ place.at \in DOMAIN n
  <2>1. scratch \in LiveIn(m) /\ place.at \in DOMAIN m
    BY <1>1
  <2>2. DOMAIN n = DOMAIN m \cup {Len(m) + 1} /\ \A b \in DOMAIN m : n[b].slots = m[b].slots
    BY <1>1, <2>1, MovedFacts
  <2> QED
    BY <2>1, <2>2
<1>4. Holds(n, place) /\ HandleAt(n, place) = old
  BY <1>3 DEF Holds, HandleAt
<1>5. old = [h |-> "set", of |-> old.of] /\ IsSeq(old.of)
  BY <1>1, HandleIs DEF IsContent
<1> HIDE DEF old, k
<1>6. new = [h |-> "set", of |-> Append(old.of, k)] /\ new.h = "set" /\ new.of = Append(old.of, k)
  BY <1>5
<1>7. /\ IsSeq(new.of) /\ {new.of[i] : i \in DOMAIN new.of} = {old.of[i] : i \in DOMAIN old.of} \cup {k}
  <2>1. /\ IsSeq(new.of) /\ DOMAIN new.of = 1..Len(old.of) + 1 /\ DOMAIN old.of = 1..Len(old.of) /\ Len(old.of) \in Nat
        /\ \A i \in 1..Len(old.of) : new.of[i] = old.of[i]
        /\ new.of[Len(old.of) + 1] = k
    BY <1>5, <1>6, Appended, SeqDomain
  <2> HIDE DEF new
  <2>2. 1..Len(old.of) + 1 = (1..Len(old.of)) \cup {Len(old.of) + 1}
    BY <2>1
  <2> QED
    BY <2>1, <2>2
<1>8. IsContent(new)
  BY <1>6, <1>7 DEF IsContent
<1>9. Owns(new) = Owns(old) \cup {k} /\ new.h # "ref"
  BY <1>5, <1>6, <1>7 DEF Owns
<1> HIDE DEF new, n
<1>10. CASE SetHas(m, place, scratch)
  <2>1. SetInsert(m, place, scratch) = Dropped(n, {k})
    BY <1>2, <1>10 DEF SetInsert, Latest, n
  <2>2. Owned(Dropped(n, {k}), rest \ {k}, kept) /\ Keeps(n, Dropped(n, {k}), {})
    BY <1>2, DropOwned
  <2>3. rest \ {k} = held \ {scratch}
    BY <1>1
  <2>4. Keeps(m, Dropped(n, {k}), {} \cup {})
    BY <1>2, <2>2, KeepsMore
  <2> QED
    BY <2>1, <2>2, <2>3, <2>4
<1>11. CASE ~SetHas(m, place, scratch)
  <2>1. SetInsert(m, place, scratch) = Put(n, place, new)
    BY <1>2, <1>11 DEF SetInsert, Latest, n, new, old
  <2> DEFINE gained == {k}
             lost == {}
  <2>2. /\ gained \in SUBSET (rest \ {place.at}) /\ lost \in SUBSET Owns(HandleAt(n, place))
        /\ Owns(new) = (Owns(HandleAt(n, place)) \ lost) \cup gained /\ place.at \in rest
        /\ Changes(HandleAt(n, place), new, kept)
    <3>1. place.at \in rest /\ place.at # k /\ k \in rest
      BY <1>1
    <3>2. Changes(HandleAt(n, place), new, kept)
      BY <1>4, <1>5, <1>6, <1>9 DEF Changes
    <3> QED
      BY <1>4, <1>9, <3>1, <3>2
  <2>3. /\ Owned(Put(n, place, new), (rest \ gained) \cup lost, kept)
        /\ Keeps(n, Put(n, place, new), {place})
    <3> HIDE DEF gained, lost, rest
    <3> QED
      BY <1>2, <1>4, <1>8, <2>2, PutOwned
  <2>4. (rest \ gained) \cup lost = held \ {scratch}
    BY <1>1
  <2>5. Keeps(n, Put(n, place, new), {})
    BY <1>4, <1>5, <2>3, HandleKept
  <2>6. Keeps(m, Put(n, place, new), {} \cup {})
    BY <1>2, <2>5, KeepsMore
  <2> QED
    BY <2>1, <2>3, <2>4, <2>6
<1> QED
  BY <1>10, <1>11

(* The entries of a map: a new one, and one whose value is replaced.        *)
Entry(k, v) == [k |-> k, v |-> v]
LEMMA NewEntry ==
  ASSUME NEW old, old.h = "map", IsContent(old), NEW k, NEW v, k # v, k \notin Owns(old), v \notin Owns(old)
  PROVE  LET new == [h |-> "map", of |-> old.of \cup {[k |-> k, v |-> v]}]
         IN IsContent(new) /\ Owns(new) = Owns(old) \cup {k, v} /\ new.h = "map"
<1> DEFINE new == [h |-> "map", of |-> old.of \cup {Entry(k, v)}]
<1>1. new.h = "map" /\ new.of = old.of \cup {Entry(k, v)}
  OBVIOUS
<1>2. \A c : c.h = "map" => Owns(c) = {e.k : e \in c.of} \cup {e.v : e \in c.of}
  BY DEF Owns
<1>3. Entry(k, v).k = k /\ Entry(k, v).v = v /\ Entry(k, v) = [k |-> Entry(k, v).k, v |-> Entry(k, v).v]
  BY DEF Entry
<1>4. Owns(new) = Owns(old) \cup {k, v}
  <2> HIDE DEF new
  <2> QED
    BY <1>1, <1>2, <1>3
<1>5. \A e \in old.of : e.k \in Owns(old) /\ e.v \in Owns(old)
  BY <1>2
<1>6. new = [h |-> "map", of |-> new.of]
  OBVIOUS
<1> HIDE DEF new
<1>7. IsContent(new)
  <2>1. \A e \in new.of : e = [k |-> e.k, v |-> e.v] /\ e.k # e.v
    BY <1>1, <1>3 DEF IsContent
  <2>2. ASSUME NEW e \in new.of, NEW f \in new.of \ {e} PROVE {e.k, e.v} \cap {f.k, f.v} = {}
    <3>1. CASE e \in old.of /\ f \in old.of
      BY <2>2, <3>1 DEF IsContent
    <3>2. CASE e \notin old.of \/ f \notin old.of
      BY <1>1, <1>3, <1>5, <2>2, <3>2
    <3> QED
      BY <3>1, <3>2
  <2> QED
    BY <1>1, <1>6, <2>1, <2>2 DEF IsContent
<1> QED
  BY <1>1, <1>4, <1>7 DEF new, Entry

LEMMA ReplacedEntry ==
  ASSUME NEW old, old.h = "map", IsContent(old), NEW twin \in old.of, NEW v, v \notin Owns(old)
  PROVE  LET new == [h |-> "map", of |-> (old.of \ {twin}) \cup {[k |-> twin.k, v |-> v]}]
         IN /\ IsContent(new) /\ Owns(new) = (Owns(old) \ {twin.v}) \cup {v} /\ new.h = "map"
            /\ twin.v \in Owns(old)
<1> DEFINE new == [h |-> "map", of |-> (old.of \ {twin}) \cup {Entry(twin.k, v)}]
<1>1. new.h = "map" /\ new.of = (old.of \ {twin}) \cup {Entry(twin.k, v)}
  OBVIOUS
<1>2. \A c : c.h = "map" => Owns(c) = {e.k : e \in c.of} \cup {e.v : e \in c.of}
  BY DEF Owns
<1>3. /\ Entry(twin.k, v).k = twin.k /\ Entry(twin.k, v).v = v
      /\ Entry(twin.k, v) = [k |-> Entry(twin.k, v).k, v |-> Entry(twin.k, v).v]
  BY DEF Entry
<1>4. \A e \in old.of : e.k \in Owns(old) /\ e.v \in Owns(old)
  BY <1>2
<1>5. /\ \A e \in old.of : e = [k |-> e.k, v |-> e.v] /\ e.k # e.v
      /\ \A e \in old.of : \A f \in old.of \ {e} : {e.k, e.v} \cap {f.k, f.v} = {}
  BY DEF IsContent
<1>6. new = [h |-> "map", of |-> new.of]
  OBVIOUS
<1> HIDE DEF new
<1>7. Owns(new) = {e.k : e \in new.of} \cup {e.v : e \in new.of}
      /\ Owns(old) = {e.k : e \in old.of} \cup {e.v : e \in old.of}
  BY <1>1, <1>2
<1>8. Owns(new) \subseteq (Owns(old) \ {twin.v}) \cup {v}
  <2> SUFFICES ASSUME NEW x \in Owns(new) PROVE x \in (Owns(old) \ {twin.v}) \cup {v}
    OBVIOUS
  <2>1. PICK e \in new.of : x = e.k \/ x = e.v
    BY <1>7
  <2>2. CASE e = Entry(twin.k, v)
    BY <1>3, <1>4, <1>5, <2>1, <2>2
  <2>3. CASE e \in old.of \ {twin}
    <3>1. {e.k, e.v} \cap {twin.k, twin.v} = {}
      BY <1>5, <2>3
    <3> QED
      BY <1>4, <2>1, <2>3, <3>1
  <2> QED
    BY <1>1, <2>2, <2>3
<1>9. (Owns(old) \ {twin.v}) \cup {v} \subseteq Owns(new)
  <2>1. Entry(twin.k, v) \in new.of /\ \A e \in old.of \ {twin} : e \in new.of
    BY <1>1
  <2>2. v \in Owns(new) /\ twin.k \in Owns(new)
    BY <1>3, <1>7, <2>1
  <2>3. ASSUME NEW x \in Owns(old), x # twin.v PROVE x \in Owns(new)
    <3>1. PICK e \in old.of : x = e.k \/ x = e.v
      BY <1>7
    <3> QED
      BY <1>7, <2>1, <2>2, <2>3, <3>1
  <2> QED
    BY <2>2, <2>3
<1>10. IsContent(new)
  <2>1. \A e \in new.of : e = [k |-> e.k, v |-> e.v] /\ e.k # e.v
    BY <1>1, <1>3, <1>4, <1>5
  <2>2. ASSUME NEW e \in new.of, NEW f \in new.of \ {e} PROVE {e.k, e.v} \cap {f.k, f.v} = {}
    <3>1. CASE e \in old.of /\ f \in old.of
      BY <1>5, <2>2, <3>1
    <3>2. CASE e = Entry(twin.k, v) /\ f \in old.of \ {twin}
      BY <1>3, <1>4, <1>5, <2>2, <3>2
    <3>3. CASE f = Entry(twin.k, v) /\ e \in old.of \ {twin}
      BY <1>3, <1>4, <1>5, <2>2, <3>3
    <3> QED
      BY <1>1, <2>2, <3>1, <3>2, <3>3
  <2> QED
    BY <1>1, <1>6, <2>1, <2>2 DEF IsContent
<1> QED
  BY <1>1, <1>4, <1>8, <1>9, <1>10 DEF new, Entry

(* The replaced value and the new key are dropped while the map still names *)
(* the value, which is what dropping them afterwards would do.              *)
LEMMA ReplaceOwned ==
  ASSUME NEW m, NEW held, NEW kept, Owned(m, held, kept),
         NEW place, Holds(m, place), HandleAt(m, place).h = "map", place.at \in held,
         NEW k \in held \ {place.at}, NEW v \in held \ {place.at}, k # v,
         NEW new, IsContent(new), new.h = "map",
         NEW gone \in Owns(HandleAt(m, place)), Owns(new) = (Owns(HandleAt(m, place)) \ {gone}) \cup {v}
  PROVE  LET n == Put(Dropped(m, {k, gone}), place, new)
         IN Owned(n, held \ {k, v}, kept) /\ Keeps(m, n, {})
<1> DEFINE X == {k, gone}
           old == HandleAt(m, place)
           u == Put(m, place, new)
           n == Put(Dropped(m, X), place, new)
           rest == (held \ {v}) \cup {gone}
<1>0. /\ IsMemory(m) /\ Sound(m, held) /\ held \subseteq LiveIn(m) /\ LiveIn(m) \subseteq DOMAIN m
      /\ \A a \in DOMAIN m : OwnedBy(m, a) \subseteq DOMAIN m
      /\ \A a \in LiveIn(m) : OwnedBy(m, a) \subseteq LiveIn(m) \ held
  BY DEF Owned, Sound, LiveIn
<1>1. gone \in LiveIn(m) /\ gone \notin held
  BY <1>0, HandleIs
<1>2. PICK G : Least(m, X, G) /\ Dropped(m, X) = Freed(m, G)
  BY <1>0, <1>1, DroppedFrees
<1>3. place.at \notin G
  <2> DEFINE S == LiveIn(m) \ {place.at}
  <2>1. X \subseteq S /\ S \in SUBSET DOMAIN m /\ Closed(m, S)
    BY <1>0, <1>1 DEF Closed
  <2>2. G \subseteq S
    BY <1>2, <2>1 DEF Least
  <2> QED
    BY <2>2
<1>4. Owned(u, rest, kept) /\ Keeps(m, u, {})
  <2> DEFINE gained == {v}
             lost == {gone}
  <2>1. /\ gained \in SUBSET (held \ {place.at}) /\ lost \in SUBSET Owns(old)
        /\ Owns(new) = (Owns(old) \ lost) \cup gained /\ Changes(old, new, kept)
    BY DEF Changes
  <2>2. /\ Owned(u, (held \ gained) \cup lost, kept)
        /\ Keeps(m, u, {place})
    <3> HIDE DEF gained, lost
    <3> QED
      BY <2>1, PutOwned
  <2> HIDE DEF u
  <2>3. Keeps(m, u, {})
    BY <2>2, HandleKept
  <2> QED
    BY <2>2, <2>3
<1>5. Rewritten(m, u, place, new) /\ DOMAIN u = DOMAIN m
  BY <1>0, PutFacts DEF Rewritten
<1>6. IsMemory(n) /\ Without(u, n, G)
  <2> DEFINE d == Freed(m, G)
  <2>1. /\ IsMemory(d) /\ DOMAIN d = DOMAIN m
        /\ \A a \in DOMAIN m : d[a].slots = m[a].slots
        /\ LiveIn(d) = LiveIn(m) \ G
    BY <1>0, FreedFacts
  <2> HIDE DEF d
  <2>2. Holds(d, place)
    BY <2>1 DEF Holds
  <2>3. IsMemory(Put(d, place, new)) /\ Rewritten(d, Put(d, place, new), place, new)
    BY <2>1, <2>2, PutFacts DEF Rewritten
  <2>4. n = Put(d, place, new)
    BY <1>2 DEF d
  <2> HIDE DEF n, u
  <2>5. IsMemory(n) /\ DOMAIN n = DOMAIN u /\ LiveIn(n) = LiveIn(u) \ G
    BY <1>5, <2>1, <2>3, <2>4 DEF Rewritten
  <2>6. ASSUME NEW a \in DOMAIN u PROVE n[a].slots = u[a].slots
    <3>1. /\ DOMAIN n[a].slots = DOMAIN u[a].slots
          /\ \A s \in DOMAIN u[a].slots : n[a].slots[s] = u[a].slots[s]
      BY <1>5, <2>1, <2>3, <2>4 DEF Rewritten
    <3>2. IsNode(n[a]) /\ IsNode(u[a])
      BY <1>4, <2>5 DEF IsMemory, Owned
    <3>3. n[a].slots = [s \in DOMAIN n[a].slots |-> n[a].slots[s]] /\ u[a].slots = [s \in DOMAIN u[a].slots |-> u[a].slots[s]]
      BY <3>2, NodeSlots
    <3> QED
      BY <3>1, <3>3
  <2> QED
    BY <2>5, <2>6 DEF Without
<1> HIDE DEF n, u
<1>7. \A a \in DOMAIN m : a # place.at => OwnedBy(u, a) = OwnedBy(m, a)
  <2> SUFFICES ASSUME NEW a \in DOMAIN m, a # place.at PROVE OwnedBy(u, a) = OwnedBy(m, a)
    OBVIOUS
  <2>1. /\ DOMAIN u[a].slots = DOMAIN m[a].slots
        /\ \A s \in DOMAIN m[a].slots : u[a].slots[s] = m[a].slots[s]
    BY <1>5 DEF Rewritten
  <2> QED
    BY <2>1 DEF OwnedBy
<1>8. Least(u, X, G)
  <2>1. X \subseteq G /\ G \subseteq DOMAIN u
    BY <1>2, <1>5 DEF Least
  <2>2. Closed(u, G)
    <3>1. \A a \in G : a \in DOMAIN m /\ a # place.at /\ OwnedBy(m, a) \subseteq G
      BY <1>2, <1>3 DEF Least, Closed
    <3> QED
      BY <1>7, <3>1 DEF Closed
  <2>3. ASSUME NEW S \in SUBSET DOMAIN u, X \subseteq S, Closed(u, S) PROVE G \subseteq S
    <3>1. \A a \in S \cap G : OwnedBy(m, a) \subseteq S \cap G
      <4>1. \A a \in S \cap G : a \in DOMAIN m /\ a # place.at /\ OwnedBy(m, a) \subseteq G /\ OwnedBy(u, a) \subseteq S
        BY <1>2, <1>3, <2>3 DEF Least, Closed
      <4> QED
        BY <1>7, <4>1
    <3>2. Closed(m, S \cap G) /\ S \cap G \in SUBSET DOMAIN m /\ X \subseteq S \cap G
      BY <1>5, <2>1, <2>3, <3>1 DEF Closed
    <3>3. G \subseteq S \cap G
      BY <1>2, <3>2 DEF Least
    <3> QED
      BY <3>3
  <2> QED
    BY <2>1, <2>2, <2>3 DEF Least
<1>9. Sound(n, rest \ X) /\ Rooted(n, rest \ X)
  <2>1. X \in SUBSET rest
    OBVIOUS
  <2> HIDE DEF rest, X
  <2> QED
    BY <1>4, <1>6, <1>8, <2>1, GoneSound DEF Owned
<1>10. rest \ X = held \ {k, v}
  BY <1>1
<1>11. RefsInto(n, kept)
  <2>1. \A a \in LiveIn(n) : a \in LiveIn(u) /\ n[a].slots = u[a].slots
    BY <1>6 DEF Without, LiveIn
  <2> QED
    BY <1>4, <2>1 DEF RefsInto, Owned
<1>12. Keeps(m, n, {})
  <2>1. Keeps(u, n, {})
    BY <1>6, SameSlotsKeep DEF Without
  <2>2. Keeps(m, n, {} \cup {})
    BY <1>4, <2>1, KeepsMore
  <2> QED
    BY <2>2
<1> QED
  BY <1>6, <1>9, <1>10, <1>11, <1>12 DEF Owned, n

LEMMA MapInsertOwned ==
  ASSUME NEW m, NEW held, NEW kept, Owned(m, held, kept),
         NEW place, Holds(m, place), HandleAt(m, place).h = "map", place.at \in held,
         NEW key \in held \ {place.at}, NEW value \in held \ {place.at}, key # value
  PROVE  /\ Owned(MapInsert(m, place, key, value), held \ {key, value}, kept)
         /\ Keeps(m, MapInsert(m, place, key, value), {})
<1> DEFINE k == Len(m) + 1
           v == Len(m) + 2
           m1 == Moved(m, key)
           n == Moved(m1, value)
           rest1 == (held \ {key}) \cup {k}
           rest == (rest1 \ {value}) \cup {v}
           old == HandleAt(m, place)
           twins == {e \in old.of : Equal(m, e.k, key)}
           twin == CHOOSE e \in twins : TRUE
           first == [h |-> "map", of |-> old.of \cup {[k |-> k, v |-> v]}]
           again == [h |-> "map", of |-> (old.of \ {twin}) \cup {[k |-> twin.k, v |-> v]}]
<1>0. MapInsert(m, place, key, value) =
        IF twins = {} THEN Put(n, place, first) ELSE Put(Dropped(n, {k, twin.v}), place, again)
  BY DEF MapInsert
<1>1. /\ IsMemory(m) /\ DOMAIN m = 1..Len(m) /\ Len(m) \in Nat /\ held \subseteq LiveIn(m)
      /\ LiveIn(m) \subseteq DOMAIN m /\ \A a \in DOMAIN m : OwnedBy(m, a) \subseteq DOMAIN m
  <2>1. /\ IsMemory(m) /\ held \subseteq LiveIn(m) /\ LiveIn(m) \subseteq DOMAIN m
        /\ \A a \in DOMAIN m : OwnedBy(m, a) \subseteq DOMAIN m
    BY DEF Owned, Sound, LiveIn
  <2> QED
    BY <2>1, MemoryDomain
<1>2. k \notin DOMAIN m /\ v \notin DOMAIN m /\ k # v /\ k \notin held /\ v \notin held
  BY <1>1
<1>3. /\ Owned(m1, rest1, kept) /\ Keeps(m, m1, {}) /\ Len(m1) + 1 = v
      /\ DOMAIN m1 = DOMAIN m \cup {k} /\ \A b \in DOMAIN m : m1[b].slots = m[b].slots
  <2>1. key \in LiveIn(m)
    BY <1>1
  <2>2. Owned(m1, rest1, kept) /\ Keeps(m, m1, {})
    BY MoveOwned
  <2>3. /\ DOMAIN m1 = DOMAIN m \cup {k} /\ Len(m1) = k
        /\ \A b \in DOMAIN m : m1[b].slots = m[b].slots
    BY <1>1, <2>1, MovedFacts
  <2> QED
    BY <1>1, <2>2, <2>3
<1>4. /\ Owned(n, rest, kept) /\ Keeps(m1, n, {})
      /\ DOMAIN n = DOMAIN m1 \cup {v} /\ \A b \in DOMAIN m1 : n[b].slots = m1[b].slots
  <2>1. value \in rest1
    BY <1>1
  <2> HIDE DEF m1, rest1
  <2>2. value \in LiveIn(m1) /\ IsMemory(m1)
    BY <1>3, <2>1 DEF Owned, Sound
  <2>3. Len(m1) + 1 = v
    BY <1>3
  <2>4. Owned(n, rest, kept) /\ Keeps(m1, n, {})
    BY <1>3, <2>1, <2>3, MoveOwned
  <2>5. /\ DOMAIN n = DOMAIN m1 \cup {Len(m1) + 1}
        /\ \A b \in DOMAIN m1 : n[b].slots = m1[b].slots
    BY <2>2, MovedFacts
  <2> QED
    BY <2>3, <2>4, <2>5
<1>5. Keeps(m, n, {})
  <2>1. Keeps(m, n, {} \cup {})
    BY <1>3, <1>4, KeepsMore
  <2> QED
    BY <2>1
<1>6. Holds(n, place) /\ HandleAt(n, place) = old
  <2>1. place.at \in DOMAIN m
    BY <1>1
  <2>2. n[place.at].slots = m[place.at].slots /\ place.at \in DOMAIN n
    BY <1>3, <1>4, <2>1
  <2> QED
    BY <2>2 DEF Holds, HandleAt
<1>7. IsContent(old) /\ Owns(old) \subseteq DOMAIN m
  BY <1>1, HandleIs
<1>8. /\ place.at \in rest /\ k \in rest \ {place.at} /\ v \in rest \ {place.at}
      /\ rest \ {k, v} = held \ {key, value}
  BY <1>1, <1>2
<1> HIDE DEF n, m1, k, v, rest, rest1, old, first, again
<1>9. CASE twins = {}
  <2>1. IsContent(first) /\ Owns(first) = Owns(old) \cup {k, v} /\ first.h = "map"
    BY <1>2, <1>7, NewEntry DEF first, old
  <2> DEFINE gained == {k, v}
             lost == {}
  <2>2. /\ gained \in SUBSET (rest \ {place.at}) /\ lost \in SUBSET Owns(HandleAt(n, place))
        /\ Owns(first) = (Owns(HandleAt(n, place)) \ lost) \cup gained
        /\ Changes(HandleAt(n, place), first, kept)
    <3>1. Changes(HandleAt(n, place), first, kept)
      BY <1>6, <2>1 DEF Changes, old
    <3> QED
      BY <1>6, <1>8, <2>1, <3>1
  <2>3. /\ Owned(Put(n, place, first), (rest \ gained) \cup lost, kept)
        /\ Keeps(n, Put(n, place, first), {place})
    <3>1. Owned(n, rest, kept) /\ Holds(n, place) /\ IsContent(first) /\ place.at \in rest
      BY <1>4, <1>6, <1>8, <2>1
    <3> HIDE DEF gained, lost
    <3> QED
      BY <2>2, <3>1, PutOwned
  <2>4. Keeps(n, Put(n, place, first), {})
    BY <1>6, <2>3, HandleKept DEF old
  <2>5. Keeps(m, Put(n, place, first), {} \cup {})
    BY <1>5, <2>4, KeepsMore
  <2>6. MapInsert(m, place, key, value) = Put(n, place, first)
    BY <1>0, <1>9
  <2> QED
    BY <1>8, <2>3, <2>5, <2>6
<1>10. CASE twins # {}
  <2>1. twin \in old.of
    BY <1>10
  <2> HIDE DEF twin, twins
  <2>2. v \notin Owns(old) /\ old.h = "map"
    BY <1>2, <1>7 DEF old
  <2>3. /\ IsContent(again) /\ Owns(again) = (Owns(old) \ {twin.v}) \cup {v} /\ again.h = "map"
        /\ twin.v \in Owns(old)
    BY <1>7, <2>1, <2>2, ReplacedEntry DEF again
  <2>4. LET u == Put(Dropped(n, {k, twin.v}), place, again)
        IN Owned(u, rest \ {k, v}, kept) /\ Keeps(n, u, {})
    BY <1>2, <1>4, <1>6, <1>8, <2>2, <2>3, ReplaceOwned
  <2>5. Keeps(m, Put(Dropped(n, {k, twin.v}), place, again), {} \cup {})
    BY <1>5, <2>4, KeepsMore
  <2>6. MapInsert(m, place, key, value) = Put(Dropped(n, {k, twin.v}), place, again)
    BY <1>0, <1>10
  <2> QED
    BY <1>8, <2>4, <2>5, <2>6
<1> QED
  BY <1>9, <1>10

(* A fresh allocation.                                                      *)
LEMMA AllocateFacts ==
  ASSUME NEW size \in Nat
  PROVE  /\ IsNode(Allocate(size)) /\ Allocate(size).live /\ Extent(Allocate(size)) = size
         /\ DOMAIN Allocate(size).slots = 0..size - 1
         /\ \A s \in 0..size - 1 : Allocate(size).slots[s] = Uninit
<1> DEFINE node == Allocate(size)
<1>1. /\ node = [live |-> TRUE, slots |-> node.slots] /\ node.live
      /\ node.slots = [i \in 0..size - 1 |-> Uninit]
  BY DEF Allocate
<1> HIDE DEF node
<1>2. DOMAIN node.slots = 0..size - 1 /\ \A s \in 0..size - 1 : node.slots[s] = Uninit
  BY <1>1
<1>3. Cardinality(0..size - 1) = size
  <2>1. 0 \in Int /\ size - 1 \in Int
    OBVIOUS
  <2>2. Cardinality(0..size - 1) = IF 0 > size - 1 THEN 0 ELSE (size - 1) - 0 + 1
    BY <2>1, FS_Interval
  <2> QED
    BY <2>2
<1>4. Extent(node) = size
  BY <1>2, <1>3 DEF Extent
<1>5. IsContent(Uninit)
  BY DEF IsContent, Uninit
<1>6. node.slots = [s \in DOMAIN node.slots |-> node.slots[s]]
  BY <1>1, <1>2
<1>7. node = [live |-> node.live, slots |-> [s \in DOMAIN node.slots |-> node.slots[s]]] /\ node.live \in BOOLEAN
  <2>1. node = [live |-> TRUE, slots |-> [s \in DOMAIN node.slots |-> node.slots[s]]] /\ node.live = TRUE
    BY <1>1, <1>6
  <2> QED
    BY <2>1
<1>8. IsNode(node)
  BY <1>2, <1>4, <1>5, <1>7 DEF IsNode
<1> QED
  BY <1>1, <1>2, <1>4, <1>8 DEF node

-----------------------------------------------------------------------------
(* Options, results and pointers: the value goes from its scratch to a node *)
(* of its own, that the handle owns.                                        *)
LEMMA MovedIntoOwned ==
  ASSUME NEW m, NEW held, NEW kept, Owned(m, held, kept), NEW place, Unset(m, {place}), place.at \in held,
         NEW scratch \in held, scratch # place.at, NEW kind \in {"some", "ok", "err", "box"}
  PROVE  /\ Owned(MovedInto(m, place, kind, scratch), held \ {scratch}, kept)
         /\ Keeps(m, MovedInto(m, place, kind, scratch), {place})
<1> DEFINE k == Moved(m, scratch)
           new == Len(m) + 1
           content == [h |-> kind, at |-> new]
           n == Put(k, place, content)
           rest == (held \ {scratch}) \cup {new}
<1>1. /\ IsMemory(m) /\ scratch \in LiveIn(m) /\ held \subseteq DOMAIN m
      /\ Holds(m, place) /\ HandleAt(m, place) = Uninit
  BY DEF Owned, Sound, LiveIn, Unset
<1>2. new \notin held
  BY <1>1, MemoryDomain
<1>3. Owned(k, rest, kept) /\ Keeps(m, k, {})
  BY MoveOwned
<1>4. DOMAIN k = DOMAIN m \cup {new} /\ \A b \in DOMAIN m : k[b].slots = m[b].slots
  BY <1>1, MovedFacts
<1>5. content.h = kind /\ content.at = new
  OBVIOUS
<1> HIDE DEF k, content
<1>6. Unset(k, {place})
  <2>1. place.at \in DOMAIN m
    BY <1>1 DEF Holds
  <2>2. k[place.at].slots = m[place.at].slots /\ place.at \in DOMAIN k
    BY <1>4, <2>1
  <2> QED
    BY <1>1, <2>2 DEF Unset, Holds, HandleAt
<1>7. IsContent(content) /\ Owns(content) = {new} /\ content.h # "ref"
  BY <1>5 DEF IsContent, Owns
<1>8. Owned(n, rest \ Owns(content), kept) /\ Keeps(k, n, {place})
  <2>1. place.at \in rest /\ Owns(content) \subseteq rest \ {place.at}
    BY <1>1, <1>2, <1>7
  <2> HIDE DEF rest
  <2> QED
    BY <1>3, <1>6, <1>7, <2>1, PutFresh
<1>9. rest \ Owns(content) = held \ {scratch}
  BY <1>2, <1>7
<1>10. Keeps(m, n, {} \cup {place})
  <2> HIDE DEF n
  <2> QED
    BY <1>3, <1>8, KeepsMore
<1>11. MovedInto(m, place, kind, scratch) = n
  BY DEF MovedInto, k, content
<1> QED
  BY <1>8, <1>9, <1>10, <1>11

(* A reference: its pointee stays held, by what is retained.                *)
LEMMA ReferenceOwned ==
  ASSUME NEW m, NEW held, NEW kept, Owned(m, held, kept), NEW place, Unset(m, {place}), place.at \in held,
         NEW scratch
  PROVE  /\ Owned(ReferenceInit(m, place, scratch), held, kept \cup {scratch})
         /\ Keeps(m, ReferenceInit(m, place, scratch), {place})
<1> DEFINE content == [h |-> "ref", at |-> scratch]
           more == kept \cup {scratch}
           n == Put(m, place, content)
<1>1. content.h = "ref" /\ content.at = scratch
  OBVIOUS
<1> HIDE DEF content
<1>2. IsContent(content) /\ Owns(content) = {}
  BY <1>1 DEF IsContent, Owns
<1>3. kept \subseteq more /\ (content.h = "ref" => content.at \in more)
  BY <1>1
<1>4. Owned(n, held \ Owns(content), more) /\ Keeps(m, n, {place})
  <2> HIDE DEF more
  <2> QED
    BY <1>2, <1>3, PutFresh
<1>5. ReferenceInit(m, place, scratch) = n
  BY DEF ReferenceInit, content
<1> QED
  BY <1>2, <1>4, <1>5

(* What decode_into_via_init leaves, whichever the init thunk is.           *)
LEMMA InitOwned ==
  ASSUME NEW m, NEW held, NEW kept, Owned(m, held, kept), NEW place, Unset(m, {place}), place.at \in held,
         NEW scratch \in held, scratch # place.at, NEW kind \in {"some", "ok", "err", "box", "ref"}
  PROVE  /\ Keeps(m, InitThunk(m, place, kind, scratch), {place})
         /\ kind # "ref" => Owned(InitThunk(m, place, kind, scratch), held \ {scratch}, kept)
         /\ kind = "ref" => Owned(InitThunk(m, place, kind, scratch), held, kept \cup {scratch})
<1>1. CASE kind = "ref"
  <2>1. InitThunk(m, place, kind, scratch) = ReferenceInit(m, place, scratch)
    BY <1>1 DEF InitThunk
  <2> QED
    BY <1>1, <2>1, ReferenceOwned
<1>2. CASE kind # "ref"
  <2>1. kind \in {"some", "ok", "err", "box"}
    BY <1>2
  <2>2. InitThunk(m, place, kind, scratch) = MovedInto(m, place, kind, scratch)
    BY <2>1 DEF InitThunk, OptionInitSome, ResultInit, PointerInit
  <2> QED
    BY <1>2, <2>1, <2>2, MovedIntoOwned
<1> QED
  BY <1>1, <1>2

(* What is written at once, and owns nothing.                               *)
LEMMA PlainOwned ==
  ASSUME NEW m, NEW held, NEW kept, Owned(m, held, kept), NEW place, Unset(m, {place}), place.at \in held,
         NEW content, IsContent(content), Owns(content) = {}, content.h # "ref"
  PROVE  /\ Owned(Put(m, place, content), held, kept)
         /\ Keeps(m, Put(m, place, content), {place})
<1>1. /\ Owned(Put(m, place, content), held \ Owns(content), kept)
      /\ Keeps(m, Put(m, place, content), {place})
  BY PutFresh
<1> QED
  BY <1>1

LEMMA PlainContents ==
  /\ \A v : LET c == [h |-> "scalar", v |-> v] IN IsContent(c) /\ Owns(c) = {} /\ c.h # "ref"
  /\ \A v : LET c == [h |-> "borrow", v |-> v] IN IsContent(c) /\ Owns(c) = {} /\ c.h # "ref"
  /\ LET c == [h |-> "none"] IN IsContent(c) /\ Owns(c) = {} /\ c.h # "ref"
  /\ LET c == [h |-> "set", of |-> <<>>] IN IsContent(c) /\ Owns(c) = {} /\ c.h # "ref"
  /\ LET c == [h |-> "map", of |-> {}] IN IsContent(c) /\ Owns(c) = {} /\ c.h # "ref"
<1>1. ASSUME NEW v PROVE LET c == [h |-> "scalar", v |-> v] IN IsContent(c) /\ Owns(c) = {} /\ c.h # "ref"
  BY DEF IsContent, Owns
<1>2. ASSUME NEW v PROVE LET c == [h |-> "borrow", v |-> v] IN IsContent(c) /\ Owns(c) = {} /\ c.h # "ref"
  BY DEF IsContent, Owns
<1>3. LET c == [h |-> "none"] IN IsContent(c) /\ Owns(c) = {} /\ c.h # "ref"
  BY DEF IsContent, Owns
<1>4. LET c == [h |-> "set", of |-> <<>>] IN IsContent(c) /\ Owns(c) = {} /\ c.h # "ref"
  <2> DEFINE c == [h |-> "set", of |-> <<>>]
  <2>1. c.h = "set" /\ c.of = <<>> /\ c = [h |-> "set", of |-> c.of]
    OBVIOUS
  <2>2. <<>> \in Seq({}) /\ DOMAIN <<>> = {}
    BY EmptySeq
  <2>3. IsSeq(<<>>)
    BY <2>2, InSeq
  <2> HIDE DEF c
  <2>4. IsContent(c)
    BY <2>1, <2>3 DEF IsContent
  <2>5. Owns(c) = {}
    BY <2>1, <2>2 DEF Owns
  <2> QED
    BY <2>1, <2>4, <2>5 DEF c
<1>5. LET c == [h |-> "map", of |-> {}] IN IsContent(c) /\ Owns(c) = {} /\ c.h # "ref"
  <2> DEFINE c == [h |-> "map", of |-> {}]
  <2>1. c.h = "map" /\ c.of = {} /\ c = [h |-> "map", of |-> c.of]
    OBVIOUS
  <2> HIDE DEF c
  <2>2. IsContent(c)
    BY <2>1 DEF IsContent
  <2>3. Owns(c) = {}
    BY <2>1 DEF Owns
  <2> QED
    BY <2>1, <2>2, <2>3 DEF c
<1> QED
  BY <1>1, <1>2, <1>3, <1>4, <1>5

(* A list adopts its buffer.                                                *)
LEMMA ListOwned ==
  ASSUME NEW m, NEW held, NEW kept, Owned(m, held, kept), NEW place, Unset(m, {place}), place.at \in held,
         NEW buffer \in held, buffer # place.at, NEW count, NEW stride
  PROVE  /\ Owned(ListAdopts(m, place, buffer, count, stride), held \ {buffer}, kept)
         /\ Keeps(m, ListAdopts(m, place, buffer, count, stride), {place})
<1> DEFINE content == [h |-> "vec", at |-> buffer, count |-> count, stride |-> stride]
<1>1. content.h = "vec" /\ content.at = buffer
  OBVIOUS
<1>2. ListAdopts(m, place, buffer, count, stride) = Put(m, place, content)
  BY DEF ListAdopts
<1> HIDE DEF content
<1>3. IsContent(content) /\ Owns(content) = {buffer} /\ content.h # "ref"
  BY <1>1 DEF IsContent, Owns
<1>4. /\ Owned(Put(m, place, content), held \ Owns(content), kept)
      /\ Keeps(m, Put(m, place, content), {place})
  <2>1. Owns(content) \subseteq held \ {place.at}
    BY <1>3
  <2> QED
    BY <1>3, <2>1, PutFresh
<1> QED
  BY <1>2, <1>3, <1>4

LEMMA AllocateOwned ==
  ASSUME NEW m, NEW held, NEW kept, Owned(m, held, kept), NEW size \in Nat
  PROVE  LET n == Append(m, Allocate(size))
             new == Len(m) + 1
         IN /\ Owned(n, held \cup {new}, kept) /\ Keeps(m, n, {})
            /\ Len(n) = new /\ DOMAIN n = DOMAIN m \cup {new} /\ new \notin DOMAIN m
            /\ new \in Nat /\ Extent(n[new]) = size
            /\ DOMAIN n[new].slots = 0..size - 1 /\ \A s \in 0..size - 1 : n[new].slots[s] = Uninit
<1> DEFINE node == Allocate(size)
           n == Append(m, node)
           new == Len(m) + 1
<1>1. /\ IsNode(node) /\ node.live /\ Extent(node) = size
      /\ DOMAIN node.slots = 0..size - 1 /\ \A s \in 0..size - 1 : node.slots[s] = Uninit
  BY AllocateFacts
<1> HIDE DEF node
<1>2. \A s \in DOMAIN node.slots : node.slots[s].h \in {"uninit", "scalar"}
  BY <1>1 DEF Uninit
<1>3. Owned(n, held \cup {new}, kept) /\ Keeps(m, n, {})
  BY <1>1, <1>2, AddOwned
<1>4. IsMemory(m)
  BY DEF Owned
<1>5. Len(n) = new /\ DOMAIN n = DOMAIN m \cup {new} /\ new \notin DOMAIN m /\ n[new] = node
  BY <1>1, <1>4, AddedFacts
<1>6. new \in Nat
  BY <1>4, MemoryDomain
<1> QED
  BY <1>1, <1>3, <1>5, <1>6 DEF node

(* Owned text: the handle is written before its buffer is there, which is   *)
(* what writing it afterwards would do.                                     *)
LEMMA TextOwned ==
  ASSUME NEW m, NEW held, NEW kept, Owned(m, held, kept), NEW place, Unset(m, {place}), place.at \in held, NEW v
  PROVE  /\ Owned(OwnedText(m, place, v), held, kept)
         /\ Keeps(m, OwnedText(m, place, v), {place})
<1> DEFINE new == Len(m) + 1
           content == [h |-> "text", at |-> new]
           slots == [i \in {0} |-> [h |-> "scalar", v |-> v]]
           node == [live |-> TRUE, slots |-> slots]
           u == Put(m, place, content)
           k == Append(m, node)
           n == Append(u, node)
<1>1. OwnedText(m, place, v) = n
  BY DEF OwnedText, TextAdopts, Latest
<1>2. content.h = "text" /\ content.at = new
  OBVIOUS
<1>3. IsContent(content) /\ Owns(content) = {new} /\ content.h # "ref"
  BY <1>2 DEF IsContent, Owns
<1>4. IsNode(node) /\ node.live /\ \A s \in DOMAIN node.slots : node.slots[s].h \in {"uninit", "scalar"}
  <2>1. node = [live |-> TRUE, slots |-> slots] /\ node.live = TRUE /\ node.slots = slots
    OBVIOUS
  <2>2. DOMAIN slots = {0} /\ slots[0] = [h |-> "scalar", v |-> v] /\ slots[0].h = "scalar"
    OBVIOUS
  <2>3. slots = [s \in DOMAIN slots |-> slots[s]]
    OBVIOUS
  <2>4. IsContent(slots[0])
    BY <2>2, PlainContents
  <2>5. Cardinality({0}) = 1
    BY FS_Singleton
  <2> HIDE DEF slots, node
  <2>6. Extent(node) = 1
    BY <2>1, <2>2, <2>5 DEF Extent
  <2>7. Extent(node) \in Nat /\ Extent(node) - 1 = 0
    BY <2>6
  <2>8. node = [live |-> node.live, slots |-> [s \in DOMAIN node.slots |-> node.slots[s]]] /\ node.live \in BOOLEAN
    BY <2>1, <2>3
  <2>9. Extent(node) \in Nat /\ DOMAIN node.slots = 0..Extent(node) - 1
    <3>1. {0} = 0..0
      OBVIOUS
    <3>2. DOMAIN node.slots = {0}
      BY <2>1, <2>2
    <3> QED
      BY <2>7, <3>1, <3>2
  <2>10. \A s \in DOMAIN node.slots : IsContent(node.slots[s]) /\ node.slots[s].h = "scalar"
    BY <2>1, <2>2, <2>4
  <2>11. IsNode(node)
    BY <2>8, <2>9, <2>10 DEF IsNode
  <2> QED
    BY <2>1, <2>10, <2>11
<1> HIDE DEF content, slots, node
<1>5. /\ IsMemory(m) /\ Holds(m, place) /\ HandleAt(m, place) = Uninit /\ held \subseteq DOMAIN m
  BY DEF Owned, Sound, LiveIn, Unset
<1>6. Rewritten(m, u, place, content) /\ IsMemory(u) /\ Len(u) = Len(m) /\ DOMAIN u = DOMAIN m
  BY <1>3, <1>5, PutFacts DEF Rewritten
<1>7. /\ DOMAIN k = DOMAIN m \cup {new} /\ LiveIn(k) = LiveIn(m) \cup {new} /\ new \notin DOMAIN m
      /\ (\A a \in DOMAIN m : k[a] = m[a]) /\ k[new] = node
  BY <1>4, <1>5, AddedFacts
<1>8. Owned(k, held \cup {new}, kept) /\ Keeps(m, k, {})
  BY <1>4, AddOwned
<1> HIDE DEF u
<1>9. /\ IsMemory(n) /\ DOMAIN n = DOMAIN u \cup {new} /\ LiveIn(n) = LiveIn(u) \cup {new}
      /\ (\A a \in DOMAIN u : n[a] = u[a]) /\ n[new] = node
  BY <1>4, <1>6, AddedFacts
<1> HIDE DEF n, k, new
<1>10. Rewritten(k, n, place, content)
  <2>1. ASSUME NEW a \in DOMAIN k
        PROVE  /\ DOMAIN n[a].slots = DOMAIN k[a].slots
               /\ \A s \in DOMAIN k[a].slots :
                    n[a].slots[s] = IF a = place.at /\ s = place.slot THEN content ELSE k[a].slots[s]
    <3>1. CASE a = new
      <4>1. place.at # new
        BY <1>5, <1>7 DEF Holds
      <4> QED
        BY <1>7, <1>9, <3>1, <4>1
    <3>2. CASE a \in DOMAIN m
      <4>1. n[a] = u[a] /\ k[a] = m[a]
        BY <1>6, <1>7, <1>9, <3>2
      <4> QED
        BY <1>6, <3>2, <4>1 DEF Rewritten
    <3> QED
      BY <1>7, <3>1, <3>2
  <2>2. DOMAIN n = DOMAIN k /\ LiveIn(n) = LiveIn(k)
    BY <1>6, <1>7, <1>9 DEF Rewritten
  <2> QED
    BY <2>1, <2>2 DEF Rewritten
<1>11. Holds(k, place) /\ HandleAt(k, place) = Uninit
  <2>1. k[place.at] = m[place.at] /\ place.at \in DOMAIN k
    BY <1>5, <1>7 DEF Holds
  <2> QED
    BY <1>5, <2>1 DEF Holds, HandleAt
<1> DEFINE more == held \cup {new}
           gained == {new}
           lost == {}
<1>12. /\ gained \in SUBSET (more \ {place.at}) /\ lost \in SUBSET Owns(HandleAt(k, place))
       /\ Owns(content) = (Owns(HandleAt(k, place)) \ lost) \cup gained /\ place.at \in more
       /\ Changes(HandleAt(k, place), content, kept)
  <2>1. Owns(Uninit) = {}
    BY DEF Owns, Uninit
  <2>2. place.at # new
    BY <1>5, <1>7
  <2>3. Changes(HandleAt(k, place), content, kept)
    BY <1>3, <1>11 DEF Changes
  <2> QED
    BY <1>3, <1>11, <2>1, <2>2, <2>3
<1>13. Owned(n, (more \ gained) \cup lost, kept) /\ Keeps(k, n, {place})
  <2> HIDE DEF more, gained, lost
  <2>1. Owned(k, more, kept) /\ IsMemory(n) /\ Holds(k, place) /\ IsContent(content)
    BY <1>3, <1>8, <1>9, <1>11 DEF more
  <2>2. kept \subseteq kept
    OBVIOUS
  <2> QED
    BY <1>10, <1>12, <2>1, <2>2, RewriteOwned
<1>14. (more \ gained) \cup lost = held
  BY <1>5, <1>7
<1>15. Keeps(m, n, {} \cup {place})
  BY <1>8, <1>13, KeepsMore
<1> QED
  BY <1>1, <1>13, <1>14, <1>15

-----------------------------------------------------------------------------
(* The frames, across a change of memory that leaves alone what they owe.   *)
LEMMA KeepsUnset ==
  ASSUME NEW m, NEW n, NEW Q, Keeps(m, n, Q), NEW P, Unset(m, P), P \cap Q = {}
  PROVE  Unset(n, P)
<1> SUFFICES ASSUME NEW p \in P PROVE Holds(n, p) /\ HandleAt(n, p) = Uninit
  BY DEF Unset
<1>1. Holds(m, p) /\ HandleAt(m, p) = Uninit
  BY DEF Unset
<1>2. p = [at |-> p.at, slot |-> p.slot] /\ p \notin Q
  BY <1>1 DEF Holds, IsPlace
<1>3. p.at \in DOMAIN m /\ p.slot \in DOMAIN m[p.at].slots /\ IsPlace(p) /\ m[p.at].slots[p.slot] = Uninit
  BY <1>1 DEF Holds, HandleAt
<1>4. p.at \in DOMAIN n /\ p.slot \in DOMAIN n[p.at].slots /\ n[p.at].slots[p.slot] = Uninit
  BY <1>2, <1>3 DEF Keeps
<1> QED
  BY <1>3, <1>4 DEF Holds, HandleAt

LEMMA KeepsHolds ==
  ASSUME NEW m, NEW n, NEW Q, Keeps(m, n, Q)
  PROVE  /\ \A a \in DOMAIN m : a \in DOMAIN n /\ Extent(n[a]) = Extent(m[a])
         /\ \A p, size : Room(m, p, size) => Room(n, p, size)
         /\ \A p : Holds(m, p) => Holds(n, p)
         /\ \A p : Holds(m, p) /\ HandleAt(m, p).h \in {"set", "map"} => HandleAt(n, p).h = HandleAt(m, p).h
<1>1. \A a \in DOMAIN m : a \in DOMAIN n /\ DOMAIN n[a].slots = DOMAIN m[a].slots
  BY DEF Keeps
<1>2. \A a \in DOMAIN m : Extent(n[a]) = Extent(m[a])
  BY <1>1 DEF Extent
<1>3. \A p, size : Room(m, p, size) => Room(n, p, size)
  BY <1>1, <1>2 DEF Room
<1>4. \A p : Holds(m, p) => Holds(n, p)
  BY <1>1 DEF Holds
<1>5. \A p : Holds(m, p) /\ HandleAt(m, p).h \in {"set", "map"} => HandleAt(n, p).h = HandleAt(m, p).h
  BY DEF Keeps, Holds, HandleAt
<1> QED
  BY <1>1, <1>2, <1>3, <1>4, <1>5

LEMMA KeepsFrame ==
  ASSUME NEW m, NEW n, NEW Q, Keeps(m, n, Q),
         NEW F, NEW f, NEW at, NEW before, NEW mine, NEW owed, FrameOK(F, f, at, before, m, mine, owed)
  PROVE  FrameOK(F, f, at, before, n, mine, owed)
<1>1. Room(m, at, F[f.prog].size) /\ Waits(F, f, at, before, m, owed)
  BY DEF FrameOK
<1>2. Room(n, at, F[f.prog].size) /\ Extent(n[at.at]) = Extent(m[at.at])
  BY <1>1, KeepsHolds DEF Room
<1>3. ASSUME NEW t, SeqOK(F, f, t, at, before, m, owed) PROVE SeqOK(F, f, t, at, before, n, owed)
  BY <1>2, <1>3 DEF SeqOK
<1>4. ASSUME NEW t, SetOK(F, t, at, before, m) PROVE SetOK(F, t, at, before, n)
  BY <1>4, KeepsHolds DEF SetOK
<1>5. ASSUME NEW t, MapOK(F, t, before, m) PROVE MapOK(F, t, before, n)
  BY <1>5, KeepsHolds DEF MapOK
<1>6. ASSUME NEW t, KeyOK(F, t, at, before, m, owed) PROVE KeyOK(F, t, at, before, n, owed)
  BY <1>5, <1>6, KeepsHolds DEF KeyOK
<1>7. ASSUME NEW t, ValueOK(F, t, at, before, m) PROVE ValueOK(F, t, at, before, n)
  BY <1>5, <1>7 DEF ValueOK
<1>8. Waits(F, f, at, before, n, owed)
  BY <1>1, <1>3, <1>4, <1>6, <1>7 DEF Waits
<1> QED
  BY <1>2, <1>8 DEF FrameOK

LEMMA KeepsFramed ==
  ASSUME NEW F, NEW fs, NEW ats, NEW mine, NEW owed, NEW m, NEW spare,
         Framed(F, fs, ats, mine, owed, m), Spare(fs, mine, owed, m, spare),
         NEW n, NEW Q \in SUBSET spare, Keeps(m, n, Q)
  PROVE  Framed(F, fs, ats, mine, owed, n) /\ Spare(fs, mine, owed, n, spare \ Q)
<1>1. Framed(F, fs, ats, mine, owed, n)
  <2> SUFFICES ASSUME NEW i \in DOMAIN fs
               PROVE  /\ FrameOK(F, fs[i], ats[i], Before(ats, i), n, mine[i], owed[i])
                      /\ Unset(n, mine[i] \cup owed[i])
    BY DEF Framed
  <2>1. FrameOK(F, fs[i], ats[i], Before(ats, i), m, mine[i], owed[i])
    BY DEF Framed
  <2>2. Unset(m, mine[i] \cup owed[i]) /\ (mine[i] \cup owed[i]) \cap Q = {}
    BY DEF Framed, Spare
  <2> QED
    BY <2>1, <2>2, KeepsFrame, KeepsUnset
<1>2. Spare(fs, mine, owed, n, spare \ Q)
  <2>1. Unset(m, spare \ Q) /\ (spare \ Q) \cap Q = {}
    BY DEF Spare, Unset
  <2>2. Unset(n, spare \ Q)
    BY <2>1, KeepsUnset
  <2> QED
    BY <2>2 DEF Spare
<1> QED
  BY <1>1, <1>2

(* Memory changes, in slots that nobody owes any more.                      *)
LEMMA ChangeReady ==
  ASSUME NEW F, NEW fs, NEW at, NEW m, NEW kept, NEW spare, NEW hand, Ready(F, fs, at, m, kept, spare, hand),
         NEW n, NEW Q \in SUBSET spare, Keeps(m, n, Q),
         NEW rest \in SUBSET hand, Owned(n, Ours(fs, kept) \cup rest, KeptOf(kept))
  PROVE  Ready(F, fs, at, n, kept, spare \ Q, rest)
<1>1. PICK ats, mine, owed :
        /\ Framed(F, fs, ats, mine, owed, m) /\ at = Before(ats, Len(fs) + 1)
        /\ Spare(fs, mine, owed, m, spare)
  BY DEF Ready
<1>2. Framed(F, fs, ats, mine, owed, n) /\ Spare(fs, mine, owed, n, spare \ Q)
  BY <1>1, KeepsFramed
<1> QED
  BY <1>1, <1>2 DEF Ready

(* A step may forget slots that nobody owes.                                *)
LEMMA ForgetReady ==
  ASSUME NEW F, NEW fs, NEW at, NEW m, NEW kept, NEW spare, NEW hand, Ready(F, fs, at, m, kept, spare, hand),
         NEW less \in SUBSET spare
  PROVE  Ready(F, fs, at, m, kept, less, hand)
BY DEF Ready, Spare, Unset

(* The place of the running frame is in memory that the call owns.          *)
LEMMA PlaceReady ==
  ASSUME NEW F, NEW fs, NEW at, NEW m, NEW kept, NEW spare, NEW hand, Ready(F, fs, at, m, kept, spare, hand)
  PROVE  /\ at.at \in {Destination.at} \cup Waiting(fs)
         /\ Ours(fs, kept) \subseteq LiveIn(m) /\ hand \subseteq LiveIn(m) /\ LiveIn(m) \subseteq DOMAIN m
         /\ IsSeq(fs) /\ DOMAIN fs = 1..Len(fs) /\ Len(fs) \in Nat
         /\ IsMemory(m) /\ (fs = <<>> => at = Destination)
<1>1. PICK ats, mine, owed :
        /\ Framed(F, fs, ats, mine, owed, m) /\ at = Before(ats, Len(fs) + 1)
  BY DEF Ready
<1>2. IsSeq(fs) /\ DOMAIN fs = 1..Len(fs) /\ Len(fs) \in Nat
  BY <1>1, SeqDomain DEF Framed
<1>3. CASE fs = <<>>
  <2>1. Len(fs) = 0
    BY <1>3
  <2> QED
    BY <1>1, <1>2, <1>3, <2>1 DEF Before, Ready, Owned, Sound, LiveIn
<1>4. CASE fs # <<>>
  <2>1. Len(fs) \in DOMAIN fs /\ Len(fs) + 1 # 1 /\ Len(fs) + 1 - 1 = Len(fs)
    BY <1>2, <1>4, ButLast
  <2>2. at = ats[Len(fs)]
    BY <1>1, <2>1 DEF Before
  <2>3. at.at \in {Destination.at} \cup UNION {Scratches(fs[j].then) : j \in 1..Len(fs)}
    BY <1>1, <2>1, <2>2 DEF Framed
  <2> QED
    BY <1>2, <1>4, <2>3 DEF Waiting, Ready, Owned, Sound, LiveIn
<1> QED
  BY <1>3, <1>4

-----------------------------------------------------------------------------
(* The moves of the run loop.                                               *)
LEMMA SlotIs ==
  ASSUME NEW p, IsPlace(p), NEW s \in Nat, NEW t \in Nat
  PROVE  /\ IsPlace(Slot(p, s)) /\ Slot(p, s).at = p.at /\ Slot(p, s).slot = p.slot + s
         /\ Slot(p, s) = Slot(p, t) => s = t
<1>1. p.at \in Nat /\ p.slot \in Nat
  BY DEF IsPlace
<1>2. \A x \in Nat : Slot(p, x).at = p.at /\ Slot(p, x).slot = p.slot + x /\ Slot(p, x) = [at |-> p.at, slot |-> p.slot + x]
  BY DEF Slot
<1>3. IsPlace(Slot(p, s))
  BY <1>1, <1>2 DEF IsPlace
<1>4. Slot(p, s) = Slot(p, t) => p.slot + s = p.slot + t
  BY <1>2
<1>5. p.slot + s = p.slot + t => s = t
  BY <1>1
<1> QED
  BY <1>2, <1>3, <1>4, <1>5

LEMMA SpansApart ==
  ASSUME NEW p, IsPlace(p), NEW S \in SUBSET Nat, NEW T \in SUBSET Nat, S \cap T = {}
  PROVE  Span(p, S) \cap Span(p, T) = {}
BY SlotIs DEF Span

LaidOut(F, blocks) == \A program \in DOMAIN F : ProgramLaidOut(F, blocks, program)

LEMMA FillsOf ==
  ASSUME NEW F, NEW blocks, LaidOut(F, blocks), NEW program \in DOMAIN F
  PROVE  /\ DOMAIN program = 1..Len(program) /\ Len(program) \in Nat /\ F[program].size \in Nat
         /\ \A k \in 1..Len(program) :
              /\ F[program].fills[k] \subseteq 0..F[program].size - 1 /\ F[program].fills[k] \subseteq Nat
              /\ \A j \in 1..Len(program) : j # k => F[program].fills[j] \cap F[program].fills[k] = {}
              /\ OpLaidOut(F, blocks, program[k], F[program].fills[k], F[program].size)
<1>1. ProgramLaidOut(F, blocks, program)
  BY DEF LaidOut
<1>2. DOMAIN program = 1..Len(program) /\ Len(program) \in Nat /\ F[program].size \in Nat
  BY <1>1 DEF ProgramLaidOut
<1>3. 0..F[program].size - 1 \subseteq Nat
  BY <1>2
<1>4. ASSUME NEW k \in 1..Len(program)
      PROVE  /\ F[program].fills[k] \subseteq 0..F[program].size - 1
             /\ \A j \in 1..Len(program) : j # k => F[program].fills[j] \cap F[program].fills[k] = {}
             /\ OpLaidOut(F, blocks, program[k], F[program].fills[k], F[program].size)
  BY <1>1, <1>2 DEF ProgramLaidOut
<1> QED
  BY <1>2, <1>3, <1>4

(* Two frames with the same program and continuation.                       *)
LEMMA WaitsSame ==
  ASSUME NEW F, NEW f, NEW g, NEW at, NEW before, NEW m, NEW owed, f.prog = g.prog, f.then = g.then,
         Waits(F, f, at, before, m, owed)
  PROVE  Waits(F, g, at, before, m, owed)
<1>1. \A t : SeqOK(F, f, t, at, before, m, owed) => SeqOK(F, g, t, at, before, m, owed)
  BY DEF SeqOK
<1> QED
  BY <1>1 DEF Waits

(* The running frame goes on to its next op: what this one fills is free to *)
(* be filled.                                                               *)
LEMMA AdvanceReady ==
  ASSUME NEW F, NEW blocks, LaidOut(F, blocks),
         NEW fs, NEW at, NEW m, NEW kept, Ready(F, fs, at, m, kept, {}, {}),
         fs # <<>>, fs[Len(fs)].next <= Len(fs[Len(fs)].prog)
  PROVE  LET top == fs[Len(fs)]
             gs == [fs EXCEPT ![Len(fs)].next = @ + 1]
         IN /\ top.prog \in DOMAIN F /\ top.next \in 1..Len(top.prog) /\ Room(m, at, F[top.prog].size)
            /\ Waiting(gs) = Waiting(fs)
            /\ Ready(F, gs, at, m, kept, Span(at, F[top.prog].fills[top.next]), {})
<1> DEFINE n == Len(fs)
           top == fs[n]
           new == [top EXCEPT !.next = @ + 1]
           gs == [fs EXCEPT ![n] = new]
           fills == F[top.prog].fills
           R == Span(at, fills[top.next])
<1>1. PICK ats, mine, owed :
        /\ Framed(F, fs, ats, mine, owed, m) /\ at = Before(ats, Len(fs) + 1)
        /\ Spare(fs, mine, owed, m, {})
  BY DEF Ready
<1>2. IsSeq(fs) /\ n \in Nat \ {0} /\ DOMAIN fs = 1..n /\ n \in DOMAIN fs
  <2>1. IsSeq(fs)
    BY <1>1 DEF Framed
  <2> QED
    BY <2>1, SeqDomain, ButLast
<1>3. at = ats[n]
  BY <1>1, <1>2 DEF Before
<1>4. FrameOK(F, top, at, Before(ats, n), m, mine[n], owed[n])
  BY <1>1, <1>2, <1>3 DEF Framed
<1>5. /\ top = [prog |-> top.prog, next |-> top.next, then |-> top.then] /\ top.prog \in DOMAIN F
      /\ top.next \in 1..Len(top.prog) + 1 /\ Room(m, at, F[top.prog].size) /\ Span(at, Ahead(F, top)) \subseteq mine[n]
  BY <1>4 DEF FrameOK
<1>6. /\ DOMAIN top.prog = 1..Len(top.prog) /\ Len(top.prog) \in Nat
      /\ \A k \in 1..Len(top.prog) :
           fills[k] \subseteq Nat /\ \A j \in 1..Len(top.prog) : j # k => fills[j] \cap fills[k] = {}
  BY <1>5, FillsOf
<1>7. top.next \in 1..Len(top.prog) /\ top.next + 1 \in 1..Len(top.prog) + 1
  BY <1>5, <1>6
<1>8. new = [prog |-> top.prog, next |-> top.next + 1, then |-> top.then]
  BY <1>5
<1>9. /\ IsSeq(gs) /\ Len(gs) = n /\ DOMAIN gs = 1..n /\ gs[n] = new
      /\ \A i \in 1..n : i # n => gs[i] = fs[i]
  BY <1>2, Replaced
<1>10. new.prog = top.prog /\ new.next = top.next + 1 /\ new.then = top.then
  BY <1>8
<1>11. IsPlace(at)
  BY <1>5 DEF Room
<1> HIDE DEF gs, new, fills
<1>12. R \subseteq mine[n] /\ Span(at, Ahead(F, new)) \subseteq mine[n] \ R
  <2> DEFINE rest == Ahead(F, new)
  <2>1. fills[top.next] \subseteq Ahead(F, top)
    BY <1>6, <1>7 DEF Ahead, fills
  <2>2. rest \subseteq Ahead(F, top) /\ rest \subseteq Nat /\ rest \cap fills[top.next] = {}
    <3> SUFFICES ASSUME NEW s \in rest
                 PROVE  s \in Ahead(F, top) /\ s \in Nat /\ s \notin fills[top.next]
      OBVIOUS
    <3>1. PICK k \in top.next + 1..Len(top.prog) : s \in fills[k]
      BY <1>10 DEF Ahead, fills
    <3>2. k \in top.next..Len(top.prog) /\ k \in 1..Len(top.prog) /\ k # top.next
      BY <1>6, <1>7
    <3> QED
      BY <1>6, <1>7, <3>1, <3>2 DEF Ahead, fills
  <2> HIDE DEF rest
  <2>3. Span(at, rest) \cap R = {}
    BY <1>6, <1>7, <1>11, <2>2, SpansApart
  <2>4. Span(at, rest) \subseteq Span(at, Ahead(F, top)) /\ R \subseteq Span(at, Ahead(F, top))
    BY <2>1, <2>2, ZenonT(40) DEF Span
  <2> QED
    BY <1>5, <2>3, <2>4 DEF rest
<1> DEFINE left == [i \in 1..n |-> IF i = n THEN mine[n] \ R ELSE mine[i]]
<1>13. left[n] = mine[n] \ R /\ \A i \in 1..n : left[i] \subseteq mine[i] /\ (i # n => left[i] = mine[i])
  BY <1>2
<1> HIDE DEF left, R
<1>14. \A j \in 1..n : Scratches(gs[j].then) = Scratches(fs[j].then)
  BY <1>9, <1>10, ZenonT(40)
<1>15. Framed(F, gs, ats, left, owed, m)
  <2>1. ASSUME NEW i \in 1..n
        PROVE  FrameOK(F, gs[i], ats[i], Before(ats, i), m, left[i], owed[i])
    <3>1. CASE i = n
      <4>1. FrameOK(F, new, at, Before(ats, n), m, left[n], owed[n])
        <5>1. Waits(F, new, at, Before(ats, n), m, owed[n])
          BY <1>4, <1>10, WaitsSame DEF FrameOK
        <5>2. new = [prog |-> new.prog, next |-> new.next, then |-> new.then]
          BY <1>8, <1>10
        <5> QED
          BY <1>5, <1>7, <1>10, <1>12, <1>13, <5>1, <5>2 DEF FrameOK
      <4> QED
        BY <1>3, <1>9, <3>1, <4>1
    <3>2. CASE i # n
      BY <1>1, <1>2, <1>9, <1>13, <3>2 DEF Framed
    <3> QED
      BY <3>1, <3>2, SMTT(30)
  <2>2. ASSUME NEW i \in 1..n
        PROVE  /\ Unset(m, left[i] \cup owed[i]) /\ left[i] \cap owed[i] = {}
               /\ \A j \in 1..n \ {i} : (left[i] \cup owed[i]) \cap (left[j] \cup owed[j]) = {}
    <3>1. /\ Unset(m, mine[i] \cup owed[i]) /\ mine[i] \cap owed[i] = {}
          /\ \A j \in 1..n \ {i} : (mine[i] \cup owed[i]) \cap (mine[j] \cup owed[j]) = {}
      BY <1>1, <1>2 DEF Framed
    <3> QED
      BY <1>13, <3>1 DEF Unset
  <2>3. ASSUME NEW i \in 1..n
        PROVE  ats[i].at \in {Destination.at} \cup UNION {Scratches(gs[j].then) : j \in 1..i}
    <3>1. ats[i].at \in {Destination.at} \cup UNION {Scratches(fs[j].then) : j \in 1..i}
      BY <1>1, <1>2 DEF Framed
    <3>2. 1..i \subseteq 1..n
      BY <1>2
    <3> QED
      BY <1>14, <3>1, <3>2
  <2>4. IsSeq(ats) /\ Len(ats) = Len(gs)
    BY <1>1, <1>9 DEF Framed
  <2> QED
    BY <1>9, <2>1, <2>2, <2>3, <2>4 DEF Framed
<1>16. Spare(gs, left, owed, m, R)
  <2>1. Unset(m, R)
    BY <1>1, <1>2, <1>12 DEF Framed, Unset
  <2>2. ASSUME NEW i \in 1..n PROVE (left[i] \cup owed[i]) \cap R = {}
    <3>1. /\ mine[n] \cap owed[n] = {}
          /\ i # n => (mine[n] \cup owed[n]) \cap (mine[i] \cup owed[i]) = {}
      BY <1>1, <1>2 DEF Framed
    <3> QED
      BY <1>12, <1>13, <3>1
  <2> QED
    BY <1>9, <2>1, <2>2 DEF Spare
<1>17. Waiting(gs) = Waiting(fs)
  BY <1>2, <1>9, <1>14, ZenonT(40) DEF Waiting
<1>18. Apart(gs, kept) /\ Ours(gs, kept) = Ours(fs, kept)
  <2>1. Apart(fs, kept)
    BY SMTT(30) DEF Ready
  <2> QED
    BY <1>2, <1>9, <1>14, <1>17, <2>1 DEF Apart, Ours
<1>19. Ready(F, gs, at, m, kept, R, {})
  BY <1>1, <1>9, <1>15, <1>16, <1>18 DEF Ready
<1> QED
  BY <1>5, <1>7, <1>17, <1>19 DEF gs, new, R, fills

(* The running frame is over: its caller runs on, and what its continuation *)
(* owed and held is the step's.                                             *)
LEMMA PopReady ==
  ASSUME NEW F, NEW fs, NEW at, NEW m, NEW kept, Ready(F, fs, at, m, kept, {}, {}), fs # <<>>
  PROVE  LET top == fs[Len(fs)]
             gs == SubSeq(fs, 1, Len(fs) - 1)
         IN \E before, mine, owed :
              /\ Ready(F, gs, before, m, kept, owed, Scratches(top.then))
              /\ FrameOK(F, top, at, before, m, mine, owed)
              /\ at.at \in {Destination.at} \cup Waiting(gs) \cup Scratches(top.then)
<1> DEFINE n == Len(fs)
           top == fs[n]
           gs == SubSeq(fs, 1, n - 1)
           T == Scratches(top.then)
<1>1. PICK ats, mine, owed :
        /\ Framed(F, fs, ats, mine, owed, m) /\ at = Before(ats, Len(fs) + 1)
        /\ Spare(fs, mine, owed, m, {})
  BY DEF Ready
<1>2. IsSeq(fs) /\ n \in Nat \ {0} /\ DOMAIN fs = 1..n /\ n \in DOMAIN fs
  <2>1. IsSeq(fs)
    BY <1>1 DEF Framed
  <2> QED
    BY <2>1, SeqDomain, ButLast
<1>3. at = ats[n]
  BY <1>1, <1>2 DEF Before
<1>4. /\ IsSeq(gs) /\ Len(gs) = n - 1 /\ DOMAIN gs = 1..n - 1
      /\ \A i \in 1..n - 1 : gs[i] = fs[i] /\ i \in 1..n /\ i # n
  <2>1. /\ IsSeq(gs) /\ Len(gs) = n - 1 /\ DOMAIN gs = 1..n - 1
        /\ \A i \in 1..n - 1 : gs[i] = fs[i]
    BY <1>2, ButLast
  <2>2. \A k \in Nat \ {0} : \A i \in 1..k - 1 : i \in 1..k /\ i # k
    BY SMTT(30)
  <2>3. \A i \in 1..n - 1 : i \in 1..n /\ i # n
    BY <1>2, <2>2
  <2> QED
    BY <2>1, <2>3
<1> DEFINE before == Before(ats, n)
           less == SubSeq(ats, 1, n - 1)
<1>5. FrameOK(F, top, at, before, m, mine[n], owed[n])
  BY <1>1, <1>2, <1>3 DEF Framed
<1>6. /\ IsSeq(less) /\ Len(less) = n - 1 /\ \A i \in 1..n - 1 : less[i] = ats[i]
  <2>1. IsSeq(ats) /\ Len(ats) = n /\ ats # <<>>
    BY <1>1, <1>2 DEF Framed
  <2> QED
    BY <2>1, ButLast
<1>7. before = Before(less, Len(gs) + 1) /\ \A i \in 1..n - 1 : Before(less, i) = Before(ats, i)
  <2>1. \A i \in 1..n : i # 1 => i - 1 \in 1..n - 1
    BY <1>2
  <2>2. \A i \in 1..n : Before(less, i) = Before(ats, i)
    BY <1>6, <2>1 DEF Before
  <2>3. Len(gs) + 1 = n /\ n \in 1..n
    <3> HIDE DEF gs, n
    <3> QED
      BY <1>2, <1>4
  <2> QED
    BY <1>4, <2>2, <2>3
<1>8. Waiting(fs) = Waiting(gs) \cup T
  <2>1. Waiting(fs) = UNION {Scratches(fs[i].then) : i \in 1..n} /\ Waiting(gs) = UNION {Scratches(gs[i].then) : i \in 1..n - 1}
    BY <1>2, <1>4 DEF Waiting
  <2>2. 1..n = 1..n - 1 \cup {n}
    BY <1>2
  <2> HIDE DEF gs
  <2> QED
    BY <1>4, <2>1, <2>2, ZenonT(40)
<1> HIDE DEF gs, less, before
<1>9. Framed(F, gs, less, mine, owed, m)
  <2>1. ASSUME NEW i \in 1..n - 1
        PROVE  /\ FrameOK(F, gs[i], less[i], Before(less, i), m, mine[i], owed[i])
               /\ Unset(m, mine[i] \cup owed[i]) /\ mine[i] \cap owed[i] = {}
               /\ \A j \in 1..n - 1 \ {i} : (mine[i] \cup owed[i]) \cap (mine[j] \cup owed[j]) = {}
    BY <1>1, <1>2, <1>4, <1>6, <1>7 DEF Framed
  <2>2. ASSUME NEW i \in 1..n - 1
        PROVE  less[i].at \in {Destination.at} \cup UNION {Scratches(gs[j].then) : j \in 1..i}
    <3>1. less[i].at \in {Destination.at} \cup UNION {Scratches(fs[j].then) : j \in 1..i}
      BY <1>1, <1>2, <1>4, <1>6 DEF Framed
    <3>2. 1..i \subseteq 1..n - 1
      BY <1>2
    <3>3. \A j \in 1..i : gs[j] = fs[j]
      BY <1>4, <3>2
    <3> QED
      BY <3>1, <3>3
  <2> QED
    BY <1>4, <1>6, <2>1, <2>2 DEF Framed
<1>10. Spare(gs, mine, owed, m, owed[n])
  <2>1. Unset(m, owed[n])
    BY <1>1, <1>2 DEF Framed, Unset
  <2>2. ASSUME NEW i \in 1..n - 1 PROVE (mine[i] \cup owed[i]) \cap owed[n] = {}
    BY <1>1, <1>2, <1>4 DEF Framed
  <2> QED
    BY <1>4, <2>1, <2>2 DEF Spare
<1>11. Apart(fs, kept) /\ IsSeq(kept) /\ Owned(m, Ours(fs, kept), KeptOf(kept))
  <2>1. Ours(fs, kept) \cup {} = Ours(fs, kept)
    BY SMTT(30)
  <2> QED
    BY <2>1 DEF Ready
<1>12. Apart(gs, kept)
  BY <1>2, <1>4, <1>8, <1>11 DEF Apart
<1>13. T \cap Ours(gs, kept) = {}
  <2>1. T \cap Waiting(gs) = {}
    <3>1. ASSUME NEW i \in 1..n - 1 PROVE T \cap Scratches(gs[i].then) = {}
      BY <1>2, <1>4, <1>11 DEF Apart
    <3>2. Waiting(gs) = UNION {Scratches(gs[i].then) : i \in 1..n - 1}
      BY <1>4 DEF Waiting
    <3> QED
      BY <3>1, <3>2, SMTT(30)
  <2>2. Destination.at \notin T /\ T \cap KeptOf(kept) = {}
    BY <1>8, <1>11 DEF Apart, KeptOf
  <2> QED
    BY <2>1, <2>2 DEF Ours
<1>14. Ours(gs, kept) \cup T = Ours(fs, kept)
  BY <1>8 DEF Ours
<1>15. Ready(F, gs, before, m, kept, owed[n], T)
  BY <1>7, <1>9, <1>10, <1>11, <1>12, <1>13, <1>14 DEF Ready
<1>16. at.at \in {Destination.at} \cup Waiting(gs) \cup T
  BY <1>8, PlaceReady
<1> QED
  BY <1>5, <1>15, <1>16 DEF gs

(* Another frame runs: it takes over slots and nodes of the step's.         *)
LEMMA PushReady ==
  ASSUME NEW F, NEW fs, NEW at, NEW m, NEW kept, NEW spare, NEW hand, Ready(F, fs, at, m, kept, spare, hand),
         NEW f, NEW place, NEW mine \in SUBSET spare, NEW owed \in SUBSET spare, mine \cap owed = {},
         FrameOK(F, f, place, at, m, mine, owed), Scratches(f.then) = hand,
         place.at \in {Destination.at} \cup Waiting(fs) \cup hand
  PROVE  Ready(F, Append(fs, f), place, m, kept, {}, {})
<1> DEFINE n == Len(fs) + 1
           gs == Append(fs, f)
<1>1. PICK ats, mine0, owed0 :
        /\ Framed(F, fs, ats, mine0, owed0, m) /\ at = Before(ats, Len(fs) + 1)
        /\ Spare(fs, mine0, owed0, m, spare)
  BY DEF Ready
<1>2. /\ IsSeq(fs) /\ Len(fs) \in Nat /\ DOMAIN fs = 1..Len(fs)
      /\ IsSeq(ats) /\ Len(ats) = Len(fs)
  BY <1>1, SeqDomain DEF Framed
<1>3. /\ IsSeq(gs) /\ Len(gs) = n /\ DOMAIN gs = 1..n /\ gs[n] = f
      /\ \A i \in 1..Len(fs) : gs[i] = fs[i] /\ i \in 1..n /\ i # n
  BY <1>2, Appended
<1> DEFINE places == Append(ats, place)
           M == [i \in 1..n |-> IF i = n THEN mine ELSE mine0[i]]
           O == [i \in 1..n |-> IF i = n THEN owed ELSE owed0[i]]
<1>4. /\ IsSeq(places) /\ Len(places) = n /\ places[n] = place
      /\ \A i \in 1..Len(fs) : places[i] = ats[i]
  BY <1>2, Appended
<1>5. /\ M[n] = mine /\ O[n] = owed
      /\ \A i \in 1..Len(fs) : M[i] = mine0[i] /\ O[i] = owed0[i]
  BY <1>2
<1>6. Before(places, n) = at /\ \A i \in 1..Len(fs) : Before(places, i) = Before(ats, i)
  <2>1. \A i \in 1..n : i # 1 => i - 1 \in 1..Len(fs)
    BY <1>2
  <2>2. \A i \in 1..n : Before(places, i) = Before(ats, i)
    BY <1>4, <2>1 DEF Before
  <2>3. n \in 1..n /\ 1..Len(fs) \subseteq 1..n
    BY <1>2
  <2> QED
    BY <1>1, <2>2, <2>3
<1>7. 1..n = 1..Len(fs) \cup {n} /\ n \notin 1..Len(fs)
  BY <1>2
<1>8. Waiting(gs) = Waiting(fs) \cup hand
  <2>1. Waiting(fs) = UNION {Scratches(fs[i].then) : i \in 1..Len(fs)} /\ Waiting(gs) = UNION {Scratches(gs[i].then) : i \in 1..n}
    BY <1>2, <1>3 DEF Waiting
  <2> HIDE DEF gs, n
  <2> QED
    BY <1>3, <1>7, <2>1
<1>9. Before(places, n + 1) = place
  BY <1>2, <1>4 DEF Before
<1> HIDE DEF gs, places, M, O, n
<1>10. Framed(F, gs, places, M, O, m)
  <2>1. ASSUME NEW i \in 1..n
        PROVE  FrameOK(F, gs[i], places[i], Before(places, i), m, M[i], O[i])
    <3>1. CASE i = n
      BY <1>3, <1>4, <1>5, <1>6, <3>1
    <3>2. CASE i \in 1..Len(fs)
      BY <1>1, <1>2, <1>3, <1>4, <1>5, <1>6, <3>2 DEF Framed
    <3> QED
      BY <1>7, <3>1, <3>2
  <2>2. Unset(m, mine \cup owed) /\ \A i \in 1..Len(fs) : (mine0[i] \cup owed0[i]) \cap (mine \cup owed) = {}
    BY <1>1, <1>2 DEF Spare, Unset
  <2>3. ASSUME NEW i \in 1..n
        PROVE  /\ Unset(m, M[i] \cup O[i]) /\ M[i] \cap O[i] = {}
               /\ \A j \in 1..n \ {i} : (M[i] \cup O[i]) \cap (M[j] \cup O[j]) = {}
    <3>1. \A j, k \in 1..Len(fs) :
            /\ Unset(m, mine0[j] \cup owed0[j]) /\ mine0[j] \cap owed0[j] = {}
            /\ j # k => (mine0[j] \cup owed0[j]) \cap (mine0[k] \cup owed0[k]) = {}
      BY <1>1, <1>2 DEF Framed
    <3>2. CASE i = n
      BY <1>5, <1>7, <2>2, <3>2
    <3>3. CASE i \in 1..Len(fs)
      BY <1>5, <1>7, <2>2, <3>1, <3>3
    <3> QED
      BY <1>7, <3>2, <3>3
  <2>4. ASSUME NEW i \in 1..n
        PROVE  places[i].at \in {Destination.at} \cup UNION {Scratches(gs[j].then) : j \in 1..i}
    <3>1. CASE i = n
      <4>1. Waiting(gs) = UNION {Scratches(gs[j].then) : j \in 1..n}
        BY <1>3 DEF Waiting
      <4> QED
        BY <1>4, <1>8, <3>1, <4>1
    <3>2. CASE i \in 1..Len(fs)
      <4>1. ats[i].at \in {Destination.at} \cup UNION {Scratches(fs[j].then) : j \in 1..i}
        BY <1>1, <1>2, <3>2 DEF Framed
      <4>2. \A j \in 1..i : gs[j] = fs[j]
        BY <1>2, <1>3, <3>2
      <4> QED
        BY <1>4, <3>2, <4>1, <4>2
    <3> QED
      BY <1>7, <3>1, <3>2
  <2> QED
    BY <1>3, <1>4, <2>1, <2>3, <2>4 DEF Framed
<1>11. Spare(gs, M, O, m, {})
  BY DEF Spare, Unset
<1>12. Apart(fs, kept) /\ IsSeq(kept) /\ hand \cap Ours(fs, kept) = {}
  BY DEF Ready
<1>13. Apart(gs, kept)
  <2>1. hand \cap Waiting(fs) = {} /\ hand \cap KeptOf(kept) = {} /\ Destination.at \notin hand
    BY <1>12 DEF Ours
  <2>2. \A i \in 1..Len(fs) : Scratches(fs[i].then) \cap hand = {}
    BY <1>2, <2>1 DEF Waiting
  <2>3. ASSUME NEW i \in 1..n, NEW j \in 1..n \ {i} PROVE Scratches(gs[i].then) \cap Scratches(gs[j].then) = {}
    <3>1. \A k \in 1..Len(fs) : \A l \in 1..Len(fs) \ {k} : Scratches(fs[k].then) \cap Scratches(fs[l].then) = {}
      BY <1>2, <1>12 DEF Apart
    <3>2. CASE i = n \/ j = n
      BY <1>3, <1>7, <2>2, <3>2
    <3>3. CASE i # n /\ j # n
      BY <1>3, <1>7, <3>1, <3>3
    <3> QED
      BY <3>2, <3>3
  <2>4. /\ \A i, j \in DOMAIN kept : kept[i] = kept[j] => i = j
        /\ \A i \in DOMAIN kept : kept[i] # Destination.at /\ kept[i] \notin Waiting(gs)
        /\ Destination.at \notin Waiting(gs)
    BY <1>8, <1>12, <2>1 DEF Apart, KeptOf
  <2> QED
    BY <1>3, <2>3, <2>4 DEF Apart
<1>14. Ours(gs, kept) \cup {} = Ours(fs, kept) \cup hand /\ {} \cap Ours(gs, kept) = {}
  BY <1>8 DEF Ours
<1>15. Owned(m, Ours(gs, kept) \cup {}, KeptOf(kept))
  BY <1>14 DEF Ready
<1> QED
  BY <1>3, <1>9, <1>10, <1>11, <1>12, <1>13, <1>14, <1>15 DEF Ready, gs

(* A step allocates: it holds the node, and nobody owes its slots.          *)
Allocated(F, fs, at, m, kept, spare, hand, size) ==
  LET n == Append(m, Allocate(size))
      new == Len(m) + 1
  IN /\ Ready(F, fs, at, n, kept, spare \cup Span(At(new), 0..size - 1), hand \cup {new})
     /\ Room(n, At(new), size) /\ Extent(n[new]) = size /\ Len(n) = new
     /\ new \notin DOMAIN m /\ new \in Nat /\ Keeps(m, n, {})
     /\ spare \cap Span(At(new), 0..size - 1) = {}
LEMMA AllocateReady ==
  ASSUME NEW F, NEW fs, NEW at, NEW m, NEW kept, NEW spare, NEW hand, Ready(F, fs, at, m, kept, spare, hand),
         NEW size \in Nat
  PROVE  Allocated(F, fs, at, m, kept, spare, hand, size)
<1> DEFINE n == Append(m, Allocate(size))
           new == Len(m) + 1
           fresh == Span(At(new), 0..size - 1)
           held == Ours(fs, kept) \cup hand
<1>1. PICK ats, mine, owed :
        /\ Framed(F, fs, ats, mine, owed, m) /\ at = Before(ats, Len(fs) + 1)
        /\ Spare(fs, mine, owed, m, spare)
  BY DEF Ready
<1>2. Owned(m, held, KeptOf(kept)) /\ hand \cap Ours(fs, kept) = {} /\ IsSeq(kept) /\ Apart(fs, kept)
  BY DEF Ready
<1>3. /\ Owned(n, held \cup {new}, KeptOf(kept)) /\ Keeps(m, n, {})
      /\ Len(n) = new /\ DOMAIN n = DOMAIN m \cup {new} /\ new \notin DOMAIN m
      /\ new \in Nat /\ Extent(n[new]) = size
      /\ DOMAIN n[new].slots = 0..size - 1 /\ \A s \in 0..size - 1 : n[new].slots[s] = Uninit
  <2> HIDE DEF held
  <2> QED
    BY <1>2, AllocateOwned
<1>4. Ours(fs, kept) \subseteq DOMAIN m
  BY PlaceReady
<1> HIDE DEF n, new
<1>5. At(new).at = new /\ At(new).slot = 0 /\ IsPlace(At(new))
  BY <1>3 DEF At, IsPlace
<1>6. \A p \in fresh : p.at = new /\ p.slot \in 0..size - 1 /\ IsPlace(p)
  <2> SUFFICES ASSUME NEW s \in 0..size - 1
               PROVE  LET p == Slot(At(new), s) IN p.at = new /\ p.slot \in 0..size - 1 /\ IsPlace(p)
    BY DEF Span
  <2>1. s \in Nat
    OBVIOUS
  <2>2. IsPlace(Slot(At(new), s)) /\ Slot(At(new), s).at = new /\ Slot(At(new), s).slot = 0 + s
    BY <1>5, <2>1, SlotIs
  <2> QED
    BY <2>1, <2>2
<1>7. Unset(n, fresh)
  BY <1>3, <1>6 DEF Unset, Holds, HandleAt
<1>8. \A P : Unset(m, P) => P \cap fresh = {}
  BY <1>3, <1>6 DEF Unset, Holds
<1> HIDE DEF fresh
<1>9. Framed(F, fs, ats, mine, owed, n) /\ Spare(fs, mine, owed, n, spare)
  <2>1. {} \in SUBSET spare /\ spare \ {} = spare
    OBVIOUS
  <2>2. Framed(F, fs, ats, mine, owed, n) /\ Spare(fs, mine, owed, n, spare \ {})
    BY <1>1, <1>3, <2>1, KeepsFramed
  <2> QED
    BY <2>1, <2>2
<1>10. Spare(fs, mine, owed, n, spare \cup fresh)
  <2>1. Unset(n, spare \cup fresh)
    BY <1>7, <1>9 DEF Spare, Unset
  <2>2. \A i \in DOMAIN fs : Unset(m, mine[i] \cup owed[i])
    BY <1>1 DEF Framed
  <2> QED
    BY <1>8, <1>9, <2>1, <2>2 DEF Spare
<1>11. Room(n, At(new), size)
  BY <1>3, <1>5 DEF Room
<1>12. spare \cap fresh = {}
  BY <1>1, <1>8 DEF Spare
<1>13. (hand \cup {new}) \cap Ours(fs, kept) = {}
  BY <1>2, <1>3, <1>4
<1>14. Ours(fs, kept) \cup (hand \cup {new}) = held \cup {new}
  OBVIOUS
<1>15. Ready(F, fs, at, n, kept, spare \cup fresh, hand \cup {new})
  BY <1>1, <1>2, <1>3, <1>9, <1>10, <1>13, <1>14 DEF Ready
<1> QED
  BY <1>3, <1>11, <1>12, <1>15 DEF Allocated, n, new, fresh

(* A step gives a node to what is retained.                                 *)
LEMMA RetainReady ==
  ASSUME NEW F, NEW fs, NEW at, NEW m, NEW kept, NEW spare, NEW a, Ready(F, fs, at, m, kept, spare, {a}),
         NEW n, NEW Q \in SUBSET spare, Keeps(m, n, Q), Owned(n, Ours(fs, kept) \cup {a}, KeptOf(kept) \cup {a})
  PROVE  Ready(F, fs, at, n, Append(kept, a), {}, {})
<1> DEFINE more == Append(kept, a)
<1>1. PICK ats, mine, owed :
        /\ Framed(F, fs, ats, mine, owed, m) /\ at = Before(ats, Len(fs) + 1)
        /\ Spare(fs, mine, owed, m, spare)
  BY DEF Ready
<1>2. Framed(F, fs, ats, mine, owed, n)
  BY <1>1, KeepsFramed
<1>3. Spare(fs, mine, owed, n, {})
  BY DEF Spare, Unset
<1>4. IsSeq(kept) /\ Apart(fs, kept) /\ a \notin Ours(fs, kept)
  BY DEF Ready
<1>5. /\ IsSeq(more) /\ Len(kept) \in Nat /\ DOMAIN kept = 1..Len(kept) /\ DOMAIN more = 1..Len(kept) + 1
      /\ more[Len(kept) + 1] = a /\ \A i \in 1..Len(kept) : more[i] = kept[i]
  BY <1>4, Appended, SeqDomain
<1>6. DOMAIN more = DOMAIN kept \cup {Len(kept) + 1} /\ Len(kept) + 1 \notin DOMAIN kept
  BY <1>5
<1> HIDE DEF more
<1>7. KeptOf(more) = KeptOf(kept) \cup {a}
  BY <1>5, <1>6 DEF KeptOf
<1>8. Ours(fs, more) = Ours(fs, kept) \cup {a}
  BY <1>7 DEF Ours
<1>9. Apart(fs, more)
  <2>1. a # Destination.at /\ a \notin Waiting(fs) /\ \A i \in DOMAIN kept : kept[i] # a
    BY <1>4 DEF Ours, KeptOf
  <2>2. \A i, j \in DOMAIN more : more[i] = more[j] => i = j
    BY <1>4, <1>5, <1>6, <2>1 DEF Apart
  <2>3. \A i \in DOMAIN more : more[i] # Destination.at /\ more[i] \notin Waiting(fs)
    BY <1>4, <1>5, <1>6, <2>1 DEF Apart
  <2> QED
    BY <1>4, <2>2, <2>3 DEF Apart
<1>10. Ours(fs, more) \cup {} = Ours(fs, kept) \cup {a} /\ {} \cap Ours(fs, more) = {}
  BY <1>8
<1>11. Owned(n, Ours(fs, more) \cup {}, KeptOf(more))
  BY <1>7, <1>10
<1> QED
  BY <1>1, <1>2, <1>3, <1>5, <1>9, <1>10, <1>11 DEF Ready, more

LEMMA NothingKept ==
  KeptOf(<<>>) = {} /\ Waiting(<<>>) = {} /\ IsSeq(<<>>) /\ Apart(<<>>, <<>>)
<1>1. <<>> \in Seq({}) /\ DOMAIN <<>> = {}
  BY EmptySeq
<1>2. KeptOf(<<>>) = {} /\ Waiting(<<>>) = {} /\ IsSeq(<<>>)
  BY <1>1, InSeq DEF KeptOf, Waiting
<1> QED
  BY <1>1, <1>2 DEF Apart

(* An error: the scratch memory is freed, what is retained is dropped.      *)
LEMMA FailOver ==
  ASSUME NEW F, NEW fs, NEW at, NEW m, NEW kept, NEW spare, Ready(F, fs, at, m, kept, spare, {})
  PROVE  Over(Dropped(Freed(m, Waiting(fs)), KeptOf(kept)), <<>>, TRUE)
<1> DEFINE held == Ours(fs, kept)
           k == Freed(m, Waiting(fs))
           n == Dropped(k, KeptOf(kept))
           left == (held \ Waiting(fs)) \ KeptOf(kept)
<1>1. IsMemory(m) /\ Sound(m, held) /\ Apart(fs, kept)
  <2>1. Ours(fs, kept) \cup {} = held
    OBVIOUS
  <2> QED
    BY <2>1 DEF Ready, Owned
<1>2. /\ Waiting(fs) \in SUBSET held /\ KeptOf(kept) \in SUBSET (held \ Waiting(fs))
      /\ left = {Destination.at}
  BY <1>1 DEF Ours, Apart, KeptOf
<1>3. IsMemory(k) /\ Sound(k, held \ Waiting(fs))
  <2> HIDE DEF held
  <2> QED
    BY <1>1, <1>2, FreedFacts, FreedSound
<1>4. IsMemory(n) /\ Sound(n, left)
  <2> HIDE DEF held, k
  <2> QED
    BY <1>2, <1>3, DroppedSound
<1> HIDE DEF n, left
<1>5. {Destination.at} \subseteq LiveIn(n)
  BY <1>2, <1>4 DEF Sound
<1>6. KeptOf(<<>>) = {} /\ IsSeq(<<>>) /\ Apart(<<>>, <<>>)
  BY NothingKept
<1>7. Destination.at \in DOMAIN n
  BY <1>5 DEF LiveIn
<1>8. ({Destination.at} \cap LiveIn(n)) \cup KeptOf(<<>>) = left
  BY <1>2, <1>5, <1>6
<1>9. Over(n, <<>>, TRUE)
  BY <1>4, <1>6, <1>7, <1>8 DEF Over
<1> QED
  BY <1>9 DEF n

-----------------------------------------------------------------------------
(* Reading stays in the message.                                            *)
LEMMA ReadFacts ==
  ASSUME NEW b \in Seq(Nat), NEW p \in 0..Len(b)
  PROVE  /\ ReadCell(b, p).ok => ReadCell(b, p).v \in Nat /\ ReadCell(b, p).p \in 0..Len(b)
         /\ ReadText(b, p).ok => ReadText(b, p).p \in 0..Len(b)
         /\ \A w : ReadLen(w, b, p).ok => ReadLen(w, b, p).v \in Nat /\ ReadLen(w, b, p).p \in 0..Len(b)
<1> DEFINE c == ReadCell(b, p)
<1>1. Len(b) \in Nat /\ \A i \in 1..Len(b) : b[i] \in Nat
  BY LenProperties, ElementOfSeq
<1>2. c.ok => c.v \in Nat /\ c.p \in 0..Len(b)
  <2>1. CASE p < Len(b)
    <3>1. c = Ok(b[p + 1], p + 1)
      BY <2>1 DEF ReadCell
    <3>2. p + 1 \in 1..Len(b) /\ p + 1 \in 0..Len(b)
      BY <1>1, <2>1
    <3> QED
      BY <1>1, <3>1, <3>2 DEF Ok
  <2>2. CASE ~(p < Len(b))
    BY <2>2 DEF ReadCell, Malformed, Err
  <2> QED
    BY <2>1, <2>2
<1>3. ~Malformed.ok
  BY DEF Malformed, Err
<1>4. ReadText(b, p) = IF c.ok THEN (IF c.v \in Valid THEN c ELSE Malformed) ELSE c
  BY DEF ReadText, Then
<1>5. \A w : ReadLen(w, b, p) = IF c.ok THEN (IF c.v > Most(w, b, c.p) THEN Malformed ELSE c) ELSE c
  BY DEF ReadLen, Then
<1> HIDE DEF c
<1> QED
  BY <1>2, <1>3, <1>4, <1>5 DEF c

(* What the invariant says while the call goes on, and what shows it then.  *)
LEMMA ResultsDiffer ==
  /\ \A why : Err(why) # Pending /\ Err(why).ok = FALSE
  /\ \A v, p : Ok(v, p) # Pending /\ Ok(v, p).ok = TRUE
<1>1. DOMAIN Pending = {"pending"}
  BY DEF Pending
<1>2. ASSUME NEW why PROVE DOMAIN Err(why) = {"ok", "why"} /\ Err(why).ok = FALSE
  BY DEF Err
<1>3. ASSUME NEW v, NEW p PROVE DOMAIN Ok(v, p) = {"ok", "v", "p"} /\ Ok(v, p).ok = TRUE
  BY DEF Ok
<1> QED
  BY <1>1, <1>2, <1>3

LEMMA GoesOn ==
  ASSUME IInv, result = Pending
  PROVE  /\ Ready(Layouts[call], frames, base, mem, retained, {}, {})
         /\ LaidOut(Layouts[call], lowered.blocks)
         /\ input \in Seq(Nat) /\ pos \in 0..Len(input) /\ input \in Inputs /\ call \in Calls
<1>1. call \in Calls /\ lowered = Lowered[call] /\ lowered.ok
  BY DEF IInv
<1>2. WellLaidOut(lowered, Layouts[call])
  BY <1>1, LayoutAssumption
<1> QED
  BY <1>1, <1>2 DEF IInv, WellLaidOut, LaidOut

LEMMA StillOn ==
  ASSUME IInv, result = Pending, UNCHANGED <<given, result>>, pos' \in 0..Len(input),
         Ready(Layouts[call], frames', base', mem', retained', {}, {})
  PROVE  IInv'
BY DEF IInv, given

LEMMA FailsOver ==
  ASSUME IInv, result = Pending, NEW m, NEW fs, NEW why, FailFrom(m, fs, why),
         NEW at, NEW spare, Ready(Layouts[call], fs, at, m, retained, spare, {})
  PROVE  IInv'
<1>1. Kept = KeptOf(retained)
  BY DEF Kept, KeptOf
<1>2. Over(mem', retained', TRUE)
  BY <1>1, FailOver DEF FailFrom
<1>3. result' # Pending /\ result'.ok = FALSE
  BY ResultsDiffer DEF FailFrom
<1>4. Over(mem', retained', ~result'.ok)
  BY <1>2, <1>3
<1>5. pos' \in 0..Len(input)
  BY GoesOn, LenProperties DEF FailFrom
<1> QED
  BY <1>3, <1>4, <1>5 DEF IInv, FailFrom, given

LEMMA FailsAlways ==
  ASSUME IInv, result = Pending, NEW why, Fail(why)
  PROVE  IInv'
BY GoesOn, FailsOver DEF Fail

-----------------------------------------------------------------------------
(* An op: what it fills, and its place.                                     *)
AtPlace(F, fs, at, m, kept, blocks, op, fills, size) ==
  /\ Ready(F, fs, at, m, kept, Span(at, fills), {})
  /\ OpLaidOut(F, blocks, op, fills, size)
  /\ size \in Nat /\ fills \subseteq 0..size - 1 /\ fills \subseteq Nat /\ Room(m, at, size)
LEMMA AtOpReady ==
  ASSUME IInv, NEW ops, AtOp(ops)
  PROVE  /\ result = Pending /\ Op.op \in ops
         /\ \E fills, size : AtPlace(Layouts[call], Advanced, base, mem, retained, lowered.blocks, Op, fills, size)
<1> DEFINE F == Layouts[call]
           fills == F[Top.prog].fills[Top.next]
           size == F[Top.prog].size
<1>1. result = Pending /\ frames # <<>> /\ Top.next <= Len(Top.prog) /\ Op.op \in ops
  BY DEF AtOp, Running, Op
<1>2. Ready(F, frames, base, mem, retained, {}, {}) /\ LaidOut(F, lowered.blocks)
  BY <1>1, GoesOn
<1>3. /\ Top.prog \in DOMAIN F /\ Top.next \in 1..Len(Top.prog) /\ Room(mem, base, size)
      /\ Ready(F, Advanced, base, mem, retained, Span(base, fills), {})
  <2> HIDE DEF F
  <2> QED
    BY <1>1, <1>2, AdvanceReady DEF Top, Advanced
<1>4. /\ size \in Nat /\ fills \subseteq 0..size - 1 /\ fills \subseteq Nat
      /\ OpLaidOut(F, lowered.blocks, Op, fills, size)
  <2> HIDE DEF F
  <2> QED
    BY <1>2, <1>3, FillsOf DEF Op
<1> QED
  BY <1>1, <1>3, <1>4 DEF AtPlace

LEMMA HereReady ==
  ASSUME IInv, NEW ops, AtOp(ops), Op.op # "call", ~FillsNothing(Op), NEW fills, NEW size,
         AtPlace(Layouts[call], Advanced, base, mem, retained, lowered.blocks, Op, fills, size)
  PROVE  /\ Op.offset \in fills /\ Op.offset \in Nat /\ Here = Slot(base, Op.offset) /\ Here \in Span(base, fills)
         /\ Here.at = base.at /\ IsPlace(base) /\ base.at \in {Destination.at} \cup Waiting(Advanced)
         /\ base.at \in DOMAIN mem
         /\ Unset(mem, {Here}) /\ IsMemory(mem)
         /\ Owned(mem, Ours(Advanced, retained), KeptOf(retained))
<1>1. Op.offset \in fills /\ Op.offset \in Nat
  BY DEF AtPlace, OpLaidOut
<1>2. IsPlace(base) /\ base.at \in DOMAIN mem
  BY DEF AtPlace, Room
<1>3. Here = Slot(base, Op.offset)
  <2>1. base = [at |-> base.at, slot |-> base.slot]
    BY <1>2 DEF IsPlace
  <2>2. Here = [base EXCEPT !.slot = base.slot + Op.offset]
    BY DEF Here, Place
  <2> QED
    BY <2>1, <2>2 DEF Slot
<1>4. Here.at = base.at
  BY <1>1, <1>2, <1>3, SlotIs
<1>5. Here \in Span(base, fills)
  BY <1>1, <1>3 DEF Span
<1>6. Unset(mem, {Here})
  <2>1. Unset(mem, Span(base, fills))
    BY DEF AtPlace, Ready, Spare
  <2> QED
    BY <1>5, <2>1 DEF Unset
<1>7. base.at \in {Destination.at} \cup Waiting(Advanced) /\ IsMemory(mem)
  <2>1. Ready(Layouts[call], Advanced, base, mem, retained, Span(base, fills), {})
    BY DEF AtPlace
  <2> QED
    BY <2>1, PlaceReady
<1>8. Owned(mem, Ours(Advanced, retained), KeptOf(retained))
  <2>1. Ours(Advanced, retained) \cup {} = Ours(Advanced, retained)
    OBVIOUS
  <2> QED
    BY <2>1 DEF AtPlace, Ready
<1> QED
  BY <1>1, <1>2, <1>3, <1>4, <1>5, <1>6, <1>7, <1>8

(* An op that is done at once.                                              *)
LEMMA StoresOn ==
  ASSUME IInv, NEW ops, AtOp(ops), Op.op # "call", ~FillsNothing(Op),
         NEW n, Owned(n, Ours(Advanced, retained), KeptOf(retained)), Keeps(mem, n, {Here}),
         NEW p \in 0..Len(input), Continue(n, p)
  PROVE  IInv'
<1> DEFINE F == Layouts[call]
<1>1. result = Pending
  BY AtOpReady
<1>2. PICK fills, size : AtPlace(F, Advanced, base, mem, retained, lowered.blocks, Op, fills, size)
  BY AtOpReady
<1>3. Here \in Span(base, fills)
  BY <1>2, HereReady
<1>4. Ready(F, Advanced, base, mem, retained, Span(base, fills), {})
  BY <1>2 DEF AtPlace
<1>5. Ours(Advanced, retained) \cup {} = Ours(Advanced, retained) /\ {} \in SUBSET {}
  OBVIOUS
<1> HIDE DEF F
<1>6. Ready(F, Advanced, base, n, retained, Span(base, fills) \ {Here}, {})
  BY <1>3, <1>4, <1>5, ChangeReady
<1>7. Ready(F, Advanced, base, n, retained, {}, {})
  BY <1>6, ForgetReady
<1> QED
  BY <1>1, <1>7, StillOn DEF Continue, F

LEMMA PlainOn ==
  ASSUME IInv, NEW ops, AtOp(ops), Op.op # "call", ~FillsNothing(Op),
         NEW content, IsContent(content), Owns(content) = {}, content.h # "ref",
         NEW p \in 0..Len(input), Continue(Put(mem, Here, content), p)
  PROVE  IInv'
<1>1. PICK fills, size : AtPlace(Layouts[call], Advanced, base, mem, retained, lowered.blocks, Op, fills, size)
  BY AtOpReady
<1>2. /\ Unset(mem, {Here}) /\ Here.at \in Ours(Advanced, retained)
      /\ Owned(mem, Ours(Advanced, retained), KeptOf(retained))
  BY <1>1, HereReady DEF Ours
<1>3. /\ Owned(Put(mem, Here, content), Ours(Advanced, retained), KeptOf(retained))
      /\ Keeps(mem, Put(mem, Here, content), {Here})
  BY <1>2, PlainOwned
<1> QED
  BY <1>3, StoresOn

(* An op that writes nothing.                                               *)
LEMMA PassesOn ==
  ASSUME IInv, NEW ops, AtOp(ops), NEW p \in 0..Len(input), Continue(mem, p)
  PROVE  IInv'
<1> DEFINE F == Layouts[call]
<1>1. result = Pending
  BY AtOpReady
<1>2. PICK fills, size : AtPlace(F, Advanced, base, mem, retained, lowered.blocks, Op, fills, size)
  BY AtOpReady
<1>3. Ready(F, Advanced, base, mem, retained, {}, {})
  BY <1>2, ForgetReady DEF AtPlace
<1> QED
  BY <1>1, <1>3, StillOn DEF Continue

-----------------------------------------------------------------------------
(* The ops that need no frame, and Default.                                 *)
LEMMA OpIsNot ==
  ASSUME NEW ops, AtOp(ops), "call" \notin ops, "skip" \notin ops, "scalar" \notin ops
  PROVE  Op.op # "call" /\ ~FillsNothing(Op)
BY DEF AtOp, Op, FillsNothing

LEMMA ScalarOn == ASSUME IInv, Scalar PROVE IInv'
<1> DEFINE x == ReadCell(input, pos)
           content == [h |-> "scalar", v |-> x.v]
<1>1. AtOp({"scalar"}) /\ Op.op = "scalar"
  BY DEF Scalar, AtOp, Op
<1>2. result = Pending
  BY <1>1, AtOpReady
<1>3. pos \in 0..Len(input) /\ input \in Seq(Nat)
  BY <1>2, GoesOn
<1>4. CASE Op.size = 0 /\ Continue(mem, pos)
  BY <1>1, <1>3, <1>4, PassesOn
<1>5. CASE Op.size = 1 /\ ~x.ok /\ Fail(x.why)
  BY <1>2, <1>5, FailsAlways
<1>6. CASE Op.size = 1 /\ x.ok /\ Stored(content, x.p)
  <2>1. Op.op # "call" /\ ~FillsNothing(Op)
    BY <1>1, <1>6 DEF FillsNothing
  <2>2. x.p \in 0..Len(input)
    BY <1>3, <1>6, ReadFacts
  <2>3. IsContent(content) /\ Owns(content) = {} /\ content.h # "ref"
    BY PlainContents
  <2> HIDE DEF content, x
  <2> QED
    BY <1>1, <1>6, <2>1, <2>2, <2>3, PlainOn DEF Stored
<1> QED
  BY <1>4, <1>5, <1>6 DEF Scalar

LEMMA NativeOn == ASSUME IInv, Native PROVE IInv'
<1> DEFINE x == ReadCell(input, pos)
           content == [h |-> "scalar", v |-> x.v]
<1>1. AtOp({"native"}) /\ Op.op # "call" /\ ~FillsNothing(Op)
  BY OpIsNot DEF Native
<1>2. result = Pending
  BY <1>1, AtOpReady
<1>3. pos \in 0..Len(input) /\ input \in Seq(Nat)
  BY <1>2, GoesOn
<1>4. \A why : Fail(why) => IInv'
  BY <1>2, FailsAlways
<1>5. CASE x.ok /\ Stored(content, x.p)
  <2>1. x.p \in 0..Len(input)
    BY <1>3, <1>5, ReadFacts
  <2>2. IsContent(content) /\ Owns(content) = {} /\ content.h # "ref"
    BY PlainContents
  <2> HIDE DEF content, x
  <2> QED
    BY <1>1, <1>5, <2>1, <2>2, PlainOn DEF Stored
<1> QED
  BY <1>4, <1>5 DEF Native

LEMMA DynamicOn == ASSUME IInv, Dynamic PROVE IInv'
<1> DEFINE x == ReadCell(input, pos)
           content == [h |-> "scalar", v |-> x.v]
<1>1. AtOp({"dynamic"}) /\ Op.op # "call" /\ ~FillsNothing(Op)
  BY OpIsNot DEF Dynamic
<1>2. result = Pending
  BY <1>1, AtOpReady
<1>3. pos \in 0..Len(input) /\ input \in Seq(Nat)
  BY <1>2, GoesOn
<1>4. \A why : Fail(why) => IInv'
  BY <1>2, FailsAlways
<1>5. CASE x.ok /\ Stored(content, x.p)
  <2>1. x.p \in 0..Len(input)
    BY <1>3, <1>5, ReadFacts
  <2>2. IsContent(content) /\ Owns(content) = {} /\ content.h # "ref"
    BY PlainContents
  <2> HIDE DEF content, x
  <2> QED
    BY <1>1, <1>5, <2>1, <2>2, PlainOn DEF Stored
<1> QED
  BY <1>4, <1>5 DEF Dynamic

LEMMA BytesOn == ASSUME IInv, Bytes PROVE IInv'
<1> DEFINE x == ReadText(input, pos)
           n == OwnedText(mem, Here, x.v)
<1>1. AtOp({"text"}) /\ Op.op # "call" /\ ~FillsNothing(Op)
  BY OpIsNot DEF Bytes
<1>2. result = Pending
  BY <1>1, AtOpReady
<1>3. pos \in 0..Len(input) /\ input \in Seq(Nat)
  BY <1>2, GoesOn
<1>4. \A why : Fail(why) => IInv'
  BY <1>2, FailsAlways
<1>5. CASE x.ok /\ Continue(n, x.p)
  <2>1. x.p \in 0..Len(input)
    BY <1>3, <1>5, ReadFacts
  <2>2. PICK fills, size : AtPlace(Layouts[call], Advanced, base, mem, retained, lowered.blocks, Op, fills, size)
    BY <1>1, AtOpReady
  <2>3. /\ Unset(mem, {Here}) /\ Here.at \in Ours(Advanced, retained)
        /\ Owned(mem, Ours(Advanced, retained), KeptOf(retained))
    BY <1>1, <2>2, HereReady DEF Ours
  <2>4. Owned(n, Ours(Advanced, retained), KeptOf(retained)) /\ Keeps(mem, n, {Here})
    BY <2>3, TextOwned
  <2> HIDE DEF n, x
  <2> QED
    BY <1>1, <1>5, <2>1, <2>4, StoresOn
<1> QED
  BY <1>4, <1>5 DEF Bytes

LEMMA BorrowOn == ASSUME IInv, Borrow PROVE IInv'
<1> DEFINE x == ReadText(input, pos)
           content == [h |-> "borrow", v |-> x.v]
<1>1. AtOp({"borrow"}) /\ Op.op # "call" /\ ~FillsNothing(Op)
  BY OpIsNot DEF Borrow
<1>2. result = Pending
  BY <1>1, AtOpReady
<1>3. pos \in 0..Len(input) /\ input \in Seq(Nat)
  BY <1>2, GoesOn
<1>4. \A why : Fail(why) => IInv'
  BY <1>2, FailsAlways
<1>5. CASE x.ok /\ Continue(SetBorrowed(mem, Here, x.v), x.p)
  <2>1. x.p \in 0..Len(input)
    BY <1>3, <1>5, ReadFacts
  <2>2. IsContent(content) /\ Owns(content) = {} /\ content.h # "ref"
    BY PlainContents
  <2>3. Continue(Put(mem, Here, content), x.p)
    BY <1>5 DEF SetBorrowed
  <2> HIDE DEF content, x
  <2> QED
    BY <1>1, <2>1, <2>2, <2>3, PlainOn
<1> QED
  BY <1>4, <1>5 DEF Borrow

LEMMA OpaqueOn == ASSUME IInv, Opaque PROVE IInv'
<1> DEFINE x == ReadCell(input, pos)
           content == [h |-> "borrow", v |-> x.v]
<1>1. AtOp({"opaque"}) /\ Op.op # "call" /\ ~FillsNothing(Op)
  BY OpIsNot DEF Opaque
<1>2. result = Pending
  BY <1>1, AtOpReady
<1>3. pos \in 0..Len(input) /\ input \in Seq(Nat)
  BY <1>2, GoesOn
<1>4. \A why : Fail(why) => IInv'
  BY <1>2, FailsAlways
<1>5. CASE x.ok /\ Continue(Deserialized(mem, Here, x.v), x.p)
  <2>1. x.p \in 0..Len(input)
    BY <1>3, <1>5, ReadFacts
  <2>2. IsContent(content) /\ Owns(content) = {} /\ content.h # "ref"
    BY PlainContents
  <2>3. Continue(Put(mem, Here, content), x.p)
    BY <1>5 DEF Deserialized
  <2> HIDE DEF content, x
  <2> QED
    BY <1>1, <2>1, <2>2, <2>3, PlainOn
<1> QED
  BY <1>4, <1>5 DEF Opaque

LEMMA SkipOn == ASSUME IInv, Skip PROVE IInv'
<1> DEFINE x == SkipValue(Op.skip, input, pos)
<1>1. AtOp({"skip"}) /\ Op.op = "skip"
  BY DEF Skip, AtOp, Op
<1>2. result = Pending
  BY <1>1, AtOpReady
<1>3. /\ pos \in 0..Len(input) /\ input \in Inputs /\ call \in Calls
      /\ Ready(Layouts[call], frames, base, mem, retained, {}, {})
      /\ LaidOut(Layouts[call], lowered.blocks) /\ Len(input) \in Nat
  BY <1>2, GoesOn, LenProperties
<1>4. \A why : Fail(why) => IInv'
  BY <1>2, FailsAlways
<1>5. CASE x.ok /\ Continue(mem, x.p)
  <2>1. /\ Top.prog \in DOMAIN Layouts[call] /\ Top.next \in 1..Len(Top.prog)
        /\ DOMAIN Top.prog = 1..Len(Top.prog)
    <3> DEFINE F == Layouts[call]
    <3>1. frames # <<>> /\ Top.next <= Len(Top.prog)
      BY <1>1 DEF AtOp, Running
    <3> HIDE DEF F
    <3>2. Top.prog \in DOMAIN F /\ Top.next \in 1..Len(Top.prog)
      BY <1>3, <3>1, AdvanceReady DEF Top, F
    <3> QED
      BY <1>3, <3>2, FillsOf DEF F
  <2>2. x.p \in pos..Len(input)
    BY <1>1, <1>3, <1>5, <2>1, SkipAssumption DEF Op
  <2>3. x.p \in 0..Len(input)
    BY <1>3, <2>2
  <2> HIDE DEF x
  <2> QED
    BY <1>1, <1>5, <2>3, PassesOn
<1> QED
  BY <1>4, <1>5 DEF Skip

LEMMA DefaultOn == ASSUME IInv, Default PROVE IInv'
<1> DEFINE content == [h |-> "none"]
<1>1. AtOp({"default"}) /\ Op.op # "call" /\ ~FillsNothing(Op)
  BY OpIsNot DEF Default
<1>2. result = Pending
  BY <1>1, AtOpReady
<1>3. pos \in 0..Len(input)
  BY <1>2, GoesOn
<1>4. IsContent(content) /\ Owns(content) = {} /\ content.h # "ref"
  BY PlainContents
<1>5. Continue(Put(mem, Here, content), pos)
  BY DEF Default, DefaultInit
<1> HIDE DEF content
<1> QED
  BY <1>1, <1>3, <1>4, <1>5, PlainOn

-----------------------------------------------------------------------------
(* Entering a program, and coming back from one.                            *)
LEMMA ExtentOf ==
  ASSUME NEW m, IsMemory(m), NEW a \in DOMAIN m
  PROVE  Extent(m[a]) \in Nat
BY DEF IsMemory, IsNode

LEMMA NewFrame ==
  ASSUME NEW F, NEW blocks, LaidOut(F, blocks), NEW body, NEW size, Fits(F, body, size),
         NEW m, IsMemory(m), NEW place, Room(m, place, size), NEW then, NEW before, NEW owed,
         Waits(F, Frame(body, then), place, before, m, owed)
  PROVE  /\ FrameOK(F, Frame(body, then), place, before, m, Span(place, Filled(F, body)), owed)
         /\ Filled(F, body) \subseteq 0..F[body].size - 1
         /\ Span(place, Filled(F, body)) \subseteq Span(place, 0..size - 1)
         /\ Frame(body, then).then = then
<1> DEFINE f == Frame(body, then)
<1>1. body \in DOMAIN F /\ F[body].size <= size /\ size \in Nat
  BY DEF Fits
<1>2. /\ DOMAIN body = 1..Len(body) /\ Len(body) \in Nat /\ F[body].size \in Nat
      /\ \A k \in 1..Len(body) : F[body].fills[k] \subseteq 0..F[body].size - 1
  BY <1>1, FillsOf
<1>3. f = [prog |-> body, next |-> 1, then |-> then] /\ f.prog = body /\ f.next = 1 /\ f.then = then
  BY DEF Frame
<1> HIDE DEF f
<1>4. Ahead(F, f) = Filled(F, body)
  BY <1>2, <1>3 DEF Ahead, Filled
<1>5. Filled(F, body) \subseteq 0..F[body].size - 1
  BY <1>2 DEF Filled
<1>6. 0..F[body].size - 1 \subseteq 0..size - 1
  BY <1>1, <1>2
<1>7. Room(m, place, F[body].size)
  <2>1. IsPlace(place) /\ place.at \in DOMAIN m /\ place.slot + size <= Extent(m[place.at])
    BY DEF Room
  <2>2. place.slot \in Nat /\ Extent(m[place.at]) \in Nat
    BY <2>1, ExtentOf DEF IsPlace
  <2>3. place.slot + F[body].size <= Extent(m[place.at])
    BY <1>1, <1>2, <2>1, <2>2
  <2> QED
    BY <2>1, <2>3 DEF Room
<1>8. f.next \in 1..Len(body) + 1
  BY <1>2, <1>3
<1>9. FrameOK(F, f, place, before, m, Span(place, Filled(F, body)), owed)
  <2>1. f = [prog |-> f.prog, next |-> f.next, then |-> f.then]
    BY <1>3
  <2>2. Waits(F, f, place, before, m, owed)
    BY DEF f
  <2> QED
    BY <1>1, <1>3, <1>4, <1>7, <1>8, <2>1, <2>2 DEF FrameOK
<1> QED
  BY <1>3, <1>5, <1>6, <1>9 DEF Span, f

Entering(fs, at, m, spare, hand, place, body, then, mine, owed) ==
  /\ Ready(Layouts[call], fs, at, m, retained, spare, hand)
  /\ mine \in SUBSET spare /\ owed \in SUBSET spare /\ mine \cap owed = {}
  /\ FrameOK(Layouts[call], Frame(body, then), place, at, m, mine, owed) /\ Scratches(then) = hand
  /\ place.at \in {Destination.at} \cup Waiting(fs) \cup hand
LEMMA EnterOn ==
  ASSUME IInv, result = Pending, NEW fs, NEW m, NEW place, NEW body, NEW then, Enter(fs, m, place, body, then),
         pos' \in 0..Len(input), NEW at, NEW spare, NEW hand, NEW mine, NEW owed,
         Entering(fs, at, m, spare, hand, place, body, then, mine, owed)
  PROVE  IInv'
<1> DEFINE F == Layouts[call]
           f == Frame(body, then)
<1>1. f.then = then
  BY DEF Frame
<1> HIDE DEF F, f
<1>2. /\ FrameOK(F, f, place, at, m, mine, owed) /\ Ready(F, fs, at, m, retained, spare, hand)
      /\ mine \in SUBSET spare /\ owed \in SUBSET spare /\ mine \cap owed = {} /\ Scratches(f.then) = hand
      /\ place.at \in {Destination.at} \cup Waiting(fs) \cup hand
  BY <1>1 DEF F, f, Entering
<1>3. Ready(F, Append(fs, f), place, m, retained, {}, {})
  BY <1>2, PushReady
<1>4. frames' = Append(fs, f) /\ base' = place /\ mem' = m /\ retained' = retained
      /\ UNCHANGED <<given, result>>
  BY DEF Enter, f
<1>5. Ready(Layouts[call], frames', base', mem', retained', {}, {})
  BY <1>3, <1>4 DEF F
<1> QED
  BY <1>4, <1>5, StillOn

LEMMA RestoreOn ==
  ASSUME IInv, result = Pending, NEW fs, NEW at, NEW m, NEW spare,
         Ready(Layouts[call], fs, at, m, retained, spare, {}), Restore(fs, m, at), pos' \in 0..Len(input)
  PROVE  IInv'
<1>1. Ready(Layouts[call], fs, at, m, retained, {}, {})
  BY ForgetReady
<1> QED
  BY <1>1, StillOn DEF Restore

Ended(F, before, mine, owed) ==
  /\ Ready(F, Popped, before, mem, retained, owed, Scratches(Top.then))
  /\ FrameOK(F, Top, base, before, mem, mine, owed)
  /\ base.at \in {Destination.at} \cup Waiting(Popped) \cup Scratches(Top.then)
LEMMA AtEndReady ==
  ASSUME IInv, NEW conts, AtEnd(conts)
  PROVE  /\ result = Pending /\ Top.then.c \in conts /\ pos \in 0..Len(input)
         /\ LaidOut(Layouts[call], lowered.blocks)
         /\ \E before, mine, owed : Ended(Layouts[call], before, mine, owed)
<1>1. result = Pending /\ frames # <<>> /\ Top.then.c \in conts
  BY DEF AtEnd, Running
<1>2. /\ Ready(Layouts[call], frames, base, mem, retained, {}, {})
      /\ LaidOut(Layouts[call], lowered.blocks) /\ pos \in 0..Len(input)
  BY <1>1, GoesOn
<1> DEFINE F == Layouts[call]
<1> HIDE DEF F
<1>3. Ready(F, frames, base, mem, retained, {}, {})
  BY <1>2 DEF F
<1>4. \E before, mine, owed : Ended(F, before, mine, owed)
  BY <1>1, <1>3, PopReady DEF Ended, Top, Popped
<1> QED
  BY <1>1, <1>2, <1>4 DEF F

-----------------------------------------------------------------------------
(* Blocks and payloads.                                                     *)
LEMMA CallBlockOn == ASSUME IInv, CallBlock PROVE IInv'
<1> DEFINE F == Layouts[call]
           block == lowered.blocks[Op.block]
           then == [c |-> "restore", base |-> base]
           mine == Span(Here, Filled(F, block))
<1>1. AtOp({"call"}) /\ Op.op = "call"
  BY DEF CallBlock, AtOp, Op
<1>2. result = Pending
  BY <1>1, AtOpReady
<1>3. LaidOut(F, lowered.blocks) /\ pos \in 0..Len(input)
  BY <1>2, GoesOn
<1>4. PICK fills, size : AtPlace(F, Advanced, base, mem, retained, lowered.blocks, Op, fills, size)
  BY <1>1, AtOpReady
<1>5. Enter(Advanced, mem, Here, block, then) /\ UNCHANGED pos
  BY DEF CallBlock
<1> HIDE DEF F, block
<1>6. /\ Op.offset \in Nat /\ block \in DOMAIN F /\ Op.offset + F[block].size <= size
      /\ {Op.offset + s : s \in Filled(F, block)} \subseteq fills
  BY <1>1, <1>4 DEF AtPlace, OpLaidOut, block
<1>7. /\ Ready(F, Advanced, base, mem, retained, Span(base, fills), {}) /\ size \in Nat
      /\ IsPlace(base) /\ base.at \in DOMAIN mem /\ base.slot + size <= Extent(mem[base.at])
  BY <1>4 DEF AtPlace, Room
<1>8. IsMemory(mem) /\ base.at \in {Destination.at} \cup Waiting(Advanced)
  BY <1>7, PlaceReady
<1>9. F[block].size \in Nat /\ Fits(F, block, F[block].size)
  BY <1>3, <1>6, FillsOf DEF Fits
<1>10. Here = Slot(base, Op.offset) /\ IsPlace(Here) /\ Here.at = base.at /\ Here.slot = base.slot + Op.offset
  <2>1. base = [at |-> base.at, slot |-> base.slot]
    BY <1>7 DEF IsPlace
  <2>2. Here = [base EXCEPT !.slot = base.slot + Op.offset]
    BY DEF Here, Place
  <2>3. Here = Slot(base, Op.offset)
    BY <2>1, <2>2 DEF Slot
  <2> QED
    BY <1>6, <1>7, <2>3, SlotIs
<1>11. Room(mem, Here, F[block].size)
  <2>1. base.slot \in Nat /\ Extent(mem[base.at]) \in Nat
    BY <1>7, <1>8, ExtentOf DEF IsPlace
  <2>2. Here.slot + F[block].size <= Extent(mem[Here.at])
    BY <1>6, <1>7, <1>9, <1>10, <2>1
  <2> QED
    BY <1>7, <1>10, <2>2 DEF Room
<1>12. then.c = "restore" /\ Scratches(then) = {}
  BY DEF Scratches
<1>13. Waits(F, Frame(block, then), Here, base, mem, {})
  BY <1>10 DEF Waits, RestoreOK, Frame
<1> HIDE DEF then
<1>14. FrameOK(F, Frame(block, then), Here, base, mem, mine, {}) /\ Filled(F, block) \subseteq 0..F[block].size - 1
  BY <1>3, <1>8, <1>9, <1>11, <1>13, NewFrame
<1>15. mine \subseteq Span(base, fills)
  <2> SUFFICES ASSUME NEW s \in Filled(F, block) PROVE Slot(Here, s) \in Span(base, fills)
    BY DEF Span
  <2>1. s \in Nat /\ Op.offset + s \in fills
    BY <1>6, <1>9, <1>14
  <2>2. Here.slot + s = base.slot + (Op.offset + s)
    BY <1>6, <1>7, <1>10, <2>1 DEF IsPlace
  <2>3. Slot(Here, s) = Slot(base, Op.offset + s)
    BY <1>10, <2>2 DEF Slot
  <2> QED
    BY <2>1, <2>3 DEF Span
<1> DEFINE spare == Span(base, fills)
<1>16. mine \in SUBSET spare /\ {} \in SUBSET spare /\ mine \cap {} = {} /\ pos' \in 0..Len(input)
  BY <1>3, <1>5, <1>15
<1>17. Here.at \in {Destination.at} \cup Waiting(Advanced) \cup {}
  BY <1>8, <1>10
<1>18. Ready(F, Advanced, base, mem, retained, spare, {})
  BY <1>7
<1> HIDE DEF mine, spare
<1>19. Entering(Advanced, base, mem, spare, {}, Here, block, then, mine, {})
  BY <1>12, <1>14, <1>16, <1>17, <1>18 DEF Entering, F
<1> QED
  BY <1>2, <1>5, <1>16, <1>19, EnterOn

LEMMA RestoreBaseOn == ASSUME IInv, RestoreBase PROVE IInv'
<1>1. AtEnd({"restore"})
  BY DEF RestoreBase
<1>2. result = Pending /\ Top.then.c = "restore" /\ pos \in 0..Len(input)
  BY <1>1, AtEndReady
<1>3. PICK before, mine, owed : Ended(Layouts[call], before, mine, owed)
  BY <1>1, AtEndReady
<1>4. Top.then.base = before /\ Scratches(Top.then) = {}
  <2>1. Waits(Layouts[call], Top, base, before, mem, owed)
    BY <1>3 DEF Ended, FrameOK
  <2>2. NoneC.c = "none"
    BY DEF NoneC
  <2>3. RestoreOK(Top.then, base, before)
    BY <1>2, <2>1, <2>2 DEF Waits
  <2> QED
    BY <1>2, <2>3 DEF RestoreOK, Scratches
<1>5. Ready(Layouts[call], Popped, before, mem, retained, owed, {})
  BY <1>3, <1>4 DEF Ended
<1>6. Restore(Popped, mem, before) /\ pos' \in 0..Len(input)
  BY <1>2, <1>4 DEF RestoreBase
<1> QED
  BY <1>2, <1>5, <1>6, RestoreOn

LEMMA ReturnOn == ASSUME IInv, Return PROVE IInv'
<1>1. AtEnd({"none"})
  BY DEF Return
<1>2. result = Pending /\ Top.then.c = "none" /\ pos \in 0..Len(input)
  BY <1>1, AtEndReady
<1>3. PICK before, mine, owed : Ended(Layouts[call], before, mine, owed)
  BY <1>1, AtEndReady
<1>4. base = before /\ Scratches(Top.then) = {}
  <2>1. Waits(Layouts[call], Top, base, before, mem, owed)
    BY <1>3 DEF Ended, FrameOK
  <2> QED
    BY <1>2, <2>1 DEF Waits, Scratches
<1>5. Ready(Layouts[call], Popped, before, mem, retained, owed, {})
  BY <1>3, <1>4 DEF Ended
<1>6. Restore(Popped, mem, before) /\ pos' \in 0..Len(input)
  BY <1>2, <1>4 DEF Return
<1> QED
  BY <1>2, <1>5, <1>6, RestoreOn

LEMMA EnumOn == ASSUME IInv, Enum PROVE IInv'
<1> DEFINE F == Layouts[call]
           x == ReadCell(input, pos)
           at == {i \in DOMAIN Op.variants : Op.variants[i].wire = x.v}
           first == CHOOSE i \in at : \A j \in at : i <= j
           body == Op.variants[first].payload
           content == [h |-> "scalar", v |-> Op.variants[first].selector]
           m == Put(mem, Here, content)
<1>1. AtOp({"enum"}) /\ Op.op = "enum" /\ Op.op # "call" /\ ~FillsNothing(Op)
  BY OpIsNot DEF Enum, AtOp, Op
<1>2. result = Pending
  BY <1>1, AtOpReady
<1>3. LaidOut(F, lowered.blocks) /\ pos \in 0..Len(input) /\ input \in Seq(Nat)
  BY <1>2, GoesOn
<1>4. \A why : Fail(why) => IInv'
  BY <1>2, FailsAlways
<1>5. CASE x.ok /\ at # {} /\ Enter(Advanced, m, base, body, NoneC) /\ pos' = x.p
  <2>1. PICK fills, size : AtPlace(F, Advanced, base, mem, retained, lowered.blocks, Op, fills, size)
    BY <1>1, AtOpReady
  <2>2. /\ Unset(mem, {Here}) /\ Here.at \in Ours(Advanced, retained) /\ Here = Slot(base, Op.offset)
        /\ Op.offset \in fills /\ Here \in Span(base, fills) /\ IsPlace(base)
        /\ Owned(mem, Ours(Advanced, retained), KeptOf(retained))
    BY <1>1, <2>1, HereReady DEF Ours
  <2>3. first \in DOMAIN Op.variants
    <3>1. DOMAIN Op.variants \subseteq Nat
      BY <1>1, <2>1 DEF AtPlace, OpLaidOut
    <3>2. PICK i \in at : \A j \in at : i <= j
      <4>1. at \in SUBSET Nat
        BY <3>1
      <4> HIDE DEF at
      <4> QED
        BY <1>5, <4>1, LeastOf
    <3> QED
      BY <3>2
  <2>4. Fits(F, body, size) /\ Filled(F, body) \subseteq fills \ {Op.offset}
    BY <1>1, <2>1, <2>3 DEF AtPlace, OpLaidOut
  <2>5. x.p \in 0..Len(input)
    BY <1>3, <1>5, ReadFacts
  <2>6. IsContent(content) /\ Owns(content) = {} /\ content.h # "ref"
    BY PlainContents
  <2> HIDE DEF F, content, body, x
  <2>7. Owned(m, Ours(Advanced, retained), KeptOf(retained)) /\ Keeps(mem, m, {Here})
    BY <2>2, <2>6, PlainOwned
  <2> HIDE DEF m
  <2>8. /\ Ready(F, Advanced, base, mem, retained, Span(base, fills), {}) /\ fills \subseteq Nat
        /\ Room(mem, base, size)
    BY <2>1 DEF AtPlace
  <2> DEFINE spare == Span(base, fills) \ {Here}
             mine == Span(base, Filled(F, body))
  <2>9. Ready(F, Advanced, base, m, retained, spare, {})
    <3>1. Ours(Advanced, retained) \cup {} = Ours(Advanced, retained) /\ {} \in SUBSET {}
      OBVIOUS
    <3> QED
      BY <2>2, <2>7, <2>8, <3>1, ChangeReady
  <2>10. IsMemory(m) /\ base.at \in {Destination.at} \cup Waiting(Advanced) /\ Room(m, base, size)
    BY <2>7, <2>8, <2>9, PlaceReady, KeepsHolds
  <2>11. Waits(F, Frame(body, NoneC), base, base, m, {})
    BY DEF Waits, Frame
  <2>12. FrameOK(F, Frame(body, NoneC), base, base, m, mine, {})
    BY <1>3, <2>4, <2>10, <2>11, NewFrame DEF F
  <2>13. mine \subseteq spare
    <3>1. Span(base, Filled(F, body)) \cap Span(base, {Op.offset}) = {}
      BY <2>2, <2>4, <2>8, SpansApart
    <3>2. Here \in Span(base, {Op.offset})
      BY <2>2 DEF Span
    <3>3. mine \subseteq Span(base, fills)
      BY <2>4 DEF Span
    <3> QED
      BY <3>1, <3>2, <3>3
  <2>14. Scratches(NoneC) = {}
    BY DEF Scratches, NoneC
  <2>15. mine \in SUBSET spare /\ {} \in SUBSET spare /\ mine \cap {} = {} /\ pos' \in 0..Len(input)
         /\ base.at \in {Destination.at} \cup Waiting(Advanced) \cup {}
    BY <1>5, <2>5, <2>10, <2>13
  <2> HIDE DEF spare, mine
  <2>16. Entering(Advanced, base, m, spare, {}, base, body, NoneC, mine, {})
    BY <2>9, <2>12, <2>14, <2>15 DEF Entering, F
  <2> QED
    BY <1>2, <1>5, <2>15, <2>16, EnterOn
<1> QED
  BY <1>4, <1>5, SMTT(30) DEF Enum

-----------------------------------------------------------------------------
(* Sequences: the elements of a buffer.                                     *)
LEMMA Strides ==
  ASSUME NEW s \in Nat, NEW k \in Nat, NEW c \in Nat, k < c
  PROVE  /\ k * s \in Nat /\ c * s \in Nat /\ (k + 1) * s = k * s + s /\ k * s + s <= c * s
         /\ (k + 1) - 1 = k
<1>1. PICK d \in Nat : c = (k + 1) + d
  <2>1. c - (k + 1) \in Nat /\ c = (k + 1) + (c - (k + 1))
    OBVIOUS
  <2> QED
    BY <2>1
<1>2. k * s \in Nat /\ c * s \in Nat /\ d * s \in Nat /\ (k + 1) * s = k * s + s
  OBVIOUS
<1>3. c * s = (k + 1) * s + d * s
  BY <1>1
<1> QED
  BY <1>2, <1>3

Cells(node, low, high) == {[at |-> node, slot |-> s] : s \in low..high - 1}

SeqElementOK(F, op, m, node, count, k, before, list) ==
  LET place == [at |-> node, slot |-> k * op.stride]
      then == [c |-> "seq", op |-> op, base |-> before, scratch |-> node,
               next |-> k + 1, count |-> count, list |-> list]
      mine == Span(place, Filled(F, op.body))
      rest == Cells(node, (k + 1) * op.stride, count * op.stride)
  IN /\ FrameOK(F, Frame(op.body, then), place, before, m, mine, {list} \cup rest)
     /\ mine \subseteq Cells(node, k * op.stride, count * op.stride)
     /\ rest \subseteq Cells(node, k * op.stride, count * op.stride)
     /\ mine \cap ({list} \cup rest) = {} /\ Scratches(then) = {node}
LEMMA SeqElement ==
  ASSUME NEW F, NEW blocks, LaidOut(F, blocks), NEW op, Fits(F, op.body, op.stride),
         NEW m, IsMemory(m), NEW node \in DOMAIN m, node \in Nat,
         NEW count \in Nat, Extent(m[node]) = count * op.stride, NEW k \in Nat, k < count,
         NEW before, NEW list, list.at = before.at, list.at # node
  PROVE  SeqElementOK(F, op, m, node, count, k, before, list)
<1> DEFINE low == k * op.stride
           high == count * op.stride
           place == [at |-> node, slot |-> low]
           then == [c |-> "seq", op |-> op, base |-> before, scratch |-> node,
                    next |-> k + 1, count |-> count, list |-> list]
           mine == Span(place, Filled(F, op.body))
           owed == {list} \cup Cells(node, (k + 1) * op.stride, high)
<1>1. op.stride \in Nat /\ op.body \in DOMAIN F /\ F[op.body].size <= op.stride
  BY DEF Fits
<1>2. low \in Nat /\ high \in Nat /\ (k + 1) * op.stride = low + op.stride /\ low + op.stride <= high
  BY <1>1, Strides
<1>3. /\ then.c = "seq" /\ then.op = op /\ then.base = before /\ then.scratch = node
      /\ then.next = k + 1 /\ then.count = count /\ then.list = list
      /\ then = [c |-> "seq", op |-> then.op, base |-> before, scratch |-> node,
                 next |-> then.next, count |-> then.count, list |-> then.list]
  OBVIOUS
<1>4. place.at = node /\ place.slot = low /\ IsPlace(place)
  BY <1>2 DEF IsPlace
<1>5. (then.next - 1) * op.stride = low /\ then.next \in Nat \ {0} /\ then.next <= then.count
  BY <1>3
<1> HIDE DEF then, place
<1>6. Room(m, place, op.stride)
  BY <1>2, <1>4 DEF Room, low, high
<1>7. F[op.body].size \in Nat
  BY <1>1, FillsOf
<1>8. SeqOK(F, Frame(op.body, then), then, place, before, m, owed)
  <2>1. {[at |-> place.at, slot |-> s] : s \in then.next * then.op.stride..then.count * then.op.stride - 1} \subseteq owed
    BY <1>3, <1>4 DEF Cells
  <2>2. Frame(op.body, then).prog = op.body
    BY DEF Frame
  <2> HIDE DEF owed
  <2>3. then.list \in owed
    BY <1>3 DEF owed
  <2> QED
    BY <1>3, <1>4, <1>5, <2>1, <2>2, <2>3 DEF SeqOK
<1>9. Waits(F, Frame(op.body, then), place, before, m, owed)
  <2>1. Frame(op.body, then).then = then
    BY DEF Frame
  <2> HIDE DEF owed
  <2> QED
    BY <1>3, <1>8, <2>1 DEF Waits
<1>10. /\ FrameOK(F, Frame(op.body, then), place, before, m, mine, owed)
       /\ Filled(F, op.body) \subseteq 0..F[op.body].size - 1
  <2> HIDE DEF owed
  <2> QED
    BY <1>6, <1>9, NewFrame
<1>11. \A p \in mine : \E s \in 0..op.stride - 1 : p = [at |-> node, slot |-> low + s]
  <2> SUFFICES ASSUME NEW s \in Filled(F, op.body)
               PROVE  s \in 0..op.stride - 1 /\ Slot(place, s) = [at |-> node, slot |-> low + s]
    BY DEF Span
  <2>1. s \in 0..F[op.body].size - 1
    BY <1>10
  <2>2. s \in 0..op.stride - 1
    BY <1>1, <1>7, <2>1
  <2> QED
    BY <1>4, <2>2 DEF Slot
<1> HIDE DEF mine
<1>12. mine \subseteq Cells(node, low, high)
  <2> SUFFICES ASSUME NEW s \in 0..op.stride - 1 PROVE low + s \in low..high - 1
    BY <1>11 DEF Cells
  <2> HIDE DEF low, high
  <2> QED
    BY <1>1, <1>2
<1>13. mine \cap owed = {}
  <2> SUFFICES ASSUME NEW p \in mine PROVE p \notin owed
    OBVIOUS
  <2>1. PICK s \in 0..op.stride - 1 : p = [at |-> node, slot |-> low + s]
    BY <1>11
  <2>2. p.at = node /\ p.slot = low + s
    BY <2>1
  <2>3. ASSUME NEW r \in (k + 1) * op.stride..high - 1, p = [at |-> node, slot |-> r] PROVE FALSE
    <3>1. p.slot = r
      BY <2>3
    <3> HIDE DEF low, high
    <3> QED
      BY <1>1, <1>2, <2>2, <2>3, <3>1
  <2> QED
    BY <2>2, <2>3 DEF Cells
<1>14. Cells(node, (k + 1) * op.stride, high) \subseteq Cells(node, low, high)
  <2> HIDE DEF low, high
  <2>1. (k + 1) * op.stride..high - 1 \subseteq low..high - 1
    BY <1>1, <1>2
  <2> QED
    BY <2>1 DEF Cells
<1>15. Scratches(then) = {node}
  BY <1>3 DEF Scratches
<1> QED
  BY <1>10, <1>12, <1>13, <1>14, <1>15 DEF SeqElementOK, then, place, mine

LEMMA SequenceOn == ASSUME IInv, Sequence PROVE IInv'
<1> DEFINE F == Layouts[call]
           n == ReadLen(Op.minWire, input, pos)
           new == Len(mem) + 1
           size == n.v * Op.stride
           m == Append(mem, Allocate(size))
           then == [c |-> "seq", op |-> Op, base |-> base, scratch |-> Latest(m),
                    next |-> 1, count |-> n.v, list |-> Here]
<1>1. AtOp({"seq"}) /\ Op.op = "seq" /\ Op.op # "call" /\ ~FillsNothing(Op)
  BY OpIsNot DEF Sequence, AtOp, Op
<1>2. result = Pending
  BY <1>1, AtOpReady
<1>3. LaidOut(F, lowered.blocks) /\ pos \in 0..Len(input) /\ input \in Seq(Nat)
  BY <1>2, GoesOn
<1>4. \A why : Fail(why) => IInv'
  BY <1>2, FailsAlways
<1>5. CASE /\ n.ok
           /\ IF n.v = 0 THEN Continue(ListAdopts(m, Here, Latest(m), 0, Op.stride), n.p)
              ELSE Enter(Advanced, m, At(Latest(m)), Op.body, then) /\ pos' = n.p
  <2>1. PICK fills, room : AtPlace(F, Advanced, base, mem, retained, lowered.blocks, Op, fills, room)
    BY <1>1, AtOpReady
  <2>2. /\ Unset(mem, {Here}) /\ Here.at \in Ours(Advanced, retained) /\ Here.at = base.at
        /\ Here \in Span(base, fills) /\ base.at \in {Destination.at} \cup Waiting(Advanced)
        /\ base.at \in DOMAIN mem
    BY <1>1, <2>1, HereReady DEF Ours
  <2>3. Fits(F, Op.body, Op.stride) /\ Op.stride \in Nat
    BY <1>1, <2>1 DEF AtPlace, OpLaidOut, Fits
  <2>4. n.p \in 0..Len(input) /\ n.v \in Nat
    BY <1>3, <1>5, ReadFacts
  <2>5. size \in Nat
    BY <2>3, <2>4
  <2> DEFINE spare == Span(base, fills) \cup Span(At(new), 0..size - 1)
  <2>6. /\ Ready(F, Advanced, base, m, retained, spare, {new})
        /\ Room(m, At(new), size) /\ Extent(m[new]) = size /\ Len(m) = new
        /\ new \notin DOMAIN mem /\ new \in Nat /\ Keeps(mem, m, {})
    <3>1. Ready(F, Advanced, base, mem, retained, Span(base, fills), {})
      BY <2>1 DEF AtPlace
    <3>2. /\ Ready(F, Advanced, base, m, retained, spare, {} \cup {new})
          /\ Room(m, At(new), size) /\ Extent(m[new]) = size /\ Len(m) = new
          /\ new \notin DOMAIN mem /\ new \in Nat /\ Keeps(mem, m, {})
      <4> HIDE DEF F, size
      <4>1. Allocated(F, Advanced, base, mem, retained, Span(base, fills), {}, size)
        BY <2>5, <3>1, AllocateReady
      <4> QED
        BY <4>1 DEF Allocated
    <3>3. {} \cup {new} = {new}
      OBVIOUS
    <3> HIDE DEF F, m, new, size, spare
    <3> QED
      BY <3>2, <3>3
  <2> HIDE DEF F, m, n, new
  <2>7. Latest(m) = new
    BY <2>6 DEF Latest
  <2>8. Here.at # new /\ Here \in spare
    BY <2>2, <2>6
  <2>9. CASE n.v = 0
    <3> DEFINE u == ListAdopts(m, Here, new, 0, Op.stride)
               held == Ours(Advanced, retained) \cup {new}
    <3>1. Owned(m, held, KeptOf(retained)) /\ {new} \cap Ours(Advanced, retained) = {}
      BY <2>6 DEF Ready
    <3>2. Unset(m, {Here})
      BY <2>2, <2>6, KeepsUnset
    <3>3. Owned(u, held \ {new}, KeptOf(retained)) /\ Keeps(m, u, {Here})
      <4>1. Here.at \in held /\ new \in held
        BY <2>2
      <4> HIDE DEF held
      <4> QED
        BY <2>8, <3>1, <3>2, <4>1, ListOwned
    <3>4. held \ {new} = Ours(Advanced, retained) \cup {}
      BY <3>1
    <3> HIDE DEF u, spare, held
    <3>5. Ready(F, Advanced, base, u, retained, spare \ {Here}, {})
      BY <2>6, <2>8, <3>3, <3>4, ChangeReady
    <3>6. Ready(F, Advanced, base, u, retained, {}, {})
      BY <3>5, ForgetReady
    <3>7. Continue(u, n.p)
      BY <1>5, <2>7, <2>9 DEF u, n, m
    <3> QED
      BY <1>2, <2>4, <3>6, <3>7, StillOn DEF Continue, F
  <2>10. CASE n.v # 0
    <3> DEFINE place == [at |-> new, slot |-> 0 * Op.stride]
               given0 == [c |-> "seq", op |-> Op, base |-> base, scratch |-> new,
                          next |-> 0 + 1, count |-> n.v, list |-> Here]
               mine == Span(place, Filled(F, Op.body))
               rest == Cells(new, (0 + 1) * Op.stride, n.v * Op.stride)
               owed == {Here} \cup rest
    <3>1. IsMemory(m) /\ new \in DOMAIN m
      BY <2>6, PlaceReady DEF Room, At
    <3>2. /\ FrameOK(F, Frame(Op.body, given0), place, base, m, mine, owed)
          /\ mine \subseteq Cells(new, 0 * Op.stride, n.v * Op.stride)
          /\ rest \subseteq Cells(new, 0 * Op.stride, n.v * Op.stride)
          /\ mine \cap owed = {} /\ Scratches(given0) = {new}
      <4>1. 0 \in Nat /\ 0 < n.v
        BY <2>4, <2>10
      <4>2. LaidOut(F, lowered.blocks)
        BY <1>3 DEF F
      <4>3. Extent(m[new]) = n.v * Op.stride /\ new \in Nat
        BY <2>6
      <4> HIDE DEF F
      <4>4. SeqElementOK(F, Op, m, new, n.v, 0, base, Here)
        BY <2>2, <2>3, <2>4, <2>8, <3>1, <4>1, <4>2, <4>3, SeqElement
      <4> QED
        BY <4>4 DEF SeqElementOK
    <3>3. Cells(new, 0 * Op.stride, n.v * Op.stride) \subseteq spare
      <4> SUFFICES ASSUME NEW s \in 0..size - 1 PROVE [at |-> new, slot |-> s] \in Span(At(new), 0..size - 1)
        BY <2>3 DEF Cells
      <4>1. Slot(At(new), s) = [at |-> new, slot |-> s]
        BY DEF Slot, At
      <4> QED
        BY <4>1 DEF Span
    <3>4. place = At(new) /\ given0 = then
      BY <2>3, <2>7 DEF At
    <3> HIDE DEF given0, place, mine, rest, spare, then
    <3>5. mine \in SUBSET spare /\ owed \in SUBSET spare
      BY <2>8, <3>2, <3>3
    <3>6. Enter(Advanced, m, place, Op.body, given0) /\ pos' \in 0..Len(input)
      BY <1>5, <2>4, <2>7, <2>10, <3>4 DEF n, m
    <3>7. place.at \in {Destination.at} \cup Waiting(Advanced) \cup {new}
      BY <3>4 DEF At
    <3> HIDE DEF owed
    <3>8. Entering(Advanced, base, m, spare, {new}, place, Op.body, given0, mine, owed)
      BY <2>6, <3>2, <3>5, <3>7 DEF Entering, F
    <3> QED
      BY <1>2, <3>6, <3>8, EnterOn
  <2> QED
    BY <2>9, <2>10
<1> QED
  BY <1>4, <1>5 DEF Sequence

LEMMA AfterSequenceOn == ASSUME IInv, AfterSequence PROVE IInv'
<1> DEFINE F == Layouts[call]
           t == Top.then
           u == ListAdopts(mem, t.list, t.scratch, t.count, t.op.stride)
           place == [at |-> t.scratch, slot |-> t.next * t.op.stride]
<1>1. AtEnd({"seq"})
  BY DEF AfterSequence
<1>2. result = Pending /\ t.c = "seq" /\ pos \in 0..Len(input) /\ LaidOut(F, lowered.blocks)
  BY <1>1, AtEndReady
<1>3. PICK before, mine, owed : Ended(F, before, mine, owed)
  BY <1>1, AtEndReady
<1>4. pos' = pos /\ IF t.next = t.count THEN Restore(Popped, u, t.base)
                    ELSE Enter(Popped, mem, place, t.op.body, [t EXCEPT !.next = @ + 1])
  BY DEF AfterSequence
<1> HIDE DEF F, t
<1>5. SeqOK(F, Top, t, base, before, mem, owed)
  <2>1. Waits(F, Top, base, before, mem, owed)
    BY <1>3 DEF Ended, FrameOK
  <2>2. NoneC.c = "none"
    BY DEF NoneC
  <2> QED
    BY <1>2, <2>1, <2>2 DEF Waits, t
<1>6. /\ t = [c |-> "seq", op |-> t.op, base |-> before, scratch |-> base.at,
              next |-> t.next, count |-> t.count, list |-> t.list]
      /\ t.next \in Nat \ {0} /\ t.count \in Nat /\ t.next <= t.count
      /\ Fits(F, t.op.body, t.op.stride) /\ Extent(mem[base.at]) = t.count * t.op.stride
      /\ t.list.at = before.at /\ t.list \in owed
      /\ Cells(base.at, t.next * t.op.stride, t.count * t.op.stride) \subseteq owed
  BY <1>5 DEF SeqOK, Cells
<1>7. t.base = before /\ t.scratch = base.at /\ Scratches(t) = {base.at}
  <2>1. t.base = before /\ t.scratch = base.at
    BY <1>6
  <2> QED
    BY <1>2, <2>1 DEF Scratches
<1>8. Ready(F, Popped, before, mem, retained, owed, {base.at})
  BY <1>3, <1>7 DEF Ended, t
<1>9. /\ IsMemory(mem) /\ base.at \in DOMAIN mem /\ before.at \in {Destination.at} \cup Waiting(Popped)
  <2>1. Room(mem, base, F[Top.prog].size)
    BY <1>3 DEF Ended, FrameOK
  <2> QED
    BY <1>8, <2>1, PlaceReady DEF Room
<1>10. base.at \in Nat /\ before.at # base.at /\ before.at \in Ours(Popped, retained)
  <2>1. base.at \in Nat
    BY <1>9, MemoryDomain
  <2>2. {base.at} \cap Ours(Popped, retained) = {}
    BY <1>8 DEF Ready
  <2> QED
    BY <1>9, <2>1, <2>2 DEF Ours
<1>11. CASE t.next = t.count
  <2> DEFINE held == Ours(Popped, retained) \cup {base.at}
  <2>1. Unset(mem, {t.list})
    BY <1>6, <1>8 DEF Ready, Spare, Unset
  <2>2. Owned(mem, held, KeptOf(retained)) /\ {base.at} \cap Ours(Popped, retained) = {}
    BY <1>8 DEF Ready
  <2>3. t.list.at \in held /\ t.scratch \in held /\ t.scratch # t.list.at
    BY <1>6, <1>7, <1>10
  <2>4. Owned(u, held \ {t.scratch}, KeptOf(retained)) /\ Keeps(mem, u, {t.list})
    <3> HIDE DEF held
    <3> QED
      BY <2>1, <2>2, <2>3, ListOwned
  <2>5. held \ {t.scratch} = Ours(Popped, retained) \cup {}
    BY <1>7, <2>2
  <2> HIDE DEF u, held
  <2>6. Ready(F, Popped, before, u, retained, owed \ {t.list}, {})
    BY <1>6, <1>8, <2>4, <2>5, ChangeReady
  <2>7. Restore(Popped, u, before) /\ pos' \in 0..Len(input)
    BY <1>2, <1>4, <1>7, <1>11
  <2> QED
    BY <1>2, <2>6, <2>7, RestoreOn DEF F
<1>12. CASE t.next # t.count
  <2> DEFINE where == [at |-> base.at, slot |-> t.next * t.op.stride]
             then == [c |-> "seq", op |-> t.op, base |-> before, scratch |-> base.at,
                      next |-> t.next + 1, count |-> t.count, list |-> t.list]
             fills == Span(where, Filled(F, t.op.body))
             rest == Cells(base.at, (t.next + 1) * t.op.stride, t.count * t.op.stride)
             owes == {t.list} \cup rest
  <2>1. t.next \in Nat /\ t.next < t.count
    BY <1>6, <1>12
  <2>2. SeqElementOK(F, t.op, mem, base.at, t.count, t.next, before, t.list)
    BY <1>2, <1>6, <1>9, <1>10, <2>1, SeqElement DEF F
  <2>3. /\ FrameOK(F, Frame(t.op.body, then), where, before, mem, fills, owes)
        /\ fills \subseteq Cells(base.at, t.next * t.op.stride, t.count * t.op.stride)
        /\ rest \subseteq Cells(base.at, t.next * t.op.stride, t.count * t.op.stride)
        /\ fills \cap owes = {} /\ Scratches(then) = {base.at}
    BY <2>2 DEF SeqElementOK
  <2>4. [t EXCEPT !.next = @ + 1] = then
    <3>1. [t EXCEPT !.next = @ + 1] = [t EXCEPT !.next = t.next + 1]
      OBVIOUS
    <3> QED
      BY <1>6, <3>1
  <2>5. Enter(Popped, mem, where, t.op.body, then) /\ pos' \in 0..Len(input)
    BY <1>2, <1>4, <1>7, <1>12, <2>4
  <2> HIDE DEF then, fills, rest
  <2>6. fills \in SUBSET owed /\ owes \in SUBSET owed /\ where.at = base.at
    BY <1>6, <2>3
  <2> HIDE DEF where, owes
  <2>7. Entering(Popped, before, mem, owed, {base.at}, where, t.op.body, then, fills, owes)
    BY <1>8, <2>3, <2>6 DEF Entering, F
  <2> QED
    BY <1>2, <2>5, <2>7, EnterOn
<1> QED
  BY <1>11, <1>12

-----------------------------------------------------------------------------
(* Sets.                                                                    *)
SetGoes(F, fs, at, m, spare, then) ==
  /\ Ready(F, fs, at, m, retained, spare, {})
  /\ then = [c |-> "set", op |-> then.op, base |-> at, scratch |-> then.scratch, set |-> then.set,
             remaining |-> then.remaining]
  /\ then.remaining \in Nat /\ Fits(F, then.op.body, then.op.size)
  /\ then.set.at = at.at /\ Holds(m, then.set) /\ HandleAt(m, then.set).h = "set"
LEMMA NextSetOn ==
  ASSUME IInv, result = Pending, NEW fs, NEW m, NEW then, NextSetElement(fs, m, then), pos' \in 0..Len(input),
         NEW at, NEW spare, SetGoes(Layouts[call], fs, at, m, spare, then)
  PROVE  IInv'
<1> DEFINE F == Layouts[call]
           new == Len(m) + 1
           n == Append(m, Allocate(then.op.size))
<1>0. LaidOut(F, lowered.blocks)
  BY GoesOn
<1>1. /\ IF then.remaining = 0 THEN Restore(fs, m, then.base)
         ELSE Enter(fs, n, At(new), then.op.body, [then EXCEPT !.remaining = @ - 1, !.scratch = new])
  BY DEF NextSetElement
<1> HIDE DEF F
<1>2. /\ Ready(F, fs, at, m, retained, spare, {})
      /\ then = [c |-> "set", op |-> then.op, base |-> at, scratch |-> then.scratch, set |-> then.set,
                 remaining |-> then.remaining]
      /\ then.remaining \in Nat /\ Fits(F, then.op.body, then.op.size)
      /\ then.set.at = at.at /\ Holds(m, then.set) /\ HandleAt(m, then.set).h = "set"
  BY DEF SetGoes, F
<1>3. then.base = at
  BY <1>2
<1>4. CASE then.remaining = 0
  BY <1>1, <1>2, <1>3, <1>4, RestoreOn DEF F
<1>5. CASE then.remaining # 0
  <2> DEFINE size == then.op.size
             more == spare \cup Span(At(new), 0..size - 1)
             next == [c |-> "set", op |-> then.op, base |-> at, scratch |-> new, set |-> then.set,
                      remaining |-> then.remaining - 1]
             mine == Span(At(new), Filled(F, then.op.body))
  <2>1. Allocated(F, fs, at, m, retained, spare, {}, size)
    <3>1. size \in Nat
      BY <1>2 DEF Fits
    <3> HIDE DEF size
    <3> QED
      BY <1>2, <3>1, AllocateReady
  <2>2. /\ Ready(F, fs, at, n, retained, more, {new}) /\ Room(n, At(new), size) /\ Keeps(m, n, {})
    <3>1. Ready(F, fs, at, n, retained, more, {} \cup {new}) /\ Room(n, At(new), size) /\ Keeps(m, n, {})
      BY <2>1 DEF Allocated
    <3>2. {} \cup {new} = {new}
      OBVIOUS
    <3> HIDE DEF n, more, new
    <3> QED
      BY <3>1, <3>2
  <2>3. [then EXCEPT !.remaining = @ - 1, !.scratch = new] = next
    <3> DEFINE one == [then EXCEPT !.remaining = @ - 1]
    <3>1. one = [c |-> "set", op |-> then.op, base |-> at, scratch |-> then.scratch, set |-> then.set,
                 remaining |-> then.remaining - 1]
      BY <1>2
    <3>2. [then EXCEPT !.remaining = @ - 1, !.scratch = new] = [one EXCEPT !.scratch = new]
      BY <1>2
    <3> HIDE DEF new, one
    <3> QED
      BY <3>1, <3>2
  <2>4. /\ next.c = "set" /\ next.op = then.op /\ next.base = at /\ next.scratch = new
        /\ next.set = then.set /\ next.remaining = then.remaining - 1
        /\ next = [c |-> "set", op |-> next.op, base |-> at, scratch |-> new, set |-> next.set, remaining |-> next.remaining]
    OBVIOUS
  <2>5. At(new).at = new
    BY DEF At
  <2>6. then.remaining - 1 \in Nat
    BY <1>2, <1>5
  <2> HIDE DEF next, n, new
  <2>7. IsMemory(n)
    BY <2>2, PlaceReady
  <2>8. Holds(n, then.set) /\ HandleAt(n, then.set).h = "set"
    BY <1>2, <2>2, KeepsHolds
  <2>9. Waits(F, Frame(then.op.body, next), At(new), at, n, {})
    <3>1. SetOK(F, next, At(new), at, n)
      BY <1>2, <2>4, <2>5, <2>6, <2>8 DEF SetOK
    <3>2. Frame(then.op.body, next).then = next
      BY DEF Frame
    <3> QED
      BY <2>4, <3>1, <3>2 DEF Waits
  <2>10. FrameOK(F, Frame(then.op.body, next), At(new), at, n, mine, {}) /\ mine \subseteq Span(At(new), 0..size - 1)
    BY <1>0, <1>2, <2>2, <2>7, <2>9, NewFrame DEF F
  <2>11. Scratches(next) = {new}
    BY <2>4 DEF Scratches
  <2>12. mine \in SUBSET more /\ {} \in SUBSET more /\ mine \cap {} = {} /\ At(new).at \in {Destination.at} \cup Waiting(fs) \cup {new}
    BY <2>5, <2>10
  <2> HIDE DEF mine, more
  <2>13. Entering(fs, at, n, more, {new}, At(new), then.op.body, next, mine, {})
    BY <2>2, <2>10, <2>11, <2>12 DEF Entering, F
  <2>14. Enter(fs, n, At(new), then.op.body, next)
    BY <1>1, <1>5, <2>3
  <2> QED
    BY <2>13, <2>14, EnterOn
<1> QED
  BY <1>4, <1>5

LEMMA SetOn == ASSUME IInv, Set PROVE IInv'
<1> DEFINE F == Layouts[call]
           n == ReadLen(Op.minWire, input, pos)
           content == [h |-> "set", of |-> <<>>]
           m == Put(mem, Here, content)
           then == [c |-> "set", op |-> Op, base |-> base, scratch |-> 0, set |-> Here, remaining |-> n.v]
<1>1. AtOp({"set"}) /\ Op.op = "set" /\ Op.op # "call" /\ ~FillsNothing(Op)
  BY OpIsNot DEF Set, AtOp, Op
<1>2. result = Pending
  BY <1>1, AtOpReady
<1>3. pos \in 0..Len(input) /\ input \in Seq(Nat)
  BY <1>2, GoesOn
<1>4. \A why : Fail(why) => IInv'
  BY <1>2, FailsAlways
<1>5. CASE n.ok /\ NextSetElement(Advanced, SetInit(mem, Here), then) /\ pos' = n.p
  <2>1. PICK fills, room : AtPlace(F, Advanced, base, mem, retained, lowered.blocks, Op, fills, room)
    BY <1>1, AtOpReady
  <2>2. /\ Unset(mem, {Here}) /\ Here.at \in Ours(Advanced, retained) /\ Here.at = base.at
        /\ Here \in Span(base, fills) /\ IsMemory(mem)
        /\ Owned(mem, Ours(Advanced, retained), KeptOf(retained))
    BY <1>1, <2>1, HereReady DEF Ours
  <2>3. Fits(F, Op.body, Op.size)
    BY <1>1, <2>1 DEF AtPlace, OpLaidOut
  <2>4. n.p \in 0..Len(input) /\ n.v \in Nat
    BY <1>3, <1>5, ReadFacts
  <2>5. IsContent(content) /\ Owns(content) = {} /\ content.h # "ref" /\ content.h = "set"
    BY PlainContents
  <2>6. SetInit(mem, Here) = m
    BY DEF SetInit
  <2> HIDE DEF F, content, n
  <2>7. Owned(m, Ours(Advanced, retained), KeptOf(retained)) /\ Keeps(mem, m, {Here})
    BY <2>2, <2>5, PlainOwned
  <2>8. Holds(m, Here) /\ HandleAt(m, Here) = content
    <3>1. Holds(mem, Here)
      BY <2>2 DEF Unset
    <3>2. Holds(m, Here) /\ m[Here.at].slots[Here.slot] = content
      BY <2>2, <2>5, <3>1, PutFacts DEF Holds
    <3> QED
      BY <3>2 DEF HandleAt
  <2> HIDE DEF m
  <2>9. Ready(F, Advanced, base, m, retained, Span(base, fills) \ {Here}, {})
    <3>1. Ours(Advanced, retained) \cup {} = Ours(Advanced, retained) /\ {} \in SUBSET {}
      OBVIOUS
    <3>2. Ready(F, Advanced, base, mem, retained, Span(base, fills), {})
      BY <2>1 DEF AtPlace
    <3> QED
      BY <2>2, <2>7, <3>1, <3>2, ChangeReady
  <2>10. /\ then = [c |-> "set", op |-> then.op, base |-> base, scratch |-> then.scratch, set |-> then.set,
                    remaining |-> then.remaining]
         /\ then.op = Op /\ then.set = Here /\ then.remaining = n.v
    OBVIOUS
  <2> HIDE DEF then
  <2>11. SetGoes(F, Advanced, base, m, Span(base, fills) \ {Here}, then)
    BY <2>2, <2>3, <2>4, <2>5, <2>8, <2>9, <2>10 DEF SetGoes
  <2>12. NextSetElement(Advanced, m, then) /\ pos' \in 0..Len(input)
    BY <1>5, <2>4, <2>6
  <2> QED
    BY <1>2, <2>11, <2>12, NextSetOn DEF F
<1> QED
  BY <1>4, <1>5 DEF Set

LEMMA AfterSetOn == ASSUME IInv, AfterSet PROVE IInv'
<1> DEFINE F == Layouts[call]
           t == Top.then
           m == SetInsert(mem, t.set, t.scratch)
<1>1. AtEnd({"set"})
  BY DEF AfterSet
<1>2. result = Pending /\ t.c = "set" /\ pos \in 0..Len(input)
  BY <1>1, AtEndReady
<1>3. PICK before, mine, owed : Ended(F, before, mine, owed)
  BY <1>1, AtEndReady
<1>4. \/ FailFrom(m, Popped, "duplicate")
      \/ NextSetElement(Popped, m, t) /\ UNCHANGED pos
  BY DEF AfterSet
<1> HIDE DEF F, t
<1>5. SetOK(F, t, base, before, mem)
  <2>1. Waits(F, Top, base, before, mem, owed)
    BY <1>3 DEF Ended, FrameOK
  <2>2. NoneC.c = "none"
    BY DEF NoneC
  <2> QED
    BY <1>2, <2>1, <2>2 DEF Waits, t
<1>6. /\ t = [c |-> "set", op |-> t.op, base |-> before, scratch |-> base.at, set |-> t.set, remaining |-> t.remaining]
      /\ t.remaining \in Nat /\ Fits(F, t.op.body, t.op.size)
      /\ t.set.at = before.at /\ Holds(mem, t.set) /\ HandleAt(mem, t.set).h = "set"
  BY <1>5 DEF SetOK
<1>7. t.base = before /\ t.scratch = base.at /\ Scratches(t) = {base.at}
  <2>1. t.base = before /\ t.scratch = base.at
    BY <1>6
  <2> QED
    BY <1>2, <2>1 DEF Scratches
<1>8. Ready(F, Popped, before, mem, retained, owed, {base.at})
  BY <1>3, <1>7 DEF Ended, t
<1>9. before.at \in Ours(Popped, retained)
  BY <1>8, PlaceReady DEF Ours
<1> DEFINE held == Ours(Popped, retained) \cup {base.at}
<1>10. Owned(mem, held, KeptOf(retained)) /\ {base.at} \cap Ours(Popped, retained) = {}
  BY <1>8 DEF Ready
<1>11. Owned(m, held \ {t.scratch}, KeptOf(retained)) /\ Keeps(mem, m, {})
  <2>1. t.set.at \in held /\ t.scratch \in held /\ t.scratch # t.set.at
    BY <1>6, <1>7, <1>9, <1>10
  <2> HIDE DEF held
  <2> QED
    BY <1>6, <1>10, <2>1, SetInsertOwned
<1>12. held \ {t.scratch} = Ours(Popped, retained) \cup {}
  BY <1>7, <1>10
<1> HIDE DEF m, held
<1>13. Ready(F, Popped, before, m, retained, owed, {})
  <2>1. {} \in SUBSET owed /\ owed \ {} = owed /\ {} \in SUBSET {base.at}
    OBVIOUS
  <2>2. Ready(F, Popped, before, m, retained, owed \ {}, {})
    BY <1>8, <1>11, <1>12, <2>1, ChangeReady
  <2> QED
    BY <2>1, <2>2
<1>14. CASE FailFrom(m, Popped, "duplicate")
  BY <1>2, <1>13, <1>14, FailsOver DEF F
<1>15. CASE NextSetElement(Popped, m, t) /\ UNCHANGED pos
  <2>1. Holds(m, t.set) /\ HandleAt(m, t.set).h = "set"
    BY <1>6, <1>11, KeepsHolds
  <2>2. t = [c |-> "set", op |-> t.op, base |-> before, scratch |-> t.scratch, set |-> t.set, remaining |-> t.remaining]
    BY <1>6, <1>7
  <2>3. SetGoes(F, Popped, before, m, owed, t)
    BY <1>6, <1>13, <2>1, <2>2 DEF SetGoes
  <2>4. pos' \in 0..Len(input)
    BY <1>2, <1>15
  <2> QED
    BY <1>2, <1>15, <2>3, <2>4, NextSetOn DEF F
<1> QED
  BY <1>4, <1>14, <1>15

-----------------------------------------------------------------------------
(* Maps.                                                                    *)
MapGoes(F, fs, at, m, spare, then) ==
  /\ Ready(F, fs, at, m, retained, spare, {})
  /\ then = [c |-> then.c, op |-> then.op, base |-> at, scratch |-> then.scratch, value |-> then.value,
             map |-> then.map, total |-> then.total, remaining |-> then.remaining]
  /\ then.remaining \in Nat
  /\ Fits(F, then.op.key, then.op.keySize) /\ Fits(F, then.op.value, then.op.valueSize)
  /\ then.map.at = at.at /\ Holds(m, then.map) /\ HandleAt(m, then.map).h = "map"
LEMMA NextMapOn ==
  ASSUME IInv, result = Pending, NEW fs, NEW m, NEW then, NextMapEntry(fs, m, then), pos' \in 0..Len(input),
         NEW at, NEW spare, MapGoes(Layouts[call], fs, at, m, spare, then)
  PROVE  IInv'
<1> DEFINE F == Layouts[call]
           k == Len(m) + 1
           v == Len(m) + 2
           m1 == Append(m, Allocate(then.op.keySize))
           n == Append(m1, Allocate(then.op.valueSize))
           next == [c |-> "key", op |-> then.op, base |-> at, scratch |-> k, value |-> v,
                    map |-> then.map, total |-> then.total, remaining |-> then.remaining]
<1>0. LaidOut(F, lowered.blocks)
  BY GoesOn
<1>1. IF then.remaining = 0 THEN Restore(fs, m, then.base)
      ELSE Enter(fs, n, At(k), then.op.key, [then EXCEPT !.c = "key", !.scratch = k, !.value = v])
  BY DEF NextMapEntry
<1> HIDE DEF F
<1>2. /\ Ready(F, fs, at, m, retained, spare, {})
      /\ then = [c |-> then.c, op |-> then.op, base |-> at, scratch |-> then.scratch, value |-> then.value,
                 map |-> then.map, total |-> then.total, remaining |-> then.remaining]
      /\ then.remaining \in Nat
      /\ Fits(F, then.op.key, then.op.keySize) /\ Fits(F, then.op.value, then.op.valueSize)
      /\ then.map.at = at.at /\ Holds(m, then.map) /\ HandleAt(m, then.map).h = "map"
  BY DEF MapGoes, F
<1>3. then.base = at
  BY <1>2
<1>4. CASE then.remaining = 0
  BY <1>1, <1>2, <1>3, <1>4, RestoreOn DEF F
<1>5. CASE then.remaining # 0
  <2> DEFINE ks == then.op.keySize
             vs == then.op.valueSize
             keys == Span(At(k), 0..ks - 1)
             values == Span(At(v), 0..vs - 1)
             more == spare \cup keys
             mine == Span(At(k), Filled(F, then.op.key))
  <2>1. [then EXCEPT !.c = "key", !.scratch = k, !.value = v] = next
    <3> DEFINE one == [then EXCEPT !.c = "key"]
               two == [one EXCEPT !.scratch = k]
    <3>1. one = [c |-> "key", op |-> then.op, base |-> at, scratch |-> then.scratch, value |-> then.value,
                 map |-> then.map, total |-> then.total, remaining |-> then.remaining]
      BY <1>2
    <3>2. [then EXCEPT !.c = "key", !.scratch = k, !.value = v] = [two EXCEPT !.value = v]
      BY <1>2
    <3> HIDE DEF k, v, one
    <3>3. two = [c |-> "key", op |-> then.op, base |-> at, scratch |-> k, value |-> then.value,
                 map |-> then.map, total |-> then.total, remaining |-> then.remaining]
      BY <3>1
    <3> HIDE DEF two
    <3> QED
      BY <3>2, <3>3
  <2>2. /\ next.c = "key" /\ next.op = then.op /\ next.base = at /\ next.scratch = k /\ next.value = v
        /\ next.map = then.map /\ next.total = then.total /\ next.remaining = then.remaining
        /\ next = [c |-> next.c, op |-> next.op, base |-> at, scratch |-> next.scratch, value |-> next.value,
                   map |-> next.map, total |-> next.total, remaining |-> next.remaining]
    OBVIOUS
  <2>3. ks \in Nat /\ vs \in Nat
    BY <1>2 DEF Fits
  <2>4. IsMemory(m) /\ Len(m) \in Nat
    BY <1>2, PlaceReady, MemoryDomain
  <2>5. k # v /\ Len(m) + 1 + 1 = v
    BY <2>4
  <2>6. Allocated(F, fs, at, m, retained, spare, {}, ks)
    <3> HIDE DEF ks
    <3> QED
      BY <1>2, <2>3, AllocateReady
  <2>7. /\ Ready(F, fs, at, m1, retained, more, {k}) /\ Room(m1, At(k), ks) /\ Keeps(m, m1, {}) /\ Len(m1) = k
    <3>1. /\ Ready(F, fs, at, m1, retained, more, {} \cup {k}) /\ Room(m1, At(k), ks) /\ Keeps(m, m1, {})
          /\ Len(m1) = k
      BY <2>6 DEF Allocated
    <3>2. {} \cup {k} = {k}
      OBVIOUS
    <3> HIDE DEF m1, more, k
    <3> QED
      BY <3>1, <3>2
  <2> HIDE DEF next, m1, k, v
  <2>8. Allocated(F, fs, at, m1, retained, more, {k}, vs)
    <3> HIDE DEF vs, more
    <3> QED
      BY <2>3, <2>7, AllocateReady
  <2>9. Len(m1) + 1 = v
    BY <2>5, <2>7 DEF k
  <2>10. /\ Ready(F, fs, at, n, retained, more \cup values, {k} \cup {v}) /\ Room(n, At(v), vs) /\ Keeps(m1, n, {})
         /\ more \cap values = {}
    BY <2>8, <2>9 DEF Allocated
  <2>11. At(k).at = k /\ At(v).at = v
    BY DEF At
  <2> HIDE DEF n
  <2>12. IsMemory(n)
    BY <2>10, PlaceReady
  <2>13. Room(n, At(k), ks) /\ Holds(n, then.map) /\ HandleAt(n, then.map).h = "map"
    <3>1. Holds(m1, then.map) /\ HandleAt(m1, then.map).h = "map"
      BY <1>2, <2>7, KeepsHolds
    <3> QED
      BY <2>7, <2>10, <3>1, KeepsHolds
  <2>14. Waits(F, Frame(then.op.key, next), At(k), at, n, values)
    <3>1. MapOK(F, next, at, n)
      BY <1>2, <1>5, <2>2, <2>5, <2>13 DEF MapOK
    <3>2. KeyOK(F, next, At(k), at, n, values)
      BY <2>2, <2>10, <2>11, <3>1 DEF KeyOK
    <3>3. Frame(then.op.key, next).then = next
      BY DEF Frame
    <3> HIDE DEF values
    <3> QED
      BY <2>2, <3>2, <3>3 DEF Waits
  <2>15. FrameOK(F, Frame(then.op.key, next), At(k), at, n, mine, values) /\ mine \subseteq keys
    <3> HIDE DEF values
    <3> QED
      BY <1>0, <1>2, <2>12, <2>13, <2>14, NewFrame DEF F
  <2>16. Scratches(next) = {k} \cup {v}
    BY <2>2 DEF Scratches
  <2> DEFINE all == more \cup values
  <2>17. mine \in SUBSET all /\ values \in SUBSET all /\ mine \cap values = {}
         /\ At(k).at \in {Destination.at} \cup Waiting(fs) \cup ({k} \cup {v})
    <3> HIDE DEF mine, values, keys
    <3> QED
      BY <2>10, <2>11, <2>15
  <2> HIDE DEF mine, values, all
  <2>18. Ready(F, fs, at, n, retained, all, {k} \cup {v})
    BY <2>10 DEF all
  <2>19. Entering(fs, at, n, all, {k} \cup {v}, At(k), then.op.key, next, mine, values)
    BY <2>15, <2>16, <2>17, <2>18 DEF Entering, F
  <2>20. Enter(fs, n, At(k), then.op.key, next)
    BY <1>1, <1>5, <2>1
  <2> QED
    BY <2>19, <2>20, EnterOn
<1> QED
  BY <1>4, <1>5

LEMMA MapOn == ASSUME IInv, Map PROVE IInv'
<1> DEFINE F == Layouts[call]
           n == ReadLen(1, input, pos)
           content == [h |-> "map", of |-> {}]
           m == Put(mem, Here, content)
           then == [c |-> "key", op |-> Op, base |-> base, scratch |-> 0, value |-> 0,
                    map |-> Here, total |-> n.v, remaining |-> n.v]
<1>1. AtOp({"map"}) /\ Op.op = "map" /\ Op.op # "call" /\ ~FillsNothing(Op)
  BY OpIsNot DEF Map, AtOp, Op
<1>2. result = Pending
  BY <1>1, AtOpReady
<1>3. pos \in 0..Len(input) /\ input \in Seq(Nat)
  BY <1>2, GoesOn
<1>4. \A why : Fail(why) => IInv'
  BY <1>2, FailsAlways
<1>5. CASE n.ok /\ NextMapEntry(Advanced, MapInit(mem, Here), then) /\ pos' = n.p
  <2>1. PICK fills, room : AtPlace(F, Advanced, base, mem, retained, lowered.blocks, Op, fills, room)
    BY <1>1, AtOpReady
  <2>2. /\ Unset(mem, {Here}) /\ Here.at \in Ours(Advanced, retained) /\ Here.at = base.at
        /\ Here \in Span(base, fills) /\ IsMemory(mem)
        /\ Owned(mem, Ours(Advanced, retained), KeptOf(retained))
    BY <1>1, <2>1, HereReady DEF Ours
  <2>3. Fits(F, Op.key, Op.keySize) /\ Fits(F, Op.value, Op.valueSize)
    BY <1>1, <2>1 DEF AtPlace, OpLaidOut
  <2>4. n.p \in 0..Len(input) /\ n.v \in Nat
    BY <1>3, <1>5, ReadFacts
  <2>5. IsContent(content) /\ Owns(content) = {} /\ content.h # "ref" /\ content.h = "map"
    BY PlainContents
  <2>6. MapInit(mem, Here) = m
    BY DEF MapInit
  <2> HIDE DEF F, content, n
  <2>7. Owned(m, Ours(Advanced, retained), KeptOf(retained)) /\ Keeps(mem, m, {Here})
    BY <2>2, <2>5, PlainOwned
  <2>8. Holds(m, Here) /\ HandleAt(m, Here) = content
    <3>1. Holds(mem, Here)
      BY <2>2 DEF Unset
    <3>2. Holds(m, Here) /\ m[Here.at].slots[Here.slot] = content
      BY <2>2, <2>5, <3>1, PutFacts DEF Holds
    <3> QED
      BY <3>2 DEF HandleAt
  <2> HIDE DEF m
  <2>9. Ready(F, Advanced, base, m, retained, Span(base, fills) \ {Here}, {})
    <3>1. Ours(Advanced, retained) \cup {} = Ours(Advanced, retained) /\ {} \in SUBSET {}
      OBVIOUS
    <3>2. Ready(F, Advanced, base, mem, retained, Span(base, fills), {})
      BY <2>1 DEF AtPlace
    <3> QED
      BY <2>2, <2>7, <3>1, <3>2, ChangeReady
  <2>10. /\ then = [c |-> then.c, op |-> then.op, base |-> base, scratch |-> then.scratch, value |-> then.value,
                    map |-> then.map, total |-> then.total, remaining |-> then.remaining]
         /\ then.op = Op /\ then.map = Here /\ then.remaining = n.v
    OBVIOUS
  <2> HIDE DEF then
  <2>11. MapGoes(F, Advanced, base, m, Span(base, fills) \ {Here}, then)
    BY <2>2, <2>3, <2>4, <2>5, <2>8, <2>9, <2>10 DEF MapGoes
  <2>12. NextMapEntry(Advanced, m, then) /\ pos' \in 0..Len(input)
    BY <1>5, <2>4, <2>6
  <2> QED
    BY <1>2, <2>11, <2>12, NextMapOn DEF F
<1> QED
  BY <1>4, <1>5 DEF Map

LEMMA AfterKeyOn == ASSUME IInv, AfterKey PROVE IInv'
<1> DEFINE F == Layouts[call]
           t == Top.then
           next == [t EXCEPT !.c = "value"]
<1>1. AtEnd({"key"})
  BY DEF AfterKey
<1>2. result = Pending /\ t.c = "key" /\ pos \in 0..Len(input) /\ LaidOut(F, lowered.blocks)
  BY <1>1, AtEndReady
<1>3. PICK before, mine, owed : Ended(F, before, mine, owed)
  BY <1>1, AtEndReady
<1>4. Enter(Popped, mem, At(t.value), t.op.value, next) /\ UNCHANGED pos
  BY DEF AfterKey
<1> HIDE DEF F, t
<1>5. KeyOK(F, t, base, before, mem, owed)
  <2>1. Waits(F, Top, base, before, mem, owed)
    BY <1>3 DEF Ended, FrameOK
  <2>2. NoneC.c = "none"
    BY DEF NoneC
  <2> QED
    BY <1>2, <2>1, <2>2 DEF Waits, t
<1>6. /\ MapOK(F, t, before, mem) /\ Room(mem, At(t.value), t.op.valueSize)
      /\ Span(At(t.value), 0..t.op.valueSize - 1) \subseteq owed
      /\ Fits(F, t.op.value, t.op.valueSize)
  BY <1>5 DEF KeyOK, MapOK
<1>7. next.c = "value" /\ MapOK(F, next, before, mem) /\ next.value = t.value /\ next.scratch = t.scratch
  <2>1. t = [c |-> t.c, op |-> t.op, base |-> before, scratch |-> t.scratch, value |-> t.value,
             map |-> t.map, total |-> t.total, remaining |-> t.remaining]
    BY <1>6 DEF MapOK
  <2>2. next = [c |-> "value", op |-> t.op, base |-> before, scratch |-> t.scratch, value |-> t.value,
                map |-> t.map, total |-> t.total, remaining |-> t.remaining]
    BY <2>1
  <2>3. /\ next.c = "value" /\ next.op = t.op /\ next.base = before /\ next.scratch = t.scratch
        /\ next.value = t.value /\ next.map = t.map /\ next.total = t.total /\ next.remaining = t.remaining
    BY <2>2
  <2> HIDE DEF next
  <2>4. MapOK(F, next, before, mem)
    BY <1>6, <2>2, <2>3 DEF MapOK
  <2> QED
    BY <2>3, <2>4
<1>8. Scratches(next) = Scratches(t)
  BY <1>2, <1>7 DEF Scratches
<1>9. Ready(F, Popped, before, mem, retained, owed, Scratches(t))
  BY <1>3 DEF Ended, t
<1> HIDE DEF next
<1>10. At(t.value).at = t.value /\ IsMemory(mem) /\ t.value \in Scratches(t)
  BY <1>2, <1>9, PlaceReady DEF At, Scratches
<1> DEFINE fills == Span(At(t.value), Filled(F, t.op.value))
<1>11. Waits(F, Frame(t.op.value, next), At(t.value), before, mem, {})
  <2>1. ValueOK(F, next, At(t.value), before, mem)
    BY <1>7, <1>10 DEF ValueOK
  <2>2. Frame(t.op.value, next).then = next
    BY DEF Frame
  <2> QED
    BY <1>7, <2>1, <2>2 DEF Waits
<1>12. /\ FrameOK(F, Frame(t.op.value, next), At(t.value), before, mem, fills, {})
       /\ fills \subseteq Span(At(t.value), 0..t.op.valueSize - 1)
  BY <1>2, <1>6, <1>10, <1>11, NewFrame DEF F
<1>13. /\ fills \in SUBSET owed /\ {} \in SUBSET owed /\ fills \cap {} = {}
       /\ At(t.value).at \in {Destination.at} \cup Waiting(Popped) \cup Scratches(t)
  BY <1>6, <1>10, <1>12
<1> HIDE DEF fills
<1>14. Entering(Popped, before, mem, owed, Scratches(t), At(t.value), t.op.value, next, fills, {})
  BY <1>8, <1>9, <1>12, <1>13 DEF Entering, F
<1> QED
  BY <1>2, <1>4, <1>14, EnterOn

LEMMA AfterValueOn == ASSUME IInv, AfterValue PROVE IInv'
<1> DEFINE F == Layouts[call]
           t == Top.then
           m == MapInsert(mem, t.map, t.scratch, t.value)
           next == [t EXCEPT !.remaining = @ - 1]
<1>1. AtEnd({"value"})
  BY DEF AfterValue
<1>2. result = Pending /\ t.c = "value" /\ pos \in 0..Len(input)
  BY <1>1, AtEndReady
<1>3. PICK before, mine, owed : Ended(F, before, mine, owed)
  BY <1>1, AtEndReady
<1>4. \/ FailFrom(m, Popped, "duplicate")
      \/ NextMapEntry(Popped, m, next) /\ UNCHANGED pos
  BY DEF AfterValue
<1> HIDE DEF F, t
<1>5. MapOK(F, t, before, mem)
  <2>1. Waits(F, Top, base, before, mem, owed)
    BY <1>3 DEF Ended, FrameOK
  <2>2. NoneC.c = "none"
    BY DEF NoneC
  <2>3. ValueOK(F, t, base, before, mem)
    BY <1>2, <2>1, <2>2 DEF Waits, t
  <2> QED
    BY <2>3 DEF ValueOK
<1>6. /\ t = [c |-> t.c, op |-> t.op, base |-> before, scratch |-> t.scratch, value |-> t.value,
              map |-> t.map, total |-> t.total, remaining |-> t.remaining]
      /\ t.remaining \in Nat \ {0} /\ t.value # t.scratch
      /\ Fits(F, t.op.key, t.op.keySize) /\ Fits(F, t.op.value, t.op.valueSize)
      /\ t.map.at = before.at /\ Holds(mem, t.map) /\ HandleAt(mem, t.map).h = "map"
  BY <1>5 DEF MapOK
<1>7. Scratches(t) = {t.scratch, t.value}
  BY <1>2 DEF Scratches
<1>8. Ready(F, Popped, before, mem, retained, owed, {t.scratch, t.value})
  BY <1>3, <1>7 DEF Ended, t
<1>9. before.at \in Ours(Popped, retained)
  BY <1>8, PlaceReady DEF Ours
<1> DEFINE held == Ours(Popped, retained) \cup {t.scratch, t.value}
<1>10. Owned(mem, held, KeptOf(retained)) /\ {t.scratch, t.value} \cap Ours(Popped, retained) = {}
  BY <1>8 DEF Ready
<1>11. Owned(m, held \ {t.scratch, t.value}, KeptOf(retained)) /\ Keeps(mem, m, {})
  <2>1. t.map.at \in held /\ t.scratch \in held \ {t.map.at} /\ t.value \in held \ {t.map.at} /\ t.scratch # t.value
    BY <1>6, <1>9, <1>10
  <2> HIDE DEF held
  <2> QED
    BY <1>6, <1>10, <2>1, MapInsertOwned
<1>12. held \ {t.scratch, t.value} = Ours(Popped, retained) \cup {}
  BY <1>10
<1> HIDE DEF m, held
<1>13. Ready(F, Popped, before, m, retained, owed, {})
  <2>1. {} \in SUBSET owed /\ owed \ {} = owed /\ {} \in SUBSET {t.scratch, t.value}
    OBVIOUS
  <2>2. Ready(F, Popped, before, m, retained, owed \ {}, {})
    BY <1>8, <1>11, <1>12, <2>1, ChangeReady
  <2> QED
    BY <2>1, <2>2
<1>14. CASE FailFrom(m, Popped, "duplicate")
  BY <1>2, <1>13, <1>14, FailsOver DEF F
<1>15. CASE NextMapEntry(Popped, m, next) /\ UNCHANGED pos
  <2>1. Holds(m, t.map) /\ HandleAt(m, t.map).h = "map"
    BY <1>6, <1>11, KeepsHolds
  <2>2. next = [c |-> t.c, op |-> t.op, base |-> before, scratch |-> t.scratch, value |-> t.value,
                map |-> t.map, total |-> t.total, remaining |-> t.remaining - 1]
    BY <1>6
  <2>3. /\ next.c = t.c /\ next.op = t.op /\ next.base = before /\ next.scratch = t.scratch
        /\ next.value = t.value /\ next.map = t.map /\ next.total = t.total /\ next.remaining = t.remaining - 1
    BY <2>2
  <2>4. t.remaining - 1 \in Nat
    BY <1>6
  <2> HIDE DEF next
  <2>5. MapGoes(F, Popped, before, m, owed, next)
    BY <1>6, <1>13, <2>1, <2>2, <2>3, <2>4 DEF MapGoes
  <2>6. pos' \in 0..Len(input)
    BY <1>2, <1>15
  <2> QED
    BY <1>2, <1>15, <2>5, <2>6, NextMapOn DEF F
<1> QED
  BY <1>4, <1>14, <1>15

-----------------------------------------------------------------------------
(* Options, results and pointers.                                           *)
LEMMA ViaInitOn ==
  ASSUME IInv, NEW ops, AtOp(ops), Op.op # "call", ~FillsNothing(Op),
         NEW kind \in {"some", "ok", "err", "box", "ref"}, NEW body, NEW size, Fits(Layouts[call], body, size),
         NEW p \in 0..Len(input), ViaInit(kind, body, size, p)
  PROVE  IInv'
<1> DEFINE F == Layouts[call]
           new == Len(mem) + 1
           n == Append(mem, Allocate(size))
           then == [c |-> "init", kind |-> kind, base |-> base, scratch |-> new, handle |-> Here]
           mine == Span(At(new), Filled(F, body))
<1>1. result = Pending
  BY AtOpReady
<1>2. LaidOut(F, lowered.blocks)
  BY <1>1, GoesOn
<1>3. Enter(Advanced, n, At(new), body, then) /\ pos' \in 0..Len(input)
  BY DEF ViaInit, Latest
<1>4. PICK fills, room : AtPlace(F, Advanced, base, mem, retained, lowered.blocks, Op, fills, room)
  BY AtOpReady
<1>5. Here.at = base.at /\ Here \in Span(base, fills)
  BY <1>4, HereReady
<1> HIDE DEF F
<1>6. Fits(F, body, size)
  BY DEF F
<1> DEFINE fresh == Span(At(new), 0..size - 1)
           more == Span(base, fills) \cup fresh
<1>7. Allocated(F, Advanced, base, mem, retained, Span(base, fills), {}, size)
  BY <1>4, <1>6, AllocateReady DEF AtPlace, Fits
<1>8. /\ Ready(F, Advanced, base, n, retained, more, {new}) /\ Room(n, At(new), size)
      /\ Span(base, fills) \cap fresh = {}
  <2>1. /\ Ready(F, Advanced, base, n, retained, more, {} \cup {new}) /\ Room(n, At(new), size)
        /\ Span(base, fills) \cap fresh = {}
    BY <1>7 DEF Allocated
  <2>2. {} \cup {new} = {new}
    OBVIOUS
  <2> HIDE DEF n, more, new, fresh
  <2> QED
    BY <2>1, <2>2
<1>9. /\ then.c = "init" /\ then.kind = kind /\ then.base = base /\ then.scratch = new /\ then.handle = Here
      /\ then = [c |-> "init", kind |-> then.kind, base |-> base, scratch |-> new, handle |-> then.handle]
  OBVIOUS
<1>10. At(new).at = new
  BY DEF At
<1> HIDE DEF then, n, new
<1>11. IsMemory(n)
  BY <1>8, PlaceReady
<1>12. Waits(F, Frame(body, then), At(new), base, n, {Here})
  <2>1. InitOK(then, At(new), base, {Here})
    BY <1>5, <1>9, <1>10 DEF InitOK
  <2>2. Frame(body, then).then = then
    BY DEF Frame
  <2> QED
    BY <1>9, <2>1, <2>2 DEF Waits
<1>13. FrameOK(F, Frame(body, then), At(new), base, n, mine, {Here}) /\ mine \subseteq fresh
  BY <1>2, <1>6, <1>8, <1>11, <1>12, NewFrame
<1>14. Scratches(then) = {new}
  BY <1>9 DEF Scratches
<1>15. mine \in SUBSET more /\ {Here} \in SUBSET more /\ mine \cap {Here} = {}
       /\ At(new).at \in {Destination.at} \cup Waiting(Advanced) \cup {new}
  <2> HIDE DEF mine, fresh
  <2> QED
    BY <1>5, <1>8, <1>10, <1>13
<1> HIDE DEF mine, more
<1>16. Entering(Advanced, base, n, more, {new}, At(new), body, then, mine, {Here})
  BY <1>8, <1>13, <1>14, <1>15 DEF Entering, F
<1> QED
  BY <1>1, <1>3, <1>16, EnterOn

LEMMA OptionOn == ASSUME IInv, Option PROVE IInv'
<1> DEFINE F == Layouts[call]
           x == ReadCell(input, pos)
           none == [h |-> "none"]
<1>1. AtOp({"option"}) /\ Op.op = "option" /\ Op.op # "call" /\ ~FillsNothing(Op)
  BY OpIsNot DEF Option, AtOp, Op
<1>2. result = Pending
  BY <1>1, AtOpReady
<1>3. pos \in 0..Len(input) /\ input \in Seq(Nat)
  BY <1>2, GoesOn
<1>4. \A why : Fail(why) => IInv'
  BY <1>2, FailsAlways
<1>5. x.ok => x.p \in 0..Len(input)
  BY <1>3, ReadFacts
<1>6. CASE x.ok /\ Continue(OptionInitNone(mem, Here), x.p)
  <2>1. IsContent(none) /\ Owns(none) = {} /\ none.h # "ref"
    BY PlainContents
  <2>2. OptionInitNone(mem, Here) = Put(mem, Here, none)
    BY DEF OptionInitNone
  <2> HIDE DEF none, x
  <2> QED
    BY <1>1, <1>5, <1>6, <2>1, <2>2, PlainOn
<1>7. CASE x.ok /\ ViaInit("some", Op.some, Op.size, x.p)
  <2>1. PICK fills, room : AtPlace(F, Advanced, base, mem, retained, lowered.blocks, Op, fills, room)
    BY <1>1, AtOpReady
  <2>2. Fits(F, Op.some, Op.size)
    BY <1>1, <2>1 DEF AtPlace, OpLaidOut
  <2> HIDE DEF x
  <2> QED
    BY <1>1, <1>5, <1>7, <2>2, ViaInitOn
<1> QED
  BY <1>4, <1>6, <1>7 DEF Option

LEMMA ResultOn == ASSUME IInv, Result PROVE IInv'
<1> DEFINE F == Layouts[call]
           x == ReadCell(input, pos)
<1>1. AtOp({"result"}) /\ Op.op = "result" /\ Op.op # "call" /\ ~FillsNothing(Op)
  BY OpIsNot DEF Result, AtOp, Op
<1>2. result = Pending
  BY <1>1, AtOpReady
<1>3. pos \in 0..Len(input) /\ input \in Seq(Nat)
  BY <1>2, GoesOn
<1>4. \A why : Fail(why) => IInv'
  BY <1>2, FailsAlways
<1>5. x.ok => x.p \in 0..Len(input)
  BY <1>3, ReadFacts
<1>6. PICK fills, room : AtPlace(F, Advanced, base, mem, retained, lowered.blocks, Op, fills, room)
  BY <1>1, AtOpReady
<1>7. Fits(F, Op.ok, Op.okSize) /\ Fits(F, Op.err, Op.errSize)
  BY <1>1, <1>6 DEF AtPlace, OpLaidOut
<1>8. \/ ~x.ok /\ Fail(x.why)
      \/ Fail("malformed")
      \/ x.ok /\ ViaInit("ok", Op.ok, Op.okSize, x.p)
      \/ x.ok /\ ViaInit("err", Op.err, Op.errSize, x.p)
  BY DEF Result
<1> HIDE DEF x
<1>9. CASE x.ok /\ ViaInit("ok", Op.ok, Op.okSize, x.p)
  BY <1>1, <1>5, <1>7, <1>9, ViaInitOn
<1>10. CASE x.ok /\ ViaInit("err", Op.err, Op.errSize, x.p)
  BY <1>1, <1>5, <1>7, <1>10, ViaInitOn
<1> QED
  BY <1>4, <1>8, <1>9, <1>10

LEMMA PointerOn == ASSUME IInv, Pointer PROVE IInv'
<1> DEFINE F == Layouts[call]
           kind == IF Op.retain THEN "ref" ELSE "box"
<1>1. AtOp({"pointer"}) /\ Op.op = "pointer" /\ Op.op # "call" /\ ~FillsNothing(Op)
  BY OpIsNot DEF Pointer, AtOp, Op
<1>2. result = Pending
  BY <1>1, AtOpReady
<1>3. pos \in 0..Len(input)
  BY <1>2, GoesOn
<1>4. PICK fills, room : AtPlace(F, Advanced, base, mem, retained, lowered.blocks, Op, fills, room)
  BY <1>1, AtOpReady
<1>5. Fits(F, Op.pointee, Op.size)
  BY <1>1, <1>4 DEF AtPlace, OpLaidOut
<1>6. ViaInit(kind, Op.pointee, Op.size, pos) /\ kind \in {"some", "ok", "err", "box", "ref"}
  BY DEF Pointer
<1> HIDE DEF kind
<1> QED
  BY <1>1, <1>3, <1>5, <1>6, ViaInitOn

LEMMA AfterInitOn == ASSUME IInv, AfterInit PROVE IInv'
<1> DEFINE F == Layouts[call]
           t == Top.then
           m == InitThunk(mem, t.handle, t.kind, t.scratch)
<1>1. AtEnd({"init"})
  BY DEF AfterInit
<1>2. result = Pending /\ t.c = "init" /\ pos \in 0..Len(input)
  BY <1>1, AtEndReady
<1>3. PICK before, mine, owed : Ended(F, before, mine, owed)
  BY <1>1, AtEndReady
<1>4. /\ mem' = m /\ retained' = IF t.kind = "ref" THEN Append(retained, t.scratch) ELSE retained
      /\ base' = t.base /\ frames' = Popped /\ UNCHANGED <<given, pos, result>>
  BY DEF AfterInit
<1> HIDE DEF F, t
<1>5. InitOK(t, base, before, owed)
  <2>1. Waits(F, Top, base, before, mem, owed)
    BY <1>3 DEF Ended, FrameOK
  <2>2. NoneC.c = "none"
    BY DEF NoneC
  <2> QED
    BY <1>2, <2>1, <2>2 DEF Waits, t
<1>6. /\ t = [c |-> "init", kind |-> t.kind, base |-> before, scratch |-> base.at, handle |-> t.handle]
      /\ t.kind \in {"some", "ok", "err", "box", "ref"}
      /\ t.handle.at = before.at /\ t.handle \in owed
  BY <1>5 DEF InitOK
<1>7. t.base = before /\ t.scratch = base.at /\ Scratches(t) = {base.at}
  <2>1. t.base = before /\ t.scratch = base.at
    BY <1>6
  <2> QED
    BY <1>2, <2>1 DEF Scratches
<1>8. Ready(F, Popped, before, mem, retained, owed, {base.at})
  BY <1>3, <1>7 DEF Ended, t
<1>9. before.at \in Ours(Popped, retained)
  BY <1>8, PlaceReady DEF Ours
<1> DEFINE ours == Ours(Popped, retained)
           held == ours \cup {base.at}
           Q == {t.handle}
<1>10. Owned(mem, held, KeptOf(retained)) /\ {base.at} \cap ours = {} /\ Unset(mem, owed)
  BY <1>8 DEF Ready, Spare
<1>11. Unset(mem, Q) /\ Q \in SUBSET owed
  BY <1>6, <1>10 DEF Unset
<1>12. /\ Keeps(mem, m, Q)
       /\ t.kind # "ref" => Owned(m, held \ {t.scratch}, KeptOf(retained))
       /\ t.kind = "ref" => Owned(m, held, KeptOf(retained) \cup {t.scratch})
  <2>1. t.handle.at \in held /\ t.scratch \in held /\ t.scratch # t.handle.at
    BY <1>6, <1>7, <1>9, <1>10
  <2> HIDE DEF held
  <2> QED
    BY <1>6, <1>10, <1>11, <2>1, InitOwned
<1>13. held \ {t.scratch} = ours \cup {}
  BY <1>7, <1>10
<1> HIDE DEF m, Q
<1>14. CASE t.kind # "ref"
  <2>1. {} \in SUBSET {base.at} /\ Owned(m, Ours(Popped, retained) \cup {}, KeptOf(retained))
    BY <1>12, <1>13, <1>14
  <2>2. Ready(F, Popped, before, m, retained, owed \ Q, {})
    BY <1>8, <1>11, <1>12, <2>1, ChangeReady
  <2>3. Ready(F, Popped, before, m, retained, {}, {})
    BY <2>2, ForgetReady
  <2>4. retained' = retained
    BY <1>4, <1>14
  <2> QED
    BY <1>2, <1>4, <1>7, <2>3, <2>4, StillOn DEF F
<1>15. CASE t.kind = "ref"
  <2>1. Owned(m, Ours(Popped, retained) \cup {base.at}, KeptOf(retained) \cup {base.at})
    BY <1>7, <1>12, <1>15
  <2>2. Ready(F, Popped, before, m, Append(retained, base.at), {}, {})
    BY <1>8, <1>11, <1>12, <2>1, RetainReady
  <2>3. retained' = Append(retained, base.at)
    BY <1>4, <1>7, <1>15
  <2> QED
    BY <1>2, <1>4, <1>7, <2>2, <2>3, StillOn DEF F
<1> QED
  BY <1>14, <1>15

-----------------------------------------------------------------------------
(* The end of a call, and what its caller does.                             *)
LEMMA FinishOn == ASSUME IInv, Finish PROVE IInv'
<1> DEFINE F == Layouts[call]
<1>1. result = Pending /\ frames = <<>>
  BY DEF Finish
<1>2. Ready(F, frames, base, mem, retained, {}, {})
  BY <1>1, GoesOn
<1>3. \A why : Fail(why) => IInv'
  BY <1>1, FailsAlways
<1>4. CASE result' = Ok(Destination.at, pos) /\ UNCHANGED <<given, frames, base, pos, retained, mem>>
  <2> HIDE DEF F
  <2>1. base = Destination /\ Destination.at \in LiveIn(mem) /\ LiveIn(mem) \subseteq DOMAIN mem
    BY <1>1, <1>2, PlaceReady DEF Ours
  <2> DEFINE held == ({Destination.at} \cap LiveIn(mem)) \cup KeptOf(retained)
  <2>2. /\ IsSeq(retained) /\ Apart(frames, retained)
        /\ Owned(mem, Ours(frames, retained) \cup {}, KeptOf(retained))
    BY <1>2 DEF Ready
  <2>3. Ours(frames, retained) \cup {} = held
    BY <1>1, <2>1, NothingKept DEF Ours
  <2> HIDE DEF held
  <2>4. Owned(mem, held, KeptOf(retained)) /\ Apart(<<>>, retained)
    BY <1>1, <2>2, <2>3
  <2>5. Over(mem, retained, FALSE)
    BY <2>1, <2>2, <2>4 DEF Over, Owned, held
  <2>6. result' # Pending /\ result'.ok = TRUE
    BY <1>4, ResultsDiffer
  <2>7. Over(mem', retained', ~result'.ok)
    BY <1>4, <2>5, <2>6
  <2> QED
    BY <1>1, <1>4, <2>1, <2>6, <2>7 DEF IInv, given
<1> QED
  BY <1>3, <1>4 DEF Finish

LEMMA DropValueOn == ASSUME IInv, DropValue PROVE IInv'
<1> DEFINE held == ({Destination.at} \cap LiveIn(mem)) \cup KeptOf(retained)
           n == Dropped(mem, {Destination.at})
<1>1. result # Pending /\ result.ok /\ mem[Destination.at].live
      /\ mem' = n /\ UNCHANGED <<given, frames, base, pos, retained, result>>
  BY DEF DropValue
<1>2. Over(mem, retained, ~result.ok)
  BY <1>1 DEF IInv
<1>3. /\ IsSeq(retained) /\ Apart(<<>>, retained) /\ Owned(mem, held, KeptOf(retained))
      /\ Destination.at \in DOMAIN mem
  BY <1>1, <1>2 DEF Over
<1>4. Destination.at \in held /\ Destination.at \in LiveIn(mem)
  BY <1>1, <1>3 DEF LiveIn
<1>5. held \ {Destination.at} = KeptOf(retained)
  BY <1>3 DEF Apart, KeptOf
<1> HIDE DEF held
<1>6. Owned(n, KeptOf(retained), KeptOf(retained))
  BY <1>3, <1>4, <1>5, DropOwned
<1>7. DOMAIN n = DOMAIN mem /\ Destination.at \notin LiveIn(n)
  <2> DEFINE X == {Destination.at}
  <2>1. IsMemory(mem) /\ Sound(mem, held) /\ X \in SUBSET held /\ Destination.at \in X
    BY <1>3, <1>4 DEF Owned
  <2>2. n = Dropped(mem, X)
    BY DEF n
  <2> HIDE DEF X
  <2>3. DOMAIN Dropped(mem, X) = DOMAIN mem /\ LiveIn(Dropped(mem, X)) \subseteq LiveIn(mem) \ X
    BY <2>1, DroppedSound
  <2> QED
    BY <2>1, <2>2, <2>3
<1> HIDE DEF n
<1>8. ({Destination.at} \cap LiveIn(n)) \cup KeptOf(retained) = KeptOf(retained)
  BY <1>7
<1>9. Over(n, retained, ~result.ok)
  BY <1>1, <1>3, <1>6, <1>7, <1>8 DEF Over, Owned
<1> QED
  BY <1>1, <1>9 DEF IInv, given

LEMMA DropRetainedOn == ASSUME IInv, DropRetained PROVE IInv'
<1> DEFINE n == Dropped(mem, KeptOf(retained))
<1>1. result # Pending /\ result.ok /\ ~mem[Destination.at].live
      /\ mem' = n /\ retained' = <<>> /\ UNCHANGED <<given, frames, base, pos, result>>
  BY DEF DropRetained, Kept, KeptOf
<1>2. Over(mem, retained, ~result.ok)
  BY <1>1 DEF IInv
<1>3. ({Destination.at} \cap LiveIn(mem)) \cup KeptOf(retained) = KeptOf(retained)
  BY <1>1 DEF LiveIn
<1>4. Owned(mem, KeptOf(retained), KeptOf(retained)) /\ Destination.at \in DOMAIN mem
  BY <1>1, <1>2, <1>3 DEF Over
<1>5. KeptOf(retained) \ KeptOf(retained) = {} /\ KeptOf(retained) \in SUBSET KeptOf(retained)
  OBVIOUS
<1>6. Owned(n, {}, KeptOf(retained))
  BY <1>4, <1>5, DropOwned
<1>7. DOMAIN n = DOMAIN mem
  BY <1>4, <1>5, DroppedSound DEF Owned
<1> HIDE DEF n
<1>8. LiveIn(n) = {}
  <2>1. {} \subseteq {} /\ Closed(n, {}) /\ {} \in SUBSET LiveIn(n)
    BY DEF Closed
  <2> QED
    BY <1>6, <2>1 DEF Owned, Rooted
<1>9. Owned(n, {}, {})
  BY <1>6, <1>8 DEF Owned, RefsInto
<1>10. KeptOf(<<>>) = {} /\ IsSeq(<<>>) /\ Apart(<<>>, <<>>) /\ ({Destination.at} \cap LiveIn(n)) \cup KeptOf(<<>>) = {}
  BY <1>8, NothingKept
<1>11. Over(n, <<>>, ~result.ok)
  BY <1>1, <1>4, <1>7, <1>9, <1>10 DEF Over, Owned
<1> QED
  BY <1>1, <1>11 DEF IInv, given

LEMMA StuttersOn == ASSUME IInv, UNCHANGED vars PROVE IInv'
BY DEF vars, IInv

-----------------------------------------------------------------------------
(* A call begins: the caller's storage is all there is.                     *)
LEMMA InitIInv == Init => IInv
<1> SUFFICES ASSUME Init PROVE IInv
  OBVIOUS
<1> DEFINE F == Layouts[call]
           size == lowered.size
           m == Append(<<>>, Allocate(size))
           held == {} \cup {1}
           f == Frame(lowered.program, NoneC)
<1>1. call \in Calls /\ lowered = Lowered[call] /\ base = Destination /\ pos = 0 /\ retained = <<>>
  BY DEF Init
<1>2. WellLaidOut(lowered, F) /\ size \in Nat
  BY <1>1, LayoutAssumption DEF WellLaidOut
<1>3. mem = m
  BY DEF Init
<1>4. input \in Seq(Nat) /\ pos \in 0..Len(input)
  <2>1. input \in Seq(Nat)
    BY InputAssumption, EmptySeq DEF Init
  <2> QED
    BY <1>1, <2>1, LenProperties
<1>5. Owned(<<>>, {}, {})
  <2>1. IsMemory(<<>>) /\ LiveIn(<<>>) = {} /\ DOMAIN <<>> = {}
    BY EmptySeq, NothingKept DEF IsMemory, LiveIn
  <2> QED
    BY <2>1 DEF Owned, Sound, Rooted, RefsInto
<1>6. Len(<<>>) + 1 = 1 /\ Len(<<>>) = 0 /\ DOMAIN <<>> = {}
  BY EmptySeq
<1>7. /\ Owned(m, held, {}) /\ DOMAIN m = {1} /\ Extent(m[1]) = size
      /\ DOMAIN m[1].slots = 0..size - 1 /\ \A s \in 0..size - 1 : m[1].slots[s] = Uninit
  <2> DEFINE none == <<>>
  <2>1. Owned(none, {}, {}) /\ Len(none) + 1 = 1 /\ DOMAIN none = {} /\ {} \cup {1} = {1}
    BY <1>5, <1>6
  <2>2. m = Append(none, Allocate(size))
    OBVIOUS
  <2> HIDE DEF none, size, m
  <2>3. LET n == Append(none, Allocate(size))
            new == Len(none) + 1
        IN /\ Owned(n, {} \cup {new}, {}) /\ DOMAIN n = DOMAIN none \cup {new} /\ Extent(n[new]) = size
           /\ DOMAIN n[new].slots = 0..size - 1 /\ \A s \in 0..size - 1 : n[new].slots[s] = Uninit
    BY <1>2, <2>1, AllocateOwned
  <2> QED
    BY <2>1, <2>2, <2>3
<1> HIDE DEF m, size
<1>8. Destination.at = 1 /\ Destination.slot = 0 /\ IsPlace(Destination)
  BY DEF Destination, At, IsPlace
<1>9. Room(m, Destination, size)
  BY <1>2, <1>7, <1>8 DEF Room
<1>10. Ours(<<>>, <<>>) = {1} /\ KeptOf(<<>>) = {} /\ IsSeq(<<>>) /\ Apart(<<>>, <<>>)
  BY <1>8, NothingKept DEF Ours
<1>11. IsMemory(m) /\ Sound(m, {1}) /\ 1 \in LiveIn(m)
  BY <1>7 DEF Owned, Sound
<1>12. CASE lowered.ok
  <2>1. input \in Inputs /\ frames = Append(<<>>, f) /\ result = Pending
    BY <1>12 DEF Init
  <2>2. Fits(F, lowered.program, size) /\ LaidOut(F, lowered.blocks)
    BY <1>2, <1>12 DEF WellLaidOut, LaidOut, size
  <2> DEFINE spare == Span(Destination, 0..size - 1)
             mine == Span(Destination, Filled(F, lowered.program))
  <2>3. Unset(m, spare)
    <3> SUFFICES ASSUME NEW s \in 0..size - 1
                 PROVE  Holds(m, Slot(Destination, s)) /\ HandleAt(m, Slot(Destination, s)) = Uninit
      BY DEF Unset, Span
    <3>1. s \in Nat
      OBVIOUS
    <3>2. IsPlace(Slot(Destination, s)) /\ Slot(Destination, s).at = 1 /\ Slot(Destination, s).slot = 0 + s
      BY <1>8, <3>1, SlotIs
    <3>3. Slot(Destination, s).slot = s
      BY <3>1, <3>2
    <3> QED
      BY <1>7, <3>2, <3>3 DEF Holds, HandleAt
  <2> HIDE DEF F, f, spare, mine
  <2>4. Ready(F, <<>>, Destination, m, <<>>, spare, {})
    <3>1. Framed(F, <<>>, <<>>, <<>>, <<>>, m)
      BY <1>6, <1>10 DEF Framed
    <3>2. Before(<<>>, Len(<<>>) + 1) = Destination
      BY <1>6 DEF Before
    <3>3. Spare(<<>>, <<>>, <<>>, m, spare)
      BY <1>6, <2>3 DEF Spare
    <3>4. Owned(m, Ours(<<>>, <<>>) \cup {}, KeptOf(<<>>))
      BY <1>7, <1>10
    <3>5. {} \cap Ours(<<>>, <<>>) = {}
      OBVIOUS
    <3> QED
      BY <1>10, <3>1, <3>2, <3>3, <3>4, <3>5 DEF Ready
  <2>5. Waits(F, f, Destination, Destination, m, {})
    BY DEF Waits, Frame, f
  <2>6. /\ FrameOK(F, f, Destination, Destination, m, mine, {}) /\ mine \subseteq spare /\ f.then = NoneC
    BY <1>9, <1>11, <2>2, <2>5, NewFrame DEF f, mine, spare
  <2>7. Scratches(f.then) = {}
    BY <2>6 DEF Scratches, NoneC
  <2>8. mine \in SUBSET spare /\ {} \in SUBSET spare /\ mine \cap {} = {}
        /\ Destination.at \in {Destination.at} \cup Waiting(<<>>) \cup {}
    BY <2>6
  <2>9. Ready(F, Append(<<>>, f), Destination, m, <<>>, {}, {})
    BY <2>4, <2>6, <2>7, <2>8, PushReady
  <2>10. Ready(Layouts[call], frames, base, mem, retained, {}, {})
    BY <1>1, <1>3, <2>1, <2>9 DEF F
  <2> QED
    BY <1>1, <1>4, <1>12, <2>1, <2>10 DEF IInv
<1>13. CASE ~lowered.ok
  <2>1. frames = <<>> /\ result = Err("incompatible")
    BY <1>13 DEF Init
  <2>2. result # Pending /\ result.ok = FALSE
    BY <2>1, ResultsDiffer
  <2>3. ({Destination.at} \cap LiveIn(m)) \cup KeptOf(<<>>) = {1}
    BY <1>8, <1>10, <1>11
  <2>4. Destination.at \in DOMAIN m
    BY <1>7, <1>8
  <2>5. Over(m, <<>>, TRUE)
    BY <1>10, <1>11, <2>3, <2>4 DEF Over
  <2>6. Over(mem, retained, ~result.ok)
    BY <1>1, <1>3, <2>2, <2>5
  <2> QED
    BY <1>1, <1>4, <1>13, <2>1, <2>2, <2>6 DEF IInv
<1> QED
  BY <1>12, <1>13

LEMMA NextIInv == IInv /\ [Next]_vars => IInv'
<1> SUFFICES ASSUME IInv, [Next]_vars PROVE IInv'
  OBVIOUS
<1>1. CASE Scalar \/ Native \/ Dynamic \/ Bytes \/ Borrow \/ Opaque \/ Skip \/ Default
  BY <1>1, ScalarOn, NativeOn, DynamicOn, BytesOn, BorrowOn, OpaqueOn, SkipOn, DefaultOn
<1>2. CASE CallBlock \/ RestoreBase \/ Enum \/ Return
  BY <1>2, CallBlockOn, RestoreBaseOn, EnumOn, ReturnOn
<1>3. CASE Sequence \/ AfterSequence \/ Set \/ AfterSet \/ Map \/ AfterKey \/ AfterValue
  BY <1>3, SequenceOn, AfterSequenceOn, SetOn, AfterSetOn, MapOn, AfterKeyOn, AfterValueOn
<1>4. CASE Option \/ Result \/ Pointer \/ AfterInit \/ Finish
  BY <1>4, OptionOn, ResultOn, PointerOn, AfterInitOn, FinishOn
<1>5. CASE DropValue \/ DropRetained
  BY <1>5, DropValueOn, DropRetainedOn
<1>6. CASE UNCHANGED vars
  BY <1>6, StuttersOn
<1> QED
  BY <1>1, <1>2, <1>3, <1>4, <1>5, <1>6 DEF Next, Step

-----------------------------------------------------------------------------
(* What the invariant shows.                                                *)
LEMMA FailedOrNot ==
  ASSUME IInv
  PROVE  /\ result = Pending => ~Failed
         /\ result # Pending => frames = <<>> /\ base = Destination /\ DOMAIN frames = {} /\ Waiting(frames) = {}
BY EmptySeq, NothingKept DEF IInv, Failed

LEMMA IInvTypeOK == IInv => TypeOK
<1> SUFFICES ASSUME IInv PROVE TypeOK
  OBVIOUS
<1>1. pos \in 0..Len(input)
  BY DEF IInv
<1>2. Destination.slot = 0
  BY DEF Destination, At
<1>3. LiveIn(mem) \subseteq DOMAIN mem /\ Live = LiveIn(mem)
  BY DEF LiveIn, Live
<1>4. \A a \in DOMAIN mem : Extent(mem[a]) = Cardinality(DOMAIN mem[a].slots)
  BY DEF Extent
<1>5. CASE result = Pending
  <2> DEFINE F == Layouts[call]
  <2>1. Ready(F, frames, base, mem, retained, {}, {}) /\ LaidOut(F, lowered.blocks)
    BY <1>5, GoesOn
  <2> HIDE DEF F
  <2>2. \A i \in DOMAIN frames : frames[i].next \in 1..Len(frames[i].prog) + 1
    BY <2>1 DEF Ready, Framed, FrameOK
  <2>3. IsMemory(mem) /\ (frames = <<>> => base = Destination)
    BY <2>1, PlaceReady
  <2>4. ASSUME NEW a \in {base.at} \cap Live PROVE base.slot \in 0..Extent(mem[a])
    <3>1. Extent(mem[a]) \in Nat
      BY <1>3, <2>3, ExtentOf
    <3>2. CASE frames = <<>>
      BY <1>2, <2>3, <3>1, <3>2
    <3>3. CASE frames # <<>>
      <4>1. PICK before, mine, owed : FrameOK(F, frames[Len(frames)], base, before, mem, mine, owed)
        BY <2>1, <3>3, PopReady
      <4>2. PICK program \in DOMAIN F : Room(mem, base, F[program].size)
        BY <4>1 DEF FrameOK
      <4>3. F[program].size \in Nat
        BY <2>1, FillsOf
      <4>4. base.slot \in Nat /\ base.slot + F[program].size <= Extent(mem[a])
        BY <4>2 DEF Room, IsPlace
      <4> QED
        BY <3>1, <4>3, <4>4
    <3> QED
      BY <3>2, <3>3
  <2> QED
    BY <1>1, <1>3, <1>4, <2>2, <2>3, <2>4 DEF TypeOK
<1>6. CASE result # Pending
  <2>1. frames = <<>> /\ base = Destination /\ DOMAIN frames = {}
    BY <1>6, FailedOrNot
  <2>2. IsMemory(mem)
    BY <1>6 DEF IInv, Over
  <2>3. \A a \in Live : base.slot \in 0..Extent(mem[a])
    BY <1>2, <1>3, <2>1, <2>2, ExtentOf
  <2> QED
    BY <1>1, <1>3, <1>4, <2>1, <2>3 DEF TypeOK
<1> QED
  BY <1>5, <1>6

LEMMA IInvFreshTarget == IInv => FreshTarget
<1> SUFFICES ASSUME IInv PROVE FreshTarget
  OBVIOUS
<1> DEFINE F == Layouts[call]
<1>1. ASSUME Running, Top.next <= Len(Top.prog) PROVE Op.op = "call" \/ FillsNothing(Op) \/ Fresh(Here)
  <2> SUFFICES ASSUME Op.op # "call", ~FillsNothing(Op) PROVE Fresh(Here)
    OBVIOUS
  <2>1. AtOp({Op.op})
    BY <1>1 DEF AtOp, Op
  <2>2. PICK fills, size : AtPlace(F, Advanced, base, mem, retained, lowered.blocks, Op, fills, size)
    BY <2>1, AtOpReady
  <2>3. Unset(mem, {Here}) /\ Here.at \in Ours(Advanced, retained)
    BY <2>1, <2>2, HereReady DEF Ours
  <2>4. Ours(Advanced, retained) \subseteq LiveIn(mem)
    BY <2>2, PlaceReady DEF AtPlace
  <2> QED
    BY <2>3, <2>4 DEF Unset, HandleAt, LiveIn, Fresh
<1>2. ASSUME NEW i \in DOMAIN frames
      PROVE  LET t == frames[i].then
             IN (t.c = "seq" => Fresh(t.list)) /\ (t.c = "init" => Fresh(t.handle))
  <2> DEFINE t == frames[i].then
  <2>1. result = Pending
    BY <1>2, FailedOrNot
  <2>2. Ready(F, frames, base, mem, retained, {}, {})
    BY <2>1, GoesOn
  <2> HIDE DEF F
  <2>3. PICK ats, mine, owed : Framed(F, frames, ats, mine, owed, mem)
    BY <2>2 DEF Ready
  <2> DEFINE before == Before(ats, i)
  <2>4. Waits(F, frames[i], ats[i], before, mem, owed[i]) /\ Unset(mem, owed[i])
    BY <2>3 DEF Framed, FrameOK, Unset
  <2>5. DOMAIN frames = 1..Len(frames) /\ Len(frames) \in Nat /\ Ours(frames, retained) \subseteq LiveIn(mem)
    BY <2>2, PlaceReady
  <2>6. before.at \in LiveIn(mem)
    <3>1. CASE i = 1
      BY <2>5, <3>1 DEF Before, Ours
    <3>2. CASE i # 1
      <4>1. i - 1 \in DOMAIN frames /\ 1..i - 1 \subseteq DOMAIN frames
        BY <2>5, <3>2
      <4>2. before = ats[i - 1]
        BY <3>2 DEF Before
      <4>3. ats[i - 1].at \in {Destination.at} \cup UNION {Scratches(frames[j].then) : j \in 1..i - 1}
        BY <2>3, <4>1 DEF Framed
      <4>4. ats[i - 1].at \in {Destination.at} \cup Waiting(frames)
        BY <4>1, <4>3 DEF Waiting
      <4> QED
        BY <2>5, <4>2, <4>4 DEF Ours
    <3> QED
      BY <3>1, <3>2
  <2>7. \A p \in owed[i] : p.at = before.at => Fresh(p)
    BY <2>4, <2>6 DEF Unset, HandleAt, LiveIn, Fresh
  <2> HIDE DEF before
  <2>8. NoneC.c = "none"
    BY DEF NoneC
  <2>9. t.c = "seq" => t.list \in owed[i] /\ t.list.at = before.at
    BY <2>4, <2>8 DEF Waits, SeqOK
  <2>10. t.c = "init" => t.handle \in owed[i] /\ t.handle.at = before.at
    BY <2>4, <2>8 DEF Waits, InitOK
  <2> QED
    BY <2>7, <2>9, <2>10
<1> QED
  BY <1>1, <1>2 DEF FreshTarget

(* What is owned from outside of memory, whether the call goes on or not.   *)
LEMMA HeldAlways ==
  ASSUME IInv
  PROVE  LET held == ({Destination.at} \cap Live) \cup Waiting(frames) \cup KeptOf(retained)
         IN /\ Sound(mem, held) /\ Apart(frames, retained)
            /\ ~Failed => Rooted(mem, held) /\ RefsInto(mem, KeptOf(retained))
<1> DEFINE held == ({Destination.at} \cap Live) \cup Waiting(frames) \cup KeptOf(retained)
<1>1. CASE result = Pending
  <2>1. Ready(Layouts[call], frames, base, mem, retained, {}, {})
    BY <1>1, GoesOn
  <2>2. Ours(frames, retained) \subseteq LiveIn(mem)
    BY <2>1, PlaceReady
  <2>3. Ours(frames, retained) \cup {} = held
    BY <2>2 DEF Ours, Live
  <2> HIDE DEF held
  <2>4. Owned(mem, held, KeptOf(retained)) /\ Apart(frames, retained)
    BY <2>1, <2>3 DEF Ready
  <2> QED
    BY <2>4 DEF Owned, held
<1>2. CASE result # Pending
  <2>1. frames = <<>> /\ Waiting(frames) = {}
    BY <1>2, FailedOrNot
  <2>2. ({Destination.at} \cap LiveIn(mem)) \cup KeptOf(retained) = held
    BY <2>1 DEF Live
  <2> HIDE DEF held
  <2>3. /\ Sound(mem, held) /\ Apart(frames, retained)
        /\ IF ~result.ok THEN retained = <<>> ELSE Owned(mem, held, KeptOf(retained))
    BY <1>2, <2>1, <2>2 DEF IInv, Over
  <2> QED
    BY <1>2, <2>3 DEF Owned, held, Failed
<1> QED
  BY <1>1, <1>2

LEMMA IInvRefsLive == IInv => RefsLive
<1> SUFFICES ASSUME IInv, ~Failed PROVE \A a \in Live : \A s \in DOMAIN mem[a].slots :
                                         mem[a].slots[s].h = "ref" => mem[a].slots[s].at \in Live
  BY DEF RefsLive
<1> DEFINE held == ({Destination.at} \cap Live) \cup Waiting(frames) \cup KeptOf(retained)
<1>1. Sound(mem, held) /\ RefsInto(mem, KeptOf(retained))
  BY HeldAlways
<1>2. KeptOf(retained) \subseteq LiveIn(mem)
  BY <1>1 DEF Sound
<1> QED
  BY <1>1, <1>2 DEF RefsInto, Live

LEMMA IInvOneOwner == IInv => OneOwner
<1> SUFFICES ASSUME IInv, NEW a \in DOMAIN mem
             PROVE  LET n == Cardinality(Owners(a))
                    IN IF a \notin Live THEN n = 0 ELSE IF Failed THEN n <= 1 ELSE n = 1
  BY DEF OneOwner
<1> DEFINE held == ({Destination.at} \cap Live) \cup Waiting(frames) \cup KeptOf(retained)
           C == {<<"caller">> : x \in {Destination.at} \cap {a} \cap Live}
           W == {i \in DOMAIN frames : a \in Scratches(frames[i].then)}
           K == {i \in DOMAIN retained : retained[i] = a}
           Z(b) == {s \in DOMAIN mem[b].slots : a \in Owns(mem[b].slots[s])}
           WF == {<<"frame", i>> : i \in W}
           KR == {<<"retained", i>> : i \in K}
           S == UNION {{<<"slot", b, s>> : s \in Z(b)} : b \in Live}
<1>1. Sound(mem, held) /\ Apart(frames, retained) /\ (~Failed => Rooted(mem, held))
  BY HeldAlways
<1>2. Owners(a) = C \cup WF \cup KR \cup S
  BY DEF Owners
<1>3. Live = LiveIn(mem) /\ Live \subseteq DOMAIN mem /\ held \subseteq Live
  BY <1>1 DEF Live, LiveIn, Sound
<1>4. /\ C # {} => a = Destination.at /\ a \in held
      /\ WF # {} => a \in Waiting(frames) /\ a \in held
      /\ KR # {} => a \in KeptOf(retained) /\ a \in held
  BY DEF Waiting, KeptOf
<1>5. \A b \in Live : Z(b) # {} => a \in OwnedBy(mem, b)
  BY DEF OwnedBy
<1>6. S # {} => a \in Live \ held
  <2>1. \A b \in Live : OwnedBy(mem, b) \subseteq Live \ held
    BY <1>1, <1>3 DEF Sound
  <2> HIDE DEF Z, held
  <2> QED
    BY <1>5, <2>1
<1>7. /\ a = Destination.at => a \notin Waiting(frames) /\ a \notin KeptOf(retained)
      /\ a \in Waiting(frames) => a \notin KeptOf(retained)
  BY <1>1 DEF Apart, KeptOf
<1>8. \A o, p \in C : o = p
  OBVIOUS
<1>9. \A o, p \in WF : o = p
  <2>1. \A i, j \in W : i = j
    BY <1>1 DEF Apart
  <2> HIDE DEF W
  <2> QED
    BY <2>1
<1>10. \A o, p \in KR : o = p
  <2>1. \A i, j \in K : i = j
    BY <1>1 DEF Apart
  <2> HIDE DEF K
  <2> QED
    BY <2>1
<1>11. \A o, p \in S : o = p
  <2>1. \A b, c \in Live : \A s \in Z(b) : \A t \in Z(c) : b = c /\ s = t
    BY <1>1, <1>3 DEF Sound
  <2> HIDE DEF Z
  <2> QED
    BY <2>1
<1> HIDE DEF C, WF, KR, S, held
<1>12. \A o, p \in Owners(a) : o = p
  BY <1>2, <1>4, <1>6, <1>7, <1>8, <1>9, <1>10, <1>11
<1>13. a \notin Live => Owners(a) = {}
  BY <1>2, <1>3, <1>4, <1>6
<1>14. Owners(a) = {} => Cardinality(Owners(a)) = 0
  BY FS_EmptySet
<1>15. Owners(a) # {} => Cardinality(Owners(a)) = 1
  <2> SUFFICES ASSUME NEW o \in Owners(a) PROVE Cardinality(Owners(a)) = 1
    OBVIOUS
  <2>1. Owners(a) = {o}
    BY <1>12
  <2> QED
    BY <2>1, FS_Singleton
<1>16. ASSUME ~Failed, a \in Live PROVE Owners(a) # {}
  <2> SUFFICES ASSUME Owners(a) = {} PROVE FALSE
    OBVIOUS
  <2> DEFINE rest == Live \ {a}
  <2>1. C = {} /\ WF = {} /\ KR = {} /\ S = {}
    BY <1>2
  <2>2. a \notin held
    <3>1. a # Destination.at
      BY <1>16, <2>1 DEF C
    <3>2. a \notin Waiting(frames)
      <4>1. W = {}
        <5> HIDE DEF W
        <5>1. \A i \in W : <<"frame", i>> \in WF
          BY DEF WF
        <5> QED
          BY <2>1, <5>1
      <4> QED
        BY <4>1 DEF Waiting
    <3>3. a \notin KeptOf(retained)
      BY <2>1 DEF KR, KeptOf
    <3> QED
      BY <3>1, <3>2, <3>3 DEF held
  <2>3. \A b \in Live : a \notin OwnedBy(mem, b)
    <3>1. ASSUME NEW b \in Live PROVE Z(b) = {}
      <4> HIDE DEF Z
      <4>1. {<<"slot", b, s>> : s \in Z(b)} \subseteq S
        BY DEF S
      <4>2. \A s \in Z(b) : <<"slot", b, s>> \in S
        BY <4>1
      <4> QED
        BY <2>1, <4>2
    <3> QED
      BY <3>1 DEF OwnedBy
  <2>4. Closed(mem, rest)
    BY <1>1, <1>3, <2>3 DEF Closed, Sound
  <2>5. rest \in SUBSET LiveIn(mem) /\ held \subseteq rest
    BY <1>3, <2>2
  <2>6. rest = LiveIn(mem)
    BY <1>1, <1>16, <2>4, <2>5 DEF Rooted
  <2> QED
    BY <1>3, <1>16, <2>6
<1> QED
  BY <1>12, <1>13, <1>14, <1>15, <1>16

-----------------------------------------------------------------------------
(* The theorems, for every program that is laid out as a Rust layout is.    *)
THEOREM Invariance == Spec => []IInv
BY InitIInv, NextIInv, PTL DEF Spec

(* The next op and a waiting continuation name places inside of memory, and *)
(* a call that ended well is back at the caller's storage.                  *)
THEOREM TypeCorrect == Spec => []TypeOK
BY Invariance, IInvTypeOK, PTL

(* DecodeInterp neither leaks nor frees twice: every node of live memory    *)
(* has exactly one owner, whatever the program builds and wherever it stops.*)
THEOREM OwnsOnce == Spec => []OneOwner
BY Invariance, IInvOneOwner, PTL

(* No op writes over a value, nor to memory that was freed: what an init    *)
(* thunk or from_raw_parts fills is uninitialized and alive.                *)
THEOREM WritesFresh == Spec => []FreshTarget
BY Invariance, IInvFreshTarget, PTL

(* Decoded references stay valid for as long as their holder lives.         *)
THEOREM KeepsPointees == Spec => []RefsLive
BY Invariance, IInvRefsLive, PTL

(* A call that ended well leaks nothing: once its caller has dropped the    *)
(* value and what was retained for it, no allocation is left.               *)
NothingLeft ==
  result # Pending /\ result.ok /\ ~mem[Destination.at].live /\ retained = <<>> => Live = {}
THEOREM LeaksNothing == Spec => []NothingLeft
<1>1. IInv => NothingLeft
  <2> SUFFICES ASSUME IInv, result # Pending, result.ok, ~mem[Destination.at].live, retained = <<>>
               PROVE  LiveIn(mem) = {}
    BY DEF NothingLeft, Live
  <2>1. ({Destination.at} \cap LiveIn(mem)) \cup KeptOf(retained) = {}
    BY NothingKept DEF LiveIn
  <2>2. Rooted(mem, {})
    BY <2>1 DEF IInv, Over, Owned
  <2>3. {} \subseteq {} /\ Closed(mem, {}) /\ {} \in SUBSET LiveIn(mem)
    BY DEF Closed
  <2> QED
    BY <2>2, <2>3 DEF Rooted
<1> QED
  BY <1>1, Invariance, PTL
=============================================================================
