------------------------- MODULE DurableStoreProofs -------------------------
(***************************************************************************)
(* First, what write_to_vec lays out, for every plan it accepts: how long  *)
(* the file is, which cell stands where, and that parse reads all of it    *)
(* back.  Then, for every set of plans, earlier files and kinds of damage, *)
(* what a reader admits of a destination at every point of every run.      *)
(***************************************************************************)
EXTENDS DurableStore, SequenceTheorems, FiniteSetTheorems, DataInduction, TLAPS

-----------------------------------------------------------------------------
LEMMA AlignFacts ==
  ASSUME NEW n \in Nat
  PROVE  /\ AlignUp(n) \in Nat /\ n <= AlignUp(n) /\ AlignUp(n) <= n + 1
         /\ AlignUp(n) % ALIGNMENT = 0
BY DEF AlignUp, ALIGNMENT

(* A row more or less moves the first extent.                               *)
LEMMA RowsMoveExtents ==
  ASSUME NEW t \in Nat, NEW m \in Nat, NEW n \in Nat, m = n - 1 \/ m = n + 1
  PROVE  AlignUp(t + m * DESCRIPTOR_SIZE) # AlignUp(t + n * DESCRIPTOR_SIZE)
<1> DEFINE u == t + m * DESCRIPTOR_SIZE
           w == t + n * DESCRIPTOR_SIZE
<1>1. u \in Nat /\ w \in Nat /\ (u = w + 9 \/ u + 9 = w)
  BY DEF DESCRIPTOR_SIZE
<1> HIDE DEF u, w
<1>2. u <= AlignUp(u) /\ AlignUp(u) <= u + 1 /\ w <= AlignUp(w) /\ AlignUp(w) <= w + 1 /\ AlignUp(u) \in Nat
  BY <1>1, AlignFacts
<1>3. AlignUp(u) # AlignUp(w)
  BY <1>1, <1>2
<1> QED
  BY <1>3 DEF u, w

(* Padding keeps what is there and adds zeroes up to the alignment.         *)
LEMMA Padded ==
  ASSUME NEW S, Zero \in S, NEW b \in Seq(S)
  PROVE  /\ Pad(b) \in Seq(S)
         /\ Len(Pad(b)) = AlignUp(Len(b))
         /\ \A i \in 1..Len(b) : Pad(b)[i] = b[i]
         /\ \A i \in (Len(b) + 1)..AlignUp(Len(b)) : Pad(b)[i] = Zero
<1> DEFINE n == AlignUp(Len(b)) - Len(b)
           z == [i \in 1..n |-> Zero]
<1>0. Len(b) \in Nat
  BY LenProperties
<1>1. Len(b) \in Nat /\ AlignUp(Len(b)) \in Nat /\ n \in Nat
  <2>1. AlignUp(Len(b)) \in Nat /\ Len(b) <= AlignUp(Len(b))
    BY <1>0, AlignFacts
  <2> QED
    BY <1>0, <2>1
<1> HIDE DEF n
<1>2. z \in Seq(S) /\ Len(z) = n /\ \A i \in 1..n : z[i] = Zero
  BY <1>1
<1> HIDE DEF z
<1>3. /\ b \o z \in Seq(S) /\ Len(b \o z) = Len(b) + n
      /\ \A i \in 1..(Len(b) + n) : (b \o z)[i] = IF i <= Len(b) THEN b[i] ELSE z[i - Len(b)]
  BY <1>2, ConcatProperties
<1>4. Pad(b) = b \o z
  BY DEF Pad, z, n
<1>5. Len(b) + n = AlignUp(Len(b))
  BY <1>1 DEF n
<1>6. \A i \in (Len(b) + 1)..(Len(b) + n) : ~ (i <= Len(b)) /\ i - Len(b) \in 1..n /\ i \in 1..(Len(b) + n)
  BY <1>1
<1> QED
  BY <1>1, <1>2, <1>3, <1>4, <1>5, <1>6

(* The forward pass, step by step.                                          *)
IsForwardPass(out, S, front, n, extents) ==
  /\ out \in [0..n -> Seq(S)]
  /\ out[0] = front
  /\ \A i \in 1..n : out[i] = Pad(out[i - 1]) \o extents[i].data
  /\ Emitted(front, extents) = out[n]

LEMMA EmittedSteps ==
  ASSUME NEW S, Zero \in S, NEW front \in Seq(S), NEW n \in Nat, NEW extents, Len(extents) = n,
         \A i \in 1..n : extents[i].data \in Seq(S)
  PROVE  \E out : IsForwardPass(out, S, front, n, extents)
<1> DEFINE F(f) == [i \in 0..n |-> IF i = 0 THEN front ELSE Pad(f[i - 1]) \o extents[i].data]
           out == CHOOSE f : f = F(f)
           step == [i \in 1..n |-> [b \in Seq(S) |-> Pad(b) \o extents[i].data]]
<1>1. step \in [1..n -> [Seq(S) -> Seq(S)]]
  BY Padded, ConcatProperties
<1>2. \E g \in [0..n -> Seq(S)] : g[0] = front /\ \A i \in 1..n : g[i] = step[i][g[i - 1]]
  <2> DEFINE V == Seq(S)
  <2>1. front \in V /\ StepsOn(V, n, step)
    BY <1>1 DEF StepsOn
  <2> HIDE DEF V, step
  <2>2. PICK g : SolvedBy(g, V, front, n, step)
    BY <2>1, Recursion
  <2> QED
    BY <2>2 DEF V, SolvedBy
<1>3. PICK g \in [0..n -> Seq(S)] : g[0] = front /\ \A i \in 1..n : g[i] = step[i][g[i - 1]]
  BY <1>2
<1>0. 0 \in 0..n /\ \A i \in 1..n : i \in 0..n /\ i - 1 \in 0..n /\ i # 0
  OBVIOUS
<1>00. \A i \in 0..n : i # 0 => i \in 1..n
  OBVIOUS
<1>4. g = F(g)
  <2>1. \A i \in 0..n : g[i] = IF i = 0 THEN front ELSE Pad(g[i - 1]) \o extents[i].data
    <3>1. ASSUME NEW i \in 1..n PROVE g[i] = Pad(g[i - 1]) \o extents[i].data
      <4>1. i \in 1..n /\ i - 1 \in 0..n /\ g[i - 1] \in Seq(S)
        BY <1>0
      <4> QED
        BY <1>3, <4>1
    <3> HIDE DEF F, out, step
    <3> QED
      BY <1>3, <1>00, <3>1
  <2> QED
    BY <2>1
<1>5. out = F(out)
  BY <1>4
<1> HIDE DEF out
<1>6. out[0] = front /\ \A i \in 1..n : out[i] = Pad(out[i - 1]) \o extents[i].data
  <2>1. \A i \in 0..n : out[i] = IF i = 0 THEN front ELSE Pad(out[i - 1]) \o extents[i].data
    BY <1>5
  <2> HIDE DEF F, step
  <2> QED
    BY <1>0, <2>1
<1>7. \A i \in 0..n : out[i] \in Seq(S)
  <2> DEFINE T == {i \in 0..n : out[i] \in Seq(S)}
  <2>1. 0 \in T
    BY <1>6
  <2>2. ASSUME NEW i \in 0..(n - 1), i \in T PROVE i + 1 \in T
    <3>1. i + 1 \in 1..n /\ (i + 1) - 1 = i /\ out[i] \in Seq(S) /\ i + 1 \in 0..n
      BY <2>2
    <3>2. Pad(out[i]) \in Seq(S) /\ extents[i + 1].data \in Seq(S)
      BY <3>1, Padded
    <3>3. out[i + 1] = Pad(out[i]) \o extents[i + 1].data
      BY <1>6, <3>1
    <3>4. out[i + 1] \in Seq(S)
      BY <3>2, <3>3, ConcatProperties
    <3> QED
      BY <3>1, <3>4
  <2>3. \A i \in 0..(n - 1) : i \in T => i + 1 \in T
    BY <2>2
  <2> HIDE DEF T
  <2>4. \A i \in 0..n : i \in T
    BY <2>1, <2>3, BoundedInduction
  <2> QED
    BY <2>4 DEF T
<1>8. out \in [0..n -> Seq(S)]
  BY <1>5, <1>7
<1>9. Emitted(front, extents) = out[n]
  BY DEF Emitted, out
<1> QED
  BY <1>6, <1>8, <1>9 DEF IsForwardPass

(* The cursor, step by step.                                                *)
LEMMA OffsetSteps ==
  ASSUME NEW envelope \in Nat, NEW n \in Nat, NEW extents, DOMAIN extents = 1..n,
         \A i \in 1..n : Len(extents[i].data) \in Nat
  PROVE  LET offset == Offsets(envelope, extents) IN
         /\ offset \in [1..n -> Nat]
         /\ \A i \in 1..n :
              offset[i] = AlignUp(IF i = 1 THEN envelope ELSE offset[i - 1] + Len(extents[i - 1].data))
<1> DEFINE At(f, i) == AlignUp(IF i = 1 THEN envelope ELSE f[i - 1] + Len(extents[i - 1].data))
           F(f) == [i \in 1..n |-> At(f, i)]
           out == CHOOSE f : f = F(f)
           step == [i \in 1..n |-> [x \in Nat |->
                      AlignUp(IF i = 1 THEN envelope ELSE x + Len(extents[i - 1].data))]]
<1>0. \A i \in 1..n : i \in 0..n /\ i - 1 \in 0..n /\ (i # 1 => i - 1 \in 1..n)
  OBVIOUS
<1>1. \A i \in 1..n : \A x \in Nat :
        (IF i = 1 THEN envelope ELSE x + Len(extents[i - 1].data)) \in Nat
  BY <1>0
<1>2. step \in [1..n -> [Nat -> Nat]]
  BY <1>1, AlignFacts
<1>3. StepsOn(Nat, n, step) /\ 0 \in Nat
  BY <1>2 DEF StepsOn
<1>4. PICK g : SolvedBy(g, Nat, 0, n, step)
  <2> HIDE DEF step
  <2> QED
    BY <1>3, Recursion
<1> DEFINE h == [i \in 1..n |-> g[i]]
<1>5. g \in [0..n -> Nat] /\ \A i \in 1..n : g[i] = step[i][g[i - 1]]
  <2> HIDE DEF step
  <2> QED
    BY <1>4 DEF SolvedBy
<1>6. \A i \in 1..n : h[i] = At(h, i)
  <2> SUFFICES ASSUME NEW i \in 1..n PROVE h[i] = At(h, i)
    OBVIOUS
  <2>1. g[i - 1] \in Nat /\ g[i] = step[i][g[i - 1]] /\ h[i] = g[i]
    BY <1>0, <1>5
  <2>2. g[i] = AlignUp(IF i = 1 THEN envelope ELSE g[i - 1] + Len(extents[i - 1].data))
    BY <2>1
  <2>3. i # 1 => h[i - 1] = g[i - 1]
    BY <1>0
  <2> HIDE DEF h, step
  <2> QED
    BY <2>1, <2>2, <2>3
<1>7. h = F(h)
  <2>1. h = [i \in 1..n |-> h[i]]
    OBVIOUS
  <2> HIDE DEF h, At
  <2> QED
    BY <1>6, <2>1
<1>8. out = F(out)
  <2> HIDE DEF h, F
  <2> QED
    BY <1>7
<1> HIDE DEF out, h, step
<1>9. out = [i \in 1..n |-> out[i]] /\ \A i \in 1..n : out[i] = At(out, i)
  <2> HIDE DEF At
  <2> QED
    BY <1>8
<1>10. \A i \in 1..n : out[i] \in Nat
  <2> DEFINE T == {i \in 0..n : i = 0 \/ out[i] \in Nat}
  <2>1. 0 \in T
    OBVIOUS
  <2>2. ASSUME NEW i \in 0..(n - 1), i \in T PROVE i + 1 \in T
    <3>1. i + 1 \in 1..n /\ (i + 1) - 1 = i /\ i + 1 \in 0..n
      OBVIOUS
    <3>2. out[i + 1] = AlignUp(IF i + 1 = 1 THEN envelope ELSE out[i] + Len(extents[i].data))
      BY <1>9, <3>1
    <3>3. (IF i + 1 = 1 THEN envelope ELSE out[i] + Len(extents[i].data)) \in Nat
      BY <2>2, <3>1
    <3>4. out[i + 1] \in Nat
      BY <3>2, <3>3, AlignFacts
    <3> QED
      BY <3>1, <3>4
  <2>3. \A i \in 0..(n - 1) : i \in T => i + 1 \in T
    BY <2>2
  <2> HIDE DEF T
  <2>4. \A i \in 0..n : i \in T
    BY <2>1, <2>3, BoundedInduction
  <2> QED
    BY <1>0, <2>4 DEF T
<1>11. out \in [1..n -> Nat]
  <2> HIDE DEF At, F
  <2> QED
    BY <1>9, <1>10
<1>12. Offsets(envelope, extents) = out
  BY DEF Offsets, out
<1> QED
  BY <1>9, <1>11, <1>12

(* The table holds the descriptors one after the other.                     *)
RowsOf(S, n, extents, offset) ==
  /\ n \in Nat /\ Len(extents) = n
  /\ \A i \in 1..n : /\ Descriptor(extents[i], offset[i]) \in Seq(S)
                      /\ Len(Descriptor(extents[i], offset[i])) = DESCRIPTOR_SIZE

LEMMA RowsCells ==
  ASSUME NEW S, NEW n, NEW extents, NEW offset, RowsOf(S, n, extents, offset)
  PROVE  /\ Rows(extents, offset) \in Seq(S)
         /\ Len(Rows(extents, offset)) = n * DESCRIPTOR_SIZE
         /\ \A i \in 1..n : \A f \in 1..DESCRIPTOR_SIZE :
              Rows(extents, offset)[(i - 1) * DESCRIPTOR_SIZE + f] = Descriptor(extents[i], offset[i])[f]
<1> USE DEF RowsOf
<1> DEFINE D(i) == Descriptor(extents[i], offset[i])
           F(r) == [i \in 0..n |-> IF i = 0 THEN <<>> ELSE r[i - 1] \o D(i)]
           out == CHOOSE r : r = F(r)
           step == [i \in 1..n |-> [b \in Seq(S) |-> b \o D(i)]]
           V == Seq(S)
<1> HIDE DEF D
<1>00. \A i \in 1..n : D(i) \in Seq(S) /\ Len(D(i)) = DESCRIPTOR_SIZE
  BY DEF D
<1>0. 0 \in 0..n /\ (\A i \in 1..n : i \in 0..n /\ i - 1 \in 0..n /\ i # 0)
      /\ (\A i \in 0..n : i # 0 => i \in 1..n)
  OBVIOUS
<1>1. step \in [1..n -> [V -> V]] /\ <<>> \in V
  BY <1>00, ConcatProperties, EmptySeq
<1>2. PICK g : SolvedBy(g, V, <<>>, n, step)
  <2> HIDE DEF step, V
  <2>1. StepsOn(V, n, step)
    BY <1>1 DEF StepsOn
  <2> QED
    BY <1>1, <2>1, Recursion
<1>3. g \in [0..n -> V] /\ g[0] = <<>> /\ \A i \in 1..n : g[i] = step[i][g[i - 1]]
  <2> HIDE DEF step, V
  <2> QED
    BY <1>2 DEF SolvedBy
<1>4. \A i \in 1..n : g[i] = g[i - 1] \o D(i)
  BY <1>0, <1>3
<1>5. g = F(g)
  <2>1. g = [i \in 0..n |-> g[i]]
    BY <1>3
  <2>2. \A i \in 0..n : g[i] = IF i = 0 THEN <<>> ELSE g[i - 1] \o D(i)
    BY <1>0, <1>3, <1>4
  <2> QED
    BY <2>1, <2>2
<1>6. out = F(out)
  <2> HIDE DEF F
  <2> QED
    BY <1>5
<1> HIDE DEF out, step, V
<1>7. out[0] = <<>> /\ \A i \in 1..n : out[i] = out[i - 1] \o D(i)
  <2>1. \A i \in 0..n : out[i] = IF i = 0 THEN <<>> ELSE out[i - 1] \o D(i)
    BY <1>6
  <2> HIDE DEF F
  <2> QED
    BY <1>0, <2>1
<1> DEFINE Good(k) == /\ out[k] \in Seq(S) /\ Len(out[k]) = k * DESCRIPTOR_SIZE
                      /\ \A i \in 1..k : \A f \in 1..DESCRIPTOR_SIZE :
                           out[k][(i - 1) * DESCRIPTOR_SIZE + f] = D(i)[f]
           T == {k \in 0..n : Good(k)}
<1>8. 0 \in T
  <2>1. out[0] \in Seq(S) /\ Len(out[0]) = 0
    BY <1>7, EmptySeq
  <2>2. Good(0)
    BY <2>1 DEF DESCRIPTOR_SIZE
  <2> QED
    BY <1>0, <2>2
<1>9. ASSUME NEW k \in 0..(n - 1), k \in T PROVE k + 1 \in T
  <2>1. k + 1 \in 1..n /\ (k + 1) - 1 = k /\ k + 1 \in 0..n /\ k \in Nat
    OBVIOUS
  <2>2. out[k + 1] = out[k] \o D(k + 1) /\ D(k + 1) \in Seq(S) /\ Len(D(k + 1)) = DESCRIPTOR_SIZE
    BY <1>00, <1>7, <2>1
  <2>3. Good(k)
    BY <1>9
  <2>4. /\ out[k] \o D(k + 1) \in Seq(S)
        /\ Len(out[k] \o D(k + 1)) = Len(out[k]) + Len(D(k + 1))
        /\ \A i \in 1..(Len(out[k]) + Len(D(k + 1))) : (out[k] \o D(k + 1))[i] =
              IF i <= Len(out[k]) THEN out[k][i] ELSE D(k + 1)[i - Len(out[k])]
    BY <2>2, <2>3, ConcatProperties
  <2>5. /\ out[k + 1] \in Seq(S) /\ Len(out[k + 1]) = (k + 1) * DESCRIPTOR_SIZE
        /\ \A i \in 1..((k + 1) * DESCRIPTOR_SIZE) : out[k + 1][i] =
              IF i <= k * DESCRIPTOR_SIZE THEN out[k][i] ELSE D(k + 1)[i - k * DESCRIPTOR_SIZE]
    <3>1. /\ Len(out[k]) = k * DESCRIPTOR_SIZE
          /\ k * DESCRIPTOR_SIZE + DESCRIPTOR_SIZE = (k + 1) * DESCRIPTOR_SIZE
      BY <2>1, <2>3 DEF DESCRIPTOR_SIZE
    <3> HIDE DEF Good, T
    <3> QED
      BY <2>2, <2>4, <3>1
  <2>6. ASSUME NEW i \in 1..(k + 1), NEW f \in 1..DESCRIPTOR_SIZE
        PROVE  out[k + 1][(i - 1) * DESCRIPTOR_SIZE + f] = D(i)[f]
    <3>1. (i - 1) * DESCRIPTOR_SIZE + f \in 1..((k + 1) * DESCRIPTOR_SIZE)
      BY <2>1 DEF DESCRIPTOR_SIZE
    <3>2. CASE i \in 1..k
      <4>1. (i - 1) * DESCRIPTOR_SIZE + f <= k * DESCRIPTOR_SIZE
        BY <2>1, <3>2 DEF DESCRIPTOR_SIZE
      <4> QED
        BY <2>3, <2>5, <3>1, <3>2, <4>1
    <3>3. CASE i = k + 1
      <4>1. /\ ~ ((i - 1) * DESCRIPTOR_SIZE + f <= k * DESCRIPTOR_SIZE)
            /\ (i - 1) * DESCRIPTOR_SIZE + f - k * DESCRIPTOR_SIZE = f
        BY <2>1, <3>3 DEF DESCRIPTOR_SIZE
      <4> HIDE DEF Good, T
      <4> DEFINE x == (i - 1) * DESCRIPTOR_SIZE + f
      <4>2. x \in 1..((k + 1) * DESCRIPTOR_SIZE) /\ ~ (x <= k * DESCRIPTOR_SIZE)
            /\ x - k * DESCRIPTOR_SIZE = f
        BY <3>1, <4>1
      <4> HIDE DEF x
      <4>3. out[k + 1][x] = D(k + 1)[f]
        BY <2>5, <4>2
      <4> QED
        BY <3>3, <4>3 DEF x
    <3> QED
      BY <2>1, <3>2, <3>3
  <2>7. Good(k + 1)
    BY <2>5, <2>6
  <2> HIDE DEF Good
  <2> QED
    BY <2>1, <2>7
<1>10. n \in T
  <2>1. \A k \in 0..(n - 1) : k \in T => k + 1 \in T
    BY <1>9
  <2>2. n \in 0..n
    OBVIOUS
  <2> HIDE DEF T
  <2>3. \A k \in 0..n : k \in T
    BY <1>8, <2>1, BoundedInduction
  <2> QED
    BY <2>2, <2>3
<1>11. Good(n)
  BY <1>10
<1>12. Rows(extents, offset) = out[n]
  BY DEF Rows, out, D
<1> QED
  BY <1>11, <1>12 DEF D

(* One payload after the padding of what is before it.                      *)
Extends(c, b, d, S) ==
  /\ c \in Seq(S)
  /\ Len(c) = AlignUp(Len(b)) + Len(d) /\ Len(b) <= AlignUp(Len(b))
  /\ \A i \in 1..Len(b) : c[i] = b[i]
  /\ \A m \in 1..Len(d) : c[AlignUp(Len(b)) + m] = d[m]

LEMMA PaddedThenPayload ==
  ASSUME NEW S, Zero \in S, NEW b \in Seq(S), NEW d \in Seq(S)
  PROVE  Extends(Pad(b) \o d, b, d, S)
<1> DEFINE a == AlignUp(Len(b))
           p == Pad(b)
<1>0. Len(b) \in Nat /\ Len(d) \in Nat
  BY LenProperties
<1>1. a \in Nat /\ Len(b) <= a
  BY <1>0, AlignFacts
<1>2. p \in Seq(S) /\ Len(p) = a /\ \A i \in 1..Len(b) : p[i] = b[i]
  BY Padded
<1> HIDE DEF a, p
<1>3. /\ p \o d \in Seq(S) /\ Len(p \o d) = a + Len(d)
      /\ \A i \in 1..(a + Len(d)) : (p \o d)[i] = IF i <= a THEN p[i] ELSE d[i - a]
  BY <1>2, ConcatProperties
<1>4. \A i \in 1..Len(b) : (p \o d)[i] = b[i]
  BY <1>0, <1>1, <1>2, <1>3
<1>5. \A m \in 1..Len(d) : a + m \in 1..(a + Len(d)) /\ ~ (a + m <= a) /\ (a + m) - a = m
  BY <1>0, <1>1
<1>6. \A m \in 1..Len(d) : (p \o d)[a + m] = d[m]
  BY <1>3, <1>5
<1> QED
  BY <1>1, <1>3, <1>4, <1>6 DEF a, p, Extends

(* The two passes over the extents agree: the forward pass puts each        *)
(* payload at the offset the counting pass assigned, and the file is as     *)
(* long as the header says (debug_assert_eq!(out.len(), capacity)).         *)
Emittable(S, front, n, extents) ==
  /\ Zero \in S /\ front \in Seq(S) /\ n \in Nat \ {0}
  /\ DOMAIN extents = 1..n /\ Len(extents) = n /\ \A i \in 1..n : extents[i].data \in Seq(S)

EmittedAt(b, S, front, n, extents, offset) ==
  /\ b \in Seq(S)
  /\ Len(b) = offset[n] + Len(extents[n].data)
  /\ Len(front) <= Len(b) /\ \A i \in 1..Len(front) : b[i] = front[i]
  /\ \A i \in 1..n :
       /\ offset[i] + Len(extents[i].data) <= Len(b)
       /\ \A m \in 1..Len(extents[i].data) : b[offset[i] + m] = extents[i].data[m]

LEMMA EmittedCells ==
  ASSUME NEW S, NEW front, NEW n, NEW extents, Emittable(S, front, n, extents)
  PROVE  EmittedAt(Emitted(front, extents), S, front, n, extents, Offsets(Len(front), extents))
<1> USE DEF Emittable
<1> DEFINE offset == Offsets(Len(front), extents)
           D(i) == extents[i].data
           b == Emitted(front, extents)
<1>0. Len(front) \in Nat /\ \A i \in 1..n : D(i) \in Seq(S) /\ Len(D(i)) \in Nat
  BY LenProperties
<1>1. /\ offset \in [1..n -> Nat]
      /\ \A i \in 1..n : offset[i] = AlignUp(IF i = 1 THEN Len(front) ELSE offset[i - 1] + Len(D(i - 1)))
  BY <1>0, OffsetSteps
<1>2. PICK out \in [0..n -> Seq(S)] :
        /\ out[0] = front
        /\ \A i \in 1..n : out[i] = Pad(out[i - 1]) \o D(i)
        /\ b = out[n]
  <2>1. n \in Nat /\ \A i \in 1..n : extents[i].data \in Seq(S)
    OBVIOUS
  <2>2. PICK out : IsForwardPass(out, S, front, n, extents)
    <3> HIDE DEF offset, D, b
    <3> QED
      BY <2>1, EmittedSteps
  <2> QED
    BY <2>2 DEF IsForwardPass
<1> HIDE DEF offset, D, b
<1> DEFINE Length(k) == Len(out[k]) = IF k = 0 THEN Len(front) ELSE offset[k] + Len(D(k))
           Prefix(k) == Len(front) <= Len(out[k]) /\ \A i \in 1..Len(front) : out[k][i] = front[i]
           Placed(k) == \A i \in 1..k :
             /\ offset[i] + Len(D(i)) <= Len(out[k])
             /\ \A m \in 1..Len(D(i)) : out[k][offset[i] + m] = D(i)[m]
           T == {k \in 0..n : Length(k) /\ Prefix(k) /\ Placed(k)}
<1>3. 0 \in T
  <2>1. Length(0) /\ Prefix(0) /\ Placed(0)
    BY <1>0, <1>2
  <2> QED
    BY <2>1
<1>4. ASSUME NEW k \in 0..(n - 1), k \in T PROVE k + 1 \in T
  <2>0. Length(k) /\ Prefix(k) /\ Placed(k)
    BY <1>4
  <2>1. k + 1 \in 1..n /\ (k + 1) - 1 = k /\ k + 1 \in 0..n /\ k \in 0..n /\ k + 1 # 0
    OBVIOUS
  <2> DEFINE o == out[k]
             c == out[k + 1]
             d == D(k + 1)
  <2>2. o \in Seq(S) /\ d \in Seq(S) /\ c = Pad(o) \o d /\ Len(o) \in Nat /\ Len(d) \in Nat
    BY <1>0, <1>2, <2>1, LenProperties
  <2>3. offset[k + 1] = AlignUp(Len(o))
    <3>1. Len(o) = IF k + 1 = 1 THEN Len(front) ELSE offset[k] + Len(D(k))
      BY <2>0, <2>1
    <3>2. offset[k + 1] = AlignUp(IF k + 1 = 1 THEN Len(front) ELSE offset[k] + Len(D(k)))
      <4> HIDE DEF T, Length, Prefix, Placed
      <4> QED
        BY <1>1, <2>1
    <3> HIDE DEF o
    <3> QED
      BY <3>1, <3>2
  <2>4. Prefix(k) /\ Placed(k)
    BY <2>0
  <2>5. /\ c \in Seq(S) /\ Len(c) = offset[k + 1] + Len(d) /\ Len(o) <= offset[k + 1]
        /\ \A i \in 1..Len(o) : c[i] = o[i]
        /\ \A m \in 1..Len(d) : c[offset[k + 1] + m] = d[m]
    <3> HIDE DEF o, c, d, T, Length, Prefix, Placed
    <3>1. /\ c \in Seq(S) /\ Len(c) = AlignUp(Len(o)) + Len(d) /\ Len(o) <= AlignUp(Len(o))
          /\ \A i \in 1..Len(o) : c[i] = o[i]
          /\ \A m \in 1..Len(d) : c[AlignUp(Len(o)) + m] = d[m]
      <4>1. Zero \in S /\ o \in Seq(S) /\ d \in Seq(S) /\ c = Pad(o) \o d
        BY <2>2
      <4> HIDE DEF D
      <4>2. Extends(Pad(o) \o d, o, d, S)
        BY <4>1, PaddedThenPayload
      <4>3. Extends(c, o, d, S)
        BY <4>1, <4>2
      <4> QED
        BY <4>3 DEF Extends
    <3> QED
      BY <2>3, <3>1
  <2>6. Len(o) <= Len(c) /\ offset[k + 1] \in Nat
    <3>1. offset[k + 1] \in Nat
      BY <1>1, <2>1
    <3> HIDE DEF o, c, d, T, Length, Prefix, Placed
    <3> QED
      BY <2>2, <2>5, <3>1
  <2>7. Length(k + 1)
    BY <2>1, <2>5
  <2>8. Prefix(k + 1)
    <3>1. Len(front) <= Len(o) /\ \A i \in 1..Len(front) : o[i] = front[i]
      BY <2>4
    <3>2. Len(front) <= Len(c) /\ \A i \in 1..Len(front) : c[i] = front[i]
      <4>1. \A i \in 1..Len(front) : i \in 1..Len(o)
        BY <1>0, <2>2, <3>1
      <4>2. Len(c) \in Nat
        BY <2>5, LenProperties
      <4> HIDE DEF o, c, d, T, Length, Prefix, Placed
      <4>3. Len(front) <= Len(c)
        BY <1>0, <2>2, <2>6, <3>1, <4>2
      <4>4. \A i \in 1..Len(front) : c[i] = front[i]
        BY <2>5, <3>1, <4>1
      <4> QED
        BY <4>3, <4>4
    <3> QED
      BY <3>2
  <2>9. Placed(k + 1)
    <3> SUFFICES ASSUME NEW i \in 1..(k + 1)
                 PROVE  /\ offset[i] + Len(D(i)) <= Len(c)
                        /\ \A m \in 1..Len(D(i)) : c[offset[i] + m] = D(i)[m]
      OBVIOUS
    <3>1. CASE i = k + 1
      <4>1. Len(c) \in Nat /\ D(i) = d /\ offset[i] = offset[k + 1]
        BY <2>5, <3>1, LenProperties
      <4> HIDE DEF o, c, d, T, Length, Prefix, Placed
      <4>2. offset[i] + Len(D(i)) = offset[k + 1] + Len(d)
        BY <4>1
      <4>3. \A m \in 1..Len(D(i)) : c[offset[i] + m] = D(i)[m]
        BY <2>5, <4>1
      <4> QED
        BY <2>5, <4>1, <4>2, <4>3
    <3>2. CASE i \in 1..k
      <4>1. offset[i] + Len(D(i)) <= Len(o) /\ \A m \in 1..Len(D(i)) : o[offset[i] + m] = D(i)[m]
        BY <2>4, <3>2
      <4>2. offset[i] \in Nat /\ Len(D(i)) \in Nat /\ Len(c) \in Nat
        <5>1. i \in 1..n
          BY <2>1
        <5>2. Len(c) \in Nat
          BY <2>5, LenProperties
        <5> QED
          BY <1>0, <1>1, <5>1, <5>2
      <4> HIDE DEF o, c, d, T, Length, Prefix, Placed
      <4>3. \A m \in 1..Len(D(i)) : offset[i] + m \in 1..Len(o)
        BY <2>2, <4>1, <4>2, SMTT(30)
      <4>4. offset[i] + Len(D(i)) <= Len(c)
        BY <2>2, <2>6, <4>1, <4>2
      <4> QED
        BY <2>5, <4>1, <4>3, <4>4
    <3> QED
      BY <2>1, <3>1, <3>2
  <2> HIDE DEF Length, Prefix, Placed
  <2> QED
    BY <2>1, <2>7, <2>8, <2>9
<1>5. n \in T
  <2>1. \A k \in 0..(n - 1) : k \in T => k + 1 \in T
    BY <1>4
  <2>2. n \in 0..n /\ n \in Nat
    OBVIOUS
  <2> HIDE DEF T
  <2>3. \A k \in 0..n : k \in T
    BY <1>3, <2>1, <2>2, BoundedInduction
  <2> QED
    BY <2>2, <2>3
<1>6. Length(n) /\ Prefix(n) /\ Placed(n) /\ n # 0
  BY <1>5
<1> QED
  BY <1>2, <1>6 DEF offset, D, b, EmittedAt
-----------------------------------------------------------------------------
(* Where each extent of a plan stands in the file's order.                  *)
Length(p) == 2 + Len(p.regions) + Len(p.aux)

InOrder(x, p, pass) ==
  /\ x \in Seq(ToSet(x)) /\ Len(x) = Length(p) /\ DOMAIN x = 1..Length(p)
  /\ x[1] = Extent(0, 0, NoSchema, BundleCells(p.schemas))
  /\ x[2] = Extent(1, 0, p.root.schema, p.root.passes[pass])
  /\ \A r \in 1..Len(p.regions) :
       x[r + 2] = Extent(2, r - 1, p.regions[r].schema, p.regions[r].passes[pass])
  /\ \A a \in 1..Len(p.aux) :
       x[Len(p.regions) + 2 + a] =
         Extent(3, p.aux[a].number, p.aux[a].payload.schema, p.aux[a].payload.passes[pass])

LEMMA ExtentsInOrder ==
  ASSUME NEW p, IsPlan(p), NEW pass \in 1..2
  PROVE  InOrder(Extents(p, pass), p, pass)
<1> DEFINE R == Len(p.regions)
           A == Len(p.aux)
           x1 == Extent(0, 0, NoSchema, BundleCells(p.schemas))
           x2 == Extent(1, 0, p.root.schema, p.root.passes[pass])
           f == [r \in 1..R |-> Extent(2, r - 1, p.regions[r].schema, p.regions[r].passes[pass])]
           g == [a \in 1..A |->
                   Extent(3, p.aux[a].number, p.aux[a].payload.schema, p.aux[a].payload.passes[pass])]
           V == {x1, x2} \cup {f[r] : r \in 1..R} \cup {g[a] : a \in 1..A}
           x == (<<x1, x2>> \o f) \o g
<1>1. p.regions \in Seq(Payload) /\ p.aux \in Seq(AuxPayload)
  BY DEF IsPlan
<1>2. R \in Nat /\ A \in Nat /\ DOMAIN p.regions = 1..R /\ DOMAIN p.aux = 1..A
  BY <1>1, LenProperties
<1>3. Extents(p, pass) = x
  BY <1>2 DEF Extents
<1> HIDE DEF R, A, x1, x2
<1>4. f \in Seq(V) /\ Len(f) = R /\ g \in Seq(V) /\ Len(g) = A /\ <<x1, x2>> \in Seq(V) /\ Len(<<x1, x2>>) = 2
  <2>1. f \in [1..R -> V] /\ g \in [1..A -> V]
    OBVIOUS
  <2>2. x1 \in V /\ x2 \in V
    OBVIOUS
  <2> HIDE DEF f, g, V
  <2>3. f \in Seq(V) /\ g \in Seq(V)
    BY <1>2, <2>1, SeqDef
  <2>4. Len(f) = R /\ Len(g) = A
    BY <1>2, <2>1, <2>3, LenProperties
  <2>5. <<x1, x2>> \in Seq(V) /\ Len(<<x1, x2>>) = 2
    BY <2>2
  <2> QED
    BY <2>3, <2>4, <2>5
<1> HIDE DEF f, g, V
<1>5. /\ <<x1, x2>> \o f \in Seq(V) /\ Len(<<x1, x2>> \o f) = 2 + R
      /\ \A i \in 1..(2 + R) : (<<x1, x2>> \o f)[i] = IF i <= 2 THEN <<x1, x2>>[i] ELSE f[i - 2]
  BY <1>4, ConcatProperties
<1> DEFINE front == <<x1, x2>> \o f
<1> HIDE DEF front
<1>6. /\ front \in Seq(V) /\ Len(front) = 2 + R
      /\ \A i \in 1..(2 + R) : front[i] = IF i <= 2 THEN <<x1, x2>>[i] ELSE f[i - 2]
  BY <1>5 DEF front
<1>7. x = front \o g
  BY DEF front
<1> HIDE DEF x
<1>8. /\ x \in Seq(V) /\ Len(x) = 2 + R + A
      /\ \A i \in 1..(2 + R + A) : x[i] = IF i <= 2 + R THEN front[i] ELSE g[i - (2 + R)]
  <2>1. /\ front \o g \in Seq(V) /\ Len(front \o g) = Len(front) + Len(g)
        /\ \A i \in 1..(Len(front) + Len(g)) :
             (front \o g)[i] = IF i <= Len(front) THEN front[i] ELSE g[i - Len(front)]
    BY <1>4, <1>6, ConcatProperties
  <2>2. Len(front) = 2 + R /\ Len(g) = A
    BY <1>4, <1>6
  <2> QED
    BY <1>7, <2>1, <2>2
<1>9. 2 + R + A \in Nat /\ 1 \in 1..(2 + R + A) /\ 2 \in 1..(2 + R + A) /\ 1 <= 2 + R /\ 2 <= 2 + R
  BY <1>2
<1>10. x[1] = x1 /\ x[2] = x2
  BY <1>6, <1>8, <1>9
<1>11. ASSUME NEW r \in 1..R PROVE x[r + 2] = f[r]
  <2>1. r + 2 \in 1..(2 + R + A) /\ r + 2 <= 2 + R /\ ~ (r + 2 <= 2) /\ (r + 2) - 2 = r /\ r + 2 \in 1..(2 + R)
    BY <1>2
  <2> QED
    BY <1>6, <1>8, <2>1
<1>12. ASSUME NEW a \in 1..A PROVE x[R + 2 + a] = g[a]
  <2>1. R + 2 + a \in 1..(2 + R + A) /\ ~ (R + 2 + a <= 2 + R) /\ (R + 2 + a) - (2 + R) = a
    BY <1>2
  <2> QED
    BY <1>8, <2>1
<1>13. DOMAIN x = 1..(2 + R + A) /\ x \in Seq(ToSet(x))
  BY <1>8, LenProperties, SeqOfRange DEF ToSet
<1>14. /\ \A r \in 1..R : f[r] = Extent(2, r - 1, p.regions[r].schema, p.regions[r].passes[pass])
       /\ \A a \in 1..A : g[a] =
            Extent(3, p.aux[a].number, p.aux[a].payload.schema, p.aux[a].payload.passes[pass])
  BY DEF f, g
<1>15. Length(p) = 2 + R + A
  BY DEF Length, R, A
<1> HIDE DEF Extents
<1> QED
  BY <1>3, <1>8, <1>10, <1>11, <1>12, <1>13, <1>14, <1>15 DEF InOrder, R, A, x1, x2

-----------------------------------------------------------------------------
(* The cells a plan's file is made of: those that hold no digest, and the   *)
(* digests of its extents.                                                  *)
Undigested(p) ==
  {Zero, <<"magic", 0>>} \cup {<<"format", 1, n>> : n \in Nat} \cup {U64(n) : n \in Nat}
  \cup {<<"manifest", Manifest(p), j>> : j \in Nat} \cup {<<"bundle", p.schemas, j>> : j \in Nat}
  \cup {<<"role", k, n>> : k \in 0..3, n \in Nat} \cup {<<"slot", s>> : s \in Nat} \cup Datum

Digests(p) == {<<"digest", e.data, j>> : e \in ToSet(Extents(p, 1)), j \in 1..4}

FileCells(p) == Undigested(p) \cup Digests(p)

(* Every case of an extent's place in the order.                            *)
LEMMA PlaceCases ==
  ASSUME NEW p, IsPlan(p), NEW i \in 1..Length(p)
  PROVE  /\ Len(p.regions) \in Nat /\ Len(p.aux) \in Nat
         /\ \/ i = 1 \/ i = 2
            \/ \E r \in 1..Len(p.regions) : i = r + 2
            \/ \E a \in 1..Len(p.aux) : i = Len(p.regions) + 2 + a
<1>1. p.regions \in Seq(Payload) /\ p.aux \in Seq(AuxPayload)
  BY DEF IsPlan
<1> DEFINE R == Len(p.regions)
           A == Len(p.aux)
<1>2. R \in Nat /\ A \in Nat
  BY <1>1, LenProperties
<1>3. i \in 1..(2 + R + A)
  BY DEF Length
<1> HIDE DEF R, A
<1>4. CASE i <= R + 2 /\ i > 2
  <2>1. i - 2 \in 1..R /\ i = (i - 2) + 2
    BY <1>2, <1>3, <1>4
  <2> QED
    BY <1>2, <2>1 DEF R, A
<1>5. CASE i > R + 2
  <2>1. i - (R + 2) \in 1..A /\ i = R + 2 + (i - (R + 2))
    BY <1>2, <1>3, <1>5
  <2> QED
    BY <1>2, <2>1 DEF R, A
<1>6. i \in Nat /\ i >= 1
  BY <1>2, <1>3
<1> QED
  BY <1>2, <1>4, <1>5, <1>6 DEF R, A

LEMMA PayloadFacts ==
  ASSUME NEW p, IsPlan(p), NEW pass \in 1..2
  PROVE  /\ p.root.schema \in SchemaIds /\ p.root.passes[pass] \in Seq(Datum)
         /\ \A r \in 1..Len(p.regions) :
              p.regions[r].schema \in SchemaIds /\ p.regions[r].passes[pass] \in Seq(Datum)
         /\ \A a \in 1..Len(p.aux) :
              /\ p.aux[a].number \in Nat /\ p.aux[a].feature \in Nat /\ p.aux[a].name \in Nat
              /\ p.aux[a].payload.schema \in SchemaIds /\ p.aux[a].payload.passes[pass] \in Seq(Datum)
<1>1. /\ p.regions \in Seq(Payload) /\ p.aux \in Seq(AuxPayload) /\ p.root \in Payload
  BY DEF IsPlan
<1>2. \A r \in 1..Len(p.regions) : p.regions[r] \in Payload
  BY <1>1, ElementOfSeq
<1>3. \A a \in 1..Len(p.aux) : p.aux[a] \in AuxPayload
  BY <1>1, ElementOfSeq
<1>4. \A q \in Payload : q.schema \in SchemaIds /\ q.passes[pass] \in Seq(Datum)
  BY DEF Payload
<1>5. \A a \in AuxPayload : a.number \in Nat /\ a.feature \in Nat /\ a.name \in Nat /\ a.payload \in Payload
  BY DEF AuxPayload
<1> QED
  BY <1>1, <1>2, <1>3, <1>4, <1>5

LEMMA BundleFacts ==
  ASSUME NEW p, IsPlan(p)
  PROVE  /\ BundleCells(p.schemas) \in Seq(FileCells(p))
         /\ Cardinality(p.schemas) \in Nat
         /\ Len(BundleCells(p.schemas)) = 1 + Cardinality(p.schemas)
<1>1. Cardinality(p.schemas) \in Nat
  BY FS_CardinalityType DEF IsPlan
<1> DEFINE n == 1 + Cardinality(p.schemas)
<1>2. n \in Nat /\ \A j \in 1..n : <<"bundle", p.schemas, j>> \in FileCells(p)
  BY <1>1 DEF FileCells, Undigested
<1>3. BundleCells(p.schemas) = [j \in 1..n |-> <<"bundle", p.schemas, j>>]
  BY DEF BundleCells, Coded
<1> HIDE DEF n
<1>4. BundleCells(p.schemas) \in Seq(FileCells(p)) /\ Len(BundleCells(p.schemas)) = n
  BY <1>2, <1>3
<1> QED
  BY <1>1, <1>4 DEF n

(* What an extent is made of.                                               *)
LEMMA ExtentFacts ==
  ASSUME NEW p, IsPlan(p), NEW pass \in 1..2, NEW i \in 1..Length(p)
  PROVE  LET e == Extents(p, pass)[i] IN
         /\ e.kind \in 0..3 /\ e.number \in Nat /\ e.schema \in Nat
         /\ e.data \in Seq(FileCells(p)) /\ Len(e.data) \in Nat
         /\ i # 1 => e.schema \in SchemaIds /\ e.data \in Seq(Datum) /\ e.kind # 0
<1> DEFINE x == Extents(p, pass)
<1>0. InOrder(x, p, pass)
  BY ExtentsInOrder
<1> HIDE DEF x
<1>1. \A s \in SchemaIds : s \in Nat
  BY DEF SchemaIds
<1>2. \A d \in Seq(Datum) : d \in Seq(FileCells(p)) /\ Len(d) \in Nat
  <2>1. Datum \subseteq FileCells(p)
    BY DEF FileCells, Undigested
  <2>2. Seq(Datum) \subseteq Seq(FileCells(p))
    BY <2>1, SeqMonotonic
  <2> QED
    BY <2>2, LenProperties
<1>3. CASE i = 1
  <2>1. x[i] = Extent(0, 0, NoSchema, BundleCells(p.schemas))
    BY <1>0, <1>3 DEF InOrder
  <2>2. x[i].data \in Seq(FileCells(p)) /\ Len(x[i].data) \in Nat
    BY <2>1, BundleFacts, LenProperties DEF Extent
  <2> QED
    BY <1>3, <2>1, <2>2 DEF Extent, NoSchema, x
<1>4. CASE i = 2
  <2>1. x[i] = Extent(1, 0, p.root.schema, p.root.passes[pass])
    BY <1>0, <1>4 DEF InOrder
  <2> QED
    BY <1>1, <1>2, <2>1, PayloadFacts DEF Extent, x
<1>5. CASE \E r \in 1..Len(p.regions) : i = r + 2
  <2>1. PICK r \in 1..Len(p.regions) : i = r + 2
    BY <1>5
  <2>2. x[i] = Extent(2, r - 1, p.regions[r].schema, p.regions[r].passes[pass])
    BY <1>0, <2>1 DEF InOrder
  <2>3. r - 1 \in Nat
    BY <2>1, PlaceCases
  <2>4. p.regions[r].schema \in SchemaIds /\ p.regions[r].passes[pass] \in Seq(Datum)
    BY PayloadFacts
  <2> QED
    BY <1>1, <1>2, <2>2, <2>3, <2>4 DEF Extent, x
<1>6. CASE \E a \in 1..Len(p.aux) : i = Len(p.regions) + 2 + a
  <2>1. PICK a \in 1..Len(p.aux) : i = Len(p.regions) + 2 + a
    BY <1>6
  <2>2. x[i] = Extent(3, p.aux[a].number, p.aux[a].payload.schema, p.aux[a].payload.passes[pass])
    BY <1>0, <2>1 DEF InOrder
  <2>3. p.aux[a].number \in Nat /\ p.aux[a].payload.schema \in SchemaIds
        /\ p.aux[a].payload.passes[pass] \in Seq(Datum)
    BY PayloadFacts
  <2> QED
    BY <1>1, <1>2, <2>2, <2>3 DEF Extent, x
<1> QED
  BY <1>3, <1>4, <1>5, <1>6, PlaceCases

LEMMA DescriptorCells ==
  ASSUME NEW e, NEW o
  PROVE  LET d == Descriptor(e, o) IN
         /\ d \in Seq(ToSet(d)) /\ Len(d) = DESCRIPTOR_SIZE /\ DOMAIN d = 1..DESCRIPTOR_SIZE
         /\ d[1] = <<"role", e.kind, e.number>> /\ d[2] = U64(o) /\ d[3] = U64(Len(e.data))
         /\ d[4] = U64(ALIGNMENT) /\ d[5] = <<"slot", e.schema>>
         /\ \A j \in 1..4 : d[5 + j] = <<"digest", e.data, j>>
<1> DEFINE a1 == <<"role", e.kind, e.number>>
           a2 == U64(o)
           a3 == U64(Len(e.data))
           a4 == U64(ALIGNMENT)
           a5 == <<"slot", e.schema>>
           f == <<a1, a2, a3, a4, a5>>
           g == Coded("digest", e.data, 4)
           V == {a1, a2, a3, a4, a5} \cup {g[j] : j \in 1..4}
           d == f \o g
<1>1. g = [j \in 1..4 |-> <<"digest", e.data, j>>]
  BY DEF Coded
<1>2. g \in Seq(V) /\ Len(g) = 4 /\ \A j \in 1..4 : g[j] = <<"digest", e.data, j>>
  <2>1. \A j \in 1..4 : g[j] \in V
    BY DEF g
  <2> HIDE DEF V, g
  <2>2. g = [j \in 1..4 |-> g[j]] /\ \A j \in 1..4 : g[j] = <<"digest", e.data, j>>
    BY <1>1
  <2>3. g \in Seq(V) /\ Len(g) = 4
    BY <2>1, <2>2
  <2> QED
    BY <2>2, <2>3
<1> HIDE DEF a1, a2, a3, a4, a5, g
<1>3. /\ f \in Seq(V) /\ Len(f) = 5
      /\ f[1] = a1 /\ f[2] = a2 /\ f[3] = a3 /\ f[4] = a4 /\ f[5] = a5
  OBVIOUS
<1> HIDE DEF f, V
<1>4. /\ f \o g \in Seq(V) /\ Len(f \o g) = 5 + 4
      /\ \A i \in 1..(5 + 4) : (f \o g)[i] = IF i <= 5 THEN f[i] ELSE g[i - 5]
  <2>1. /\ f \o g \in Seq(V) /\ Len(f \o g) = Len(f) + Len(g)
        /\ \A i \in 1..(Len(f) + Len(g)) : (f \o g)[i] = IF i <= Len(f) THEN f[i] ELSE g[i - Len(f)]
    BY <1>2, <1>3, ConcatProperties
  <2>2. Len(f) = 5 /\ Len(g) = 4
    BY <1>2, <1>3
  <2> QED
    BY <2>1, <2>2
<1>5. /\ d \in Seq(V) /\ Len(d) = 9
      /\ d[1] = a1 /\ d[2] = a2 /\ d[3] = a3 /\ d[4] = a4 /\ d[5] = a5
  BY <1>3, <1>4, SMTT(30)
<1>6. \A j \in 1..4 : d[5 + j] = <<"digest", e.data, j>>
  <2> SUFFICES ASSUME NEW j \in 1..4 PROVE d[5 + j] = <<"digest", e.data, j>>
    OBVIOUS
  <2>1. 5 + j \in 1..(5 + 4) /\ ~ (5 + j <= 5) /\ (5 + j) - 5 = j
    OBVIOUS
  <2> QED
    BY <1>2, <1>4, <2>1
<1>7. Descriptor(e, o) = d
  BY DEF Descriptor, f, g, a1, a2, a3, a4, a5
<1> HIDE DEF d
<1>8. d \in Seq(ToSet(d)) /\ DOMAIN d = 1..9
  <2>1. d \in Seq(V) /\ Len(d) = 9
    BY <1>5
  <2>2. DOMAIN d = 1..Len(d) /\ d \in Seq(Range(d))
    BY <2>1, LenProperties, SeqOfRange
  <2> QED
    BY <2>1, <2>2 DEF Range, ToSet
<1> QED
  BY <1>5, <1>6, <1>7, <1>8 DEF a1, a2, a3, a4, a5, DESCRIPTOR_SIZE

(* Where the file's parts begin and end.                                    *)
TableOf(p) == FIXED_HEADER + Len(ManifestCells(Manifest(p)))
EnvelopeLen(p) == TableOf(p) + Length(p) * DESCRIPTOR_SIZE
At(p) == Offsets(EnvelopeLen(p), Extents(p, 1))
EndAt(p, i) == At(p)[i] + Len(Extents(p, 1)[i].data)
FileLength(p) == EndAt(p, Length(p))

LEMMA ManifestFacts ==
  ASSUME NEW p, IsPlan(p)
  PROVE  /\ ManifestCells(Manifest(p)) \in Seq(FileCells(p))
         /\ Len(ManifestCells(Manifest(p))) \in Nat
         /\ Manifest(p) = NoManifest <=> Len(ManifestCells(Manifest(p))) = 0
         /\ Manifest(p) # NoManifest =>
              ManifestCells(Manifest(p)) = Coded("manifest", Manifest(p), Len(ManifestCells(Manifest(p))))
         /\ \A j \in 1..Len(ManifestCells(Manifest(p))) :
              ManifestCells(Manifest(p))[j] = <<"manifest", Manifest(p), j>>
<1> DEFINE m == Manifest(p)
           r == Len(m.required)
           o == Len(m.optional)
           a == Len(m.aux)
           n == 2 + r + o + a
<1>1. p.required \in Seq(Nat) /\ p.optional \in Seq(Nat) /\ p.aux \in Seq(AuxPayload)
  BY DEF IsPlan
<1>2. r \in Nat /\ o \in Nat /\ a \in Nat
  <2>1. Len(p.required) \in Nat /\ Len(p.optional) \in Nat /\ Len(p.aux) \in Nat /\ DOMAIN p.aux = 1..Len(p.aux)
    BY <1>1, LenProperties
  <2>2. m.aux = [i \in 1..Len(p.aux) |-> [feature |-> p.aux[i].feature,
                                         name |-> p.aux[i].name, number |-> p.aux[i].number]]
    BY <2>1 DEF Manifest
  <2>3. Len(m.aux) = Len(p.aux)
    BY <2>1, <2>2
  <2> QED
    BY <2>1, <2>3 DEF Manifest
<1> HIDE DEF m, r, o, a
<1>3. n \in Nat /\ n # 0
  BY <1>2
<1> HIDE DEF n
<1>4. CASE m = NoManifest
  <2>1. ManifestCells(m) = <<>> /\ Len(<<>>) = 0
    BY <1>4 DEF ManifestCells
  <2> QED
    BY <1>4, <2>1, EmptySeq DEF m
<1>5. CASE m # NoManifest
  <2>1. ManifestCells(m) = Coded("manifest", m, n)
    BY <1>5 DEF ManifestCells, n, r, o, a
  <2>2. Coded("manifest", m, n) = [j \in 1..n |-> <<"manifest", m, j>>]
    BY DEF Coded
  <2>3. \A j \in 1..n : <<"manifest", m, j>> \in FileCells(p)
    BY DEF FileCells, Undigested, m
  <2>4. ManifestCells(m) \in Seq(FileCells(p)) /\ Len(ManifestCells(m)) = n
        /\ \A j \in 1..n : ManifestCells(m)[j] = <<"manifest", m, j>>
    <3> HIDE DEF FileCells
    <3> QED
      BY <1>3, <2>1, <2>2, <2>3
  <2> QED
    BY <1>3, <1>5, <2>1, <2>4 DEF m
<1> QED
  BY <1>4, <1>5

(* The offsets the counting pass assigns.                                   *)
LEMMA Placement ==
  ASSUME NEW p, IsPlan(p)
  PROVE  /\ Length(p) \in Nat /\ Length(p) >= 2 /\ TableOf(p) \in Nat /\ TableOf(p) >= FIXED_HEADER
         /\ EnvelopeLen(p) \in Nat /\ EnvelopeLen(p) >= TableOf(p)
         /\ At(p) \in [1..Length(p) -> Nat]
         /\ \A i \in 1..Length(p) :
              /\ Len(Extents(p, 1)[i].data) \in Nat /\ EndAt(p, i) \in Nat /\ At(p)[i] <= EndAt(p, i)
              /\ At(p)[i] = AlignUp(IF i = 1 THEN EnvelopeLen(p) ELSE EndAt(p, i - 1))
<1> DEFINE n == Length(p)
           x == Extents(p, 1)
<1>1. Len(p.regions) \in Nat /\ Len(p.aux) \in Nat
  <2>1. p.regions \in Seq(Payload) /\ p.aux \in Seq(AuxPayload)
    BY DEF IsPlan
  <2> QED
    BY <2>1, LenProperties
<1>2. n \in Nat /\ n >= 2
  <2> DEFINE R == Len(p.regions)
             A == Len(p.aux)
  <2>1. R \in Nat /\ A \in Nat /\ n = 2 + R + A
    BY <1>1 DEF Length
  <2> HIDE DEF R, A, n
  <2> QED
    BY <2>1
<1>3. TableOf(p) \in Nat /\ TableOf(p) >= FIXED_HEADER
  BY ManifestFacts DEF TableOf, FIXED_HEADER
<1>4. EnvelopeLen(p) \in Nat /\ EnvelopeLen(p) >= TableOf(p)
  BY <1>2, <1>3 DEF EnvelopeLen, DESCRIPTOR_SIZE
<1>5. DOMAIN x = 1..n /\ \A i \in 1..n : Len(x[i].data) \in Nat
  BY ExtentsInOrder, ExtentFacts DEF InOrder
<1> HIDE DEF n, x
<1>6. LET offset == Offsets(EnvelopeLen(p), x) IN
      /\ offset \in [1..n -> Nat]
      /\ \A i \in 1..n :
           offset[i] = AlignUp(IF i = 1 THEN EnvelopeLen(p) ELSE offset[i - 1] + Len(x[i - 1].data))
  BY <1>2, <1>4, <1>5, OffsetSteps
<1>7. At(p) = Offsets(EnvelopeLen(p), x)
  BY DEF At, x
<1>8. \A i \in 1..n : At(p)[i] = AlignUp(IF i = 1 THEN EnvelopeLen(p) ELSE EndAt(p, i - 1))
  BY <1>6, <1>7 DEF EndAt, x
<1>9. At(p) \in [1..n -> Nat]
  BY <1>6, <1>7
<1>10. \A i \in 1..n : EndAt(p, i) \in Nat /\ At(p)[i] <= EndAt(p, i)
  BY <1>5, <1>9 DEF EndAt, x
<1> QED
  BY <1>2, <1>3, <1>4, <1>5, <1>8, <1>9, <1>10 DEF n, x

(* The cells before the first extent.                                       *)
HasHeader(b, p) ==
  /\ b[1] = <<"magic", 0>> /\ b[2] = <<"format", 1, Length(p)>>
  /\ b[3] = U64(FileLength(p)) /\ b[4] = U64(TableOf(p))

HasManifest(b, p) ==
  \A j \in 1..Len(ManifestCells(Manifest(p))) : b[FIXED_HEADER + j] = ManifestCells(Manifest(p))[j]

HasRow(b, p, i) ==
  \A f \in 1..DESCRIPTOR_SIZE :
    b[TableOf(p) + (i - 1) * DESCRIPTOR_SIZE + f] = Descriptor(Extents(p, 1)[i], At(p)[i])[f]

HasEnvelope(b, p) ==
  HasHeader(b, p) /\ HasManifest(b, p) /\ \A i \in 1..Length(p) : HasRow(b, p, i)

LEMMA DescriptorsAreCells ==
  ASSUME NEW p, IsPlan(p), NEW i \in 1..Length(p)
  PROVE  LET d == Descriptor(Extents(p, 1)[i], At(p)[i]) IN
         d \in Seq(FileCells(p)) /\ Len(d) = DESCRIPTOR_SIZE
<1> DEFINE e == Extents(p, 1)[i]
           d == Descriptor(e, At(p)[i])
<1>0. 1 \in 1..2
  OBVIOUS
<1>1. e \in ToSet(Extents(p, 1))
  <2>1. InOrder(Extents(p, 1), p, 1)
    BY <1>0, ExtentsInOrder
  <2> QED
    BY <2>1 DEF InOrder, ToSet
<1>2. e.kind \in 0..3 /\ e.number \in Nat /\ e.schema \in Nat /\ Len(e.data) \in Nat /\ At(p)[i] \in Nat
  <2>1. At(p)[i] \in Nat
    BY Placement
  <2> QED
    BY <1>0, <2>1, ExtentFacts
<1> HIDE DEF e
<1>3. /\ d \in Seq(ToSet(d)) /\ Len(d) = DESCRIPTOR_SIZE /\ DOMAIN d = 1..DESCRIPTOR_SIZE
      /\ d[1] = <<"role", e.kind, e.number>> /\ d[2] = U64(At(p)[i]) /\ d[3] = U64(Len(e.data))
      /\ d[4] = U64(ALIGNMENT) /\ d[5] = <<"slot", e.schema>>
      /\ \A j \in 1..4 : d[5 + j] = <<"digest", e.data, j>>
  BY DescriptorCells
<1> HIDE DEF d
<1>4. d[1] \in FileCells(p) /\ d[5] \in FileCells(p)
  BY <1>2, <1>3 DEF FileCells, Undigested
<1>5. d[2] \in FileCells(p) /\ d[3] \in FileCells(p) /\ d[4] \in FileCells(p)
  <2>1. \A k \in Nat : U64(k) \in FileCells(p)
    BY DEF FileCells, Undigested
  <2>2. ALIGNMENT \in Nat
    BY DEF ALIGNMENT
  <2> QED
    BY <1>2, <1>3, <2>1, <2>2
<1>6. \A j \in 1..4 : d[5 + j] \in FileCells(p)
  <2> SUFFICES ASSUME NEW j \in 1..4 PROVE d[5 + j] \in FileCells(p)
    OBVIOUS
  <2>1. <<"digest", e.data, j>> \in Digests(p)
    BY <1>1 DEF Digests
  <2> QED
    BY <1>3, <2>1 DEF FileCells
<1>7. d[6] \in FileCells(p) /\ d[7] \in FileCells(p) /\ d[8] \in FileCells(p) /\ d[9] \in FileCells(p)
  <2>1. 1 \in 1..4 /\ 2 \in 1..4 /\ 3 \in 1..4 /\ 4 \in 1..4 /\ 5 + 1 = 6 /\ 5 + 2 = 7 /\ 5 + 3 = 8 /\ 5 + 4 = 9
    OBVIOUS
  <2> HIDE <1>3
  <2> QED
    BY <1>6, <2>1
<1>8. \A f \in DOMAIN d : d[f] \in FileCells(p)
  <2>1. \A f \in 1..9 : f = 1 \/ f = 2 \/ f = 3 \/ f = 4 \/ f = 5 \/ f = 6 \/ f = 7 \/ f = 8 \/ f = 9
    OBVIOUS
  <2>2. DOMAIN d = 1..9
    BY <1>3 DEF DESCRIPTOR_SIZE
  <2> QED
    BY <1>4, <1>5, <1>7, <2>1, <2>2
<1>9. ToSet(d) \subseteq FileCells(p)
  BY <1>8 DEF ToSet
<1>10. d \in Seq(FileCells(p))
  BY <1>3, <1>9, SeqMonotonic
<1> QED
  BY <1>3, <1>10 DEF e, d

LEMMA EnvelopeCells ==
  ASSUME NEW p, IsPlan(p)
  PROVE  /\ Envelope(p) \in Seq(FileCells(p))
         /\ Len(Envelope(p)) = EnvelopeLen(p)
         /\ HasEnvelope(Envelope(p), p)
<1> DEFINE S == FileCells(p)
           n == Length(p)
           x == Extents(p, 1)
           off == At(p)
           m == ManifestCells(Manifest(p))
           k == Len(m)
           h == <<<<"magic", 0>>, <<"format", 1, n>>, U64(FileLength(p)), U64(TableOf(p))>>
           rows == Rows(x, off)
           D(i) == Descriptor(x[i], off[i])
<1>1. Len(x) = n /\ n \in Nat
  <2>1. InOrder(x, p, 1)
    BY ExtentsInOrder
  <2>2. n \in Nat
    BY Placement
  <2> QED
    BY <2>1, <2>2 DEF InOrder
<1>2. Envelope(p) = (h \o m) \o rows
  BY <1>1 DEF Envelope, FileLength, EndAt, At, EnvelopeLen, TableOf
<1>3. h \in Seq(S) /\ Len(h) = 4 /\ HasHeader(h, p)
  <2>1. /\ TableOf(p) \in Nat /\ FileLength(p) \in Nat /\ n \in Nat
    BY Placement DEF FileLength
  <2>2. U64(FileLength(p)) \in S /\ U64(TableOf(p)) \in S
    <3>1. \A j \in Nat : U64(j) \in S
      BY DEF FileCells, Undigested
    <3> QED
      BY <2>1, <3>1
  <2>3. <<"magic", 0>> \in S /\ <<"format", 1, n>> \in S
    BY <2>1 DEF FileCells, Undigested
  <2> HIDE DEF S
  <2> QED
    BY <2>2, <2>3 DEF HasHeader
<1>4. m \in Seq(S) /\ k \in Nat
  BY ManifestFacts
<1>5. \A i \in 1..n : D(i) \in Seq(S) /\ Len(D(i)) = DESCRIPTOR_SIZE
  BY DescriptorsAreCells
<1>6. /\ rows \in Seq(S) /\ Len(rows) = n * DESCRIPTOR_SIZE
      /\ \A i \in 1..n : \A f \in 1..DESCRIPTOR_SIZE :
           rows[(i - 1) * DESCRIPTOR_SIZE + f] = D(i)[f]
  <2>1. \A i \in 1..n : /\ Descriptor(x[i], off[i]) \in Seq(S)
                        /\ Len(Descriptor(x[i], off[i])) = DESCRIPTOR_SIZE
    BY <1>5
  <2> HIDE DEF S, n, x, off
  <2>2. RowsOf(S, n, x, off)
    BY <1>1, <2>1 DEF RowsOf
  <2> QED
    BY <2>2, RowsCells
<1> HIDE DEF S, n, x, off, m, k, h, rows, D
<1>7. /\ h \o m \in Seq(S) /\ Len(h \o m) = 4 + k
      /\ \A i \in 1..(4 + k) : (h \o m)[i] = IF i <= 4 THEN h[i] ELSE m[i - 4]
  <2>1. /\ h \o m \in Seq(S) /\ Len(h \o m) = Len(h) + Len(m)
        /\ \A i \in 1..(Len(h) + Len(m)) : (h \o m)[i] = IF i <= Len(h) THEN h[i] ELSE m[i - Len(h)]
    BY <1>3, <1>4, ConcatProperties
  <2>2. Len(h) = 4 /\ Len(m) = k
    BY <1>3 DEF k
  <2> QED
    BY <2>1, <2>2
<1> DEFINE front == h \o m
           b == front \o rows
           z == n * DESCRIPTOR_SIZE
<1>8. /\ front \in Seq(S) /\ Len(front) = 4 + k
      /\ \A i \in 1..(4 + k) : front[i] = IF i <= 4 THEN h[i] ELSE m[i - 4]
  BY <1>7
<1> HIDE DEF front, b, z
<1>9. /\ b \in Seq(S) /\ Len(b) = 4 + k + z
      /\ \A i \in 1..(4 + k + z) : b[i] = IF i <= 4 + k THEN front[i] ELSE rows[i - (4 + k)]
  <2>1. /\ front \o rows \in Seq(S) /\ Len(front \o rows) = Len(front) + Len(rows)
        /\ \A i \in 1..(Len(front) + Len(rows)) :
             (front \o rows)[i] = IF i <= Len(front) THEN front[i] ELSE rows[i - Len(front)]
    BY <1>6, <1>8, ConcatProperties
  <2>2. Len(front) = 4 + k /\ Len(rows) = z
    BY <1>6, <1>8 DEF z
  <2> QED
    BY <2>1, <2>2 DEF b
<1>10. z \in Nat /\ k \in Nat
  BY <1>1, <1>4 DEF z, DESCRIPTOR_SIZE
<1>11. \A i \in 1..4 : b[i] = h[i]
  <2>1. \A i \in 1..4 : i \in 1..(4 + k) /\ i \in 1..(4 + k + z) /\ i <= 4 + k /\ i <= 4
    BY <1>10
  <2> QED
    BY <1>8, <1>9, <2>1
<1>12. \A j \in 1..k : b[4 + j] = m[j]
  <2>1. \A j \in 1..k : /\ 4 + j \in 1..(4 + k) /\ 4 + j \in 1..(4 + k + z) /\ 4 + j <= 4 + k
                        /\ ~ (4 + j <= 4) /\ (4 + j) - 4 = j
    BY <1>10
  <2> QED
    BY <1>8, <1>9, <2>1
<1>13. \A j \in 1..z : b[4 + k + j] = rows[j]
  <2>1. \A j \in 1..z : /\ 4 + k + j \in 1..(4 + k + z) /\ ~ (4 + k + j <= 4 + k) /\ (4 + k + j) - (4 + k) = j
    BY <1>10
  <2> QED
    BY <1>9, <2>1
<1>14. Envelope(p) = b
  BY <1>2 DEF b, front
<1>15. Len(b) = EnvelopeLen(p)
  BY <1>9 DEF EnvelopeLen, TableOf, FIXED_HEADER, k, m, n, z
<1>16. HasHeader(b, p)
  <2>1. 1 \in 1..4 /\ 2 \in 1..4 /\ 3 \in 1..4 /\ 4 \in 1..4
    OBVIOUS
  <2>2. b[1] = h[1] /\ b[2] = h[2] /\ b[3] = h[3] /\ b[4] = h[4]
    BY <1>11, <2>1
  <2> QED
    BY <1>3, <2>2 DEF HasHeader
<1>17. HasManifest(b, p)
  BY <1>12 DEF HasManifest, FIXED_HEADER, k, m
<1>18. ASSUME NEW i \in 1..n PROVE HasRow(b, p, i)
  <2> SUFFICES ASSUME NEW f \in 1..DESCRIPTOR_SIZE
               PROVE  b[TableOf(p) + (i - 1) * DESCRIPTOR_SIZE + f] = D(i)[f]
    BY DEF HasRow, D, x, off
  <2> DEFINE j == (i - 1) * DESCRIPTOR_SIZE + f
  <2>1. j \in 1..z /\ (i - 1) * DESCRIPTOR_SIZE \in Nat /\ f \in Nat
    BY <1>1 DEF z, DESCRIPTOR_SIZE
  <2>2. TableOf(p) = 4 + k
    BY DEF TableOf, FIXED_HEADER, k, m
  <2>3. TableOf(p) + (i - 1) * DESCRIPTOR_SIZE + f = 4 + k + j
    <3> DEFINE q == (i - 1) * DESCRIPTOR_SIZE
    <3> HIDE DEF q
    <3>1. TableOf(p) + q + f = 4 + k + (q + f)
      BY <1>10, <2>1, <2>2 DEF q
    <3> QED
      BY <3>1 DEF q
  <2> HIDE DEF j
  <2>4. b[4 + k + j] = rows[j]
    BY <1>13, <2>1
  <2>5. rows[j] = D(i)[f]
    BY <1>6 DEF j
  <2> QED
    BY <2>3, <2>4, <2>5
<1> QED
  BY <1>9, <1>14, <1>15, <1>16, <1>17, <1>18 DEF HasEnvelope, S, n

-----------------------------------------------------------------------------
(* A file that holds what its plan says, at the places the plan says.       *)
HasPayload(b, p, i) ==
  /\ EndAt(p, i) <= Len(b)
  /\ \A m \in 1..Len(Extents(p, 1)[i].data) : b[At(p)[i] + m] = Extents(p, 1)[i].data[m]

LaidOut(b, p) ==
  /\ b \in Seq(FileCells(p)) /\ Len(b) = FileLength(p) /\ EnvelopeLen(p) <= Len(b)
  /\ HasEnvelope(b, p)
  /\ \A i \in 1..Length(p) : HasPayload(b, p, i)

LEMMA EnvelopeStays ==
  ASSUME NEW p, IsPlan(p), NEW v, HasEnvelope(v, p), NEW b, \A i \in 1..EnvelopeLen(p) : b[i] = v[i]
  PROVE  HasEnvelope(b, p)
<1> DEFINE n == Length(p)
           k == Len(ManifestCells(Manifest(p)))
           t == TableOf(p)
           e == EnvelopeLen(p)
<1>1. HasHeader(v, p) /\ HasManifest(v, p) /\ \A i \in 1..n : HasRow(v, p, i)
  BY DEF HasEnvelope
<1>2. n \in Nat /\ k \in Nat /\ t = 4 + k /\ e = t + n * 9
  BY Placement, ManifestFacts DEF TableOf, EnvelopeLen, FIXED_HEADER, DESCRIPTOR_SIZE
<1> HIDE DEF n, k, t, e
<1>3. 1 \in 1..e /\ 2 \in 1..e /\ 3 \in 1..e /\ 4 \in 1..e
  BY <1>2
<1>4. \A i \in 1..e : b[i] = v[i]
  BY DEF e
<1>5. HasHeader(b, p)
  BY <1>1, <1>3, <1>4 DEF HasHeader
<1>6. HasManifest(b, p)
  <2>1. \A j \in 1..k : 4 + j \in 1..e
    BY <1>2
  <2>2. \A j \in 1..k : v[4 + j] = ManifestCells(Manifest(p))[j]
    BY <1>1 DEF HasManifest, FIXED_HEADER, k
  <2> QED
    BY <1>4, <2>1, <2>2 DEF HasManifest, FIXED_HEADER, k
<1>7. ASSUME NEW i \in 1..n PROVE HasRow(b, p, i)
  <2> SUFFICES ASSUME NEW f \in 1..9
               PROVE  b[t + (i - 1) * 9 + f] = Descriptor(Extents(p, 1)[i], At(p)[i])[f]
    BY DEF HasRow, DESCRIPTOR_SIZE, t
  <2>1. t + (i - 1) * 9 + f \in 1..e
    BY <1>2
  <2>2. v[t + (i - 1) * 9 + f] = Descriptor(Extents(p, 1)[i], At(p)[i])[f]
    BY <1>1 DEF HasRow, DESCRIPTOR_SIZE, t
  <2> QED
    BY <1>4, <2>1, <2>2
<1> QED
  BY <1>5, <1>6, <1>7 DEF HasEnvelope, n

(* write_to_vec lays a plan out as its header and descriptors say: the      *)
(* buffer has the capacity that was computed before the emitting pass       *)
(* (debug_assert_eq!(out.len(), capacity)), the table stands where the      *)
(* header says, and every payload where its descriptor says.                *)
THEOREM LayoutAsPlanned ==
  \A p : IsPlan(p) /\ Extents(p, 2) = Extents(p, 1) => LaidOut(Layout(p), p)
<1> SUFFICES ASSUME NEW p, IsPlan(p), Extents(p, 2) = Extents(p, 1)
             PROVE  LaidOut(Layout(p), p)
  OBVIOUS
<1> DEFINE S == FileCells(p)
           n == Length(p)
           x == Extents(p, 1)
           front == Envelope(p)
           b == Emitted(front, x)
<1>1. Zero \in S
  BY DEF FileCells, Undigested
<1>2. front \in Seq(S) /\ Len(front) = EnvelopeLen(p)
  BY EnvelopeCells
<1>3. n \in Nat \ {0} /\ DOMAIN x = 1..n /\ Len(x) = n
  <2>1. InOrder(x, p, 1)
    BY ExtentsInOrder
  <2>2. n \in Nat /\ n >= 2
    BY Placement
  <2> QED
    BY <2>1, <2>2 DEF InOrder
<1>4. \A i \in 1..n : x[i].data \in Seq(S)
  BY ExtentFacts
<1>5. Layout(p) = b
  BY DEF Layout
<1>6. At(p) = Offsets(Len(front), x)
  BY <1>2 DEF At
<1> HIDE DEF S, n, x, front
<1>7. EmittedAt(b, S, front, n, x, At(p))
  <2>1. Emittable(S, front, n, x)
    BY <1>1, <1>2, <1>3, <1>4 DEF Emittable
  <2> QED
    BY <1>6, <2>1, EmittedCells
<1> HIDE DEF b
<1>8. b \in Seq(S) /\ Len(b) = FileLength(p) /\ EnvelopeLen(p) <= Len(b)
  BY <1>2, <1>7 DEF FileLength, EndAt, x, n, EmittedAt
<1>9. HasEnvelope(b, p)
  <2>1. \A i \in 1..EnvelopeLen(p) : b[i] = Envelope(p)[i]
    BY <1>2, <1>7 DEF front, EmittedAt
  <2> QED
    BY <2>1, EnvelopeCells, EnvelopeStays
<1>10. \A i \in 1..n : HasPayload(b, p, i)
  BY <1>7 DEF HasPayload, EndAt, x, n, EmittedAt
<1> QED
  BY <1>5, <1>8, <1>9, <1>10 DEF LaidOut, S, n

(* A payload that stands at an offset is what is read there.                *)
LEMMA SliceAt ==
  ASSUME NEW S, NEW b \in Seq(S), NEW o \in Nat, NEW T, NEW d \in Seq(T),
         o + Len(d) <= Len(b), \A m \in 1..Len(d) : b[o + m] = d[m]
  PROVE  SubSeq(b, o + 1, o + Len(d)) = d
<1> DEFINE n == Len(d)
           s == SubSeq(b, o + 1, o + n)
<1>1. n \in Nat /\ Len(b) \in Nat
  BY LenProperties
<1> HIDE DEF n
<1>2. o + 1 \in Int /\ o + n \in Int /\ (o + n) - (o + 1) + 1 = n
  BY <1>1
<1>3. \A i \in (o + 1)..(o + n) : b[i] \in S
  <2>1. \A i \in (o + 1)..(o + n) : i \in 1..Len(b)
    BY <1>1 DEF n
  <2> QED
    BY <2>1, ElementOfSeq
<1>4. /\ s \in Seq(S) /\ Len(s) = IF o + 1 <= o + n THEN (o + n) - (o + 1) + 1 ELSE 0
      /\ \A i \in 1..((o + n) - (o + 1) + 1) : s[i] = b[(o + 1) + i - 1]
  BY <1>2, <1>3, SubSeqProperties
<1> HIDE DEF s
<1>5. Len(s) = n
  BY <1>1, <1>2, <1>4
<1>6. \A i \in 1..n : s[i] = d[i]
  <2> SUFFICES ASSUME NEW i \in 1..n PROVE s[i] = d[i]
    OBVIOUS
  <2>1. (o + 1) + i - 1 = o + i
    BY <1>1
  <2> QED
    BY <1>2, <1>4, <2>1 DEF n
<1>7. s \in Seq(S \cup T) /\ d \in Seq(S \cup T)
  <2>1. Seq(S) \subseteq Seq(S \cup T) /\ Seq(T) \subseteq Seq(S \cup T)
    BY SeqMonotonic
  <2> QED
    BY <1>4, <2>1
<1> QED
  BY <1>5, <1>6, <1>7, SeqEqual DEF n, s

(* Whatever the emitting pass yields, what comes out is a sequence of cells.*)
LEMMA LayoutIsASeq == ASSUME NEW p, IsPlan(p) PROVE Layout(p) \in Seq(FileCells(p))
<1> DEFINE S == FileCells(p)
           n == Length(p)
           x == Extents(p, 2)
           front == Envelope(p)
<1>1. Zero \in S
  BY DEF FileCells, Undigested
<1>2. front \in Seq(S)
  BY EnvelopeCells
<1>3. n \in Nat \ {0} /\ DOMAIN x = 1..n /\ Len(x) = n
  <2>1. InOrder(x, p, 2)
    BY ExtentsInOrder
  <2>2. n \in Nat /\ n >= 2
    BY Placement
  <2> QED
    BY <2>1, <2>2 DEF InOrder
<1>4. \A i \in 1..n : x[i].data \in Seq(S)
  BY ExtentFacts
<1>5. Layout(p) = Emitted(front, x)
  BY DEF Layout
<1> HIDE DEF S, n, x, front
<1>6. Emittable(S, front, n, x)
  BY <1>1, <1>2, <1>3, <1>4 DEF Emittable
<1>7. Emitted(front, x) \in Seq(S)
  BY <1>6, EmittedCells DEF EmittedAt
<1> QED
  BY <1>5, <1>7 DEF S

-----------------------------------------------------------------------------
(* What parse reads in the row of an extent.                                *)
LEMMA RowFields ==
  ASSUME NEW p, IsPlan(p), NEW b, Table(b) = TableOf(p), NEW i \in 1..Length(p), HasRow(b, p, i)
  PROVE  LET e == Extents(p, 1)[i] IN
         /\ \A f \in 1..DESCRIPTOR_SIZE : FieldCell(b, i, f) = Descriptor(e, At(p)[i])[f]
         /\ FieldCell(b, i, 1) = <<"role", e.kind, e.number>> /\ Kind(b, i) = e.kind /\ Number(b, i) = e.number
         /\ FieldCell(b, i, 2) = U64(At(p)[i]) /\ Offset(b, i) = At(p)[i]
         /\ FieldCell(b, i, 3) = U64(Len(e.data)) /\ DataLen(b, i) = Len(e.data)
         /\ FieldCell(b, i, 4) = U64(ALIGNMENT)
         /\ FieldCell(b, i, 5) = <<"slot", e.schema>> /\ Slot(b, i) = e.schema
         /\ \A j \in 1..4 : FieldCell(b, i, 5 + j) = <<"digest", e.data, j>>
         /\ End(b, i) = EndAt(p, i)
<1> DEFINE e == Extents(p, 1)[i]
           d == Descriptor(e, At(p)[i])
<1>1. \A f \in 1..DESCRIPTOR_SIZE : FieldCell(b, i, f) = d[f]
  BY DEF HasRow, FieldCell
<1>2. /\ d[1] = <<"role", e.kind, e.number>> /\ d[2] = U64(At(p)[i]) /\ d[3] = U64(Len(e.data))
      /\ d[4] = U64(ALIGNMENT) /\ d[5] = <<"slot", e.schema>>
      /\ \A j \in 1..4 : d[5 + j] = <<"digest", e.data, j>>
  <2> HIDE DEF e
  <2> QED
    BY DescriptorCells
<1>3. EndAt(p, i) = At(p)[i] + Len(e.data)
  BY DEF EndAt
<1> HIDE DEF e, d
<1>4. /\ 1 \in 1..DESCRIPTOR_SIZE /\ 2 \in 1..DESCRIPTOR_SIZE /\ 3 \in 1..DESCRIPTOR_SIZE
      /\ 4 \in 1..DESCRIPTOR_SIZE /\ 5 \in 1..DESCRIPTOR_SIZE
      /\ \A j \in 1..4 : 5 + j \in 1..DESCRIPTOR_SIZE
  BY DEF DESCRIPTOR_SIZE
<1>5. /\ FieldCell(b, i, 1) = <<"role", e.kind, e.number>>
      /\ FieldCell(b, i, 2) = U64(At(p)[i]) /\ FieldCell(b, i, 3) = U64(Len(e.data))
      /\ FieldCell(b, i, 4) = U64(ALIGNMENT)
      /\ FieldCell(b, i, 5) = <<"slot", e.schema>>
      /\ \A j \in 1..4 : FieldCell(b, i, 5 + j) = <<"digest", e.data, j>>
  BY <1>1, <1>2, <1>4
<1>6. Kind(b, i) = e.kind /\ Number(b, i) = e.number /\ Slot(b, i) = e.schema
  BY <1>5 DEF Kind, Number, Slot
<1>7. Offset(b, i) = At(p)[i] /\ DataLen(b, i) = Len(e.data)
  BY <1>5 DEF Offset, DataLen, U64
<1>8. End(b, i) = EndAt(p, i)
  BY <1>3, <1>7 DEF End
<1> QED
  BY <1>1, <1>5, <1>6, <1>7, <1>8 DEF e, d

(* The whole header.                                                        *)
LEMMA HeaderFields ==
  ASSUME NEW p, IsPlan(p), NEW b, HasHeader(b, p)
  PROVE  /\ Count(b) = Length(p) /\ Table(b) = TableOf(p) /\ FileLen(b) = FileLength(p)
         /\ TableEnd(b) = EnvelopeLen(p)
<1>1. Count(b) = Length(p) /\ Table(b) = TableOf(p) /\ FileLen(b) = FileLength(p)
  BY DEF HasHeader, Count, Table, FileLen, U64
<1> QED
  BY <1>1 DEF TableEnd, EnvelopeLen

(* Extents that hold what they were planned to.                             *)
LEMMA DataAsPlanned ==
  ASSUME NEW p, IsPlan(p), NEW S, NEW b \in Seq(S), NEW i \in 1..Length(p),
         HasPayload(b, p, i), Offset(b, i) = At(p)[i], End(b, i) = EndAt(p, i)
  PROVE  Data(b, i) = Extents(p, 1)[i].data
<1> DEFINE d == Extents(p, 1)[i].data
           o == At(p)[i]
<1>0. 1 \in 1..2
  OBVIOUS
<1>1. d \in Seq(FileCells(p))
  BY <1>0, ExtentFacts, Zenon
<1>2. o \in Nat /\ EndAt(p, i) = o + Len(d)
  BY Placement DEF EndAt
<1>3. o + Len(d) <= Len(b) /\ \A m \in 1..Len(d) : b[o + m] = d[m]
  BY <1>2 DEF HasPayload
<1>4. Data(b, i) = SubSeq(b, o + 1, o + Len(d))
  BY <1>2 DEF Data
<1> HIDE DEF d, o
<1>5. SubSeq(b, o + 1, o + Len(d)) = d
  BY <1>1, <1>2, <1>3, SliceAt
<1> QED
  BY <1>4, <1>5 DEF d

-----------------------------------------------------------------------------
(* A cell tells what it was written as.                                     *)
LEMMA CellTags ==
  ASSUME NEW p, IsPlan(p), NEW c \in FileCells(p)
  PROVE  /\ c[1] = "format" => c[3] \in Nat
         /\ c[1] = "digest" => \E e \in ToSet(Extents(p, 1)) : \E j \in 1..4 : c = <<"digest", e.data, j>>
<1>1. CASE c \in Digests(p)
  BY <1>1 DEF Digests
<1>2. CASE c \in Undigested(p)
  <2>1. CASE c \in Datum
    <3>1. c[1] = "data"
      BY <2>1, FileAssumption
    <3> QED
      BY <3>1
  <2>2. CASE c \in {Zero, <<"magic", 0>>} \cup {U64(n) : n \in Nat} \cup {<<"slot", s>> : s \in Nat}
    BY <2>2 DEF Zero, U64
  <2>3. CASE c \in {<<"format", 1, n>> : n \in Nat}
    BY <2>3
  <2>4. CASE c \in {<<"manifest", Manifest(p), j>> : j \in Nat} \cup {<<"bundle", p.schemas, j>> : j \in Nat}
    BY <2>4
  <2>5. CASE c \in {<<"role", k, n>> : k \in 0..3, n \in Nat}
    BY <2>5
  <2> QED
    BY <1>2, <2>1, <2>2, <2>3, <2>4, <2>5 DEF Undigested
<1> QED
  BY <1>1, <1>2 DEF FileCells

(* A reference pins the schema of the region it names: whatever the bytes,  *)
(* a reader that checks the plan's references finds the planned schemas.    *)
LEMMA RegionCountType == ASSUME NEW b, Count(b) \in Int PROVE RegionCount(b) \in Nat
<1> DEFINE I == 3..Count(b)
           R == {i \in I : \A j \in 3..i : Kind(b, j) = 2}
<1>1. IsFiniteSet(I)
  BY FS_Interval
<1>2. R \subseteq I
  OBVIOUS
<1> HIDE DEF I, R
<1>3. IsFiniteSet(R)
  BY <1>1, <1>2, FS_Subset
<1>4. Cardinality(R) \in Nat
  BY <1>3, FS_CardinalityType
<1> QED
  BY <1>4 DEF RegionCount, R, I

LEMMA ReferencesPinSchemas ==
  ASSUME NEW p, IsPlan(p), Freezable(p), NEW b, RegionCount(b) \in Nat,
         ValidGraph([r \in 1..RegionCount(b) |-> Slot(b, r + 2)], p.refs)
  PROVE  \A r \in DOMAIN p.regions : Slot(b, r + 2) = p.regions[r].schema
<1> DEFINE c == RegionCount(b)
           n == Len(p.regions)
           planned == [r \in DOMAIN p.regions |-> p.regions[r].schema]
           read == [r \in 1..c |-> Slot(b, r + 2)]
<1>1. n \in Nat /\ DOMAIN p.regions = 1..n /\ DOMAIN p.refs = 1..Len(p.refs) /\ \A i \in DOMAIN p.refs : p.refs[i].target \in Nat
  <2>1. p.regions \in Seq(Payload) /\ p.refs \in Seq(RegionRef)
    BY DEF IsPlan
  <2>2. DOMAIN p.refs = 1..Len(p.refs) /\ \A i \in 1..Len(p.refs) : p.refs[i] \in RegionRef
    BY <2>1, LenProperties, ElementOfSeq
  <2>3. \A x \in RegionRef : x.target \in Nat
    BY DEF RegionRef
  <2> QED
    BY <2>1, <2>2, <2>3, LenProperties
<1>2. /\ \A i \in DOMAIN p.refs : planned[p.refs[i].target + 1] = p.refs[i].schema
      /\ \A r \in 1..Len(planned) : \E i \in DOMAIN p.refs : p.refs[i].target + 1 = r
  BY DEF Freezable, ValidGraph
<1>3. \A i \in DOMAIN p.refs : p.refs[i].target < Len(read) /\ read[p.refs[i].target + 1] = p.refs[i].schema
  BY DEF ValidGraph
<1>4. Len(planned) = n /\ \A r \in 1..n : planned[r] = p.regions[r].schema
  BY <1>1
<1>5. Len(read) = c /\ c \in Nat /\ \A r \in 1..c : read[r] = Slot(b, r + 2)
  OBVIOUS
<1> HIDE DEF c, n, planned, read
<1> SUFFICES ASSUME NEW r \in 1..n PROVE Slot(b, r + 2) = p.regions[r].schema
  BY <1>1
<1>6. PICK i \in DOMAIN p.refs : p.refs[i].target + 1 = r
  BY <1>2, <1>4
<1>7. r \in 1..c
  <2>1. p.refs[i].target < c /\ p.refs[i].target \in Nat
    BY <1>1, <1>3, <1>5
  <2> QED
    BY <1>5, <1>6, <2>1
<1> QED
  BY <1>2, <1>3, <1>4, <1>5, <1>6, <1>7

(* The rows and payloads of a file that is laid out as planned.             *)
LEMMA LaidOutReads ==
  ASSUME NEW p, IsPlan(p), NEW b, LaidOut(b, p)
  PROVE  /\ Count(b) = Length(p) /\ Table(b) = TableOf(p) /\ FileLen(b) = Len(b) /\ TableEnd(b) = EnvelopeLen(p)
         /\ \A i \in 1..Length(p) :
              /\ Offset(b, i) = At(p)[i] /\ End(b, i) = EndAt(p, i)
              /\ Data(b, i) = Extents(p, 1)[i].data
<1>1. Count(b) = Length(p) /\ Table(b) = TableOf(p) /\ FileLen(b) = Len(b) /\ TableEnd(b) = EnvelopeLen(p)
  BY HeaderFields DEF LaidOut, HasEnvelope
<1>2. ASSUME NEW i \in 1..Length(p)
      PROVE  Offset(b, i) = At(p)[i] /\ End(b, i) = EndAt(p, i) /\ Data(b, i) = Extents(p, 1)[i].data
  <2>1. HasRow(b, p, i) /\ HasPayload(b, p, i) /\ b \in Seq(FileCells(p))
    BY DEF LaidOut, HasEnvelope
  <2>2. Offset(b, i) = At(p)[i] /\ End(b, i) = EndAt(p, i)
    BY <1>1, <2>1, RowFields
  <2> QED
    BY <2>1, <2>2, DataAsPlanned
<1> QED
  BY <1>1, <1>2

(* Extents of the same lengths stand at the same places.                    *)
LEMMA SameOffsets ==
  ASSUME NEW p, IsPlan(p), NEW q, IsPlan(q), EnvelopeLen(p) = EnvelopeLen(q), Length(p) = Length(q),
         \A i \in 1..Length(p) : Len(Extents(p, 1)[i].data) = Len(Extents(q, 1)[i].data)
  PROVE  \A i \in 1..Length(p) : At(p)[i] = At(q)[i] /\ EndAt(p, i) = EndAt(q, i)
<1> DEFINE n == Length(p)
           Same(i) == At(p)[i] = At(q)[i] /\ EndAt(p, i) = EndAt(q, i)
           T == {i \in 0..n : i = 0 \/ Same(i)}
<1>1. n \in Nat
  BY Placement
<1>2. 0 \in T
  BY <1>1
<1>3. ASSUME NEW i \in 0..(n - 1), i \in T PROVE i + 1 \in T
  <2>1. i + 1 \in 1..n /\ i + 1 \in 0..n /\ (i + 1) - 1 = i
    BY <1>1
  <2>2. /\ At(p)[i + 1] = AlignUp(IF i + 1 = 1 THEN EnvelopeLen(p) ELSE EndAt(p, i))
        /\ At(q)[i + 1] = AlignUp(IF i + 1 = 1 THEN EnvelopeLen(q) ELSE EndAt(q, i))
    <3> HIDE DEF n
    <3>1. i + 1 \in 1..Length(p) /\ i + 1 \in 1..Length(q)
      BY <2>1 DEF n
    <3> QED
      BY <2>1, <3>1, Placement
  <2>3. i + 1 # 1 => EndAt(p, i) = EndAt(q, i)
    BY <1>3
  <2>4. At(p)[i + 1] = At(q)[i + 1]
    BY <2>2, <2>3
  <2>5. EndAt(p, i + 1) = EndAt(q, i + 1)
    BY <2>1, <2>4 DEF EndAt
  <2> QED
    BY <2>1, <2>4, <2>5
<1>4. \A i \in 0..(n - 1) : i \in T => i + 1 \in T
  BY <1>3
<1> HIDE DEF T, n
<1>5. \A i \in 0..n : i \in T
  BY <1>1, <1>2, <1>4, BoundedInduction
<1>6. \A i \in 1..n : i \in 0..n /\ i # 0
  BY <1>1
<1> QED
  BY <1>5, <1>6 DEF T, n

(* Every extent stands after the table.                                     *)
LEMMA AfterEnvelope ==
  ASSUME NEW p, IsPlan(p)
  PROVE  \A i \in 1..Length(p) : EnvelopeLen(p) <= At(p)[i]
<1> DEFINE n == Length(p)
           T == {i \in 0..n : i = 0 \/ EnvelopeLen(p) <= At(p)[i]}
<1>1. n \in Nat /\ EnvelopeLen(p) \in Nat
  BY Placement
<1>2. 0 \in T
  BY <1>1
<1>3. ASSUME NEW i \in 0..(n - 1), i \in T PROVE i + 1 \in T
  <2>1. i + 1 \in 1..n /\ i + 1 \in 0..n /\ (i + 1) - 1 = i /\ (i # 0 => i \in 1..n) /\ (i + 1 = 1 <=> i = 0)
    BY <1>1
  <2>2. At(p)[i + 1] = AlignUp(IF i = 0 THEN EnvelopeLen(p) ELSE EndAt(p, i))
    BY <2>1, Placement
  <2>3. CASE i = 0
    <3>1. EnvelopeLen(p) <= At(p)[i + 1]
      BY <1>1, <2>2, <2>3, AlignFacts
    <3> QED
      BY <2>1, <3>1
  <2>4. CASE i # 0
    <3>1. EnvelopeLen(p) <= At(p)[i] /\ At(p)[i] \in Nat /\ EndAt(p, i) \in Nat /\ At(p)[i] <= EndAt(p, i)
      BY <1>3, <2>1, <2>4, Placement
    <3>2. EndAt(p, i) <= At(p)[i + 1] /\ At(p)[i + 1] \in Nat
      BY <2>2, <2>4, <3>1, AlignFacts
    <3>3. EnvelopeLen(p) <= At(p)[i + 1]
      BY <1>1, <3>1, <3>2
    <3> QED
      BY <2>1, <3>3
  <2> QED
    BY <2>3, <2>4
<1>4. \A i \in 0..(n - 1) : i \in T => i + 1 \in T
  BY <1>3
<1> HIDE DEF T, n
<1>5. \A i \in 0..n : i \in T
  BY <1>1, <1>2, <1>4, BoundedInduction
<1>6. \A i \in 1..n : i \in 0..n /\ i # 0
  BY <1>1
<1> QED
  BY <1>5, <1>6 DEF T, n

(* An accepted extent matches the digest in its row, cell by cell.          *)
LEMMA DigestMatches ==
  ASSUME NEW b, PlacementOk(b), NEW i \in 1..Count(b), NEW j \in 1..4
  PROVE  FieldCell(b, i, 5 + j) = <<"digest", Data(b, i), j>>
<1>1. Digest(b, i) = Coded("digest", Data(b, i), 4)
  BY DEF PlacementOk
<1>2. Digest(b, i)[j] = FieldCell(b, i, 5 + j)
  BY DEF Digest
<1>3. Coded("digest", Data(b, i), 4)[j] = <<"digest", Data(b, i), j>>
  BY DEF Coded
<1> QED
  BY <1>1, <1>2, <1>3

(* So a row that holds the digests of a plan is followed by its payload.    *)
LEMMA DigestPinsData ==
  ASSUME NEW p, IsPlan(p), NEW b, PlacementOk(b), Table(b) = TableOf(p), NEW i \in 1..Count(b),
         i \in 1..Length(p), NEW j \in 1..4,
         b[TableOf(p) + (i - 1) * DESCRIPTOR_SIZE + (5 + j)] = <<"digest", Extents(p, 1)[i].data, j>>
  PROVE  Data(b, i) = Extents(p, 1)[i].data
<1>1. FieldCell(b, i, 5 + j) = <<"digest", Extents(p, 1)[i].data, j>>
  BY DEF FieldCell
<1>2. FieldCell(b, i, 5 + j) = <<"digest", Data(b, i), j>>
  BY DigestMatches
<1> QED
  BY <1>1, <1>2

-----------------------------------------------------------------------------
(* parse accepts what write_to_vec lays out, check by check.                *)
LEMMA HeaderReads ==
  ASSUME NEW p, IsPlan(p), NEW b, LaidOut(b, p)
  PROVE  HeaderOk(b)
<1>1. /\ b[1] = <<"magic", 0>> /\ b[2] = <<"format", 1, Length(p)>>
      /\ b[3] = U64(Len(b)) /\ b[4] = U64(TableOf(p))
  BY DEF LaidOut, HasEnvelope, HasHeader
<1>2. Len(b) \in Nat
  BY LenProperties DEF LaidOut
<1>3. TableOf(p) \in 4..Len(b) /\ Len(b) >= 4
  <2> DEFINE e == EnvelopeLen(p)
             t == TableOf(p)
  <2>1. e \in Nat /\ t \in Nat /\ t >= 4 /\ e >= t /\ e <= Len(b)
    BY Placement DEF LaidOut, FIXED_HEADER
  <2> HIDE DEF e, t
  <2>2. t \in 4..Len(b) /\ Len(b) >= 4
    BY <1>2, <2>1
  <2> QED
    BY <2>2 DEF t
<1> QED
  BY <1>1, <1>3 DEF HeaderOk, Table, U64, FIXED_HEADER

LEMMA ManifestReads ==
  ASSUME NEW p, IsPlan(p), Canonical(Manifest(p)), NEW b, LaidOut(b, p)
  PROVE  ManifestOk(b) /\ ManifestOf(b) = Manifest(p)
<1> DEFINE m == ManifestCells(Manifest(p))
           k == Len(m)
<1>1. /\ m \in Seq(FileCells(p)) /\ k \in Nat
      /\ Manifest(p) = NoManifest <=> k = 0
      /\ Manifest(p) # NoManifest => m = Coded("manifest", Manifest(p), k)
      /\ \A j \in 1..k : m[j] = <<"manifest", Manifest(p), j>>
  BY ManifestFacts
<1>2. Table(b) = 4 + k
  BY LaidOutReads DEF TableOf, FIXED_HEADER
<1>3. \A j \in 1..k : b[4 + j] = m[j]
  BY DEF LaidOut, HasEnvelope, HasManifest, FIXED_HEADER
<1>4. b \in Seq(FileCells(p)) /\ Len(b) \in Nat /\ 4 + k <= Len(b)
  <2>1. b \in Seq(FileCells(p)) /\ HeaderOk(b)
    BY HeaderReads DEF LaidOut
  <2>2. Len(b) \in Nat
    BY <2>1, LenProperties
  <2>3. 4 + k \in 4..Len(b)
    BY <1>2, <2>1 DEF HeaderOk, FIXED_HEADER
  <2> HIDE DEF k
  <2> QED
    BY <1>1, <2>1, <2>2, <2>3
<1> HIDE DEF m
<1>5. SubSeq(b, 4 + 1, 4 + k) = m
  <2>1. 4 \in Nat
    OBVIOUS
  <2> QED
    BY <1>1, <1>3, <1>4, <2>1, SliceAt
<1> HIDE DEF k
<1>6. CASE k = 0
  <2>1. Table(b) = 4
    BY <1>2, <1>6
  <2> QED
    BY <1>1, <1>6, <2>1 DEF ManifestOk, ManifestOf, FIXED_HEADER
<1>7. CASE k # 0
  <2>1. 1 \in 1..k /\ Table(b) # 4
    BY <1>1, <1>2, <1>7
  <2>2. m[1] = <<"manifest", Manifest(p), 1>> /\ b[4 + 1] = m[1]
    BY <1>1, <1>3, <2>1
  <2>3. ManifestOf(b) = Manifest(p)
    BY <2>1, <2>2 DEF ManifestOf, FIXED_HEADER
  <2>4. m # <<>>
    <3>1. Len(<<>>) = 0
      OBVIOUS
    <3> QED
      BY <1>7, <3>1 DEF k
  <2>5. IsCoded("manifest", m)
    BY <1>1, <1>7, <2>2, <2>4 DEF IsCoded, k
  <2>6. SubSeq(b, 4 + 1, Table(b)) = m
    BY <1>2, <1>5
  <2> QED
    BY <2>3, <2>5, <2>6 DEF ManifestOk, FIXED_HEADER, m
<1> QED
  BY <1>6, <1>7

LEMMA DescriptorsRead ==
  ASSUME NEW p, IsPlan(p), NEW b, LaidOut(b, p)
  PROVE  DescriptorsOk(b)
<1>1. TableEnd(b) <= Len(b) /\ Count(b) = Length(p) /\ Table(b) = TableOf(p)
  BY LaidOutReads DEF LaidOut
<1>2. ASSUME NEW i \in 1..Length(p)
      PROVE  /\ FieldCell(b, i, 1)[1] = "role" /\ FieldCell(b, i, 5)[1] = "slot"
             /\ \A f \in {2, 3} : FieldCell(b, i, f)[1] = "u64"
             /\ FieldCell(b, i, 4) = U64(ALIGNMENT) /\ Offset(b, i) % ALIGNMENT = 0
  <2>1. HasRow(b, p, i)
    BY DEF LaidOut, HasEnvelope
  <2> DEFINE e == Extents(p, 1)[i]
  <2>2. /\ FieldCell(b, i, 1) = <<"role", e.kind, e.number>> /\ FieldCell(b, i, 5) = <<"slot", e.schema>>
        /\ FieldCell(b, i, 2) = U64(At(p)[i]) /\ FieldCell(b, i, 3) = U64(Len(e.data))
        /\ FieldCell(b, i, 4) = U64(ALIGNMENT) /\ Offset(b, i) = At(p)[i]
    BY <1>1, <2>1, RowFields
  <2> HIDE DEF e
  <2>3. At(p)[i] % ALIGNMENT = 0
    <3> DEFINE u == IF i = 1 THEN EnvelopeLen(p) ELSE EndAt(p, i - 1)
    <3>1. At(p)[i] = AlignUp(u)
      BY Placement
    <3>2. u \in Nat
      <4>1. i # 1 => i - 1 \in 1..Length(p)
        BY Placement
      <4> QED
        BY <4>1, Placement
    <3> HIDE DEF u
    <3> QED
      BY <3>1, <3>2, AlignFacts
  <2> QED
    BY <2>2, <2>3 DEF U64
<1> QED
  BY <1>1, <1>2 DEF DescriptorsOk

LEMMA PlacementReads ==
  ASSUME NEW p, IsPlan(p), NEW b, LaidOut(b, p)
  PROVE  PlacementOk(b)
<1> DEFINE n == Length(p)
<1>1. /\ Count(b) = n /\ Table(b) = TableOf(p) /\ FileLen(b) = Len(b) /\ TableEnd(b) = EnvelopeLen(p)
      /\ \A i \in 1..n : /\ Offset(b, i) = At(p)[i] /\ End(b, i) = EndAt(p, i)
                         /\ Data(b, i) = Extents(p, 1)[i].data
  BY LaidOutReads
<1>2. n \in Nat /\ n >= 2
  BY Placement
<1>3. ASSUME NEW i \in 1..n
      PROVE  /\ Offset(b, i) = AlignUp(IF i = 1 THEN TableEnd(b) ELSE End(b, i - 1))
             /\ End(b, i) <= FileLen(b)
             /\ Digest(b, i) = Coded("digest", Data(b, i), 4)
  <2>1. At(p)[i] = AlignUp(IF i = 1 THEN EnvelopeLen(p) ELSE EndAt(p, i - 1))
    BY Placement
  <2>2. i # 1 => i - 1 \in 1..n
    BY <1>2
  <2>3. i # 1 => End(b, i - 1) = EndAt(p, i - 1)
    BY <1>1, <2>2
  <2>4. Offset(b, i) = AlignUp(IF i = 1 THEN TableEnd(b) ELSE End(b, i - 1))
    BY <1>1, <2>1, <2>3
  <2>5. End(b, i) <= FileLen(b)
    <3>1. EndAt(p, i) <= Len(b)
      BY DEF LaidOut, HasPayload
    <3> QED
      BY <1>1, <3>1
  <2>6. \A j \in 1..4 : FieldCell(b, i, 5 + j) = <<"digest", Data(b, i), j>>
    <3>1. HasRow(b, p, i)
      BY DEF LaidOut, HasEnvelope
    <3>2. \A j \in 1..4 : FieldCell(b, i, 5 + j) = <<"digest", Extents(p, 1)[i].data, j>>
      BY <1>1, <3>1, RowFields
    <3> QED
      BY <1>1, <3>2
  <2>7. Digest(b, i) = Coded("digest", Data(b, i), 4)
    <3> DEFINE d == Data(b, i)
    <3>1. \A j \in 1..4 : FieldCell(b, i, 5 + j) = <<"digest", d, j>>
      BY <2>6
    <3> HIDE DEF d
    <3>2. [j \in 1..4 |-> FieldCell(b, i, 5 + j)] = [j \in 1..4 |-> <<"digest", d, j>>]
      BY <3>1
    <3> QED
      BY <3>2 DEF Digest, Coded, d
  <2> QED
    BY <2>4, <2>5, <2>7
<1>4. FileLen(b) = End(b, Count(b)) /\ Count(b) # 0
  <2>1. n \in 1..n /\ n # 0
    BY <1>2
  <2>2. Len(b) = EndAt(p, n)
    BY DEF LaidOut, FileLength
  <2> QED
    BY <1>1, <2>1, <2>2
<1> QED
  BY <1>1, <1>3, <1>4 DEF PlacementOk

(* What the rows say of each extent.                                        *)
LEMMA RowsRead ==
  ASSUME NEW p, IsPlan(p), NEW b, LaidOut(b, p)
  PROVE  \A i \in 1..Length(p) :
           /\ Kind(b, i) = Extents(p, 1)[i].kind /\ Number(b, i) = Extents(p, 1)[i].number
           /\ Slot(b, i) = Extents(p, 1)[i].schema /\ Data(b, i) = Extents(p, 1)[i].data
<1> SUFFICES ASSUME NEW i \in 1..Length(p)
             PROVE  /\ Kind(b, i) = Extents(p, 1)[i].kind /\ Number(b, i) = Extents(p, 1)[i].number
                    /\ Slot(b, i) = Extents(p, 1)[i].schema /\ Data(b, i) = Extents(p, 1)[i].data
  OBVIOUS
<1>1. Table(b) = TableOf(p) /\ HasRow(b, p, i) /\ Data(b, i) = Extents(p, 1)[i].data
  BY LaidOutReads DEF LaidOut, HasEnvelope
<1> QED
  BY <1>1, RowFields

LEMMA ExtentsByRole ==
  ASSUME NEW p, IsPlan(p), NEW b, LaidOut(b, p)
  PROVE  /\ Kind(b, 1) = 0 /\ Data(b, 1) = BundleCells(p.schemas)
         /\ Kind(b, 2) = 1 /\ Slot(b, 2) = p.root.schema
         /\ \A r \in 1..Len(p.regions) :
              Kind(b, r + 2) = 2 /\ Number(b, r + 2) = r - 1 /\ Slot(b, r + 2) = p.regions[r].schema
         /\ \A a \in 1..Len(p.aux) :
              LET i == Len(p.regions) + 2 + a IN
              /\ Kind(b, i) = 3 /\ Number(b, i) = p.aux[a].number /\ Slot(b, i) = p.aux[a].payload.schema
              /\ Data(b, i) = p.aux[a].payload.passes[1]
<1> DEFINE x == Extents(p, 1)
           R == Len(p.regions)
           A == Len(p.aux)
<1>1. InOrder(x, p, 1)
  BY ExtentsInOrder
<1>2. R \in Nat /\ A \in Nat /\ Length(p) = 2 + R + A
  <2>1. p.regions \in Seq(Payload) /\ p.aux \in Seq(AuxPayload)
    BY DEF IsPlan
  <2> QED
    BY <2>1, LenProperties DEF Length
<1>3. \A i \in 1..Length(p) : /\ Kind(b, i) = x[i].kind /\ Number(b, i) = x[i].number
                              /\ Slot(b, i) = x[i].schema /\ Data(b, i) = x[i].data
  BY RowsRead
<1> HIDE DEF x
<1>4. x[1] = Extent(0, 0, NoSchema, BundleCells(p.schemas)) /\ x[2] = Extent(1, 0, p.root.schema, p.root.passes[1])
  BY <1>1 DEF InOrder
<1>5. \A r \in 1..R : x[r + 2] = Extent(2, r - 1, p.regions[r].schema, p.regions[r].passes[1])
  BY <1>1 DEF InOrder
<1>6. \A a \in 1..A : x[R + 2 + a] =
        Extent(3, p.aux[a].number, p.aux[a].payload.schema, p.aux[a].payload.passes[1])
  BY <1>1 DEF InOrder
<1> HIDE DEF R, A
<1>7. /\ 1 \in 1..Length(p) /\ 2 \in 1..Length(p)
      /\ \A r \in 1..R : r + 2 \in 1..Length(p)
      /\ \A a \in 1..A : R + 2 + a \in 1..Length(p)
  BY <1>2
<1>8. Kind(b, 1) = 0 /\ Data(b, 1) = BundleCells(p.schemas) /\ Kind(b, 2) = 1 /\ Slot(b, 2) = p.root.schema
  BY <1>3, <1>4, <1>7 DEF Extent
<1>9. \A r \in 1..R :
        Kind(b, r + 2) = 2 /\ Number(b, r + 2) = r - 1 /\ Slot(b, r + 2) = p.regions[r].schema
  <2> SUFFICES ASSUME NEW r \in 1..R
               PROVE  Kind(b, r + 2) = 2 /\ Number(b, r + 2) = r - 1 /\ Slot(b, r + 2) = p.regions[r].schema
    OBVIOUS
  <2> DEFINE i == r + 2
  <2>1. i \in 1..Length(p) /\ x[i] = Extent(2, r - 1, p.regions[r].schema, p.regions[r].passes[1])
    BY <1>5, <1>7
  <2> HIDE DEF i
  <2>2. Kind(b, i) = 2 /\ Number(b, i) = r - 1 /\ Slot(b, i) = p.regions[r].schema
    BY <1>3, <2>1 DEF Extent
  <2> QED
    BY <2>2 DEF i
<1>10. \A a \in 1..A :
         LET i == R + 2 + a IN
         /\ Kind(b, i) = 3 /\ Number(b, i) = p.aux[a].number /\ Slot(b, i) = p.aux[a].payload.schema
         /\ Data(b, i) = p.aux[a].payload.passes[1]
  <2> SUFFICES ASSUME NEW a \in 1..A
               PROVE  LET i == R + 2 + a IN
                      /\ Kind(b, i) = 3 /\ Number(b, i) = p.aux[a].number /\ Slot(b, i) = p.aux[a].payload.schema
                      /\ Data(b, i) = p.aux[a].payload.passes[1]
    OBVIOUS
  <2> DEFINE i == R + 2 + a
  <2>1. /\ i \in 1..Length(p)
        /\ x[i] = Extent(3, p.aux[a].number, p.aux[a].payload.schema, p.aux[a].payload.passes[1])
    BY <1>6, <1>7
  <2> HIDE DEF i
  <2>2. /\ Kind(b, i) = 3 /\ Number(b, i) = p.aux[a].number /\ Slot(b, i) = p.aux[a].payload.schema
        /\ Data(b, i) = p.aux[a].payload.passes[1]
    BY <1>3, <2>1 DEF Extent
  <2> QED
    BY <2>2 DEF i
<1> QED
  BY <1>8, <1>9, <1>10 DEF R, A

(* The run of regions that parse counts is the plan's.                      *)
LEMMA RegionsRead ==
  ASSUME NEW p, IsPlan(p), NEW b, LaidOut(b, p)
  PROVE  RegionCount(b) = Len(p.regions)
<1> DEFINE R == Len(p.regions)
           A == Len(p.aux)
           regions == {i \in 3..Count(b) : \A j \in 3..i : Kind(b, j) = 2}
<1>1. R \in Nat /\ A \in Nat /\ Count(b) = 2 + R + A
  <2>1. p.regions \in Seq(Payload) /\ p.aux \in Seq(AuxPayload)
    BY DEF IsPlan
  <2>2. Count(b) = Length(p)
    BY LaidOutReads
  <2> QED
    BY <2>1, <2>2, LenProperties DEF Length
<1>2. \A r \in 1..R : Kind(b, r + 2) = 2
  BY ExtentsByRole
<1>3. A # 0 => Kind(b, R + 3) = 3
  <2> SUFFICES ASSUME A # 0 PROVE Kind(b, R + 3) = 3
    OBVIOUS
  <2>1. Kind(b, R + 2 + 1) = 3
    <3>1. 1 \in 1..A
      <4> HIDE DEF A
      <4> QED
        BY <1>1
    <3> QED
      BY <3>1, ExtentsByRole
  <2>2. R + 2 + 1 = R + 3
    <3> HIDE DEF R
    <3> QED
      BY <1>1
  <2> QED
    BY <2>1, <2>2
<1> HIDE DEF R, A
<1>4. \A j \in 3..(R + 2) : Kind(b, j) = 2
  <2>1. \A j \in 3..(R + 2) : j - 2 \in 1..R /\ (j - 2) + 2 = j
    BY <1>1
  <2> QED
    BY <1>2, <2>1
<1>5. ASSUME NEW i \in 3..(R + 2) PROVE i \in regions
  <2>1. i \in 3..Count(b) /\ \A j \in 3..i : j \in 3..(R + 2)
    BY <1>1
  <2> QED
    BY <1>4, <2>1
<1>6. ASSUME NEW i \in regions PROVE i \in 3..(R + 2)
  <2>1. i \in 3..(2 + R + A) /\ \A j \in 3..i : Kind(b, j) = 2
    BY <1>1
  <2>2. ~ (i > R + 2)
    <3> SUFFICES ASSUME i > R + 2 PROVE FALSE
      BY <1>1, <2>1
    <3>1. A # 0 /\ R + 3 \in 3..i
      BY <1>1, <2>1
    <3> QED
      BY <1>3, <2>1, <3>1
  <2> QED
    BY <1>1, <2>1, <2>2
<1>7. regions = 3..(R + 2)
  <2> HIDE DEF regions
  <2> QED
    BY <1>5, <1>6
<1>8. Cardinality(3..(R + 2)) = R
  <2>1. 3 \in Int /\ R + 2 \in Int
    BY <1>1
  <2>2. Cardinality(3..(R + 2)) = IF 3 > R + 2 THEN 0 ELSE (R + 2) - 3 + 1
    BY <2>1, FS_Interval
  <2> QED
    BY <1>1, <2>2
<1> QED
  BY <1>7, <1>8 DEF RegionCount, R

LEMMA RolesRead ==
  ASSUME NEW p, IsPlan(p), Canonical(Manifest(p)), NEW b, LaidOut(b, p)
  PROVE  RolesOk(b)
<1> DEFINE R == Len(p.regions)
           A == Len(p.aux)
           m == Manifest(p).aux
<1>1. R \in Nat /\ A \in Nat /\ Count(b) = 2 + R + A /\ DOMAIN p.aux = 1..A
  <2>1. p.regions \in Seq(Payload) /\ p.aux \in Seq(AuxPayload)
    BY DEF IsPlan
  <2>2. Count(b) = Length(p)
    BY LaidOutReads
  <2> QED
    BY <2>1, <2>2, LenProperties DEF Length
<1>2. RegionCount(b) = R /\ ManifestOf(b) = Manifest(p)
  BY RegionsRead, ManifestReads
<1>3. m = [i \in 1..A |-> [feature |-> p.aux[i].feature, name |-> p.aux[i].name, number |-> p.aux[i].number]]
  BY <1>1 DEF Manifest
<1> HIDE DEF m
<1>4. DOMAIN m = 1..A /\ Len(m) = A /\ \A k \in 1..A : m[k].number = p.aux[k].number
  <2> HIDE DEF A
  <2> QED
    BY <1>1, <1>3
<1>5. Kind(b, 1) = 0 /\ Kind(b, 2) = 1 /\ \A r \in 1..R : Number(b, r + 2) = r - 1
  BY ExtentsByRole
<1>6. \A k \in 1..A : Kind(b, R + 2 + k) = 3 /\ Number(b, R + 2 + k) = p.aux[k].number
  BY ExtentsByRole
<1>7. ManifestOf(b).aux = m
  BY <1>2 DEF m
<1> HIDE DEF R, A
<1>8. Count(b) >= 2 /\ Count(b) = R + 2 + A
  BY <1>1
<1> QED
  BY <1>2, <1>4, <1>5, <1>6, <1>7, <1>8 DEF RolesOk

LEMMA SchemasRead ==
  ASSUME NEW p, IsPlan(p), NEW b, LaidOut(b, p),
         \A i \in 2..Length(p) : Extents(p, 1)[i].schema \in Primitive \cup p.schemas
  PROVE  SchemasOk(b)
<1>1. Data(b, 1) = BundleCells(p.schemas) /\ Count(b) = Length(p) /\ Length(p) \in Nat
  BY ExtentsByRole, LaidOutReads, Placement
<1> DEFINE d == BundleCells(p.schemas)
           n == 1 + Cardinality(p.schemas)
<1>2. n \in Nat /\ n >= 1 /\ d = [j \in 1..n |-> <<"bundle", p.schemas, j>>] /\ Len(d) = n
  <2>1. Cardinality(p.schemas) \in Nat /\ Len(d) = n
    BY BundleFacts
  <2>2. d = [j \in 1..n |-> <<"bundle", p.schemas, j>>]
    BY DEF BundleCells, Coded
  <2>3. n \in Nat /\ n >= 1
    BY <2>1
  <2> HIDE DEF d, n
  <2> QED
    BY <2>1, <2>2, <2>3
<1> HIDE DEF n
<1>3. d[1] = <<"bundle", p.schemas, 1>> /\ d # <<>> /\ d = Coded("bundle", p.schemas, Len(d))
  <2>1. 1 \in 1..n
    BY <1>2
  <2>2. d = Coded("bundle", p.schemas, n)
    BY DEF BundleCells, n
  <2>3. d # <<>>
    <3>1. Len(<<>>) = 0
      OBVIOUS
    <3>2. Len(d) # 0
      BY <1>2
    <3> HIDE DEF d
    <3> QED
      BY <3>1, <3>2
  <2> HIDE DEF d
  <2> QED
    BY <1>2, <2>1, <2>2, <2>3
<1> HIDE DEF d
<1>4. IsCoded("bundle", d) /\ d[1][2] = p.schemas
  BY <1>3 DEF IsCoded
<1>5. ASSUME NEW i \in 2..Length(p)
      PROVE  Slot(b, i) # NoSchema /\ Slot(b, i) \in Primitive \cup p.schemas
  <2>1. i \in 1..Length(p) /\ i # 1
    BY <1>1
  <2>2. Slot(b, i) = Extents(p, 1)[i].schema
    BY <2>1, RowsRead
  <2>3. Extents(p, 1)[i].schema \in SchemaIds
    BY <2>1, ExtentFacts
  <2> QED
    BY <2>2, <2>3 DEF SchemaIds
<1> QED
  BY <1>1, <1>4, <1>5 DEF SchemasOk, d

(* The round trip: a plan that the writer accepts and whose bundle is       *)
(* closed is read back with its references, manifest and regions.           *)
THEOREM PlanParses ==
  \A p, b : /\ IsPlan(p) /\ Freezable(p) /\ LaidOut(b, p)
            /\ \A i \in 2..Length(p) : Extents(p, 1)[i].schema \in Primitive \cup p.schemas
            => Parses(b, p.refs) /\ ManifestOf(b) = Manifest(p) /\ RegionCount(b) = Len(p.regions)
<1> SUFFICES ASSUME NEW p, NEW b, IsPlan(p), Freezable(p), LaidOut(b, p),
                    \A i \in 2..Length(p) : Extents(p, 1)[i].schema \in Primitive \cup p.schemas
             PROVE  Parses(b, p.refs) /\ ManifestOf(b) = Manifest(p) /\ RegionCount(b) = Len(p.regions)
  OBVIOUS
<1>1. Canonical(Manifest(p)) /\ ValidGraph([i \in DOMAIN p.regions |-> p.regions[i].schema], p.refs)
  BY DEF Freezable
<1>2. RegionCount(b) = Len(p.regions)
  BY RegionsRead
<1>3. ValidGraph([r \in 1..RegionCount(b) |-> Slot(b, r + 2)], p.refs)
  <2>1. p.regions \in Seq(Payload)
    BY DEF IsPlan
  <2>2. DOMAIN p.regions = 1..Len(p.regions)
    BY <2>1, LenProperties
  <2>3. \A r \in 1..Len(p.regions) : Slot(b, r + 2) = p.regions[r].schema
    BY ExtentsByRole
  <2>4. [r \in 1..RegionCount(b) |-> Slot(b, r + 2)] = [i \in DOMAIN p.regions |-> p.regions[i].schema]
    BY <1>2, <2>2, <2>3
  <2> QED
    BY <1>1, <2>4
<1>4. HeaderOk(b) /\ ManifestOk(b) /\ DescriptorsOk(b) /\ PlacementOk(b) /\ RolesOk(b) /\ SchemasOk(b)
  BY <1>1, HeaderReads, ManifestReads, DescriptorsRead, PlacementReads, RolesRead, SchemasRead
<1>5. ManifestOf(b) = Manifest(p)
  BY <1>1, ManifestReads
<1> QED
  BY <1>2, <1>3, <1>4, <1>5 DEF Parses

-----------------------------------------------------------------------------
(* The store.                                                              *)
WP == INSTANCE DurableWriteProofs WITH Byte <- Cells, Files <- {Layout(p) : p \in Plans}

(* One field of the stored file reads as something else than was written.   *)
OneFieldChanged(b) ==
  \E i \in 1..Len(bytes) : \E c \in Corrupt(bytes[i]) :
    c # bytes[i] /\ b = [bytes EXCEPT ![i] = c]

(* The file the writer works on is the frozen plan's; until damage the      *)
(* destination took a prefix of it, and damage is to a complete file.       *)
StoreInv ==
  /\ plan \in Plans
  /\ before = <<>> \/ \E p \in Earlier : before = <<p>>
  /\ damaged \in BOOLEAN
  /\ pc = "idle" \/ (Freezable(plan) /\ bytes = Layout(plan))
  /\ ~damaged => WP!WInv
  /\ damaged => pc = "ok" /\ before = <<>> /\ OneFieldChanged(sink)

-----------------------------------------------------------------------------
LEMMA StoredFiles == {Layout(p) : p \in Plans} \subseteq Seq(Cells)
<1> SUFFICES ASSUME NEW p \in Plans PROVE Layout(p) \in Seq(Cells)
  OBVIOUS
<1> DEFINE b == Layout(p)
<1>1. b \in Seq(FileCells(p))
  BY PlansAssumption, LayoutIsASeq
<1>2. ToSet(b) \subseteq Cells
  BY DEF Cells
<1> HIDE DEF b
<1>3. b \in Seq(Range(b))
  BY <1>1, SeqOfRange
<1>4. Range(b) \subseteq Cells
  BY <1>2 DEF Range, ToSet
<1>5. Seq(Range(b)) \subseteq Seq(Cells)
  BY <1>4, SeqMonotonic
<1> QED
  BY <1>3, <1>5 DEF b

(* The writer's steps are steps of the write loop on its own.               *)
LEMMA LoopSteps ==
  /\ W!WInit => WP!WInit
  /\ W!Loop => WP!Loop
  /\ W!Crash => WP!Crash
  /\ \A b : W!Begin(b) => WP!Begin(b)
<1>1. W!WInit => WP!WInit
  BY DEF W!WInit, WP!WInit
<1>2. W!Crash => WP!Crash
  BY DEF W!Crash, WP!Crash
<1>3. \A b : W!Begin(b) => WP!Begin(b)
  BY DEF W!Begin, WP!Begin
<1>4. \A n : W!WriteSome(n) => WP!WriteSome(n)
  BY DEF W!WriteSome, WP!WriteSome, W!LoopHead, WP!LoopHead
<1>5. /\ W!WriteZero => WP!WriteZero
      /\ W!WriteError => WP!WriteError
      /\ W!FlushOk => WP!FlushOk
      /\ W!FlushError => WP!FlushError
  BY DEF W!WriteZero, WP!WriteZero, W!WriteError, WP!WriteError, W!FlushOk, WP!FlushOk,
         W!FlushError, WP!FlushError
<1>6. W!Interrupted => WP!Interrupted
  BY DEF W!Interrupted, WP!Interrupted, W!wvars, WP!wvars
<1>7. W!Loop => WP!Loop
  BY <1>4, <1>5, <1>6 DEF W!Loop, WP!Loop
<1> QED
  BY <1>1, <1>2, <1>3, <1>7

LEMMA LoopKeepsStep == WP!WInv /\ (WP!WNext \/ UNCHANGED <<pc, bytes, written, sink>>) => WP!WInv'
<1>1. WP!WInv /\ [WP!WNext]_WP!wvars => WP!WInv'
  BY StoredFiles, WP!StepWInv
<1> QED
  BY <1>1 DEF WP!wvars

LEMMA InitStoreInv == Init => StoreInv
<1> SUFFICES ASSUME Init PROVE StoreInv
  OBVIOUS
<1>1. WP!WInv
  <2>1. WP!WInit => WP!WInv
    BY StoredFiles, WP!InitWInv
  <2> QED
    BY <2>1, LoopSteps DEF Init
<1>2. pc = "idle"
  BY DEF Init, W!WInit
<1> QED
  BY <1>1, <1>2 DEF Init, StoreInv

LEMMA FreezeStoreInv == StoreInv /\ Freeze => StoreInv'
<1> SUFFICES ASSUME StoreInv, Freeze PROVE StoreInv'
  OBVIOUS
<1>1. /\ Freezable(plan) /\ plan \in Plans /\ pc = "idle" /\ bytes' = Layout(plan)
      /\ UNCHANGED <<before, plan, damaged>>
  BY DEF Freeze, StoreInv, W!Begin
<1>2. ~damaged
  BY <1>1 DEF StoreInv
<1>3. WP!WNext
  <2>1. WP!Begin(Layout(plan))
    BY LoopSteps DEF Freeze
  <2> QED
    BY <1>1, <2>1 DEF WP!WNext
<1>4. WP!WInv'
  BY <1>2, <1>3, LoopKeepsStep DEF StoreInv
<1> QED
  BY <1>1, <1>2, <1>4 DEF StoreInv

LEMMA WriteStoreInv == StoreInv /\ Write => StoreInv'
<1> SUFFICES ASSUME StoreInv, Write PROVE StoreInv'
  OBVIOUS
<1>1. pc \in {"writing", "flushing"} /\ bytes' = bytes /\ UNCHANGED <<before, plan, damaged>>
  BY DEF Write, W!Loop, W!WriteSome, W!WriteZero, W!Interrupted, W!WriteError, W!FlushOk,
         W!FlushError, W!wvars
<1>2. ~damaged
  BY <1>1 DEF StoreInv
<1>3. WP!WNext
  BY LoopSteps DEF Write, WP!WNext
<1>4. WP!WInv'
  BY <1>2, <1>3, LoopKeepsStep DEF StoreInv
<1> QED
  BY <1>1, <1>2, <1>4 DEF StoreInv

LEMMA StopStoreInv == StoreInv /\ Stop => StoreInv'
<1> SUFFICES ASSUME StoreInv, Stop PROVE StoreInv'
  OBVIOUS
<1>1. ~damaged /\ pc # "idle" /\ bytes' = bytes /\ UNCHANGED <<before, plan, damaged>>
  BY DEF Stop, W!Crash
<1>2. WP!WNext
  BY LoopSteps DEF Stop, WP!WNext
<1>3. WP!WInv'
  BY <1>1, <1>2, LoopKeepsStep DEF StoreInv
<1> QED
  BY <1>1, <1>3 DEF StoreInv

(* A file reported as written is complete.                                  *)
LEMMA OkIsComplete == StoreInv /\ ~damaged /\ pc = "ok" => sink = bytes
<1> SUFFICES ASSUME StoreInv, ~damaged, pc = "ok" PROVE sink = bytes
  OBVIOUS
<1>1. /\ bytes \in Seq(Cells) /\ Len(sink) = Len(bytes) /\ sink = SubSeq(bytes, 1, Len(sink))
  BY DEF StoreInv, WP!WInv, WP!WTypeOK, WP!Progress
<1>2. sink = SubSeq(bytes, 1, Len(bytes))
  BY <1>1
<1> QED
  BY <1>1, <1>2, SubSeqFull

LEMMA DamageStoreInv == StoreInv /\ Damage => StoreInv'
<1> SUFFICES ASSUME StoreInv, Damage PROVE StoreInv'
  OBVIOUS
<1>1. /\ pc = "ok" /\ before = <<>> /\ ~damaged /\ damaged' = TRUE
      /\ UNCHANGED <<before, plan, pc, bytes>>
  BY DEF Damage
<1>2. sink = bytes
  BY <1>1, OkIsComplete
<1>3. OneFieldChanged(sink')
  BY <1>2 DEF Damage, OneFieldChanged
<1>4. OneFieldChanged(sink)'
  BY <1>1, <1>3 DEF OneFieldChanged
<1> QED
  BY <1>1, <1>4 DEF StoreInv

LEMMA StepStoreInv == StoreInv /\ [Next]_storeVars => StoreInv'
<1> SUFFICES ASSUME StoreInv, [Next]_storeVars PROVE StoreInv'
  OBVIOUS
<1>1. CASE Refuse
  <2>1. UNCHANGED <<before, plan, damaged, pc, bytes, written, sink>>
    BY <1>1 DEF Refuse
  <2>2. ~damaged => WP!WInv'
    BY <2>1, LoopKeepsStep DEF StoreInv
  <2> QED
    BY <2>1, <2>2 DEF StoreInv, OneFieldChanged
<1>2. CASE UNCHANGED storeVars
  <2>1. UNCHANGED <<before, plan, damaged, pc, bytes, written, sink>>
    BY <1>2 DEF storeVars
  <2>2. ~damaged => WP!WInv'
    BY <2>1, LoopKeepsStep DEF StoreInv
  <2> QED
    BY <2>1, <2>2 DEF StoreInv, OneFieldChanged
<1> QED
  BY <1>1, <1>2, FreezeStoreInv, WriteStoreInv, StopStoreInv, DamageStoreInv DEF Next

THEOREM StoreKeepsStep == Spec => []StoreInv
BY InitStoreInv, StepStoreInv, PTL DEF Spec

-----------------------------------------------------------------------------
(* What the destination holds.                                              *)
OldFile == IF before = <<>> THEN <<>> ELSE Layout(before[1])

LEMMA PlanFacts ==
  StoreInv => /\ IsPlan(plan) /\ plan \in Generations
              /\ \A q \in Generations : IsPlan(q)
              /\ before # <<>> => /\ before[1] \in Generations /\ before[1] \in Earlier
                                  /\ IsPlan(before[1]) /\ LaidOut(Layout(before[1]), before[1])
              /\ \A q \in Generations : q = plan \/ (before # <<>> /\ q = before[1])
<1> SUFFICES ASSUME StoreInv
             PROVE  /\ IsPlan(plan) /\ plan \in Generations
                    /\ \A q \in Generations : IsPlan(q)
                    /\ before # <<>> => /\ before[1] \in Generations /\ before[1] \in Earlier
                                        /\ IsPlan(before[1]) /\ LaidOut(Layout(before[1]), before[1])
                    /\ \A q \in Generations : q = plan \/ (before # <<>> /\ q = before[1])
  OBVIOUS
<1>1. IsPlan(plan) /\ plan \in Generations
  BY PlansAssumption DEF StoreInv, Generations
<1>2. CASE before = <<>>
  <2>1. ToSet(before) = {}
    BY <1>2 DEF ToSet
  <2>2. Generations = {plan}
    BY <2>1 DEF Generations
  <2> QED
    BY <1>1, <1>2, <2>2
<1>3. CASE before # <<>>
  <2>1. PICK p \in Earlier : before = <<p>>
    BY <1>3 DEF StoreInv
  <2>2. IsPlan(p) /\ Freezable(p) /\ before[1] = p /\ ToSet(before) = {p}
    BY <2>1, PlansAssumption DEF ToSet
  <2>3. LaidOut(Layout(p), p)
    BY <2>2, LayoutAsPlanned DEF Freezable
  <2>4. Generations = {plan, p}
    BY <2>2 DEF Generations
  <2> QED
    BY <1>1, <1>3, <2>1, <2>2, <2>3, <2>4
<1> QED
  BY <1>2, <1>3

LEMMA BytesAsPlanned ==
  StoreInv /\ pc # "idle" => Freezable(plan) /\ bytes = Layout(plan) /\ LaidOut(bytes, plan)
<1> SUFFICES ASSUME StoreInv, pc # "idle"
             PROVE  Freezable(plan) /\ bytes = Layout(plan) /\ LaidOut(bytes, plan)
  OBVIOUS
<1>1. Freezable(plan) /\ bytes = Layout(plan) /\ IsPlan(plan)
  BY PlanFacts DEF StoreInv
<1> QED
  BY <1>1, LayoutAsPlanned DEF Freezable

LEMMA NothingYet == StoreInv /\ pc = "idle" => ~damaged /\ bytes = <<>> /\ sink = <<>>
<1> SUFFICES ASSUME StoreInv, pc = "idle" PROVE ~damaged /\ bytes = <<>> /\ sink = <<>>
  OBVIOUS
<1>1. ~damaged /\ WP!WInv
  BY DEF StoreInv
<1>2. bytes = <<>> /\ Len(sink) = 0 /\ sink \in Seq(Cells)
  BY <1>1 DEF WP!WInv, WP!WTypeOK, WP!Progress
<1> QED
  BY <1>1, <1>2, EmptySeq

LEMMA SinkIsPrefix ==
  StoreInv /\ ~damaged =>
    /\ sink \in Seq(FileCells(plan)) /\ Len(sink) \in Nat /\ Len(sink) <= Len(bytes)
    /\ \A i \in 1..Len(sink) : sink[i] = bytes[i]
<1> SUFFICES ASSUME StoreInv, ~damaged
             PROVE  /\ sink \in Seq(FileCells(plan)) /\ Len(sink) \in Nat /\ Len(sink) <= Len(bytes)
                    /\ \A i \in 1..Len(sink) : sink[i] = bytes[i]
  OBVIOUS
<1>1. CASE pc = "idle"
  BY <1>1, NothingYet, EmptySeq
<1>2. CASE pc # "idle"
  <2>1. bytes \in Seq(FileCells(plan))
    BY <1>2, BytesAsPlanned DEF LaidOut
  <2>2. sink \in Seq(Cells) /\ Len(sink) <= Len(bytes) /\ sink = SubSeq(bytes, 1, Len(sink))
    BY DEF StoreInv, WP!WInv, WP!WTypeOK, WP!Progress
  <2>3. Len(sink) \in Nat /\ Len(bytes) \in Nat
    BY <2>1, <2>2, LenProperties
  <2> DEFINE k == Len(sink)
  <2>4. k \in 0..Len(bytes)
    BY <2>2, <2>3
  <2> HIDE DEF k
  <2>5. /\ SubSeq(bytes, 1, k) \in Seq(FileCells(plan))
        /\ \A i \in 1..k : SubSeq(bytes, 1, k)[i] = bytes[i]
    BY <2>1, <2>4, WP!PrefixSeq
  <2>6. sink = SubSeq(bytes, 1, k)
    BY <2>2 DEF k
  <2> QED
    BY <2>2, <2>3, <2>5, <2>6 DEF k
<1> QED
  BY <1>1, <1>2

(* The destination is what the sink took over what was there.               *)
LEMMA DestCells ==
  StoreInv /\ ~damaged =>
    /\ \E q \in Generations : Dest \in Seq(FileCells(plan) \cup FileCells(q))
    /\ Len(Dest) = IF Len(sink) <= Len(OldFile) THEN Len(OldFile) ELSE Len(sink)
    /\ Len(OldFile) \in Nat
    /\ \A i \in 1..Len(sink) : Dest[i] = bytes[i]
    /\ \A i \in (Len(sink) + 1)..Len(OldFile) : Dest[i] = OldFile[i]
<1> SUFFICES ASSUME StoreInv, ~damaged
             PROVE  /\ \E q \in Generations : Dest \in Seq(FileCells(plan) \cup FileCells(q))
                    /\ Len(Dest) = IF Len(sink) <= Len(OldFile) THEN Len(OldFile) ELSE Len(sink)
                    /\ Len(OldFile) \in Nat
                    /\ \A i \in 1..Len(sink) : Dest[i] = bytes[i]
                    /\ \A i \in (Len(sink) + 1)..Len(OldFile) : Dest[i] = OldFile[i]
  OBVIOUS
<1>1. PICK q \in Generations : OldFile \in Seq(FileCells(q))
  <2>1. CASE before = <<>>
    BY <2>1, PlanFacts, EmptySeq DEF OldFile
  <2>2. CASE before # <<>>
    BY <2>2, PlanFacts DEF OldFile, LaidOut
  <2> QED
    BY <2>1, <2>2
<1> DEFINE S == FileCells(plan) \cup FileCells(q)
           old == OldFile
           k == Len(sink)
           n == Len(old)
           rest == SubSeq(old, k + 1, n)
<1>2. sink \in Seq(S) /\ old \in Seq(S)
  <2>1. Seq(FileCells(plan)) \subseteq Seq(S) /\ Seq(FileCells(q)) \subseteq Seq(S)
    BY SeqMonotonic
  <2> QED
    BY <1>1, <2>1, SinkIsPrefix
<1>3. k \in Nat /\ n \in Nat /\ \A i \in 1..k : sink[i] = bytes[i]
  BY <1>2, LenProperties, SinkIsPrefix
<1>4. Dest = sink \o rest
  BY DEF Dest, OldFile
<1> HIDE DEF S, old, k, n
<1>5. \A i \in (k + 1)..n : old[i] \in S
  <2>1. \A i \in (k + 1)..n : i \in 1..n
    BY <1>3
  <2> QED
    BY <1>2, <2>1, ElementOfSeq DEF n
<1>6. k + 1 \in Int /\ n \in Int /\ n - (k + 1) + 1 = n - k
  BY <1>3
<1>7. /\ rest \in Seq(S) /\ Len(rest) = IF k + 1 <= n THEN n - (k + 1) + 1 ELSE 0
      /\ \A i \in 1..(n - (k + 1) + 1) : rest[i] = old[k + 1 + i - 1]
  BY <1>5, <1>6, SubSeqProperties
<1> HIDE DEF rest
<1>8. /\ sink \o rest \in Seq(S) /\ Len(sink \o rest) = k + Len(rest)
      /\ \A i \in 1..(k + Len(rest)) : (sink \o rest)[i] = IF i <= k THEN sink[i] ELSE rest[i - k]
  BY <1>2, <1>7, ConcatProperties DEF k
<1>9. Len(rest) \in Nat
  BY <1>7, LenProperties
<1>10. \A i \in 1..k : Dest[i] = bytes[i]
  <2>1. \A i \in 1..k : i \in 1..(k + Len(rest)) /\ i <= k
    BY <1>3, <1>9
  <2> QED
    BY <1>3, <1>4, <1>8, <2>1
<1>11. ASSUME NEW i \in (k + 1)..n PROVE Dest[i] = old[i]
  <2>1. /\ k + 1 <= n /\ i \in 1..(k + Len(rest)) /\ ~ (i <= k)
        /\ i - k \in 1..(n - (k + 1) + 1) /\ k + 1 + (i - k) - 1 = i
    BY <1>3, <1>6, <1>7
  <2>2. Dest[i] = rest[i - k]
    BY <1>4, <1>8, <2>1
  <2>3. rest[i - k] = old[k + 1 + (i - k) - 1]
    BY <1>7, <2>1
  <2> QED
    BY <2>1, <2>2, <2>3
<1>12. Len(Dest) = IF k <= n THEN n ELSE k
  BY <1>3, <1>4, <1>6, <1>7, <1>8
<1> QED
  BY <1>3, <1>4, <1>8, <1>10, <1>11, <1>12 DEF S, old, k, n

-----------------------------------------------------------------------------
(* What a damaged cell may read as.                                         *)
LEMMA CorruptCases ==
  ASSUME NEW cell, NEW c \in Corrupt(cell)
  PROVE  \/ c \in Garbage
         \/ /\ cell[1] = "u64"
            /\ \E n \in {cell[2] + 1, cell[2] + 2} \cup (1..cell[2] \cap {cell[2] - 1, cell[2] - 2}) : c = U64(n)
         \/ cell[1] = "role" /\ \E k \in 0..3 : \E n \in 0..2 : c = <<"role", k, n>>
         \/ cell[1] = "slot" /\ \E s \in 0..3 : c = <<"slot", s>>
         \/ cell[1] = "format" /\ \E f \in {1, 2} : \E n \in {cell[3] - 1, cell[3] + 1} : c = <<"format", f, n>>
<1>1. CASE cell[1] = "u64"
  BY <1>1 DEF Corrupt
<1>2. CASE cell[1] = "role"
  BY <1>2 DEF Corrupt
<1>3. CASE cell[1] = "slot"
  BY <1>3 DEF Corrupt
<1>4. CASE cell[1] = "format"
  BY <1>4 DEF Corrupt
<1>5. CASE cell[1] # "u64" /\ cell[1] # "role" /\ cell[1] # "slot" /\ cell[1] # "format"
  BY <1>5 DEF Corrupt
<1> QED
  BY <1>1, <1>2, <1>3, <1>4, <1>5

LEMMA EmptyBefore == StoreInv /\ before = <<>> => Dest = sink
<1> SUFFICES ASSUME StoreInv, before = <<>> PROVE Dest = sink
  OBVIOUS
<1>1. \E S : sink \in Seq(S)
  <2>1. CASE ~damaged
    BY <2>1, SinkIsPrefix
  <2>2. CASE damaged
    <3>1. pc # "idle" /\ OneFieldChanged(sink)
      BY <2>2 DEF StoreInv
    <3>2. bytes \in Seq(FileCells(plan))
      BY <3>1, BytesAsPlanned DEF LaidOut
    <3>3. PICK i \in 1..Len(bytes) : \E c \in Corrupt(bytes[i]) : sink = [bytes EXCEPT ![i] = c]
      BY <3>1 DEF OneFieldChanged
    <3>4. PICK c \in Corrupt(bytes[i]) : sink = [bytes EXCEPT ![i] = c]
      BY <3>3
    <3> DEFINE S == FileCells(plan) \cup {c}
    <3>5. bytes \in Seq(S) /\ c \in S
      <4>1. Seq(FileCells(plan)) \subseteq Seq(S)
        BY SeqMonotonic
      <4> QED
        BY <3>2, <4>1
    <3> HIDE DEF S
    <3>6. sink \in Seq(S)
      BY <3>5, <3>4, ExceptSeq
    <3> QED
      BY <3>6
  <2> QED
    BY <2>1, <2>2 DEF StoreInv
<1>2. PICK S : sink \in Seq(S)
  BY <1>1
<1>3. Len(sink) \in Nat /\ SubSeq(<<>>, Len(sink) + 1, 0) = <<>>
  <2>1. Len(sink) \in Nat
    BY <1>2, LenProperties
  <2>2. Len(sink) + 1 \in Int /\ 0 \in Int /\ ~ (Len(sink) + 1 <= 0) /\ \A i \in (Len(sink) + 1)..0 : <<>>[i] \in S
    BY <2>1
  <2>3. SubSeq(<<>>, Len(sink) + 1, 0) \in Seq(S) /\ Len(SubSeq(<<>>, Len(sink) + 1, 0)) = 0
    BY <2>2, SubSeqProperties
  <2> QED
    BY <2>1, <2>3, EmptySeq
<1>4. Dest = sink \o SubSeq(<<>>, Len(sink) + 1, Len(<<>>)) /\ Len(<<>>) = 0
  BY DEF Dest
<1>5. Dest = sink \o <<>>
  BY <1>3, <1>4
<1> QED
  BY <1>2, <1>5, ConcatEmptySeq

(* A destination that passes the header check states a number of extents.   *)
LEMMA CountType == StoreInv /\ HeaderOk(Dest) => Count(Dest) \in Int
<1> SUFFICES ASSUME StoreInv, HeaderOk(Dest) PROVE Count(Dest) \in Int
  OBVIOUS
<1>1. Dest[2][1] = "format" /\ Len(Dest) >= 4 /\ Count(Dest) = Dest[2][3]
  BY DEF HeaderOk, FIXED_HEADER, Count
<1>2. CASE ~damaged
  <2>1. PICK q \in Generations : Dest \in Seq(FileCells(plan) \cup FileCells(q))
    BY <1>2, DestCells
  <2>2. 2 \in 1..Len(Dest)
    BY <1>1, <2>1, LenProperties
  <2>3. Dest[2] \in FileCells(plan) \/ Dest[2] \in FileCells(q)
    BY <2>1, <2>2, ElementOfSeq
  <2> QED
    BY <1>1, <2>3, CellTags, PlanFacts
<1>3. CASE damaged
  <2>1. pc # "idle" /\ before = <<>> /\ OneFieldChanged(sink)
    BY <1>3 DEF StoreInv
  <2>2. PICK i \in 1..Len(bytes) : \E c \in Corrupt(bytes[i]) : Dest = [bytes EXCEPT ![i] = c]
    BY <2>1, EmptyBefore DEF OneFieldChanged
  <2>3. PICK c \in Corrupt(bytes[i]) : Dest = [bytes EXCEPT ![i] = c]
    BY <2>2
  <2>4. bytes \in Seq(FileCells(plan)) /\ bytes[2] = <<"format", 1, Length(plan)>> /\ Length(plan) \in Nat
    BY <2>1, BytesAsPlanned, PlanFacts, Placement DEF LaidOut, HasEnvelope, HasHeader
  <2>5. 2 \in DOMAIN bytes
    <3>1. Len(Dest) = Len(bytes) /\ DOMAIN bytes = 1..Len(bytes) /\ Len(bytes) \in Nat
      BY <2>3, <2>4, LenProperties
    <3> QED
      BY <1>1, <3>1
  <2>6. CASE i # 2
    BY <1>1, <2>3, <2>4, <2>5, <2>6
  <2>7. CASE i = 2
    <3>1. Dest[2] = c /\ c \in Corrupt(<<"format", 1, Length(plan)>>)
      BY <2>3, <2>4, <2>5, <2>7
    <3>2. c \in Garbage => c[1] = "data"
      BY FileAssumption, GarbageAssumption
    <3>3. \E f \in {1, 2} : \E n \in {Length(plan) - 1, Length(plan) + 1} : c = <<"format", f, n>>
      BY <1>1, <3>1, <3>2, CorruptCases
    <3> QED
      BY <1>1, <2>4, <3>1, <3>3
  <2> QED
    BY <2>6, <2>7
<1> QED
  BY <1>2, <1>3 DEF StoreInv

(* An admitted file refers to its regions at the schema they were planned   *)
(* with, whatever was damaged: validate_region_graph ties each region's     *)
(* slot to the references inside the payloads.                              *)
THEOREM RegionSchemas == Spec => []RegionSchemasHold
<1>1. StoreInv => RegionSchemasHold
  <2> SUFFICES ASSUME StoreInv, before = <<>>, Parses(Dest, plan.refs)
               PROVE  \A r \in DOMAIN plan.regions : Slot(Dest, r + 2) = plan.regions[r].schema
    BY DEF RegionSchemasHold
  <2>1. HeaderOk(Dest) /\ ValidGraph([r \in 1..RegionCount(Dest) |-> Slot(Dest, r + 2)], plan.refs)
    BY DEF Parses
  <2>2. pc # "idle"
    <3>1. Dest = sink /\ Len(<<>>) = 0 /\ Len(Dest) >= 4
      BY <2>1, EmptyBefore DEF HeaderOk, FIXED_HEADER
    <3> QED
      BY <3>1, NothingYet
  <2>3. Freezable(plan) /\ IsPlan(plan)
    BY <2>2, BytesAsPlanned, PlanFacts
  <2>4. RegionCount(Dest) \in Nat
    BY <2>1, CountType, RegionCountType
  <2> QED
    BY <2>1, <2>3, <2>4, ReferencesPinSchemas
<1> QED
  BY <1>1, StoreKeepsStep, PTL

-----------------------------------------------------------------------------
LEMMA AdmittedAsPlanned ==
  ASSUME NEW p, IsPlan(p), NEW b, Count(b) = Length(p),
         \A i \in 2..Length(p) : Data(b, i) = Extents(p, 1)[i].data
  PROVE  AdmittedData(b) = PlannedData(p)
<1>1. Len(Extents(p, 1)) = Length(p)
  <2>1. InOrder(Extents(p, 1), p, 1)
    BY ExtentsInOrder
  <2> QED
    BY <2>1 DEF InOrder
<1> QED
  BY <1>1 DEF AdmittedData, PlannedData

(* On an empty destination the length field admits nothing but the file.    *)
LEMMA NothingShort ==
  StoreInv /\ ~damaged /\ before = <<>> /\ HeaderOk(Dest) =>
    pc # "idle" /\ bytes # <<>> /\ Dest = bytes
<1> SUFFICES ASSUME StoreInv, ~damaged, before = <<>>, HeaderOk(Dest)
             PROVE  pc # "idle" /\ bytes # <<>> /\ Dest = bytes
  OBVIOUS
<1>1. Dest = sink /\ Len(Dest) >= 4 /\ Dest[3] = U64(Len(Dest))
  BY EmptyBefore DEF HeaderOk, FIXED_HEADER
<1>2. pc # "idle"
  <2>1. Len(<<>>) = 0
    OBVIOUS
  <2> QED
    BY <1>1, <2>1, NothingYet
<1>3. bytes \in Seq(FileCells(plan)) /\ bytes[3] = U64(Len(bytes))
  BY <1>2, BytesAsPlanned DEF LaidOut, HasEnvelope, HasHeader
<1>4. /\ sink \in Seq(FileCells(plan)) /\ Len(sink) \in Nat /\ Len(sink) <= Len(bytes)
      /\ \A i \in 1..Len(sink) : sink[i] = bytes[i]
  BY SinkIsPrefix
<1>5. 3 \in 1..Len(sink)
  BY <1>1, <1>4
<1>6. U64(Len(sink)) = U64(Len(bytes))
  BY <1>1, <1>3, <1>4, <1>5
<1>7. Len(sink) = Len(bytes)
  BY <1>6 DEF U64
<1>8. sink = bytes
  BY <1>3, <1>4, <1>7, SeqEqual
<1>9. bytes # <<>>
  BY <1>1, <1>8
<1> QED
  BY <1>1, <1>2, <1>8, <1>9

(* A digest cell names the content it was made from, so an extent that      *)
(* matches its digest is an extent one of the two files was made from.      *)
LEMMA AdmittedAreWhole ==
  ASSUME StoreInv, ~damaged, HeaderOk(Dest), DescriptorsOk(Dest), PlacementOk(Dest)
  PROVE  PayloadsAreWhole(Dest)
<1> SUFFICES ASSUME NEW i \in 1..Count(Dest)
             PROVE  \E q \in Generations : \E e \in ToSet(Extents(q, 1)) : Data(Dest, i) = e.data
  BY DEF PayloadsAreWhole
<1>1. PICK q \in Generations : Dest \in Seq(FileCells(plan) \cup FileCells(q))
  BY DestCells
<1> DEFINE x == Table(Dest) + (i - 1) * DESCRIPTOR_SIZE + 6
<1>2. Count(Dest) \in Int /\ Len(Dest) \in Nat /\ Table(Dest) \in Nat
  <2>1. Len(Dest) \in Nat
    BY <1>1, LenProperties
  <2>2. Table(Dest) \in 4..Len(Dest)
    BY DEF HeaderOk, FIXED_HEADER
  <2> QED
    BY <2>1, <2>2, CountType
<1>3. x \in 1..Len(Dest)
  <2>1. Table(Dest) + Count(Dest) * 9 <= Len(Dest)
    BY DEF DescriptorsOk, TableEnd, DESCRIPTOR_SIZE
  <2> QED
    BY <1>2, <2>1 DEF DESCRIPTOR_SIZE
<1>4. Dest[x] = <<"digest", Data(Dest, i), 1>>
  <2>1. 1 \in 1..4 /\ 5 + 1 = 6
    OBVIOUS
  <2>2. FieldCell(Dest, i, 5 + 1) = <<"digest", Data(Dest, i), 1>>
    BY <2>1, DigestMatches
  <2> QED
    BY <2>1, <2>2 DEF FieldCell
<1> HIDE DEF x
<1>5. Dest[x] \in FileCells(plan) \/ Dest[x] \in FileCells(q)
  BY <1>1, <1>3, ElementOfSeq
<1>6. ASSUME NEW p \in Generations, Dest[x] \in FileCells(p)
      PROVE  \E e \in ToSet(Extents(p, 1)) : Data(Dest, i) = e.data
  <2>1. IsPlan(p) /\ Dest[x][1] = "digest"
    BY <1>4, PlanFacts
  <2>2. PICK e \in ToSet(Extents(p, 1)) : \E j \in 1..4 : Dest[x] = <<"digest", e.data, j>>
    BY <1>6, <2>1, CellTags
  <2>3. Data(Dest, i) = e.data
    BY <1>4, <2>2
  <2> QED
    BY <2>3
<1> QED
  BY <1>5, <1>6, PlanFacts

(* Files of one shape put every field but kinds, slots and digests in the   *)
(* same place, so the cut falls before all payloads or after all digests.   *)
LEMMA OneShapeOneGeneration ==
  ASSUME StoreInv, ~damaged, HeaderOk(Dest), PlacementOk(Dest), before # <<>>, SameShape(plan, before[1])
  PROVE  \E q \in Generations : AdmittedData(Dest) = PlannedData(q)
<1> DEFINE e == before[1]
           old == Layout(e)
           k == Len(sink)
           n == Length(plan)
<1>1. /\ IsPlan(plan) /\ IsPlan(e) /\ plan \in Generations /\ e \in Generations /\ LaidOut(old, e)
      /\ OldFile = old
  BY PlanFacts DEF OldFile
<1>2. CASE pc = "idle"
  <2>1. k = 0 /\ Len(Dest) = Len(old) /\ \A i \in 1..Len(old) : Dest[i] = old[i]
    <3>1. k = 0
      BY <1>2, NothingYet
    <3>2. /\ Len(Dest) = IF k <= Len(OldFile) THEN Len(OldFile) ELSE k
          /\ Len(OldFile) \in Nat /\ \A i \in (k + 1)..Len(OldFile) : Dest[i] = OldFile[i]
      BY DestCells
    <3> HIDE DEF k, old
    <3> QED
      BY <1>1, <3>1, <3>2
  <2>2. \E S : Dest \in Seq(S) /\ old \in Seq(S)
    <3>1. PICK q \in Generations : Dest \in Seq(FileCells(plan) \cup FileCells(q))
      BY DestCells
    <3> DEFINE S == (FileCells(plan) \cup FileCells(q)) \cup FileCells(e)
    <3>2. Seq(FileCells(plan) \cup FileCells(q)) \subseteq Seq(S) /\ Seq(FileCells(e)) \subseteq Seq(S)
      BY SeqMonotonic
    <3>3. old \in Seq(FileCells(e))
      BY <1>1 DEF LaidOut
    <3> HIDE DEF S, old, e
    <3> QED
      BY <3>1, <3>2, <3>3
  <2>3. Dest = old
    <3> HIDE DEF old
    <3> QED
      BY <2>1, <2>2, SeqEqual
  <2>4. Count(old) = Length(e) /\ \A i \in 1..Length(e) : Data(old, i) = Extents(e, 1)[i].data
    BY <1>1, LaidOutReads
  <2>5. AdmittedData(old) = PlannedData(e)
    <3>1. \A i \in 2..Length(e) : i \in 1..Length(e)
      BY <1>1, Placement
    <3> HIDE DEF e, old
    <3> QED
      BY <1>1, <2>4, <3>1, AdmittedAsPlanned
  <2> QED
    BY <1>1, <2>3, <2>5
<1>3. CASE pc # "idle"
  <2>1. LaidOut(bytes, plan)
    BY <1>3, BytesAsPlanned
  <2>2. /\ TableOf(plan) = TableOf(e) /\ n = Length(e) /\ n \in Nat /\ n >= 2
        /\ \A i \in 1..n : Len(Extents(plan, 1)[i].data) = Len(Extents(e, 1)[i].data)
    <3>1. InOrder(Extents(plan, 1), plan, 1) /\ InOrder(Extents(e, 1), e, 1)
      BY <1>1, ExtentsInOrder
    <3> HIDE DEF e
    <3>2. Len(Extents(plan, 1)) = n /\ DOMAIN Extents(plan, 1) = 1..n /\ Len(Extents(e, 1)) = Length(e)
      BY <3>1 DEF InOrder
    <3> QED
      BY <1>1, <3>2, Placement DEF SameShape, TableOf, e
  <2>3. EnvelopeLen(plan) = EnvelopeLen(e)
    BY <2>2 DEF EnvelopeLen
  <2> HIDE DEF e, old, n
  <2>4. \A i \in 1..n : At(plan)[i] = At(e)[i] /\ EndAt(plan, i) = EndAt(e, i)
    BY <1>1, <2>2, <2>3, SameOffsets DEF n
  <2>5. FileLength(plan) = FileLength(e)
    <3>1. n \in 1..n
      BY <2>2
    <3> QED
      BY <2>2, <2>4, <3>1 DEF FileLength, n
  <2>6. Len(bytes) = Len(old) /\ Len(old) = FileLength(e)
    BY <1>1, <2>1, <2>5 DEF LaidOut
  <2>7. /\ k \in Nat /\ k <= Len(old) /\ Len(Dest) = Len(old) /\ Len(old) \in Nat
        /\ \A i \in 1..k : Dest[i] = bytes[i]
        /\ \A i \in (k + 1)..Len(old) : Dest[i] = old[i]
    <3>1. /\ Len(Dest) = IF k <= Len(OldFile) THEN Len(OldFile) ELSE k
          /\ Len(OldFile) \in Nat
          /\ \A i \in 1..k : Dest[i] = bytes[i]
          /\ \A i \in (k + 1)..Len(OldFile) : Dest[i] = OldFile[i]
      BY DestCells
    <3>2. k \in Nat /\ k <= Len(bytes)
      BY SinkIsPrefix
    <3> HIDE DEF k
    <3> QED
      BY <1>1, <2>6, <3>1, <3>2
  <2> HIDE DEF k
  <2>8. \A i \in 1..Len(old) : Dest[i] = bytes[i] \/ Dest[i] = old[i]
    <3>1. \A i \in 1..Len(old) : i \in 1..k \/ i \in (k + 1)..Len(old)
      BY <2>7
    <3> QED
      BY <2>7, <3>1
  <2>9. EnvelopeLen(e) <= Len(old) /\ EnvelopeLen(e) = TableOf(e) + n * 9 /\ TableOf(e) \in Nat /\ TableOf(e) >= 4
    BY <1>1, <2>2, Placement DEF LaidOut, EnvelopeLen, DESCRIPTOR_SIZE, FIXED_HEADER
  <2>10. Count(Dest) = n /\ Table(Dest) = TableOf(e)
    <3>1. 2 \in 1..Len(old) /\ 4 \in 1..Len(old)
      BY <2>2, <2>7, <2>9
    <3>2. HasHeader(bytes, plan) /\ HasHeader(old, e)
      BY <1>1, <2>1 DEF LaidOut, HasEnvelope
    <3>3. Dest[2] = <<"format", 1, n>> /\ Dest[4] = U64(TableOf(e))
      BY <2>2, <2>8, <3>1, <3>2 DEF HasHeader, n
    <3> QED
      BY <3>3 DEF Count, Table, U64
  <2>11. CASE k >= EnvelopeLen(plan)
    <3>1. \A i \in 1..EnvelopeLen(plan) : Dest[i] = bytes[i]
      <4>1. \A i \in 1..EnvelopeLen(plan) : i \in 1..k
        BY <2>3, <2>7, <2>9, <2>11, <2>2
      <4> QED
        BY <2>7, <4>1
    <3>2. HasEnvelope(Dest, plan)
      BY <1>1, <2>1, <3>1, EnvelopeStays DEF LaidOut
    <3>3. ASSUME NEW i \in 1..n PROVE Data(Dest, i) = Extents(plan, 1)[i].data
      <4>1. HasRow(Dest, plan, i)
        BY <3>2 DEF HasEnvelope, n
      <4>2. Table(Dest) = TableOf(plan) /\ i \in 1..Length(plan) /\ i \in 1..Count(Dest)
        BY <2>2, <2>10 DEF n
      <4>3. 1 \in 1..4 /\ FieldCell(Dest, i, 5 + 1) = <<"digest", Extents(plan, 1)[i].data, 1>>
        BY <1>1, <4>1, <4>2, RowFields
      <4>4. FieldCell(Dest, i, 5 + 1) = <<"digest", Data(Dest, i), 1>>
        BY <4>2, <4>3, DigestMatches
      <4> QED
        BY <4>3, <4>4
    <3>4. AdmittedData(Dest) = PlannedData(plan)
      <4>1. \A i \in 2..Length(plan) : i \in 1..n
        BY <2>2 DEF n
      <4> QED
        BY <1>1, <2>10, <3>3, <4>1, AdmittedAsPlanned DEF n
    <3> QED
      BY <1>1, <3>4
  <2>12. CASE k < EnvelopeLen(plan)
    <3>1. ASSUME NEW i \in 1..n PROVE Data(Dest, i) = Extents(e, 1)[i].data
      <4> DEFINE t == TableOf(e) + (i - 1) * DESCRIPTOR_SIZE
      <4>1. t + 2 \in 1..Len(old) /\ t + 3 \in 1..Len(old)
        BY <2>2, <2>7, <2>9, SMTT(30) DEF DESCRIPTOR_SIZE
      <4>2. HasRow(bytes, plan, i) /\ HasRow(old, e, i) /\ HasPayload(old, e, i)
        BY <1>1, <2>1, <2>2 DEF LaidOut, HasEnvelope, n
      <4>3. Table(bytes) = TableOf(plan) /\ Table(old) = TableOf(e)
        BY <1>1, <2>1, LaidOutReads
      <4>4. i \in 1..Length(plan) /\ i \in 1..Length(e)
        BY <2>2 DEF n
      <4>5. /\ FieldCell(bytes, i, 2) = U64(At(plan)[i]) /\ FieldCell(bytes, i, 3) = U64(Len(Extents(plan, 1)[i].data))
            /\ FieldCell(old, i, 2) = U64(At(e)[i]) /\ FieldCell(old, i, 3) = U64(Len(Extents(e, 1)[i].data))
        BY <1>1, <4>2, <4>3, <4>4, RowFields
      <4>6. /\ FieldCell(bytes, i, 2) = bytes[t + 2] /\ FieldCell(bytes, i, 3) = bytes[t + 3]
            /\ FieldCell(old, i, 2) = old[t + 2] /\ FieldCell(old, i, 3) = old[t + 3]
            /\ FieldCell(Dest, i, 2) = Dest[t + 2] /\ FieldCell(Dest, i, 3) = Dest[t + 3]
        BY <2>2, <2>10, <4>3 DEF FieldCell
      <4> HIDE DEF t
      <4>7. Dest[t + 2] = U64(At(e)[i]) /\ Dest[t + 3] = U64(Len(Extents(e, 1)[i].data))
        BY <2>2, <2>4, <2>8, <4>1, <4>5, <4>6
      <4>8. Offset(Dest, i) = At(e)[i] /\ End(Dest, i) = EndAt(e, i)
        BY <4>6, <4>7 DEF Offset, End, DataLen, EndAt, U64
      <4>9. HasPayload(Dest, e, i)
        <5> DEFINE o == At(e)[i]
                   d == Extents(e, 1)[i].data
        <5>1. o \in Nat /\ EnvelopeLen(e) <= o /\ Len(d) \in Nat /\ EndAt(e, i) = o + Len(d)
          BY <1>1, <4>4, Placement, AfterEnvelope DEF EndAt
        <5>2. EndAt(e, i) <= Len(old) /\ \A m \in 1..Len(d) : old[o + m] = d[m]
          BY <4>2 DEF HasPayload
        <5>3. EnvelopeLen(e) \in Nat /\ k < EnvelopeLen(e)
          BY <1>1, <2>3, <2>12, Placement
        <5> HIDE DEF o, d
        <5>4. \A m \in 1..Len(d) : o + m \in (k + 1)..Len(old)
          BY <2>7, <5>1, <5>2, <5>3
        <5>5. \A m \in 1..Len(d) : Dest[o + m] = d[m]
          BY <2>7, <5>2, <5>4
        <5> QED
          BY <2>7, <5>2, <5>5 DEF HasPayload, o, d
      <4>10. PICK q \in Generations : Dest \in Seq(FileCells(plan) \cup FileCells(q))
        BY DestCells
      <4> QED
        BY <1>1, <4>4, <4>8, <4>9, <4>10, DataAsPlanned
    <3>2. AdmittedData(Dest) = PlannedData(e)
      <4>1. \A i \in 2..Length(e) : i \in 1..n
        BY <2>2
      <4> QED
        BY <1>1, <2>2, <2>10, <3>1, <4>1, AdmittedAsPlanned
    <3> QED
      BY <1>1, <3>2
  <2>13. EnvelopeLen(plan) \in Nat
    BY <1>1, Placement
  <2> QED
    BY <2>7, <2>11, <2>12, <2>13
<1> QED
  BY <1>2, <1>3

(* Whatever error, short write or crash interrupts the writer, a reader     *)
(* admits only whole payloads, of one generation when the files have one    *)
(* shape, and on an empty destination only the whole file.                  *)
THEOREM StoreIsOneGeneration == Spec => []OneGeneration
<1>1. ASSUME StoreInv, ~damaged, before = <<>>, NEW refs, Parses(Dest, refs)
      PROVE  bytes # <<>> /\ Dest = bytes /\ AdmittedData(Dest) = PlannedData(plan)
  <2>1. pc # "idle" /\ bytes # <<>> /\ Dest = bytes
    BY <1>1, NothingShort DEF Parses
  <2>2. LaidOut(Dest, plan) /\ IsPlan(plan)
    BY <1>1, <2>1, BytesAsPlanned, PlanFacts
  <2>3. /\ Count(Dest) = Length(plan) /\ \A i \in 2..Length(plan) : i \in 1..Length(plan)
        /\ \A i \in 1..Length(plan) : Data(Dest, i) = Extents(plan, 1)[i].data
    BY <2>2, LaidOutReads, Placement
  <2> HIDE DEF Dest
  <2>4. AdmittedData(Dest) = PlannedData(plan)
    BY <2>2, <2>3, AdmittedAsPlanned
  <2> QED
    BY <2>1, <2>4
<1>2. ASSUME StoreInv, NEW p \in Generations, ~damaged, Parses(Dest, p.refs)
      PROVE  /\ PayloadsAreWhole(Dest)
             /\ (\A q \in Generations : SameShape(plan, q)) =>
                  \E q \in Generations : AdmittedData(Dest) = PlannedData(q)
  <2>1. HeaderOk(Dest) /\ DescriptorsOk(Dest) /\ PlacementOk(Dest)
    BY <1>2 DEF Parses
  <2>2. PayloadsAreWhole(Dest)
    BY <1>2, <2>1, AdmittedAreWhole
  <2>3. ASSUME \A q \in Generations : SameShape(plan, q)
        PROVE  \E q \in Generations : AdmittedData(Dest) = PlannedData(q)
    <3>1. CASE before = <<>>
      BY <1>1, <1>2, <3>1, PlanFacts
    <3>2. CASE before # <<>>
      <4>1. SameShape(plan, before[1])
        BY <1>2, <2>3, <3>2, PlanFacts
      <4> QED
        BY <1>2, <2>1, <3>2, <4>1, OneShapeOneGeneration
    <3> QED
      BY <3>1, <3>2
  <2> QED
    BY <2>2, <2>3
<1>3. StoreInv => OneGeneration
  BY <1>1, <1>2 DEF OneGeneration
<1> QED
  BY <1>3, StoreKeepsStep, PTL

-----------------------------------------------------------------------------
(* One changed field can move neither the table nor the end of it unseen.   *)
LEMMA TableHolds ==
  ASSUME NEW p, IsPlan(p), NEW a, LaidOut(a, p), NEW x \in 1..Len(a), NEW c \in Corrupt(a[x]), c # a[x],
         NEW b, b = [a EXCEPT ![x] = c], NEW refs, Parses(b, refs)
  PROVE  Count(b) = Length(p) /\ Table(b) = TableOf(p) /\ x # 2 /\ x # 4
<1> DEFINE n == Length(p)
           t == TableOf(p)
<1>1. a \in Seq(FileCells(p)) /\ Len(a) \in Nat /\ DOMAIN a = 1..Len(a)
  BY LenProperties DEF LaidOut
<1>2. b[x] = c /\ \A i \in 1..Len(a) : i # x => b[i] = a[i]
  BY <1>1
<1>3. /\ a[2] = <<"format", 1, n>> /\ a[4] = U64(t)
      /\ \A j \in 1..Len(ManifestCells(Manifest(p))) : a[4 + j] = <<"manifest", Manifest(p), j>>
      /\ HasRow(a, p, 1)
  <2>1. HasHeader(a, p) /\ HasManifest(a, p) /\ \A i \in 1..n : HasRow(a, p, i)
    BY DEF LaidOut, HasEnvelope
  <2>2. 1 \in 1..n
    BY Placement
  <2> QED
    BY <2>1, <2>2, ManifestFacts DEF HasHeader, HasManifest, FIXED_HEADER
<1>4. /\ n \in Nat /\ n >= 2 /\ t \in Nat /\ t >= 4 /\ t + n * 9 <= Len(a)
      /\ t = 4 + Len(ManifestCells(Manifest(p)))
  BY Placement DEF LaidOut, EnvelopeLen, TableOf, DESCRIPTOR_SIZE, FIXED_HEADER
<1>5. a[t + 1][1] = "role" /\ a[t + 2] = U64(At(p)[1]) /\ a[t + 3][1] = "u64"
  <2>1. Table(a) = t /\ 1 \in 1..n
    BY <1>4, LaidOutReads
  <2>2. /\ FieldCell(a, 1, 2) = U64(At(p)[1])
        /\ FieldCell(a, 1, 3) = U64(Len(Extents(p, 1)[1].data))
        /\ FieldCell(a, 1, 1) = <<"role", Extents(p, 1)[1].kind, Extents(p, 1)[1].number>>
    BY <1>3, <2>1, RowFields
  <2>3. /\ FieldCell(a, 1, 1) = a[t + 1] /\ FieldCell(a, 1, 2) = a[t + 2] /\ FieldCell(a, 1, 3) = a[t + 3]
    <3>1. t + (1 - 1) * DESCRIPTOR_SIZE + 1 = t + 1 /\ t + (1 - 1) * DESCRIPTOR_SIZE + 2 = t + 2
          /\ t + (1 - 1) * DESCRIPTOR_SIZE + 3 = t + 3
      BY <1>4 DEF DESCRIPTOR_SIZE
    <3> QED
      BY <2>1, <3>1 DEF FieldCell
  <2> QED
    BY <2>2, <2>3 DEF U64
<1>6. At(p)[1] = AlignUp(t + n * 9)
  <2>1. 1 \in 1..n
    BY <1>4
  <2>2. At(p)[1] = AlignUp(EnvelopeLen(p))
    BY <2>1, Placement
  <2> QED
    BY <2>2 DEF EnvelopeLen, DESCRIPTOR_SIZE
<1>7. /\ b[2][1] = "format" /\ b[2][2] = 1 /\ b[4][1] = "u64" /\ b[4][2] \in 4..Len(b) /\ Len(b) = Len(a)
      /\ Count(b) = b[2][3] /\ Table(b) = b[4][2] /\ Count(b) >= 2
      /\ \A i \in 1..Count(b) : FieldCell(b, i, 1)[1] = "role"
      /\ \A i \in 1..Count(b) : Offset(b, i) = AlignUp(IF i = 1 THEN TableEnd(b) ELSE End(b, i - 1))
  <2>1. HeaderOk(b) /\ DescriptorsOk(b) /\ PlacementOk(b) /\ RolesOk(b)
    BY DEF Parses
  <2>2. Len(b) = Len(a)
    BY <1>1
  <2>3. b[2][1] = "format" /\ b[2][2] = 1 /\ b[4][1] = "u64" /\ b[4][2] \in 4..Len(b)
    BY <2>1 DEF HeaderOk, FIXED_HEADER, Table
  <2>4. Count(b) = b[2][3] /\ Table(b) = b[4][2]
    BY DEF Count, Table
  <2>5. Count(b) >= 2
    BY <2>1 DEF RolesOk
  <2>6. \A i \in 1..Count(b) : FieldCell(b, i, 1)[1] = "role"
    BY <2>1 DEF DescriptorsOk
  <2>7. \A i \in 1..Count(b) : Offset(b, i) = AlignUp(IF i = 1 THEN TableEnd(b) ELSE End(b, i - 1))
    BY <2>1 DEF PlacementOk
  <2> QED
    BY <2>2, <2>3, <2>4, <2>5, <2>6, <2>7
<1>8. c[1] = "format" \/ c[1] = "u64" => c \notin Garbage
  BY FileAssumption, GarbageAssumption
<1> HIDE DEF n, t
<1>9. x # 4
  <2> SUFFICES ASSUME x = 4 PROVE FALSE
    OBVIOUS
  <2>1. c \in Corrupt(U64(t)) /\ c[1] = "u64" /\ c # U64(t) /\ c = b[4]
    BY <1>2, <1>3, <1>7
  <2>2. U64(t)[1] = "u64" /\ U64(t)[2] = t
    BY DEF U64
  <2>3. \E m \in {t + 1, t + 2} \cup (1..t \cap {t - 1, t - 2}) : c = U64(m)
    BY <1>8, <2>1, <2>2, CorruptCases
  <2>4. PICK m \in {t + 1, t + 2, t - 1, t - 2} : c = U64(m)
    BY <2>3
  <2>5. Table(b) = m /\ m \in 4..Len(b)
    BY <1>7, <2>1, <2>4 DEF U64
  <2>6. Count(b) = n
    <3>1. 2 \in 1..Len(a)
      BY <1>4
    <3> QED
      BY <1>2, <1>3, <1>7, <3>1
  <2>7. b[m + 1][1] = "role"
    <3>1. 1 \in 1..Count(b) /\ m + (1 - 1) * DESCRIPTOR_SIZE + 1 = m + 1
      BY <1>4, <2>4, <2>6 DEF DESCRIPTOR_SIZE
    <3> QED
      BY <1>7, <2>5, <3>1 DEF FieldCell
  <2>8. m + 1 \in 1..Len(a) /\ m + 1 # 4
    BY <1>4, <2>4, <2>5
  <2>9. a[m + 1][1] = "role"
    BY <1>2, <2>7, <2>8
  <2>10. CASE m = t + 1 \/ m = t + 2
    <3>1. m + 1 = t + 2 \/ m + 1 = t + 3
      BY <1>4, <2>10
    <3> QED
      BY <1>5, <2>9, <3>1 DEF U64
  <2>11. CASE m = t - 1 \/ m = t - 2
    <3> DEFINE j == m + 1 - 4
    <3>1. j \in 1..Len(ManifestCells(Manifest(p))) /\ 4 + j = m + 1
      <4> DEFINE k == Len(ManifestCells(Manifest(p)))
      <4>1. k \in Nat /\ t = 4 + k
        BY <1>4, ManifestFacts
      <4> HIDE DEF k
      <4>2. j \in 1..k /\ 4 + j = m + 1
        BY <2>5, <2>11, <4>1
      <4> QED
        BY <4>2 DEF k
    <3> HIDE DEF j
    <3>2. a[m + 1] = <<"manifest", Manifest(p), j>>
      BY <1>3, <3>1
    <3> QED
      BY <2>9, <3>2
  <2> QED
    BY <2>4, <2>10, <2>11
<1>10. Table(b) = t
  <2>1. 4 \in 1..Len(a)
    BY <1>4
  <2> QED
    BY <1>2, <1>3, <1>7, <1>9, <2>1 DEF U64
<1>11. x # 2
  <2> SUFFICES ASSUME x = 2 PROVE FALSE
    OBVIOUS
  <2>1. c \in Corrupt(<<"format", 1, n>>) /\ c[1] = "format" /\ c[2] = 1 /\ c # <<"format", 1, n>> /\ c = b[2]
    BY <1>2, <1>3, <1>7
  <2>2. \E f \in {1, 2} : \E m \in {n - 1, n + 1} : c = <<"format", f, m>>
    BY <1>8, <2>1, CorruptCases
  <2>3. PICK m \in {n - 1, n + 1} : c[3] = m
    BY <2>2
  <2>4. Count(b) = m /\ m \in Nat /\ 1 \in 1..Count(b)
    BY <1>4, <1>7, <2>1, <2>3
  <2>5. TableEnd(b) = t + m * 9
    BY <1>10, <2>4 DEF TableEnd, DESCRIPTOR_SIZE
  <2>6. Offset(b, 1) = AlignUp(t + m * 9)
    BY <1>7, <2>4, <2>5
  <2>7. t + 2 \in 1..Len(a) /\ t + 2 # x
    BY <1>4
  <2>8. Offset(b, 1) = At(p)[1]
    <3>1. t + (1 - 1) * DESCRIPTOR_SIZE + 2 = t + 2
      BY <1>4 DEF DESCRIPTOR_SIZE
    <3>2. FieldCell(b, 1, 2) = a[t + 2]
      BY <1>2, <1>10, <2>7, <3>1 DEF FieldCell
    <3> QED
      BY <1>5, <3>2 DEF Offset, U64
  <2>9. AlignUp(t + m * 9) = AlignUp(t + n * 9)
    BY <1>6, <2>6, <2>8
  <2>10. t \in Nat /\ m \in Nat /\ n \in Nat /\ (m = n - 1 \/ m = n + 1)
    BY <1>4, <2>3, <2>4
  <2> QED
    BY <2>9, <2>10, RowsMoveExtents DEF DESCRIPTOR_SIZE
<1>12. Count(b) = n
  <2>1. 2 \in 1..Len(a)
    BY <1>4
  <2> QED
    BY <1>2, <1>3, <1>7, <1>11, <2>1
<1> QED
  BY <1>9, <1>10, <1>11, <1>12 DEF n, t

(* Each extent has four digest cells and at most one is damaged, so what is *)
(* admitted after damage to one field is what was written.                  *)
THEOREM DamageIsCaught == Spec => []DamageIsNotServed
<1>1. StoreInv => DamageIsNotServed
  <2> SUFFICES ASSUME StoreInv, damaged, Parses(Dest, plan.refs)
               PROVE  AdmittedData(Dest) = PlannedData(plan)
    BY DEF DamageIsNotServed
  <2>1. pc # "idle" /\ Dest = sink /\ OneFieldChanged(Dest)
    BY EmptyBefore DEF StoreInv
  <2>2. LaidOut(bytes, plan) /\ IsPlan(plan)
    BY <2>1, BytesAsPlanned, PlanFacts
  <2>3. PICK x \in 1..Len(bytes) : \E c \in Corrupt(bytes[x]) : c # bytes[x] /\ Dest = [bytes EXCEPT ![x] = c]
    BY <2>1 DEF OneFieldChanged
  <2>4. PICK c \in Corrupt(bytes[x]) : c # bytes[x] /\ Dest = [bytes EXCEPT ![x] = c]
    BY <2>3
  <2> DEFINE b == Dest
             n == Length(plan)
  <2>5. Parses(b, plan.refs) /\ b = [bytes EXCEPT ![x] = c]
    BY <2>4
  <2> HIDE DEF b
  <2>6. Count(b) = n /\ Table(b) = TableOf(plan)
    BY <2>2, <2>4, <2>5, TableHolds
  <2>7. /\ n \in Nat /\ n >= 2 /\ TableOf(plan) \in Nat /\ Len(bytes) \in Nat
        /\ TableOf(plan) + n * 9 <= Len(bytes) /\ DOMAIN bytes = 1..Len(bytes)
    BY <2>2, Placement, LenProperties DEF LaidOut, EnvelopeLen, DESCRIPTOR_SIZE
  <2> HIDE DEF n
  <2>8. ASSUME NEW i \in 1..n PROVE Data(b, i) = Extents(plan, 1)[i].data
    <3> DEFINE y(j) == TableOf(plan) + (i - 1) * DESCRIPTOR_SIZE + (5 + j)
    <3>1. y(1) \in 1..Len(bytes) /\ y(2) \in 1..Len(bytes) /\ y(1) # y(2)
      BY <2>7 DEF DESCRIPTOR_SIZE
    <3>2. /\ bytes[y(1)] = <<"digest", Extents(plan, 1)[i].data, 1>>
          /\ bytes[y(2)] = <<"digest", Extents(plan, 1)[i].data, 2>>
      <4>1. HasRow(bytes, plan, i) /\ i \in 1..Length(plan) /\ Table(bytes) = TableOf(plan)
        BY <2>2, LaidOutReads DEF LaidOut, HasEnvelope, n
      <4>2. \A j \in 1..4 : FieldCell(bytes, i, 5 + j) = <<"digest", Extents(plan, 1)[i].data, j>>
        BY <2>2, <4>1, RowFields
      <4>3. FieldCell(bytes, i, 5 + 1) = bytes[y(1)] /\ FieldCell(bytes, i, 5 + 2) = bytes[y(2)]
        BY <4>1 DEF FieldCell
      <4>4. 1 \in 1..4 /\ 2 \in 1..4
        OBVIOUS
      <4> HIDE DEF y
      <4> QED
        BY <4>2, <4>3, <4>4
    <3>3. PICK j \in {1, 2} : y(j) # x
      BY <3>1
    <3>4. b[y(j)] = <<"digest", Extents(plan, 1)[i].data, j>>
      <4>1. y(j) \in 1..Len(bytes) /\ bytes[y(j)] = <<"digest", Extents(plan, 1)[i].data, j>>
        BY <3>1, <3>2, <3>3
      <4> HIDE DEF y
      <4> QED
        BY <2>5, <2>7, <3>3, <4>1
    <3>5. j \in 1..4 /\ i \in 1..Length(plan) /\ i \in 1..Count(b) /\ PlacementOk(b)
      BY <2>5, <2>6, <3>3 DEF Parses, n
    <3> QED
      BY <2>2, <2>6, <3>4, <3>5, DigestPinsData
  <2>9. \A i \in 2..Length(plan) : i \in 1..n
    BY <2>7 DEF n
  <2>10. AdmittedData(b) = PlannedData(plan)
    BY <2>2, <2>6, <2>8, <2>9, AdmittedAsPlanned DEF n
  <2> QED
    BY <2>10 DEF b
<1> QED
  BY <1>1, StoreKeepsStep, PTL

-----------------------------------------------------------------------------
(* A complete destination is the plan's file, as planned.                   *)
LEMMA WholeIsLaidOut ==
  ASSUME StoreInv, Whole, Closed(plan)
  PROVE  /\ IsPlan(plan) /\ Freezable(plan) /\ LaidOut(Dest, plan)
         /\ Parses(Dest, plan.refs) /\ ManifestOf(Dest) = Manifest(plan)
         /\ RegionCount(Dest) = Len(plan.regions)
<1>1. pc # "idle" /\ Dest = bytes
  BY DEF Whole
<1>2. IsPlan(plan) /\ Freezable(plan) /\ LaidOut(Dest, plan)
  BY <1>1, BytesAsPlanned, PlanFacts
<1>3. \A i \in 2..Length(plan) : Extents(plan, 1)[i].schema \in Primitive \cup plan.schemas
  <2>1. InOrder(Extents(plan, 1), plan, 1)
    BY <1>2, ExtentsInOrder
  <2>2. Len(Extents(plan, 1)) = Length(plan)
    BY <2>1 DEF InOrder
  <2> QED
    BY <2>2 DEF Closed
<1> HIDE DEF Dest
<1> QED
  BY <1>2, <1>3, PlanParses

(* The writer and the reader of the same code agree: a completely written   *)
(* file is admitted and hands back what the plan was made of.               *)
THEOREM WrittenIsRead == Spec => []WrittenIsAdmitted
<1>1. StoreInv => WrittenIsAdmitted
  <2> SUFFICES ASSUME StoreInv, Whole, Closed(plan)
               PROVE  /\ Parses(Dest, plan.refs)
                      /\ AdmittedData(Dest) = PlannedData(plan)
                      /\ ManifestOf(Dest) = Manifest(plan)
                      /\ RegionCount(Dest) = Len(plan.regions)
    BY DEF WrittenIsAdmitted
  <2>1. /\ IsPlan(plan) /\ LaidOut(Dest, plan) /\ Parses(Dest, plan.refs)
        /\ ManifestOf(Dest) = Manifest(plan) /\ RegionCount(Dest) = Len(plan.regions)
    BY WholeIsLaidOut
  <2> DEFINE b == Dest
  <2>2. LaidOut(b, plan)
    BY <2>1
  <2> HIDE DEF b
  <2>3. /\ Count(b) = Length(plan) /\ \A i \in 2..Length(plan) : i \in 1..Length(plan)
        /\ \A i \in 1..Length(plan) : Data(b, i) = Extents(plan, 1)[i].data
    BY <2>1, <2>2, LaidOutReads, Placement
  <2>4. AdmittedData(b) = PlannedData(plan)
    BY <2>1, <2>3, AdmittedAsPlanned
  <2> QED
    BY <2>1, <2>4 DEF b
<1> QED
  BY <1>1, StoreKeepsStep, PTL

(* What a validator of one feature is handed.                               *)
LEMMA AuxReads ==
  ASSUME StoreInv, Whole, Closed(plan)
  PROVE  /\ ToSet(ManifestOf(Dest).required) = ToSet(plan.required)
         /\ ToSet(ManifestOf(Dest).optional) = ToSet(plan.optional)
         /\ DOMAIN ManifestOf(Dest).aux = DOMAIN plan.aux
         /\ \A k \in DOMAIN plan.aux : ManifestOf(Dest).aux[k].feature = plan.aux[k].feature
         /\ \A f : Rejects(AuxData(Dest, f)) <=> BadAux(f)
<1>1. /\ IsPlan(plan) /\ LaidOut(Dest, plan) /\ ManifestOf(Dest) = Manifest(plan)
      /\ RegionCount(Dest) = Len(plan.regions)
  BY WholeIsLaidOut
<1> DEFINE b == Dest
           aux == ManifestOf(b).aux
<1>2. /\ ManifestOf(b).required = plan.required /\ ManifestOf(b).optional = plan.optional
      /\ aux = [i \in DOMAIN plan.aux |-> [feature |-> plan.aux[i].feature,
                                           name |-> plan.aux[i].name, number |-> plan.aux[i].number]]
  BY <1>1 DEF Manifest
<1>3. DOMAIN aux = DOMAIN plan.aux /\ \A k \in DOMAIN plan.aux : aux[k].feature = plan.aux[k].feature
  BY <1>2
<1>4. DOMAIN plan.aux = 1..Len(plan.aux)
  <2>1. plan.aux \in Seq(AuxPayload)
    BY <1>1 DEF IsPlan
  <2> QED
    BY <2>1, LenProperties
<1>5. \A k \in DOMAIN plan.aux : Data(b, RegionCount(b) + 2 + k) = plan.aux[k].payload.passes[1]
  BY <1>1, <1>4, ExtentsByRole
<1>6. ASSUME NEW f PROVE Rejects(AuxData(b, f)) <=> BadAux(f)
  <2> DEFINE own == {k \in DOMAIN aux : aux[k].feature = f}
             d == [k \in own |-> Data(b, RegionCount(b) + 2 + k)]
  <2>1. own = OwnAux(f)
    BY <1>3 DEF OwnAux
  <2>2. AuxData(b, f) = d
    BY DEF AuxData
  <2>3. \A k \in OwnAux(f) : k \in DOMAIN plan.aux
    BY DEF OwnAux
  <2> HIDE DEF b, own
  <2>4. DOMAIN d = OwnAux(f) /\ \A k \in OwnAux(f) : d[k] = plan.aux[k].payload.passes[1]
    BY <1>5, <2>1, <2>3
  <2> HIDE DEF d
  <2> QED
    BY <2>2, <2>4 DEF Rejects, BadAux
<1> QED
  BY <1>2, <1>3, <1>6

(* Feature admission end to end: which features a reader knows decides      *)
(* nothing but what the plan says of them.                                  *)
THEOREM VerdictsOfFeatures == Spec => []FeatureVerdicts
<1>1. StoreInv => FeatureVerdicts
  <2> SUFFICES ASSUME StoreInv, Whole, Closed(plan), NEW known \in SUBSET Features
               PROVE  /\ RequiredHold(Dest, known) <=>
                           \A f \in ToSet(plan.required) : f \in known /\ ~BadAux(f)
                      /\ Discarded(Dest, known) =
                           Cardinality(UNION {OwnAux(f) : f \in {g \in ToSet(plan.optional) \cap known : BadAux(g)}})
    BY DEF FeatureVerdicts
  <2> DEFINE b == Dest
  <2>1. /\ ToSet(ManifestOf(b).required) = ToSet(plan.required)
        /\ ToSet(ManifestOf(b).optional) = ToSet(plan.optional)
        /\ DOMAIN ManifestOf(b).aux = DOMAIN plan.aux
        /\ \A k \in DOMAIN plan.aux : ManifestOf(b).aux[k].feature = plan.aux[k].feature
        /\ \A f : Rejects(AuxData(b, f)) <=> BadAux(f)
    BY AuxReads
  <2> HIDE DEF b
  <2>2. RequiredHold(b, known) <=> \A f \in ToSet(plan.required) : f \in known /\ ~BadAux(f)
    BY <2>1 DEF RequiredHold
  <2>3. Diagnosed(b, known) = {g \in ToSet(plan.optional) \cap known : BadAux(g)}
    BY <2>1 DEF Diagnosed
  <2> DEFINE bad == {g \in ToSet(plan.optional) \cap known : BadAux(g)}
             cut == {k \in DOMAIN ManifestOf(b).aux : ManifestOf(b).aux[k].feature \in Diagnosed(b, known)}
  <2> HIDE DEF bad
  <2>4. cut = UNION {OwnAux(f) : f \in bad}
    <3>1. cut = {k \in DOMAIN plan.aux : plan.aux[k].feature \in bad}
      BY <2>1, <2>3 DEF bad
    <3>2. \A f : OwnAux(f) = {k \in DOMAIN plan.aux : plan.aux[k].feature = f}
      BY DEF OwnAux
    <3> HIDE DEF cut
    <3> QED
      BY <3>1, <3>2
  <2>5. Discarded(b, known) = Cardinality(UNION {OwnAux(f) : f \in bad})
    BY <2>4 DEF Discarded
  <2> QED
    BY <2>2, <2>5 DEF b, bad
<1> QED
  BY <1>1, StoreKeepsStep, PTL
=============================================================================
