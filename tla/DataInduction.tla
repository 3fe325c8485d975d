---------------------------- MODULE DataInduction ----------------------------
(***************************************************************************)
(* Induction over data, for operators whose theorems in the library take an*)
(* operator as a parameter: over a set of naturals, over an interval, and  *)
(* the existence of a function defined by recursion over an interval.  And *)
(* what the operators on sequences do to a sequence of anything, and sums. *)
(***************************************************************************)
EXTENDS Naturals, Sequences, SequenceTheorems, WellFoundedInduction, TLAPS

-----------------------------------------------------------------------------
(* A set of naturals has a least element, and so can be shown by induction  *)
(* to hold all of them.                                                     *)
LEMMA LeastOf ==
  ASSUME NEW S \in SUBSET Nat, S # {}
  PROVE  \E m \in S : \A k \in S : m <= k
<1> DEFINE R == OpToRel(<, Nat)
<1>1. IsWellFoundedOn(R, Nat)
  BY NatLessThanWellFounded
<1>2. \A x, y \in Nat : (<<y, x>> \in R) <=> (y < x)
  BY DEF OpToRel
<1> HIDE DEF R
<1>3. \E m \in S : \A k \in S : ~ (<<k, m>> \in R)
  BY <1>1, WFMin
<1>4. PICK m \in S : \A k \in S : ~ (k < m)
  BY <1>2, <1>3
<1> QED
  BY <1>4

LEMMA SetInduction ==
  ASSUME NEW T, 0 \in T, \A n \in Nat : n \in T => n + 1 \in T
  PROVE  \A n \in Nat : n \in T
<1> DEFINE Rest == Nat \ T
<1> SUFFICES ASSUME Rest # {} PROVE FALSE
  OBVIOUS
<1>1. Rest \in SUBSET Nat
  OBVIOUS
<1>2. PICK m \in Rest : \A k \in Rest : m <= k
  <2> HIDE DEF Rest
  <2> QED
    BY <1>1, LeastOf
<1>3. m \in Nat /\ m # 0 /\ m - 1 \in Nat /\ ~(m <= m - 1) /\ (m - 1) + 1 = m
  BY <1>2
<1>4. m - 1 \in T
  BY <1>2, <1>3
<1> QED
  BY <1>2, <1>3, <1>4

LEMMA BoundedInduction ==
  ASSUME NEW N \in Nat, NEW T, 0 \in T, \A n \in 0..(N - 1) : n \in T => n + 1 \in T
  PROVE  \A n \in 0..N : n \in T
<1> DEFINE U == {n \in Nat : n <= N => n \in T}
<1>1. 0 \in U /\ \A n \in Nat : n \in U => n + 1 \in U
  OBVIOUS
<1> HIDE DEF U
<1>2. \A n \in Nat : n \in U
  BY <1>1, SetInduction
<1> QED
  BY <1>2 DEF U

(* A recursion over 0..N has a solution: what stands in for the library's   *)
(* theorems on recursive functions.                                         *)
StepsOn(V, N, step) == N \in Nat /\ step \in [1..N -> [V -> V]]
SolvedBy(g, V, v, N, step) ==
  g \in [0..N -> V] /\ g[0] = v /\ \A i \in 1..N : g[i] = step[i][g[i - 1]]

LEMMA Recursion ==
  ASSUME NEW V, NEW v \in V, NEW N, NEW step, StepsOn(V, N, step)
  PROVE  \E g : SolvedBy(g, V, v, N, step)
<1> USE DEF StepsOn
<1> DEFINE Solves(g, n) == g \in [0..n -> V] /\ g[0] = v /\ \A i \in 1..n : g[i] = step[i][g[i - 1]]
           T == {n \in 0..N : \E g : Solves(g, n)}
<1>1. 0 \in T
  <2>1. Solves([i \in 0..0 |-> v], 0)
    OBVIOUS
  <2> HIDE DEF Solves
  <2> QED
    BY <2>1
<1>2. ASSUME NEW n \in 0..(N - 1), n \in T PROVE n + 1 \in T
  <2>1. PICK g : Solves(g, n)
    <3> HIDE DEF Solves
    <3> QED
      BY <1>2
  <2> DEFINE h == [i \in 0..(n + 1) |-> IF i = n + 1 THEN step[n + 1][g[n]] ELSE g[i]]
  <2>2. n + 1 \in 1..N /\ n + 1 \in 0..N /\ g[n] \in V
    BY <2>1
  <2>3. step[n + 1][g[n]] \in V
    BY <2>2
  <2>4. h \in [0..(n + 1) -> V] /\ h[0] = v
    BY <2>1, <2>3
  <2>5. ASSUME NEW i \in 1..(n + 1) PROVE h[i] = step[i][h[i - 1]]
    <3>1. CASE i = n + 1
      BY <3>1
    <3>2. CASE i \in 1..n
      BY <2>1, <3>2
    <3> QED
      BY <3>1, <3>2
  <2>6. Solves(h, n + 1)
    BY <2>4, <2>5
  <2> HIDE DEF h, Solves
  <2> QED
    BY <2>2, <2>6
<1> HIDE DEF T
<1>3. N \in 0..N /\ \A n \in 0..N : n \in T
  <2>1. \A n \in 0..(N - 1) : n \in T => n + 1 \in T
    BY <1>2
  <2>2. \A n \in 0..N : n \in T
    BY <1>1, <2>1, BoundedInduction
  <2> QED
    BY <2>2
<1>4. PICK g : Solves(g, N)
  <2> HIDE DEF Solves
  <2> QED
    BY <1>3 DEF T
<1> QED
  BY <1>4 DEF SolvedBy

-----------------------------------------------------------------------------
(* Sequences of anything, without a set to take their elements from.        *)
IsSeq(s) == Len(s) \in Nat /\ s = [i \in 1..Len(s) |-> s[i]]

LEMMA SeqDomain ==
  ASSUME NEW s, IsSeq(s)
  PROVE  DOMAIN s = 1..Len(s) /\ Len(s) \in Nat /\ s \in Seq({s[i] : i \in 1..Len(s)})
<1> DEFINE S == {s[i] : i \in 1..Len(s)}
<1>1. s = [i \in 1..Len(s) |-> s[i]] /\ Len(s) \in Nat
  BY DEF IsSeq
<1>2. s \in [1..Len(s) -> S]
  BY <1>1
<1>3. s \in Seq(S)
  BY <1>1, <1>2, SeqDef
<1> QED
  BY <1>1, <1>2, <1>3

LEMMA InSeq ==
  ASSUME NEW S, NEW s \in Seq(S)
  PROVE  IsSeq(s) /\ Len(s) \in Nat /\ DOMAIN s = 1..Len(s)
<1>1. Len(s) \in Nat /\ s \in [1..Len(s) -> S]
  BY LenProperties
<1> QED
  BY <1>1 DEF IsSeq

LEMMA FunctionIsSeq ==
  ASSUME NEW n \in Nat, NEW f, f = [i \in 1..n |-> f[i]]
  PROVE  IsSeq(f) /\ Len(f) = n /\ DOMAIN f = 1..n
<1> DEFINE S == {f[i] : i \in 1..n}
<1>1. f \in [1..n -> S]
  OBVIOUS
<1>2. f \in Seq(S)
  BY <1>1, SeqDef
<1>3. Len(f) = n
  BY <1>1, <1>2, LenProperties
<1> QED
  BY <1>2, <1>3, InSeq

LEMMA Appended ==
  ASSUME NEW s, IsSeq(s), NEW x
  PROVE  /\ IsSeq(Append(s, x)) /\ Len(Append(s, x)) = Len(s) + 1 /\ Len(s) \in Nat
         /\ DOMAIN Append(s, x) = 1..Len(s) + 1
         /\ \A i \in 1..Len(s) : Append(s, x)[i] = s[i]
         /\ Append(s, x)[Len(s) + 1] = x
<1> DEFINE S == {s[i] : i \in 1..Len(s)} \cup {x}
<1>1. s \in Seq(S) /\ x \in S
  <2>1. s \in Seq({s[i] : i \in 1..Len(s)}) /\ {s[i] : i \in 1..Len(s)} \subseteq S
    BY SeqDomain
  <2> QED
    BY <2>1
<1> HIDE DEF S
<1>2. /\ Append(s, x) \in Seq(S) /\ Len(Append(s, x)) = Len(s) + 1 /\ Len(s) \in Nat
      /\ \A i \in 1..Len(s) : Append(s, x)[i] = s[i]
      /\ Append(s, x)[Len(s) + 1] = x
  BY <1>1, AppendProperties, LenProperties
<1> QED
  BY <1>2, InSeq

LEMMA ButLast ==
  ASSUME NEW s, IsSeq(s), s # <<>>
  PROVE  /\ IsSeq(SubSeq(s, 1, Len(s) - 1)) /\ Len(SubSeq(s, 1, Len(s) - 1)) = Len(s) - 1
         /\ Len(s) \in Nat \ {0}
         /\ DOMAIN SubSeq(s, 1, Len(s) - 1) = 1..Len(s) - 1
         /\ \A i \in 1..Len(s) - 1 : SubSeq(s, 1, Len(s) - 1)[i] = s[i]
<1> DEFINE S == {s[i] : i \in 1..Len(s)}
           t == SubSeq(s, 1, Len(s) - 1)
<1>1. s \in Seq(S) /\ Len(s) \in Nat
  BY SeqDomain
<1> HIDE DEF S
<1>2. Len(s) # 0
  BY <1>1, EmptySeq
<1>3. /\ t \in Seq(S) /\ Len(t) = Len(s) - 1
      /\ \A i \in 1..Len(s) - 1 : t[i] = s[i]
  <2> DEFINE n == Len(s) - 1
  <2>1. n \in Int /\ 1 \in Int /\ n \in Nat /\ n - 1 + 1 = n
    BY <1>1, <1>2
  <2>2. \A i \in 1..n : i \in 1..Len(s) /\ 1 + i - 1 = i
    BY <1>1, <1>2
  <2>3. \A i \in 1..n : s[i] \in S
    BY <1>1, <2>2, ElementOfSeq
  <2> HIDE DEF n
  <2>4. /\ SubSeq(s, 1, n) \in Seq(S)
        /\ Len(SubSeq(s, 1, n)) = IF 1 <= n THEN n - 1 + 1 ELSE 0
        /\ \A i \in 1..n - 1 + 1 : SubSeq(s, 1, n)[i] = s[1 + i - 1]
    BY <2>1, <2>3, SubSeqProperties
  <2> QED
    BY <2>1, <2>2, <2>4 DEF n
<1> QED
  BY <1>1, <1>2, <1>3, InSeq

LEMMA Replaced ==
  ASSUME NEW s, IsSeq(s), NEW n \in DOMAIN s, NEW x
  PROVE  LET t == [s EXCEPT ![n] = x]
         IN /\ IsSeq(t) /\ Len(t) = Len(s) /\ DOMAIN t = 1..Len(s) /\ t[n] = x
            /\ \A i \in 1..Len(s) : i # n => t[i] = s[i]
<1> DEFINE t == [s EXCEPT ![n] = x]
<1>1. DOMAIN s = 1..Len(s) /\ Len(s) \in Nat
  BY SeqDomain
<1>2. t = [i \in 1..Len(s) |-> t[i]]
  BY <1>1
<1>3. IsSeq(t) /\ Len(t) = Len(s) /\ DOMAIN t = 1..Len(s)
  BY <1>1, <1>2, FunctionIsSeq
<1> QED
  BY <1>1, <1>3

-----------------------------------------------------------------------------
(* Sums of the first elements of a sequence of numbers: the equations of    *)
(* what the modules define as Sums.                                         *)
Totals(s) ==
  LET sum[i \in 0..Len(s)] == IF i = 0 THEN 0 ELSE sum[i - 1] + s[i]
  IN sum
IsNumbers(s) == IsSeq(s) /\ \A i \in 1..Len(s) : s[i] \in Int

LEMMA TotalsFacts ==
  ASSUME NEW s, IsNumbers(s)
  PROVE  /\ Totals(s)[0] = 0
         /\ \A i \in 0..Len(s) : Totals(s)[i] \in Int
         /\ \A i \in 1..Len(s) : Totals(s)[i] = Totals(s)[i - 1] + s[i]
<1> DEFINE n == Len(s)
           step == [i \in 1..n |-> [x \in Int |-> x + s[i]]]
           Rounds(r) == [i \in 0..n |-> IF i = 0 THEN 0 ELSE r[i - 1] + s[i]]
           sum == CHOOSE r : r = Rounds(r)
<1>1. n \in Nat /\ \A i \in 1..n : s[i] \in Int
  BY DEF IsNumbers, IsSeq
<1>2. Totals(s) = sum
  BY DEF Totals
<1> HIDE DEF n
<1>3. PICK g : SolvedBy(g, Int, 0, n, step)
  <2>1. StepsOn(Int, n, step)
    BY <1>1 DEF StepsOn
  <2> HIDE DEF step
  <2> QED
    BY <1>1, <2>1, Recursion
<1>4. g \in [0..n -> Int] /\ g[0] = 0 /\ \A i \in 1..n : g[i] = step[i][g[i - 1]]
  <2> HIDE DEF step
  <2> QED
    BY <1>3 DEF SolvedBy
<1>5. \A i \in 1..n : i - 1 \in 0..n /\ i \in 0..n
  BY <1>1
<1>6. \A i \in 1..n : g[i] = g[i - 1] + s[i]
  BY <1>4, <1>5
<1>7. g = Rounds(g)
  <2>1. \A i \in 0..n : g[i] = IF i = 0 THEN 0 ELSE g[i - 1] + s[i]
    BY <1>1, <1>4, <1>6
  <2> QED
    BY <1>4, <2>1
<1>8. sum = Rounds(sum)
  <2> HIDE DEF Rounds
  <2> QED
    BY <1>7
<1> HIDE DEF sum, step
<1>9. sum[0] = 0 /\ \A i \in 1..n : sum[i] = sum[i - 1] + s[i]
  <2>1. \A i \in 0..n : sum[i] = IF i = 0 THEN 0 ELSE sum[i - 1] + s[i]
    BY <1>8
  <2> QED
    BY <1>1, <1>5, <2>1
<1>10. \A i \in 0..n : sum[i] \in Int
  <2> DEFINE T == {i \in 0..n : sum[i] \in Int}
  <2>1. 0 \in T /\ \A i \in 0..n - 1 : i \in T => i + 1 \in T
    <3>1. \A i \in 0..n - 1 : i + 1 \in 1..n /\ i + 1 \in 0..n /\ (i + 1) - 1 = i
      BY <1>1
    <3> QED
      BY <1>1, <1>9, <3>1
  <2> HIDE DEF T
  <2>2. \A i \in 0..n : i \in T
    BY <1>1, <2>1, BoundedInduction
  <2> QED
    BY <2>2 DEF T
<1> QED
  BY <1>2, <1>9, <1>10 DEF n

(* Sums look no further than where they stop.                               *)
LEMMA TotalsAgree ==
  ASSUME NEW s, IsNumbers(s), NEW t, IsNumbers(t), NEW n \in Nat, n <= Len(s), n <= Len(t),
         \A i \in 1..n : s[i] = t[i]
  PROVE  Totals(s)[n] = Totals(t)[n]
<1>1. Len(s) \in Nat /\ Len(t) \in Nat
  BY DEF IsNumbers, IsSeq
<1>2. /\ Totals(s)[0] = 0 /\ Totals(t)[0] = 0
      /\ \A i \in 1..n : Totals(s)[i] = Totals(s)[i - 1] + s[i] /\ Totals(t)[i] = Totals(t)[i - 1] + t[i]
  BY <1>1, TotalsFacts
<1> DEFINE T == {i \in 0..n : Totals(s)[i] = Totals(t)[i]}
<1>3. 0 \in T /\ \A i \in 0..n - 1 : i \in T => i + 1 \in T
  <2>1. \A i \in 0..n - 1 : i + 1 \in 1..n /\ i + 1 \in 0..n /\ (i + 1) - 1 = i
    OBVIOUS
  <2> QED
    BY <1>2, <2>1
<1> HIDE DEF T
<1>4. \A i \in 0..n : i \in T
  BY <1>3, BoundedInduction
<1> QED
  BY <1>4 DEF T

=============================================================================
