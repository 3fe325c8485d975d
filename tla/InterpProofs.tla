---------------------------- MODULE InterpProofs ----------------------------
(***************************************************************************)
(* The stack discipline of the value interpreter: for every plan whose     *)
(* programs are balanced, every message and every codec that stays inside  *)
(* of it, no op finds the stack too short, and a call that returns a value *)
(* leaves nothing behind.                                                  *)
(***************************************************************************)
EXTENDS Interp, DataInduction, SequenceTheorems, TLAPS

-----------------------------------------------------------------------------
(* The inductive invariant.  The bodies that a continuation repeats, and    *)
(* the frames, are of the plan.                                             *)
ThenOK(B, t) ==
  \/ t = NoneC
  \/ t.c = "payload"
  \/ /\ t.c \in {"seq", "map", "fixed"}
     /\ t = [c |-> t.c, set |-> t.set, bodies |-> t.bodies, remaining |-> t.remaining, done |-> t.done]
     /\ Len(t.bodies) \in Nat \ {0} /\ \A j \in 1..Len(t.bodies) : t.bodies[j] \in B
     /\ IsSeq(t.done)
FrameOK(B, f) ==
  /\ f = [prog |-> f.prog, next |-> f.next, then |-> f.then]
  /\ f.prog \in B /\ f.next \in 1..Len(f.prog) + 1
  /\ ThenOK(B, f.then)

(* n values are what the frames left and are owed: every frame under        *)
(* another one has left at least the value it waits for, and the frame that *)
(* was run last leaves one.                                                 *)
OwedBy(fs) == Sums([i \in 1..Len(fs) |-> Left(fs[i])])[Len(fs)]
Stacked(B, fs, n) ==
  /\ IsSeq(fs)
  /\ \A i \in 1..Len(fs) : FrameOK(B, fs[i])
  /\ \A i \in 1..Len(fs) - 1 : Left(fs[i]) >= 1
  /\ n = OwedBy(fs) - Len(fs) + 1

IInv ==
  /\ call \in Calls
  /\ Len(input) \in Nat /\ pos \in 0..Len(input) /\ IsSeq(stack)
  /\ result = Pending => input \in Inputs /\ Plans[call].ok
  /\ result = Pending \/ frames # <<>> => Stacked(Bodies[call], frames, Len(stack))
  /\ frames # <<>> => Plans[call].ok
  /\ result # Pending => IF result.ok THEN stack = <<>> ELSE result.why # "panic"


-----------------------------------------------------------------------------
(* Sums.                                                                    *)
LEMMA SumsFacts ==
  ASSUME NEW s, IsNumbers(s)
  PROVE  /\ Sums(s)[0] = 0
         /\ \A i \in 0..Len(s) : Sums(s)[i] \in Int
         /\ \A i \in 1..Len(s) : Sums(s)[i] = Sums(s)[i - 1] + s[i]
<1>1. Sums(s) = Totals(s)
  BY DEF Sums, Totals
<1> QED
  BY <1>1, TotalsFacts

(* Sums look no further than where they stop.                               *)
LEMMA SumsAgree ==
  ASSUME NEW s, IsNumbers(s), NEW t, IsNumbers(t), NEW n \in Nat, n <= Len(s), n <= Len(t),
         \A i \in 1..n : s[i] = t[i]
  PROVE  Sums(s)[n] = Sums(t)[n]
<1>1. Sums(s) = Totals(s) /\ Sums(t) = Totals(t)
  BY DEF Sums, Totals
<1> QED
  BY <1>1, TotalsAgree

(* Where every number but the last is at least one.                         *)
LEMMA SumsAtLeast ==
  ASSUME NEW s, IsNumbers(s), \A i \in 1..Len(s) - 1 : s[i] >= 1, s # <<>>
  PROVE  Sums(s)[Len(s)] >= Len(s) - 1 + s[Len(s)]
<1> DEFINE n == Len(s) - 1
           T == {i \in 0..n : Sums(s)[i] >= i}
<1>1. n \in Nat /\ Len(s) \in Nat /\ Len(s) = n + 1
  BY ButLast DEF IsNumbers
<1>2. /\ Sums(s)[0] = 0 /\ (\A i \in 0..n + 1 : Sums(s)[i] \in Int)
      /\ \A i \in 1..n + 1 : Sums(s)[i] = Sums(s)[i - 1] + s[i] /\ s[i] \in Int
  BY <1>1, SumsFacts DEF IsNumbers
<1>3. \A i \in 1..n : s[i] >= 1
  OBVIOUS
<1> HIDE DEF n
<1>4. 0 \in T /\ \A i \in 0..n - 1 : i \in T => i + 1 \in T
  <2>1. \A i \in 0..n - 1 : i + 1 \in 1..n /\ i + 1 \in 0..n /\ (i + 1) - 1 = i /\ i + 1 \in 1..n + 1 /\ i \in 0..n + 1
    BY <1>1
  <2>2. 0 \in T
    BY <1>1, <1>2
  <2>3. ASSUME NEW i \in 0..n - 1, i \in T PROVE i + 1 \in T
    <3>1. Sums(s)[i + 1] = Sums(s)[i] + s[i + 1] /\ s[i + 1] >= 1 /\ Sums(s)[i] >= i
      BY <1>2, <1>3, <2>1, <2>3
    <3>2. Sums(s)[i] \in Int /\ s[i + 1] \in Int
      BY <1>2, <2>1
    <3> QED
      BY <2>1, <3>1, <3>2
  <2> QED
    BY <2>2, <2>3
<1> HIDE DEF T
<1>5. \A i \in 0..n : i \in T
  BY <1>1, <1>4, BoundedInduction
<1>6. Sums(s)[n] >= n /\ Sums(s)[n] \in Int /\ n + 1 \in 1..n + 1
  BY <1>1, <1>2, <1>5 DEF T
<1>7. Sums(s)[n + 1] = Sums(s)[n] + s[n + 1] /\ s[n + 1] \in Int
  BY <1>1, <1>2, <1>6
<1> QED
  BY <1>1, <1>6, <1>7 DEF n

-----------------------------------------------------------------------------
(* Balanced programs.                                                       *)
LEMMA HeightsFacts ==
  ASSUME NEW prog, Balanced(prog)
  PROVE  /\ Len(prog) \in Nat
         /\ Heights(prog)[0] = 0 /\ Heights(prog)[Len(prog)] = 1
         /\ \A i \in 0..Len(prog) : Heights(prog)[i] \in Nat
         /\ \A i \in 1..Len(prog) :
              /\ Takes(prog[i]) \in Nat /\ Takes(prog[i]) <= Heights(prog)[i - 1]
              /\ Heights(prog)[i] = Heights(prog)[i - 1] + Net(prog[i])
<1> DEFINE n == Len(prog)
           nets == [i \in 1..n |-> Net(prog[i])]
<1>1. /\ n \in Nat /\ Heights(prog)[n] = 1 /\ Heights(prog) = Sums(nets)
      /\ \A i \in 1..n : Takes(prog[i]) \in Nat /\ Takes(prog[i]) <= Heights(prog)[i - 1]
  BY DEF Balanced, Heights
<1>2. \A i \in 1..n : Net(prog[i]) \in Int
  BY <1>1 DEF Net
<1>3. nets = [i \in 1..n |-> nets[i]]
  OBVIOUS
<1>4. \A i \in 1..n : nets[i] = Net(prog[i])
  OBVIOUS
<1> HIDE DEF nets, n
<1>5. IsNumbers(nets) /\ Len(nets) = n
  BY <1>1, <1>2, <1>3, <1>4, FunctionIsSeq DEF IsNumbers
<1>6. /\ Heights(prog)[0] = 0
      /\ \A i \in 0..n : Heights(prog)[i] \in Int
      /\ \A i \in 1..n : Heights(prog)[i] = Heights(prog)[i - 1] + Net(prog[i])
  BY <1>1, <1>4, <1>5, SumsFacts
<1>7. ASSUME NEW i \in 0..n PROVE Heights(prog)[i] \in Nat
  <2>1. CASE i = n
    BY <1>1, <2>1
  <2>2. CASE i # n
    <3>1. i + 1 \in 1..n /\ (i + 1) - 1 = i
      BY <1>1, <2>2
    <3>2. Takes(prog[i + 1]) \in Nat /\ Takes(prog[i + 1]) <= Heights(prog)[i] /\ Heights(prog)[i] \in Int
      BY <1>1, <1>6, <3>1
    <3> QED
      BY <3>2
  <2> QED
    BY <2>1, <2>2
<1> QED
  BY <1>1, <1>6, <1>7 DEF n

LEMMA LeftFacts ==
  ASSUME NEW B, \A prog \in B : Balanced(prog), NEW f, FrameOK(B, f)
  PROVE  /\ Left(f) \in Nat /\ f.next \in Nat \ {0} /\ Len(f.prog) \in Nat
         /\ f.next > Len(f.prog) => Left(f) = 1
         /\ f.next = 1 => Left(f) = 0
<1>1. Balanced(f.prog) /\ f.next \in 1..Len(f.prog) + 1
  BY DEF FrameOK
<1>2. /\ Len(f.prog) \in Nat
      /\ Heights(f.prog)[0] = 0 /\ Heights(f.prog)[Len(f.prog)] = 1
      /\ \A i \in 0..Len(f.prog) : Heights(f.prog)[i] \in Nat
  BY <1>1, HeightsFacts
<1>3. f.next - 1 \in 0..Len(f.prog) /\ (f.next > Len(f.prog) => f.next - 1 = Len(f.prog))
  BY <1>1, <1>2
<1> QED
  BY <1>1, <1>2, <1>3 DEF Left

-----------------------------------------------------------------------------
(* What the frames owe, when one is advanced, pushed or popped.             *)
Debts(fs) == [i \in 1..Len(fs) |-> Left(fs[i])]

LEMMA DebtsFacts ==
  ASSUME NEW B, \A prog \in B : Balanced(prog),
         NEW fs, IsSeq(fs), \A i \in 1..Len(fs) : FrameOK(B, fs[i])
  PROVE  /\ IsNumbers(Debts(fs)) /\ Len(Debts(fs)) = Len(fs)
         /\ \A i \in 1..Len(fs) : Debts(fs)[i] = Left(fs[i]) /\ Left(fs[i]) \in Nat
         /\ OwedBy(fs) = Sums(Debts(fs))[Len(fs)] /\ OwedBy(fs) \in Int
         /\ fs # <<>> => OwedBy(fs) = Sums(Debts(fs))[Len(fs) - 1] + Left(fs[Len(fs)])
         /\ fs = <<>> => OwedBy(fs) = 0
<1> DEFINE d == Debts(fs)
<1>1. Len(fs) \in Nat /\ \A i \in 1..Len(fs) : Left(fs[i]) \in Nat
  BY SeqDomain, LeftFacts
<1>2. d = [i \in 1..Len(fs) |-> d[i]] /\ \A i \in 1..Len(fs) : d[i] = Left(fs[i])
  BY DEF Debts
<1> HIDE DEF d
<1>3. IsNumbers(d) /\ Len(d) = Len(fs)
  BY <1>1, <1>2, FunctionIsSeq DEF IsNumbers
<1>4. /\ Sums(d)[0] = 0 /\ (\A i \in 0..Len(fs) : Sums(d)[i] \in Int)
      /\ \A i \in 1..Len(fs) : Sums(d)[i] = Sums(d)[i - 1] + d[i]
  BY <1>3, SumsFacts
<1>5. OwedBy(fs) = Sums(d)[Len(fs)]
  BY DEF OwedBy, Debts, d
<1>6. fs # <<>> => Len(fs) \in 1..Len(fs)
  BY <1>1, ButLast
<1>7. fs = <<>> => Len(fs) = 0
  OBVIOUS
<1>8. OwedBy(fs) \in Int
  BY <1>1, <1>4, <1>5
<1>9. fs # <<>> => OwedBy(fs) = Sums(d)[Len(fs) - 1] + Left(fs[Len(fs)])
  BY <1>2, <1>4, <1>5, <1>6
<1>10. fs = <<>> => OwedBy(fs) = 0
  BY <1>4, <1>5, <1>7
<1> QED
  BY <1>1, <1>2, <1>3, <1>5, <1>8, <1>9, <1>10 DEF d

(* Two stacks of frames that agree below their tops.                        *)
LEMMA SameBelow ==
  ASSUME NEW fs, IsNumbers(Debts(fs)), Len(Debts(fs)) = Len(fs),
         NEW gs, IsNumbers(Debts(gs)), Len(Debts(gs)) = Len(gs),
         NEW n \in Nat, n <= Len(fs), n <= Len(gs), \A i \in 1..n : fs[i] = gs[i]
  PROVE  Sums(Debts(fs))[n] = Sums(Debts(gs))[n]
<1>1. /\ \A i \in 1..Len(fs) : Debts(fs)[i] = Left(fs[i])
      /\ \A i \in 1..Len(gs) : Debts(gs)[i] = Left(gs[i])
  BY DEF Debts
<1>2. \A i \in 1..n : i \in 1..Len(fs) /\ i \in 1..Len(gs)
  BY SeqDomain DEF IsNumbers
<1>3. \A i \in 1..n : Debts(fs)[i] = Debts(gs)[i]
  BY <1>1, <1>2, SMTT(30)
<1> QED
  BY <1>3, SumsAgree

LEMMA AdvanceStacked ==
  ASSUME NEW B, \A prog \in B : Balanced(prog), NEW fs, NEW n, Stacked(B, fs, n),
         fs # <<>>, fs[Len(fs)].next <= Len(fs[Len(fs)].prog)
  PROVE  LET top == fs[Len(fs)]
             op == top.prog[top.next]
             gs == [fs EXCEPT ![Len(fs)].next = @ + 1]
         IN /\ top.prog \in B /\ top.next \in 1..Len(top.prog)
            /\ n \in Nat /\ Takes(op) \in Nat /\ Takes(op) <= n
            /\ Stacked(B, gs, n + Net(op))
            /\ op.op # "skip" => Left(gs[Len(gs)]) >= 1
<1> DEFINE k == Len(fs)
           top == fs[k]
           op == top.prog[top.next]
           new == [top EXCEPT !.next = @ + 1]
           gs == [fs EXCEPT ![k] = new]
<1>1. IsSeq(fs) /\ k \in Nat \ {0} /\ DOMAIN fs = 1..k /\ k \in DOMAIN fs
  BY SeqDomain, ButLast DEF Stacked
<1>2. (\A i \in 1..k : FrameOK(B, fs[i])) /\ (\A i \in 1..k - 1 : Left(fs[i]) >= 1) /\ n = OwedBy(fs) - k + 1
  BY DEF Stacked
<1>3. FrameOK(B, top)
  BY <1>1, <1>2
<1>4. /\ top = [prog |-> top.prog, next |-> top.next, then |-> top.then]
      /\ top.prog \in B /\ top.next \in 1..Len(top.prog) + 1 /\ ThenOK(B, top.then)
  BY <1>3 DEF FrameOK
<1>5. /\ Len(top.prog) \in Nat
      /\ (\A i \in 0..Len(top.prog) : Heights(top.prog)[i] \in Nat)
      /\ \A i \in 1..Len(top.prog) :
           /\ Takes(top.prog[i]) \in Nat /\ Takes(top.prog[i]) <= Heights(top.prog)[i - 1]
           /\ Heights(top.prog)[i] = Heights(top.prog)[i - 1] + Net(top.prog[i])
  BY <1>4, HeightsFacts
<1>6. top.next \in 1..Len(top.prog) /\ top.next + 1 \in 1..Len(top.prog) + 1 /\ (top.next + 1) - 1 = top.next
  BY <1>4, <1>5
<1>7. new = [prog |-> top.prog, next |-> top.next + 1, then |-> top.then]
  BY <1>4
<1>8. new.prog = top.prog /\ new.next = top.next + 1 /\ new.then = top.then
  BY <1>7
<1>9. /\ IsSeq(gs) /\ Len(gs) = k /\ gs[k] = new
      /\ \A i \in 1..k : i # k => gs[i] = fs[i]
  <2> HIDE DEF k, new
  <2>1. LET t == [fs EXCEPT ![k] = new]
        IN /\ IsSeq(t) /\ Len(t) = Len(fs) /\ DOMAIN t = 1..Len(fs) /\ t[k] = new
           /\ \A i \in 1..Len(fs) : i # k => t[i] = fs[i]
    BY <1>1, Replaced
  <2> QED
    BY <2>1 DEF k
<1> HIDE DEF k, new
<1>10. FrameOK(B, new)
  BY <1>4, <1>6, <1>7, <1>8 DEF FrameOK
<1>11. /\ Left(top) = Heights(top.prog)[top.next - 1] /\ Left(new) = Left(top) + Net(op)
       /\ Left(top) \in Nat /\ Left(new) \in Nat
       /\ Takes(op) \in Nat /\ Takes(op) <= Left(top)
  <2>1. Left(top) = Heights(top.prog)[top.next - 1] /\ Left(new) = Heights(top.prog)[top.next]
    BY <1>6, <1>8 DEF Left
  <2>2. top.next - 1 \in 0..Len(top.prog) /\ top.next \in 0..Len(top.prog)
    <3> HIDE DEF top
    <3> QED
      BY <1>5, <1>6
  <2> QED
    BY <1>5, <1>6, <2>1, <2>2
<1> HIDE DEF top, op, gs
<1>12. \A i \in 1..k : FrameOK(B, gs[i])
  BY <1>2, <1>9, <1>10
<1>13. \A i \in 1..k - 1 : Left(gs[i]) >= 1
  BY <1>1, <1>2, <1>9
<1>14. k - 1 \in Nat /\ k - 1 <= k /\ \A i \in 1..k - 1 : fs[i] = gs[i]
  BY <1>1, <1>9
<1> DEFINE below == Sums(Debts(fs))[k - 1]
<1>15. /\ OwedBy(fs) = below + Left(top) /\ OwedBy(fs) \in Int
       /\ OwedBy(gs) = Sums(Debts(gs))[k - 1] + Left(new) /\ OwedBy(gs) \in Int
  <2>1. gs # <<>>
    <3>1. Len(<<>>) = 0
      OBVIOUS
    <3> QED
      BY <1>1, <1>9, <3>1
  <2>2. OwedBy(fs) = below + Left(fs[k]) /\ OwedBy(fs) \in Int
    BY <1>1, <1>2, DebtsFacts DEF k
  <2>3. OwedBy(gs) = Sums(Debts(gs))[Len(gs) - 1] + Left(gs[Len(gs)]) /\ OwedBy(gs) \in Int
    BY <1>9, <1>12, <2>1, DebtsFacts
  <2> QED
    BY <1>9, <2>2, <2>3 DEF top
<1>16. below = Sums(Debts(gs))[k - 1]
  <2> DEFINE m == k - 1
  <2>1. m \in Nat /\ m <= k /\ \A i \in 1..m : fs[i] = gs[i]
    BY <1>14
  <2>2. k = Len(fs) /\ Len(gs) = k
    BY <1>9, SMTT(30) DEF k
  <2>4. IsNumbers(Debts(fs)) /\ Len(Debts(fs)) = Len(fs) /\ IsNumbers(Debts(gs)) /\ Len(Debts(gs)) = Len(gs)
    BY <1>1, <1>2, <1>9, <1>12, DebtsFacts DEF k
  <2> HIDE DEF m, below
  <2>3. Sums(Debts(fs))[m] = Sums(Debts(gs))[m]
    BY <2>1, <2>2, <2>4, SameBelow
  <2> QED
    BY <2>3 DEF m, below
<1>17. OwedBy(fs) >= k - 1 + Left(top)
  <2>1. IsNumbers(Debts(fs)) /\ Len(Debts(fs)) = k /\ \A i \in 1..k : Debts(fs)[i] = Left(fs[i])
    BY <1>1, <1>2, DebtsFacts DEF k
  <2>2. Debts(fs) # <<>>
    <3>1. Len(<<>>) = 0
      OBVIOUS
    <3> QED
      BY <1>1, <2>1, <3>1
  <2>3. \A i \in 1..k - 1 : Debts(fs)[i] >= 1
    BY <1>1, <1>2, <2>1
  <2>4. Sums(Debts(fs))[k] >= k - 1 + Debts(fs)[k]
    BY <2>1, <2>2, <2>3, SumsAtLeast
  <2>5. OwedBy(fs) = Sums(Debts(fs))[k]
    BY DEF OwedBy, Debts, k
  <2> QED
    BY <1>1, <2>1, <2>4, <2>5 DEF top
<1>18. below \in Int
  <2>1. k - 1 \in 0..k
    BY <1>1
  <2>2. IsNumbers(Debts(fs)) /\ Len(Debts(fs)) = k
    BY <1>1, <1>2, DebtsFacts DEF k
  <2> QED
    BY <2>1, <2>2, SumsFacts
<1>19. Net(op) \in Int /\ (op.op # "skip" => Left(new) >= 1)
  <2>1. CASE op.op = "skip"
    BY <2>1 DEF Net
  <2>2. CASE op.op # "skip"
    <3>1. Net(op) = 1 - Takes(op)
      BY <2>2 DEF Net
    <3> QED
      BY <1>11, <3>1
  <2> QED
    BY <2>1, <2>2
<1> HIDE DEF below
<1>20. n \in Nat /\ Takes(op) <= n /\ n + Net(op) = OwedBy(gs) - k + 1
  <2>1. n = OwedBy(fs) - k + 1 /\ n \in Int /\ n >= Left(top)
    BY <1>1, <1>2, <1>11, <1>15, <1>17
  <2>2. OwedBy(gs) = OwedBy(fs) + Net(op)
    BY <1>11, <1>15, <1>16, <1>18, <1>19
  <2>3. n \in Nat
    BY <1>11, <2>1
  <2>4. Takes(op) <= n
    BY <1>11, <2>1
  <2>5. n + Net(op) = OwedBy(gs) - k + 1
    BY <1>1, <1>15, <1>19, <2>1, <2>2
  <2> QED
    BY <2>3, <2>4, <2>5
<1>21. Stacked(B, gs, n + Net(op))
  BY <1>9, <1>12, <1>13, <1>20 DEF Stacked
<1>22. gs = [fs EXCEPT ![Len(fs)].next = @ + 1]
  BY DEF gs, new, top, k
<1> QED
  BY <1>4, <1>6, <1>9, <1>11, <1>19, <1>20, <1>21, <1>22 DEF op, top, k

LEMMA PushStacked ==
  ASSUME NEW B, \A prog \in B : Balanced(prog), NEW fs, NEW n \in Int, Stacked(B, fs, n + 1),
         fs # <<>> => Left(fs[Len(fs)]) >= 1, NEW body \in B, NEW then, ThenOK(B, then)
  PROVE  Stacked(B, Append(fs, Frame(body, then)), n)
<1> DEFINE k == Len(fs)
           f == Frame(body, then)
           gs == Append(fs, f)
<1>1. IsSeq(fs) /\ k \in Nat
  BY SeqDomain DEF Stacked
<1>2. (\A i \in 1..k : FrameOK(B, fs[i])) /\ (\A i \in 1..k - 1 : Left(fs[i]) >= 1) /\ n + 1 = OwedBy(fs) - k + 1
  BY DEF Stacked
<1>3. IsSeq(gs) /\ Len(gs) = k + 1 /\ (\A i \in 1..k : gs[i] = fs[i]) /\ gs[k + 1] = f
  BY <1>1, Appended
<1>4. f = [prog |-> f.prog, next |-> f.next, then |-> f.then] /\ f.prog = body /\ f.next = 1 /\ f.then = then
  BY DEF Frame
<1>5. Len(body) \in Nat
  BY DEF Balanced
<1> HIDE DEF k, f
<1>6. FrameOK(B, f)
  BY <1>4, <1>5 DEF FrameOK
<1>7. Left(f) = 0
  BY <1>4, <1>6, LeftFacts
<1> HIDE DEF gs
<1>8. \A i \in 1..k + 1 : FrameOK(B, gs[i])
  BY <1>1, <1>2, <1>3, <1>6
<1>9. \A i \in 1..k : Left(gs[i]) >= 1
  <2>1. CASE k = 0
    BY <2>1
  <2>2. CASE k # 0
    <3>1. fs # <<>>
      BY <2>2 DEF k
    <3> QED
      BY <1>1, <1>2, <1>3, <3>1 DEF k
  <2> QED
    BY <2>1, <2>2
<1>10. OwedBy(fs) = Sums(Debts(fs))[k] /\ OwedBy(fs) \in Int
  BY <1>1, <1>2, DebtsFacts DEF k
<1>11. OwedBy(gs) = Sums(Debts(gs))[k] + Left(f)
  <2>1. gs # <<>>
    <3>1. Len(<<>>) = 0
      OBVIOUS
    <3> QED
      BY <1>1, <1>3, <3>1
  <2>2. OwedBy(gs) = Sums(Debts(gs))[Len(gs) - 1] + Left(gs[Len(gs)])
    BY <1>3, <1>8, <2>1, DebtsFacts
  <2>3. Len(gs) - 1 = k /\ Len(gs) = k + 1
    BY <1>1, <1>3
  <2> QED
    BY <1>3, <2>2, <2>3
<1>12. Sums(Debts(fs))[k] = Sums(Debts(gs))[k]
  <2>1. k \in Nat /\ k <= Len(fs) /\ k <= Len(gs) /\ Len(gs) = k + 1 /\ Len(fs) = k
    BY <1>1, <1>3 DEF k
  <2>2. \A i \in 1..k : fs[i] = gs[i]
    BY <1>3
  <2>3. (\A i \in 1..Len(fs) : FrameOK(B, fs[i])) /\ (\A i \in 1..Len(gs) : FrameOK(B, gs[i]))
    BY <1>2, <1>8, <2>1
  <2>4. IsNumbers(Debts(fs)) /\ Len(Debts(fs)) = Len(fs) /\ IsNumbers(Debts(gs)) /\ Len(Debts(gs)) = Len(gs)
    BY <1>1, <1>3, <2>1, <2>3, DebtsFacts DEF k
  <2> QED
    BY <2>1, <2>2, <2>4, SameBelow
<1>13. OwedBy(gs) = OwedBy(fs)
  BY <1>7, <1>10, <1>11, <1>12
<1>14. n = OwedBy(gs) - (k + 1) + 1
  BY <1>1, <1>2, <1>10, <1>13
<1>15. \A i \in 1..(k + 1) - 1 : Left(gs[i]) >= 1
  BY <1>1, <1>9
<1>16. Stacked(B, gs, n)
  BY <1>3, <1>8, <1>14, <1>15 DEF Stacked
<1> QED
  BY <1>16 DEF gs, f

LEMMA PopStacked ==
  ASSUME NEW B, \A prog \in B : Balanced(prog), NEW fs, NEW n, Stacked(B, fs, n),
         fs # <<>>, fs[Len(fs)].next > Len(fs[Len(fs)].prog)
  PROVE  LET gs == SubSeq(fs, 1, Len(fs) - 1)
         IN /\ Stacked(B, gs, n) /\ n \in Nat \ {0}
            /\ gs # <<>> => Left(gs[Len(gs)]) >= 1
            /\ ThenOK(B, fs[Len(fs)].then)
<1> DEFINE k == Len(fs)
           top == fs[k]
           gs == SubSeq(fs, 1, k - 1)
<1>1. IsSeq(fs) /\ k \in Nat \ {0} /\ k \in 1..k
  BY SeqDomain, ButLast DEF Stacked
<1>2. (\A i \in 1..k : FrameOK(B, fs[i])) /\ (\A i \in 1..k - 1 : Left(fs[i]) >= 1) /\ n = OwedBy(fs) - k + 1
  BY DEF Stacked
<1>3. IsSeq(gs) /\ Len(gs) = k - 1 /\ \A i \in 1..k - 1 : gs[i] = fs[i]
  BY <1>1, ButLast
<1>4. FrameOK(B, top) /\ ThenOK(B, top.then)
  BY <1>1, <1>2 DEF FrameOK
<1>5. Left(top) = 1
  BY <1>4, LeftFacts
<1> HIDE DEF k, gs
<1>6. \A i \in 1..k - 1 : FrameOK(B, gs[i])
  BY <1>1, <1>2, <1>3
<1>7. \A i \in 1..k - 1 : Left(gs[i]) >= 1
  BY <1>2, <1>3
<1>8. k - 1 \in Nat /\ k - 1 <= k /\ \A i \in 1..(k - 1) - 1 : i \in 1..k - 1
  BY <1>1
<1>9. OwedBy(fs) = Sums(Debts(fs))[k - 1] + Left(top) /\ OwedBy(fs) \in Int
  BY <1>1, <1>2, DebtsFacts DEF k
<1>10. OwedBy(gs) = Sums(Debts(gs))[k - 1] /\ OwedBy(gs) \in Int
  BY <1>3, <1>6, DebtsFacts
<1>11. Sums(Debts(fs))[k - 1] = Sums(Debts(gs))[k - 1]
  <2> DEFINE m == k - 1
  <2>1. m \in Nat /\ m <= Len(fs) /\ m <= Len(gs) /\ Len(gs) = m
    BY <1>3, <1>8 DEF k
  <2>2. (\A i \in 1..m : fs[i] = gs[i]) /\ (\A i \in 1..m : FrameOK(B, gs[i]))
    BY <1>3, <1>6
  <2>3. \A i \in 1..Len(fs) : FrameOK(B, fs[i])
    BY <1>2 DEF k
  <2>5. IsNumbers(Debts(fs)) /\ Len(Debts(fs)) = Len(fs) /\ IsNumbers(Debts(gs)) /\ Len(Debts(gs)) = Len(gs)
    BY <1>1, <1>3, <2>1, <2>2, <2>3, DebtsFacts DEF k
  <2> HIDE DEF m
  <2>4. Sums(Debts(fs))[m] = Sums(Debts(gs))[m]
    BY <2>1, <2>2, <2>5, SameBelow
  <2> QED
    BY <2>4 DEF m
<1>12. OwedBy(gs) >= k - 1
  <2>1. CASE gs = <<>>
    <3>1. OwedBy(gs) = 0 /\ Len(gs) = 0
      BY <1>3, <1>6, <2>1, DebtsFacts
    <3> QED
      BY <1>3, <3>1
  <2>2. CASE gs # <<>>
    <3>1. IsNumbers(Debts(gs)) /\ Len(Debts(gs)) = k - 1 /\ \A i \in 1..k - 1 : Debts(gs)[i] = Left(gs[i])
      BY <1>3, <1>6, DebtsFacts
    <3>2. Debts(gs) # <<>> /\ k - 1 \in 1..k - 1
      <4>1. Len(<<>>) = 0
        OBVIOUS
      <4>2. k - 1 \in Nat \ {0}
        BY <1>3, <2>2, ButLast
      <4>3. Len(Debts(gs)) # 0
        BY <3>1, <4>2
      <4>4. Debts(gs) # <<>>
        BY <4>1, <4>3
      <4>5. k - 1 \in 1..k - 1
        BY <1>1, <4>2
      <4> QED
        BY <4>4, <4>5
    <3>3. \A i \in 1..(k - 1) - 1 : Debts(gs)[i] >= 1
      BY <1>7, <1>8, <3>1
    <3>4. Sums(Debts(gs))[k - 1] >= (k - 1) - 1 + Debts(gs)[k - 1]
      BY <3>1, <3>2, <3>3, SumsAtLeast
    <3>5. Debts(gs)[k - 1] >= 1 /\ Debts(gs)[k - 1] \in Int
      BY <1>7, <3>1, <3>2 DEF IsNumbers
    <3> QED
      BY <1>8, <1>10, <3>4, <3>5
  <2> QED
    BY <2>1, <2>2
<1>13. n = OwedBy(gs) - (k - 1) + 1 /\ n \in Nat \ {0}
  BY <1>1, <1>2, <1>5, <1>9, <1>10, <1>11, <1>12, SMTT(30)
<1>14. Stacked(B, gs, n)
  BY <1>3, <1>6, <1>7, <1>8, <1>13 DEF Stacked
<1>15. gs # <<>> => Left(gs[Len(gs)]) >= 1
  <2>1. gs # <<>> => Len(gs) \in 1..k - 1
    BY <1>3, ButLast
  <2> QED
    BY <1>7, <2>1
<1> QED
  BY <1>4, <1>13, <1>14, <1>15 DEF gs, k

-----------------------------------------------------------------------------
(* Reading stays inside of the message, and does not panic.                 *)
Inside(x, b) == IF x.ok THEN x.p \in 0..Len(b) ELSE x.why # "panic"

LEMMA ReadsInside ==
  ASSUME NEW b, Len(b) \in Nat, NEW p \in 0..Len(b)
  PROVE  /\ Inside(ReadCell(b, p), b) /\ Inside(ReadValue(b, p), b) /\ Inside(Ok(Null, p), b)
         /\ \A w : Inside(ReadLen(w, b, p), b)
         /\ \A dims, w : Inside(FixedCount(dims, w, b, p), b)
         /\ \A prim : Inside(DecodePrimitive(prim, b, p), b)
<1> DEFINE c == ReadCell(b, p)
<1>1. ~Malformed.ok /\ Malformed.why # "panic" /\ Inside(Malformed, b)
  BY DEF Malformed, Err, Inside
<1>2. \A v : \A q \in 0..Len(b) : Ok(v, q).ok /\ Ok(v, q).p = q /\ Inside(Ok(v, q), b)
  BY DEF Ok, Inside
<1>3. Inside(c, b)
  <2>1. CASE p < Len(b)
    <3>1. p + 1 \in 0..Len(b)
      BY <2>1
    <3> QED
      BY <1>2, <2>1, <3>1 DEF ReadCell
  <2>2. CASE ~(p < Len(b))
    BY <1>1, <2>2 DEF ReadCell
  <2> QED
    BY <2>1, <2>2
<1> HIDE DEF c
<1>4. c.ok => c.p \in 0..Len(b)
  BY <1>3 DEF Inside
<1>5. Inside(ReadValue(b, p), b)
  <2>1. ReadValue(b, p) = IF c.ok THEN Ok(Number(c.v), c.p) ELSE c
    BY DEF ReadValue, OnOk, c
  <2> QED
    BY <1>2, <1>3, <1>4, <2>1
<1>6. \A w : Inside(ReadLen(w, b, p), b)
  <2>1. \A w : ReadLen(w, b, p) = IF c.ok THEN (IF c.v > Most(w, b, c.p) THEN Malformed ELSE c) ELSE c
    BY DEF ReadLen, Then, c
  <2> QED
    BY <1>1, <1>3, <2>1
<1>7. \A dims, w : Inside(FixedCount(dims, w, b, p), b)
  BY <1>1, <1>2 DEF FixedCount
<1>8. ASSUME NEW prim PROVE Inside(DecodePrimitive(prim, b, p), b)
  <2> DEFINE read == CASE prim = "bool" -> IF c.v <= 1 THEN Ok(Bool(c.v), c.p) ELSE Malformed
                       [] prim = "char" -> IF c.v \in Valid THEN Ok(Char(c.v), c.p) ELSE Malformed
                       [] prim = "bytes" -> Ok(ByteRun(c.v), c.p)
                       [] prim = "string" -> IF c.v \in Valid THEN Ok(Text(c.v), c.p) ELSE Malformed
                       [] OTHER -> Ok(Number(c.v), c.p)
  <2>1. DecodePrimitive(prim, b, p) = IF prim = "unit" THEN Ok(Null, p) ELSE IF c.ok THEN read ELSE c
    BY DEF DecodePrimitive, Then, c
  <2>2. ASSUME c.ok PROVE Inside(read, b)
    <3>1. CASE prim = "bool"
      BY <1>1, <1>2, <1>4, <2>2, <3>1
    <3>2. CASE prim = "char"
      BY <1>1, <1>2, <1>4, <2>2, <3>2
    <3>3. CASE prim = "bytes"
      BY <1>1, <1>2, <1>4, <2>2, <3>3
    <3>4. CASE prim = "string"
      BY <1>1, <1>2, <1>4, <2>2, <3>4
    <3>5. CASE prim \notin {"bool", "char", "bytes", "string"}
      BY <1>1, <1>2, <1>4, <2>2, <3>5
    <3> QED
      BY <3>1, <3>2, <3>3, <3>4, <3>5
  <2> HIDE DEF read
  <2> QED
    BY <1>2, <1>3, <2>1, <2>2
<1> QED
  BY <1>2, <1>3, <1>5, <1>6, <1>7, <1>8 DEF c

-----------------------------------------------------------------------------
(* The value stack.                                                         *)
LEMMA PrefixOf ==
  ASSUME NEW s, IsSeq(s), NEW n \in Nat, n <= Len(s)
  PROVE  IsSeq(SubSeq(s, 1, n)) /\ Len(SubSeq(s, 1, n)) = n
<1> DEFINE S == {s[i] : i \in 1..Len(s)}
<1>1. s \in Seq(S) /\ Len(s) \in Nat
  BY SeqDomain
<1>2. \A i \in 1..n : i \in 1..Len(s)
  BY <1>1
<1>3. \A i \in 1..n : s[i] \in S
  BY <1>2
<1> HIDE DEF S
<1>4. /\ SubSeq(s, 1, n) \in Seq(S)
      /\ Len(SubSeq(s, 1, n)) = IF 1 <= n THEN n - 1 + 1 ELSE 0
  BY <1>1, <1>3, SubSeqProperties
<1>5. Len(SubSeq(s, 1, n)) = n
  BY <1>4
<1>6. IsSeq(SubSeq(s, 1, n))
  BY <1>4, InSeq
<1> QED
  BY <1>5, <1>6

LEMMA Values ==
  ASSUME IsSeq(stack), NEW n \in Nat, n <= Len(stack)
  PROVE  /\ IsSeq(Without(n)) /\ Len(Without(n)) = Len(stack) - n /\ Len(stack) \in Nat
         /\ \A v : IsSeq(Push(Without(n), v)) /\ Len(Push(Without(n), v)) = Len(stack) - n + 1
         /\ \A v : IsSeq(Push(stack, v)) /\ Len(Push(stack, v)) = Len(stack) + 1
<1>1. Len(stack) \in Nat
  BY SeqDomain
<1>2. Len(stack) - n \in Nat /\ Len(stack) - n <= Len(stack)
  BY <1>1
<1>3. IsSeq(Without(n)) /\ Len(Without(n)) = Len(stack) - n
  BY <1>2, PrefixOf DEF Without
<1> QED
  BY <1>1, <1>3, Appended DEF Push

-----------------------------------------------------------------------------
(* What a running call has.                                                 *)
LEMMA RunFacts ==
  ASSUME IInv, result = Pending
  PROVE  /\ call \in Calls /\ input \in Inputs /\ WellLowered(Plans[call], Bodies[call]) /\ Plans[call].ok
         /\ \A prog \in Bodies[call] : Balanced(prog)
         /\ Stacked(Bodies[call], frames, Len(stack))
         /\ IsSeq(stack) /\ Len(stack) \in Nat /\ Len(input) \in Nat /\ pos \in 0..Len(input)
BY LoweredAssumption, SeqDomain DEF IInv, WellLowered

LEMMA FailOn ==
  ASSUME IInv, result = Pending, NEW why, why # "panic", Fail(why)
  PROVE  IInv'
<1>1. /\ result' = Err(why) /\ frames' = frames /\ stack' = stack /\ pos' = pos
      /\ call' = call /\ input' = input
  BY DEF Fail, given
<1>2. ~result'.ok /\ result'.why # "panic"
  BY <1>1 DEF Err
<1>3. Stacked(Bodies[call], frames, Len(stack))' <=> Stacked(Bodies[call], frames, Len(stack))
  BY <1>1
<1> QED
  BY <1>1, <1>2, <1>3 DEF IInv

LEMMA RunOn ==
  ASSUME IInv, result = Pending, UNCHANGED <<given, result>>,
         pos' \in 0..Len(input), IsSeq(stack'), Stacked(Bodies[call], frames', Len(stack'))
  PROVE  IInv'
<1>1. call' = call /\ input' = input /\ result' = result
  BY DEF given
<1> QED
  BY <1>1 DEF IInv

LEMMA ContinueOn ==
  ASSUME IInv, result = Pending, UNCHANGED <<given, result>>, pos' \in 0..Len(input),
         NEW at, NEW values, Continue(at, values),
         IsSeq(values), Stacked(Bodies[call], at, Len(values))
  PROVE  IInv'
<1>1. frames' = at /\ stack' = values
  BY DEF Continue
<1> QED
  BY <1>1, RunOn

LEMMA CallThenOn ==
  ASSUME IInv, result = Pending, UNCHANGED <<given, result>>, pos' \in 0..Len(input),
         NEW at, NEW body \in Bodies[call], NEW then, ThenOK(Bodies[call], then), NEW values,
         CallThen(at, body, then, values),
         IsSeq(values), Stacked(Bodies[call], at, Len(values) + 1), at # <<>> => Left(at[Len(at)]) >= 1
  PROVE  IInv'
<1>1. frames' = Append(at, Frame(body, then)) /\ stack' = values
  BY DEF CallThen
<1>2. Len(values) \in Int /\ \A prog \in Bodies[call] : Balanced(prog)
  BY SeqDomain, RunFacts
<1>3. Stacked(Bodies[call], Append(at, Frame(body, then)), Len(values))
  BY <1>2, PushStacked
<1> QED
  BY <1>1, <1>3, RunOn

LEMMA AtOpFacts ==
  ASSUME IInv, NEW ops, AtOp(ops)
  PROVE  /\ result = Pending /\ Op.op \in ops
         /\ Takes(Op) \in Nat /\ Takes(Op) <= Len(stack)
         /\ Stacked(Bodies[call], Advanced, Len(stack) + Net(Op))
         /\ Op.op # "skip" => Left(Advanced[Len(Advanced)]) >= 1
         /\ Held(Op) \subseteq Bodies[call]
         /\ Top.prog \in Bodies[call] /\ Top.next \in 1..Len(Top.prog)
<1> DEFINE B == Bodies[call]
<1>1. /\ result = Pending /\ frames # <<>> /\ Op.op \in ops
      /\ frames[Len(frames)].next <= Len(frames[Len(frames)].prog)
  BY DEF AtOp, Running, Op, Top
<1>2. (\A prog \in B : Balanced(prog)) /\ Stacked(B, frames, Len(stack)) /\ WellLowered(Plans[call], B) /\ Plans[call].ok
  BY <1>1, RunFacts
<1> HIDE DEF B
<1>3. /\ Top.prog \in B /\ Top.next \in 1..Len(Top.prog)
      /\ Takes(Op) \in Nat /\ Takes(Op) <= Len(stack)
      /\ Stacked(B, Advanced, Len(stack) + Net(Op))
      /\ Op.op # "skip" => Left(Advanced[Len(Advanced)]) >= 1
  BY <1>1, <1>2, AdvanceStacked DEF Top, Op, Advanced
<1>4. Held(Op) \subseteq B
  BY <1>2, <1>3 DEF WellLowered, Op
<1> QED
  BY <1>1, <1>3, <1>4 DEF B

LEMMA AtEndFacts ==
  ASSUME IInv, Running, Top.next > Len(Top.prog)
  PROVE  /\ result = Pending /\ Stacked(Bodies[call], Popped, Len(stack)) /\ Len(stack) \in Nat \ {0}
         /\ Popped # <<>> => Left(Popped[Len(Popped)]) >= 1
         /\ ThenOK(Bodies[call], Top.then)
<1> DEFINE B == Bodies[call]
<1>1. result = Pending /\ frames # <<>>
  BY DEF Running
<1>2. (\A prog \in B : Balanced(prog)) /\ Stacked(B, frames, Len(stack))
  BY <1>1, RunFacts
<1> HIDE DEF B
<1>3. /\ Stacked(B, Popped, Len(stack)) /\ Len(stack) \in Nat \ {0}
      /\ Popped # <<>> => Left(Popped[Len(Popped)]) >= 1
      /\ ThenOK(B, Top.then)
  BY <1>1, <1>2, PopStacked DEF Top, Popped
<1> QED
  BY <1>1, <1>3 DEF B

-----------------------------------------------------------------------------
(* Each action keeps the invariant.                                         *)
LEMMA LeafOn == ASSUME IInv, Leaf PROVE IInv'
<1> DEFINE x == CASE Op.op = "scalar" -> DecodePrimitive(Op.arg.p, input, pos)
                  [] Op.op = "dynamic" -> ReadValue(input, pos)
                  [] OTHER -> Ok(Null, pos)
<1>1. AtOp({"scalar", "dynamic", "null"})
  BY DEF Leaf
<1>2. /\ result = Pending /\ Op.op \in {"scalar", "dynamic", "null"}
      /\ Stacked(Bodies[call], Advanced, Len(stack) + Net(Op))
  BY <1>1, AtOpFacts
<1>3. Net(Op) = 1
  BY <1>2 DEF Net, Takes
<1>4. IsSeq(stack) /\ Len(input) \in Nat /\ pos \in 0..Len(input)
  BY <1>2, RunFacts
<1>5. Inside(x, input)
  <2>1. CASE Op.op = "scalar"
    BY <1>4, <2>1, ReadsInside
  <2>2. CASE Op.op = "dynamic"
    BY <1>4, <2>2, ReadsInside
  <2>3. CASE Op.op = "null"
    BY <1>4, <2>3, ReadsInside
  <2> QED
    BY <1>2, <2>1, <2>2, <2>3
<1>6. IF ~x.ok THEN Fail(x.why)
      ELSE Continue(Advanced, Push(stack, x.v)) /\ pos' = x.p /\ UNCHANGED <<given, result>>
  BY DEF Leaf
<1> HIDE DEF x
<1>7. CASE ~x.ok
  BY <1>2, <1>5, <1>6, <1>7, FailOn DEF Inside
<1>8. CASE x.ok
  <2>1. Continue(Advanced, Push(stack, x.v)) /\ pos' \in 0..Len(input) /\ UNCHANGED <<given, result>>
    BY <1>5, <1>6, <1>8 DEF Inside
  <2>2. IsSeq(Push(stack, x.v)) /\ Len(Push(stack, x.v)) = Len(stack) + 1
    BY <1>4, Appended DEF Push
  <2> QED
    BY <1>2, <1>3, <2>1, <2>2, ContinueOn
<1> QED
  BY <1>7, <1>8

LEMMA SkipOn == ASSUME IInv, Skip PROVE IInv'
<1> DEFINE x == SkipRef(Op.writer, input, pos)
<1>1. AtOp({"skip"})
  BY DEF Skip
<1>2. /\ result = Pending /\ Op.op = "skip"
      /\ Stacked(Bodies[call], Advanced, Len(stack) + Net(Op))
      /\ Top.prog \in Bodies[call] /\ Top.next \in 1..Len(Top.prog)
  BY <1>1, AtOpFacts
<1>3. /\ call \in Calls /\ Plans[call].ok /\ input \in Inputs /\ IsSeq(stack) /\ Len(stack) \in Nat
      /\ Len(input) \in Nat /\ pos \in 0..Len(input)
  BY <1>2, RunFacts
<1>4. x.ok \in BOOLEAN /\ IF x.ok THEN x.p \in pos..Len(input) ELSE x.why # "panic"
  BY <1>2, <1>3, SkipAssumption DEF Op
<1>5. IF ~x.ok THEN Fail(x.why)
      ELSE Continue(Advanced, stack) /\ pos' = x.p /\ UNCHANGED <<given, result>>
  BY DEF Skip
<1> HIDE DEF x
<1>6. CASE ~x.ok
  BY <1>2, <1>4, <1>5, <1>6, FailOn
<1>7. CASE x.ok
  <2>1. Continue(Advanced, stack) /\ pos' \in 0..Len(input) /\ UNCHANGED <<given, result>>
    BY <1>3, <1>4, <1>5, <1>7
  <2>2. Len(stack) + Net(Op) = Len(stack)
    BY <1>2, <1>3 DEF Net
  <2> QED
    BY <1>2, <1>3, <2>1, <2>2, ContinueOn
<1> QED
  BY <1>6, <1>7

(* The stack is never shorter than what Object and Array split off.         *)
LEMMA AssembleOn == ASSUME IInv, Assemble PROVE IInv'
<1> DEFINE n == IF Op.op = "object" THEN Len(Op.keys) ELSE Op.count
           made == IF Op.op = "object" THEN Object(Op.keys, TopValues(n)) ELSE Array(TopValues(n))
<1>1. AtOp({"object", "array"})
  BY DEF Assemble
<1>2. /\ result = Pending /\ Op.op \in {"object", "array"}
      /\ Takes(Op) \in Nat /\ Takes(Op) <= Len(stack)
      /\ Stacked(Bodies[call], Advanced, Len(stack) + Net(Op))
  BY <1>1, AtOpFacts
<1>3. Takes(Op) = n /\ Net(Op) = 1 - n
  BY <1>2 DEF Net, Takes
<1>4. IsSeq(stack) /\ Len(stack) \in Nat /\ pos \in 0..Len(input)
  BY <1>2, RunFacts
<1>5. IF n > Len(stack) THEN Fail("panic")
      ELSE Continue(Advanced, Push(Without(n), made)) /\ UNCHANGED <<given, pos, result>>
  BY DEF Assemble
<1> HIDE DEF n, made
<1>6. Continue(Advanced, Push(Without(n), made)) /\ pos' \in 0..Len(input) /\ UNCHANGED <<given, result>>
  BY <1>2, <1>3, <1>4, <1>5
<1>7. IsSeq(Push(Without(n), made)) /\ Len(Push(Without(n), made)) = Len(stack) + Net(Op)
  BY <1>2, <1>3, <1>4, Values
<1> QED
  BY <1>2, <1>6, <1>7, ContinueOn

(* A loop over `bodies' starts: what call_repeated does after an op.        *)
LEMMA CallRepeatedOn ==
  ASSUME IInv, result = Pending, UNCHANGED <<given, result>>, pos' \in 0..Len(input),
         Stacked(Bodies[call], Advanced, Len(stack) + 1), Left(Advanced[Len(Advanced)]) >= 1,
         NEW then, ThenOK(Bodies[call], then), NextBody(then) \in Bodies[call], CallRepeated(then)
  PROVE  IInv'
<1>1. IsSeq(stack) /\ Len(stack) \in Nat
  BY RunFacts
<1>2. CASE then.remaining = 0
  <2>1. Continue(Advanced, Push(stack, Collected(then)))
    BY <1>2 DEF CallRepeated
  <2>2. IsSeq(Push(stack, Collected(then))) /\ Len(Push(stack, Collected(then))) = Len(stack) + 1
    BY <1>1, Appended DEF Push
  <2> QED
    BY <2>1, <2>2, ContinueOn
<1>3. CASE then.remaining # 0
  <2>1. CallThen(Advanced, NextBody(then), then, stack)
    BY <1>3 DEF CallRepeated
  <2> QED
    BY <1>1, <2>1, CallThenOn
<1> QED
  BY <1>2, <1>3

LEMMA NextBodyOf ==
  ASSUME NEW B, NEW then, Len(then.bodies) \in Nat \ {0}, Len(then.done) \in Nat,
         \A j \in 1..Len(then.bodies) : then.bodies[j] \in B
  PROVE  NextBody(then) \in B
<1>1. \A a \in Nat : \A b \in Nat \ {0} : a % b \in 0..b - 1
  OBVIOUS
<1>2. \A b \in Nat \ {0} : \A r \in 0..b - 1 : r + 1 \in 1..b
  OBVIOUS
<1>3. (Len(then.done) % Len(then.bodies)) + 1 \in 1..Len(then.bodies)
  BY <1>1, <1>2
<1> QED
  BY <1>3 DEF NextBody

LEMMA RepeatedOK ==
  ASSUME NEW B, NEW c \in {"seq", "map", "fixed"}, NEW unique, NEW bodies, NEW n,
         Len(bodies) \in Nat \ {0}, \A j \in 1..Len(bodies) : bodies[j] \in B
  PROVE  ThenOK(B, Repeated(c, unique, bodies, n)) /\ NextBody(Repeated(c, unique, bodies, n)) \in B
<1> DEFINE t == Repeated(c, unique, bodies, n)
<1>1. /\ t = [c |-> t.c, set |-> t.set, bodies |-> t.bodies, remaining |-> t.remaining, done |-> t.done]
      /\ t.c = c /\ t.bodies = bodies /\ t.done = <<>>
  BY DEF Repeated
<1>2. IsSeq(<<>>) /\ Len(<<>>) = 0
  BY DEF IsSeq
<1> HIDE DEF t
<1>3. ThenOK(B, t)
  BY <1>1, <1>2 DEF ThenOK
<1>4. NextBody(t) \in B
  BY <1>1, <1>2, NextBodyOf
<1> QED
  BY <1>3, <1>4 DEF t

LEMMA ContainerOn == ASSUME IInv, Container PROVE IInv'
<1> DEFINE x == CASE Op.op = "seq" -> ReadLen(Op.minWire, input, pos)
                  [] Op.op = "map" -> ReadLen(1, input, pos)
                  [] OTHER -> FixedCount(Op.dimensions, Op.minWire, input, pos)
           bodies == IF Op.op = "map" THEN <<Op.key, Op.value>> ELSE <<Op.body>>
           then == Repeated(Op.op, Op.op = "seq" /\ Op.set, bodies, x.v)
<1>1. AtOp({"seq", "map", "fixed"})
  BY DEF Container
<1>2. /\ result = Pending /\ Op.op \in {"seq", "map", "fixed"}
      /\ Stacked(Bodies[call], Advanced, Len(stack) + Net(Op))
      /\ (Op.op # "skip" => Left(Advanced[Len(Advanced)]) >= 1)
      /\ Held(Op) \subseteq Bodies[call]
  BY <1>1, AtOpFacts
<1>3. Net(Op) = 1 /\ Op.op # "skip"
  BY <1>2 DEF Net, Takes
<1>4. Len(input) \in Nat /\ pos \in 0..Len(input)
  BY <1>2, RunFacts
<1>5. Inside(x, input)
  <2>1. CASE Op.op = "seq"
    BY <1>4, <2>1, ReadsInside
  <2>2. CASE Op.op = "map"
    BY <1>4, <2>2, ReadsInside
  <2>3. CASE Op.op = "fixed"
    BY <1>4, <2>3, ReadsInside
  <2> QED
    BY <1>2, <2>1, <2>2, <2>3
<1>6. IF ~x.ok THEN Fail(x.why)
      ELSE CallRepeated(then) /\ pos' = x.p /\ UNCHANGED <<given, result>>
  BY DEF Container
<1>7. Len(bodies) \in Nat \ {0} /\ \A j \in 1..Len(bodies) : bodies[j] \in Bodies[call]
  <2>1. CASE Op.op = "map"
    <3>1. bodies = <<Op.key, Op.value>> /\ Op.key \in Bodies[call] /\ Op.value \in Bodies[call]
      BY <1>2, <2>1 DEF Held
    <3> QED
      BY <3>1
  <2>2. CASE Op.op # "map"
    <3>1. bodies = <<Op.body>> /\ Op.body \in Bodies[call]
      BY <1>2, <2>2 DEF Held
    <3> QED
      BY <3>1
  <2> QED
    BY <2>1, <2>2
<1> HIDE DEF x, bodies
<1>8. ThenOK(Bodies[call], then) /\ NextBody(then) \in Bodies[call]
  BY <1>2, <1>7, RepeatedOK
<1> HIDE DEF then
<1>9. CASE ~x.ok
  BY <1>2, <1>5, <1>6, <1>9, FailOn DEF Inside
<1>10. CASE x.ok
  <2>1. CallRepeated(then) /\ pos' \in 0..Len(input) /\ UNCHANGED <<given, result>>
    BY <1>5, <1>6, <1>10 DEF Inside
  <2> QED
    BY <1>2, <1>3, <1>8, <2>1, CallRepeatedOn
<1> QED
  BY <1>9, <1>10

(* An op that runs a body once leaves the body's value in place of its own. *)
LEMMA CallOnceOn ==
  ASSUME IInv, NEW ops, AtOp(ops), Takes(Op) = 0, Op.op # "skip",
         UNCHANGED <<given, result>>, pos' \in 0..Len(input),
         NEW body \in Bodies[call], NEW then, ThenOK(Bodies[call], then),
         CallThen(Advanced, body, then, stack)
  PROVE  IInv'
<1>1. /\ result = Pending /\ Stacked(Bodies[call], Advanced, Len(stack) + Net(Op))
      /\ Left(Advanced[Len(Advanced)]) >= 1
  BY AtOpFacts
<1>2. Net(Op) = 1
  BY DEF Net
<1>3. IsSeq(stack)
  BY <1>1, RunFacts
<1> QED
  BY <1>1, <1>2, <1>3, CallThenOn

LEMMA OptionOn == ASSUME IInv, Option PROVE IInv'
<1> DEFINE x == ReadCell(input, pos)
<1>1. AtOp({"option"})
  BY DEF Option
<1>2. /\ result = Pending /\ Op.op = "option"
      /\ Stacked(Bodies[call], Advanced, Len(stack) + Net(Op))
      /\ Held(Op) \subseteq Bodies[call]
  BY <1>1, AtOpFacts
<1>3. Takes(Op) = 0 /\ Op.op # "skip" /\ Net(Op) = 1 /\ Op.some \in Bodies[call]
  BY <1>2 DEF Net, Takes, Held
<1>4. IsSeq(stack) /\ Len(input) \in Nat /\ pos \in 0..Len(input)
  BY <1>2, RunFacts
<1>5. Inside(x, input)
  BY <1>4, ReadsInside
<1>6. CASE ~x.ok \/ x.v > 1
  <2>1. Fail("malformed")
    BY <1>6 DEF Option
  <2> QED
    BY <1>2, <2>1, FailOn
<1>7. CASE ~(~x.ok \/ x.v > 1) /\ x.v = 0
  <2>1. Continue(Advanced, Push(stack, Null)) /\ pos' \in 0..Len(input) /\ UNCHANGED <<given, result>>
    BY <1>5, <1>7 DEF Option, Inside
  <2>2. IsSeq(Push(stack, Null)) /\ Len(Push(stack, Null)) = Len(stack) + 1
    BY <1>4, Appended DEF Push
  <2> QED
    BY <1>2, <1>3, <2>1, <2>2, ContinueOn
<1>8. CASE ~(~x.ok \/ x.v > 1) /\ x.v # 0
  <2>1. CallThen(Advanced, Op.some, NoneC, stack) /\ pos' \in 0..Len(input) /\ UNCHANGED <<given, result>>
    BY <1>5, <1>8 DEF Option, Inside
  <2>2. ThenOK(Bodies[call], NoneC)
    BY DEF ThenOK
  <2> QED
    BY <1>1, <1>3, <2>1, <2>2, CallOnceOn
<1> QED
  BY <1>6, <1>7, <1>8

LEMMA EnumOn == ASSUME IInv, Enum PROVE IInv'
<1> DEFINE x == ReadCell(input, pos)
           body == Op.arms[x.v].payload
           then == [c |-> "payload", reader |-> Op.arms[x.v].reader]
<1>1. AtOp({"enum"})
  BY DEF Enum
<1>2. result = Pending /\ Op.op = "enum" /\ Held(Op) \subseteq Bodies[call]
  BY <1>1, AtOpFacts
<1>3. Takes(Op) = 0 /\ Op.op # "skip" /\ \A v \in DOMAIN Op.arms : Op.arms[v].payload \in Bodies[call]
  BY <1>2 DEF Takes, Held
<1>4. Len(input) \in Nat /\ pos \in 0..Len(input)
  BY <1>2, RunFacts
<1>5. Inside(x, input)
  BY <1>4, ReadsInside
<1>6. IF ~x.ok THEN Fail(x.why)
      ELSE IF x.v \notin DOMAIN Op.arms THEN Fail("writer-only")
      ELSE CallThen(Advanced, body, then, stack) /\ pos' = x.p /\ UNCHANGED <<given, result>>
  BY DEF Enum
<1>7. ThenOK(Bodies[call], then)
  BY DEF ThenOK
<1> HIDE DEF then, x
<1>8. CASE ~x.ok
  BY <1>2, <1>5, <1>6, <1>8, FailOn DEF Inside
<1>9. CASE x.ok /\ x.v \notin DOMAIN Op.arms
  BY <1>2, <1>6, <1>9, FailOn
<1>10. CASE x.ok /\ x.v \in DOMAIN Op.arms
  <2>1. CallThen(Advanced, body, then, stack) /\ pos' \in 0..Len(input) /\ UNCHANGED <<given, result>>
    BY <1>5, <1>6, <1>10 DEF Inside
  <2>2. body \in Bodies[call]
    BY <1>3, <1>10
  <2> HIDE DEF body
  <2> QED
    BY <1>1, <1>3, <1>7, <2>1, <2>2, CallOnceOn
<1> QED
  BY <1>8, <1>9, <1>10

LEMMA CallBlockOn == ASSUME IInv, CallBlock PROVE IInv'
<1> DEFINE body == Plans[call].blocks[Op.arg.block]
<1>1. AtOp({"call"})
  BY DEF CallBlock
<1>2. result = Pending /\ Op.op = "call"
  BY <1>1, AtOpFacts
<1>3. Takes(Op) = 0 /\ Op.op # "skip"
  BY <1>2 DEF Takes
<1>4. pos \in 0..Len(input) /\ WellLowered(Plans[call], Bodies[call]) /\ Plans[call].ok
  BY <1>2, RunFacts
<1>5. CASE Op.arg.block \notin DOMAIN Plans[call].blocks
  <2>1. Fail("malformed")
    BY <1>5 DEF CallBlock
  <2> QED
    BY <1>2, <2>1, FailOn
<1>6. CASE Op.arg.block \in DOMAIN Plans[call].blocks
  <2>1. CallThen(Advanced, body, NoneC, stack) /\ UNCHANGED <<given, result>> /\ pos' \in 0..Len(input)
    BY <1>4, <1>6 DEF CallBlock
  <2>2. body \in Bodies[call]
    BY <1>4, <1>6 DEF WellLowered
  <2>3. ThenOK(Bodies[call], NoneC)
    BY DEF ThenOK
  <2> HIDE DEF body
  <2> QED
    BY <1>1, <1>3, <2>1, <2>2, <2>3, CallOnceOn
<1> QED
  BY <1>5, <1>6

LEMMA ReturnOn == ASSUME IInv, Return PROVE IInv'
<1>1. /\ Running /\ Top.next > Len(Top.prog)
      /\ frames' = Popped /\ UNCHANGED <<given, stack, pos, result>>
  BY DEF Return
<1>2. result = Pending /\ Stacked(Bodies[call], Popped, Len(stack))
  BY <1>1, AtEndFacts
<1>3. IsSeq(stack) /\ pos \in 0..Len(input)
  BY <1>2, RunFacts
<1>4. stack' = stack /\ pos' = pos
  BY <1>1
<1>5. IsSeq(stack') /\ pos' \in 0..Len(input) /\ Stacked(Bodies[call], frames', Len(stack')) /\ UNCHANGED <<given, result>>
  BY <1>1, <1>2, <1>3, <1>4
<1> QED
  BY <1>2, <1>5, RunOn

LEMMA AfterRepeatedOn == ASSUME IInv, AfterRepeated PROVE IInv'
<1> DEFINE done == Append(Top.then.done, Value)
           round == Len(done) % Len(Top.then.bodies) = 0
           then == [Top.then EXCEPT !.done = done, !.remaining = IF round THEN @ - 1 ELSE @]
<1>1. /\ Running /\ Top.next > Len(Top.prog) /\ Top.then.c \in {"seq", "map", "fixed"}
      /\ IF stack = <<>> \/ ~Accepts(Top.then, Value) THEN Fail("malformed")
         ELSE /\ IF then.remaining = 0 THEN Continue(Popped, Push(Without(1), Collected(then)))
                 ELSE CallThen(Popped, NextBody(then), then, Without(1))
              /\ UNCHANGED <<given, pos, result>>
  BY DEF AfterRepeated
<1>2. /\ result = Pending /\ Stacked(Bodies[call], Popped, Len(stack)) /\ Len(stack) \in Nat \ {0}
      /\ (Popped # <<>> => Left(Popped[Len(Popped)]) >= 1)
      /\ ThenOK(Bodies[call], Top.then)
  BY <1>1, AtEndFacts
<1>3. IsSeq(stack) /\ pos \in 0..Len(input)
  BY <1>2, RunFacts
<1>4. /\ IsSeq(Without(1)) /\ Len(Without(1)) = Len(stack) - 1
      /\ \A v : IsSeq(Push(Without(1), v)) /\ Len(Push(Without(1), v)) = Len(stack) - 1 + 1
  BY <1>2, <1>3, Values
<1>5. Len(stack) - 1 + 1 = Len(stack) /\ Len(Without(1)) + 1 = Len(stack)
  BY <1>2, <1>4
<1>6. ThenOK(Bodies[call], then) /\ NextBody(then) \in Bodies[call]
  <2> DEFINE t == Top.then
             left == IF round THEN t.remaining - 1 ELSE t.remaining
  <2>1. /\ t = [c |-> t.c, set |-> t.set, bodies |-> t.bodies, remaining |-> t.remaining, done |-> t.done]
        /\ Len(t.bodies) \in Nat \ {0} /\ \A j \in 1..Len(t.bodies) : t.bodies[j] \in Bodies[call]
        /\ IsSeq(t.done)
    BY <1>1, <1>2 DEF ThenOK, NoneC
  <2>2. IsSeq(done) /\ Len(done) \in Nat
    <3>1. IsSeq(done)
      BY <2>1, Appended
    <3> HIDE DEF done
    <3> QED
      BY <3>1, SeqDomain
  <2>3. then = [t EXCEPT !.done = done, !.remaining = left]
    OBVIOUS
  <2> HIDE DEF t, done, left, then
  <2>4. then = [c |-> t.c, set |-> t.set, bodies |-> t.bodies, remaining |-> left, done |-> done]
    BY <2>1, <2>3
  <2>5. /\ then = [c |-> then.c, set |-> then.set, bodies |-> then.bodies,
                   remaining |-> then.remaining, done |-> then.done]
        /\ then.c = t.c /\ then.bodies = t.bodies /\ then.done = done
    BY <2>4
  <2>6. t.c \in {"seq", "map", "fixed"}
    BY <1>1 DEF t
  <2>7. ThenOK(Bodies[call], then)
    BY <2>1, <2>2, <2>5, <2>6 DEF ThenOK
  <2>8. NextBody(then) \in Bodies[call]
    BY <2>1, <2>2, <2>5, NextBodyOf
  <2> QED
    BY <2>7, <2>8
<1> HIDE DEF then
<1>7. CASE stack = <<>> \/ ~Accepts(Top.then, Value)
  BY <1>1, <1>2, <1>7, FailOn
<1>8. CASE ~(stack = <<>> \/ ~Accepts(Top.then, Value)) /\ then.remaining = 0
  <2>1. Continue(Popped, Push(Without(1), Collected(then))) /\ UNCHANGED <<given, result>> /\ pos' \in 0..Len(input)
    BY <1>1, <1>3, <1>8
  <2> QED
    BY <1>2, <1>4, <1>5, <2>1, ContinueOn
<1>9. CASE ~(stack = <<>> \/ ~Accepts(Top.then, Value)) /\ then.remaining # 0
  <2>1. CallThen(Popped, NextBody(then), then, Without(1)) /\ UNCHANGED <<given, result>> /\ pos' \in 0..Len(input)
    BY <1>1, <1>3, <1>9
  <2> QED
    BY <1>2, <1>4, <1>5, <1>6, <2>1, CallThenOn
<1> QED
  BY <1>7, <1>8, <1>9

LEMMA AfterPayloadOn == ASSUME IInv, AfterPayload PROVE IInv'
<1> DEFINE v == Object(<<Top.then.reader>>, <<Value>>)
<1>1. /\ Running /\ Top.next > Len(Top.prog)
      /\ IF stack = <<>> THEN Fail("malformed")
         ELSE Continue(Popped, Push(Without(1), v)) /\ UNCHANGED <<given, pos, result>>
  BY DEF AfterPayload
<1> HIDE DEF v
<1>2. result = Pending /\ Stacked(Bodies[call], Popped, Len(stack)) /\ Len(stack) \in Nat \ {0}
  BY <1>1, AtEndFacts
<1>3. IsSeq(stack) /\ pos \in 0..Len(input)
  BY <1>2, RunFacts
<1>4. IsSeq(Push(Without(1), v)) /\ Len(Push(Without(1), v)) = Len(stack)
  BY <1>2, <1>3, Values
<1>5. CASE stack = <<>>
  BY <1>1, <1>2, <1>5, FailOn
<1>6. CASE stack # <<>>
  <2>1. Continue(Popped, Push(Without(1), v)) /\ UNCHANGED <<given, result>> /\ pos' \in 0..Len(input)
    BY <1>1, <1>3, <1>6
  <2> QED
    BY <1>2, <1>4, <2>1, ContinueOn
<1> QED
  BY <1>5, <1>6

(* When no frame is left, one value is.                                     *)
LEMMA FinishOn == ASSUME IInv, Finish PROVE IInv'
<1>1. /\ result = Pending /\ frames = <<>>
      /\ IF pos # Len(input) \/ stack = <<>> THEN Fail("malformed")
         ELSE /\ result' = Ok(Value, pos) /\ stack' = Without(1)
              /\ UNCHANGED <<given, frames, pos>>
  BY DEF Finish
<1>2. /\ IsSeq(stack) /\ Stacked(Bodies[call], frames, Len(stack))
      /\ \A prog \in Bodies[call] : Balanced(prog)
  BY <1>1, RunFacts
<1>3. Len(stack) = 1
  <2>1. OwedBy(frames) = 0 /\ Len(frames) = 0
    BY <1>1, <1>2, DebtsFacts DEF Stacked
  <2> QED
    BY <1>2, <2>1 DEF Stacked
<1>4. CASE pos # Len(input) \/ stack = <<>>
  BY <1>1, <1>4, FailOn
<1>5. CASE ~(pos # Len(input) \/ stack = <<>>)
  <2>1. /\ result' = Ok(Value, pos) /\ stack' = Without(1) /\ frames' = frames /\ pos' = pos
        /\ call' = call /\ input' = input
    BY <1>1, <1>5 DEF given
  <2>2. IsSeq(Without(1)) /\ Len(Without(1)) = 0
    BY <1>2, <1>3, Values
  <2>3. Without(1) = <<>>
    <3> DEFINE w == Without(1)
    <3> HIDE DEF w
    <3>1. IsSeq(w) /\ Len(w) = 0
      BY <2>2 DEF w
    <3>2. w = <<>>
      BY <3>1, ButLast
    <3> QED
      BY <3>2 DEF w
  <2>4. result'.ok
    BY <2>1 DEF Ok
  <2>5. result' # Pending
    BY <2>1 DEF Ok, Pending
  <2>6. IsSeq(stack')
    BY <2>1, <2>2
  <2>7. call \in Calls /\ Len(input) \in Nat /\ pos \in 0..Len(input)
    BY DEF IInv
  <2> QED
    BY <1>1, <2>1, <2>3, <2>4, <2>5, <2>6, <2>7 DEF IInv
<1> QED
  BY <1>4, <1>5

LEMMA InitIInv == Init => IInv
<1> SUFFICES ASSUME Init PROVE IInv
  OBVIOUS
<1>1. call \in Calls /\ stack = <<>> /\ pos = 0
  BY DEF Init
<1>2. IsSeq(<<>>) /\ Len(<<>>) = 0
  BY DEF IsSeq
<1>3. CASE Plans[call].ok
  <2> DEFINE B == Bodies[call]
             p == Plans[call].program
  <2>1. input \in Inputs /\ frames = <<Frame(p, NoneC)>> /\ result = Pending
    BY <1>3 DEF Init
  <2>2. (\A prog \in B : Balanced(prog)) /\ p \in B
    BY <1>1, <1>3, LoweredAssumption DEF WellLowered
  <2>3. Len(input) \in Nat
    BY <2>1, InputAssumption, LenProperties
  <2> HIDE DEF B, p
  <2>4. Stacked(B, <<>>, 0 + 1)
    <3>1. OwedBy(<<>>) = 0
      BY <1>2, <2>2, DebtsFacts
    <3> QED
      BY <1>2, <3>1 DEF Stacked
  <2>5. ThenOK(B, NoneC)
    BY DEF ThenOK
  <2>6. Stacked(B, Append(<<>>, Frame(p, NoneC)), 0)
    <3> DEFINE n == 0
               fs == <<>>
    <3>1. n \in Int /\ Stacked(B, fs, n + 1) /\ fs = <<>>
      BY <2>4
    <3> HIDE DEF n, fs
    <3>2. Stacked(B, Append(fs, Frame(p, NoneC)), n)
      BY <2>2, <2>5, <3>1, PushStacked
    <3> QED
      BY <3>2 DEF n, fs
  <2>7. Append(<<>>, Frame(p, NoneC)) = <<Frame(p, NoneC)>>
    OBVIOUS
  <2>8. Stacked(Bodies[call], frames, Len(stack))
    BY <1>1, <1>2, <2>1, <2>6, <2>7 DEF B
  <2> QED
    BY <1>1, <1>2, <1>3, <2>1, <2>3, <2>8 DEF IInv
<1>4. CASE ~Plans[call].ok
  <2>1. input = <<>> /\ frames = <<>> /\ result = Err("incompatible")
    BY <1>4 DEF Init
  <2>2. ~result.ok /\ result.why # "panic" /\ result # Pending
    BY <2>1 DEF Err, Pending
  <2> QED
    BY <1>1, <1>2, <2>1, <2>2 DEF IInv
<1> QED
  BY <1>3, <1>4

LEMMA NextIInv == IInv /\ [Next]_vars => IInv'
<1> SUFFICES ASSUME IInv, [Next]_vars PROVE IInv'
  OBVIOUS
<1>1. CASE UNCHANGED vars
  BY <1>1 DEF IInv, vars
<1>2. CASE Next
  BY <1>2, LeafOn, SkipOn, AssembleOn, ContainerOn, OptionOn, EnumOn, CallBlockOn,
     ReturnOn, AfterRepeatedOn, AfterPayloadOn, FinishOn DEF Next
<1> QED
  BY <1>1, <1>2

-----------------------------------------------------------------------------
(* What the runs check.                                                     *)
LEMMA IInvTypeOK == IInv => TypeOK
<1> SUFFICES ASSUME IInv PROVE TypeOK
  OBVIOUS
<1>1. pos \in 0..Len(input)
  BY DEF IInv
<1>2. ASSUME frames # <<>>
      PROVE  /\ Len(stack) = Owed - (Len(frames) - 1)
             /\ \A i \in DOMAIN frames : /\ frames[i].next \in 1..Len(frames[i].prog) + 1
                                         /\ Blocks(frames[i].prog) \subseteq DOMAIN Plans[call].blocks
  <2>1. /\ Plans[call].ok /\ call \in Calls
        /\ Stacked(Bodies[call], frames, Len(stack))
    BY <1>2 DEF IInv
  <2>2. WellLowered(Plans[call], Bodies[call])
    BY <2>1, LoweredAssumption
  <2>3. \A prog \in Bodies[call] : Balanced(prog) /\ Blocks(prog) \subseteq DOMAIN Plans[call].blocks
    BY <2>1, <2>2 DEF WellLowered
  <2>4. DOMAIN frames = 1..Len(frames) /\ Len(frames) \in Nat
    BY <2>1, SeqDomain DEF Stacked
  <2>5. \A i \in DOMAIN frames : FrameOK(Bodies[call], frames[i])
    BY <2>1, <2>4 DEF Stacked
  <2>6. Owed \in Int /\ Len(stack) = Owed - Len(frames) + 1
    <3>1. Owed = OwedBy(frames)
      BY DEF Owed, OwedBy
    <3>2. OwedBy(frames) \in Int
      BY <2>1, <2>3, DebtsFacts DEF Stacked
    <3> QED
      BY <2>1, <3>1, <3>2 DEF Stacked
  <2>7. Len(stack) = Owed - (Len(frames) - 1)
    BY <2>4, <2>6
  <2> QED
    BY <2>3, <2>5, <2>7 DEF FrameOK
<1>3. CASE frames = <<>>
  BY <1>1, <1>3 DEF TypeOK, IInv
<1>4. CASE frames # <<>>
  BY <1>1, <1>2, <1>4 DEF TypeOK, IInv
<1> QED
  BY <1>3, <1>4

THEOREM Invariance == Spec => []IInv
BY InitIInv, NextIInv, PTL DEF Spec

(* Object and Array split off no more than is there, whatever the program,  *)
(* the message and what was skipped in it; each complete subtree nets one   *)
(* value, so that a call that succeeds has used everything up (phon_ir::ir, *)
(* step_intrinsic, after_return, finish_interp).                            *)
THEOREM StackDiscipline == Spec => []TypeOK
BY Invariance, IInvTypeOK, PTL
=============================================================================
