------------------------- MODULE RecursiveIdsProofs -------------------------
(***************************************************************************)
(* For every finite registry, every graph of references and every order in *)
(* which references are listed: the collections of visit_schema stay in    *)
(* step, and when the walk is over every reference cycle it reached holds  *)
(* a marked id, which is what lets plan_ref inline all unmarked ones.      *)
(***************************************************************************)
EXTENDS RecursiveIds, SequenceTheorems, FiniteSetTheorems, FunctionTheorems, WellFoundedInduction, TLAPS

(* The last position of the stack is the running call's.                    *)
LEMMA TopIsLast ==
  ASSUME TypeOK, stack # <<>>
  PROVE  /\ Len(stack) \in Nat \ {0}
         /\ Len(stack) \in 1..Len(stack)
         /\ Top = stack[Len(stack)]
         /\ Top \in Ids
BY DEF TypeOK, Top

(* What pushing an id does to the stack, position by position.              *)
LEMMA Pushed ==
  ASSUME TypeOK, NEW id \in Ids, Enter(id)
  PROVE  /\ stack' \in Seq(Ids)
         /\ Len(stack') = Len(stack) + 1
         /\ \A i \in 1..Len(stack) : stack'[i] = stack[i]
         /\ stack'[Len(stack) + 1] = id
BY DEF TypeOK, Enter

(* What returning does to the stack, position by position.                  *)
LEMMA Popped ==
  ASSUME TypeOK, Return
  PROVE  /\ stack' \in Seq(Ids)
         /\ Len(stack') = Len(stack) - 1
         /\ \A i \in 1..Len(stack') : stack'[i] = stack[i]
         /\ Len(stack) = 1 => stack' = <<>>
<1>1. Len(stack) \in Nat \ {0} /\ \A i \in 1..(Len(stack) - 1) : stack[i] \in Ids
  BY EmptySeq, LenProperties, ElementOfSeq DEF TypeOK, Return
<1>2. stack' = SubSeq(stack, 1, Len(stack) - 1)
  BY DEF Return
<1>3. /\ stack' \in Seq(Ids) /\ Len(stack') = Len(stack) - 1
      /\ \A i \in 1..(Len(stack) - 1) : stack'[i] = stack[i]
  <2> DEFINE n == Len(stack) - 1
  <2>0. n \in Nat
    BY <1>1
  <2>2. \A i \in 1..n : stack[i] \in Ids
    BY <1>1
  <2>3. stack' = SubSeq(stack, 1, n)
    BY <1>2
  <2> HIDE DEF n
  <2>1. n \in Int /\ 1 \in Int /\ (IF 1 <= n THEN n - 1 + 1 ELSE 0) = n /\ n - 1 + 1 = n
    BY <2>0
  <2>4. /\ SubSeq(stack, 1, n) \in Seq(Ids)
        /\ Len(SubSeq(stack, 1, n)) = IF 1 <= n THEN n - 1 + 1 ELSE 0
        /\ \A i \in 1..(n - 1 + 1) : SubSeq(stack, 1, n)[i] = stack[1 + i - 1]
    BY <2>1, <2>2, SubSeqProperties
  <2>5. /\ stack' \in Seq(Ids) /\ Len(stack') = n
        /\ \A i \in 1..n : stack'[i] = stack[i]
    BY <2>1, <2>3, <2>4
  <2> QED
    BY <2>5 DEF n
<1>4. Len(stack) = 1 => stack' = <<>>
  BY <1>2, SubSeqEmpty
<1> QED
  BY <1>3, <1>4

(* The initial state satisfies the inductive invariant.                     *)
LEMMA InitIInv == Init => IInv
<1> SUFFICES ASSUME Init PROVE IInv
  OBVIOUS
<1> USE IdsAssumption DEF Init
<1>1. TypeOK
  BY DEF TypeOK
<1>2. StackAgrees
  BY DEF StackAgrees
<1>3. InlineDescends /\ Ranked /\ FrameProgress /\ StackIsPath /\ Phases
  BY DEF InlineDescends, Ranked, FrameProgress, StackIsPath, Phases, Finished
<1> QED
  BY <1>1, <1>2, <1>3 DEF IInv

(* Entering a call: shared by the outermost call and the nested ones.       *)
LEMMA EnterStack ==
  ASSUME IInv, NEW id \in Ids, id \notin visited, Enter(id)
  PROVE  /\ StackAgrees'
         /\ Finished' = Finished
<1> USE DEF IInv
<1>1. /\ Len(stack') = Len(stack) + 1
      /\ \A i \in 1..Len(stack) : stack'[i] = stack[i]
      /\ stack'[Len(stack) + 1] = id
      /\ Len(stack) \in Nat
  BY Pushed DEF TypeOK
<1>2. id \notin {stack[i] : i \in 1..Len(stack)}
  BY DEF StackAgrees, TypeOK
<1>3. 1..Len(stack') = (1..Len(stack)) \cup {Len(stack) + 1}
  BY <1>1
<1>4. {stack'[i] : i \in 1..Len(stack')} = {stack[i] : i \in 1..Len(stack)} \cup {id}
  BY <1>1, <1>3
<1>5. \A i, j \in 1..Len(stack') : stack'[i] = stack'[j] => i = j
  BY <1>1, <1>2, <1>3 DEF StackAgrees
<1>6. onStack' = onStack \cup {id} /\ visited' = visited \cup {id}
  BY DEF Enter
<1> QED
  BY <1>4, <1>5, <1>6 DEF StackAgrees, Finished, TypeOK

LEMMA StartIInv == IInv /\ Start => IInv'
<1> SUFFICES ASSUME IInv, Start PROVE IInv'
  OBVIOUS
<1> USE IdsAssumption DEF IInv
<1>0. visited = {} /\ Enter(Root) /\ Targets(Root) \in SUBSET Ids
  BY DEF Start, Phases, TypeOK, Targets
<1>1. stack' \in Seq(Ids) /\ Len(stack') = Len(stack) + 1 /\ Len(stack) \in Nat
  BY <1>0, Pushed DEF TypeOK
<1>2. TypeOK'
  BY <1>0, <1>1 DEF TypeOK, Start, Enter
<1>3. StackAgrees' /\ Finished' = Finished
  BY <1>0, EnterStack
<1>4. onStack = {} /\ Finished = {}
  BY <1>0 DEF TypeOK, Finished
<1>5. stack = <<>> /\ Len(stack) = 0
  <2>1. \A i \in 1..Len(stack) : stack[i] \in onStack
    BY DEF StackAgrees
  <2>2. Len(stack) = 0
    BY <1>1, <1>4, <2>1
  <2> QED
    BY <2>2, EmptySeq DEF TypeOK
<1>6. InlineDescends' /\ Ranked'
  BY <1>3, <1>4 DEF InlineDescends, Ranked, Start
<1>7. stack'[1] = Root /\ Len(stack') = 1
  BY <1>0, <1>1, <1>5, Pushed
<1>8. FrameProgress'
  BY <1>7 DEF FrameProgress, Start, TypeOK, Targets
<1>9. Phases'
  BY <1>7 DEF Phases, Start
<1>10. StackIsPath'
  BY <1>7 DEF StackIsPath, Start, TypeOK, Targets
<1> QED
  BY <1>2, <1>3, <1>6, <1>8, <1>9, <1>10

LEMMA BackEdgeIInv == ASSUME NEW t \in Ids PROVE IInv /\ BackEdge(t) => IInv'
<1> SUFFICES ASSUME IInv, BackEdge(t) PROVE IInv'
  OBVIOUS
<1> USE DEF IInv
<1>1. Top \in Ids /\ Top = stack[Len(stack)] /\ Len(stack) \in Nat \ {0}
  BY TopIsLast DEF BackEdge
<1>2. DownTo(t) \subseteq Ids
  BY DEF DownTo, TypeOK
<1>3. t \in DownTo(t)
  BY DEF DownTo, BackEdge, StackAgrees, TypeOK
<1>4. TypeOK'
  BY <1>1, <1>2 DEF TypeOK, BackEdge
<1>5. StackAgrees' /\ Finished' = Finished
  BY DEF StackAgrees, BackEdge, Finished
<1>6. recursive \subseteq recursive' /\ t \in recursive'
  BY <1>3 DEF BackEdge
<1>7. InlineDescends'
  BY <1>5, <1>6 DEF InlineDescends, BackEdge, Targets
<1>8. Ranked'
  BY <1>1, <1>5 DEF Ranked, BackEdge, TypeOK
<1>9. FrameProgress'
  <2> SUFFICES ASSUME NEW i \in 1..Len(stack),
                      NEW v \in Targets(stack[i]) \ todo'[stack[i]]
               PROVE  v \in recursive' \/ v \in Finished \/ (i < Len(stack) /\ v = stack[i + 1])
    BY <1>5 DEF FrameProgress, BackEdge, Targets
  <2>1. stack[i] \in Ids
    BY DEF TypeOK
  <2>2. v \notin todo[stack[i]] \/ v = t
    BY <1>1, <2>1 DEF BackEdge, TypeOK
  <2> QED
    BY <1>6, <2>2 DEF FrameProgress
<1>10. Phases'
  BY DEF Phases, BackEdge
<1>11. StackIsPath'
  BY <1>1 DEF StackIsPath, BackEdge, TypeOK, Targets
<1> QED
  BY <1>4, <1>5, <1>7, <1>8, <1>9, <1>10, <1>11

LEMMA PassOverIInv == ASSUME NEW t \in Ids PROVE IInv /\ PassOver(t) => IInv'
<1> SUFFICES ASSUME IInv, PassOver(t) PROVE IInv'
  OBVIOUS
<1> USE DEF IInv
<1>1. Top \in Ids
  BY TopIsLast DEF PassOver
<1>2. TypeOK'
  BY <1>1 DEF TypeOK, PassOver
<1>3. StackAgrees' /\ Finished' = Finished /\ t \in Finished
  BY DEF StackAgrees, PassOver, Finished
<1>4. InlineDescends'
  BY <1>3 DEF InlineDescends, PassOver, Targets
<1>5. Ranked'
  BY <1>1, <1>3 DEF Ranked, PassOver, TypeOK
<1>6. FrameProgress'
  <2> SUFFICES ASSUME NEW i \in 1..Len(stack),
                      NEW v \in Targets(stack[i]) \ todo'[stack[i]]
               PROVE  v \in recursive \/ v \in Finished \/ (i < Len(stack) /\ v = stack[i + 1])
    BY <1>3 DEF FrameProgress, PassOver, Targets
  <2>1. v \notin todo[stack[i]] \/ v = t
    BY <1>1 DEF PassOver, TypeOK
  <2> QED
    BY <1>3, <2>1 DEF FrameProgress
<1>7. Phases'
  BY DEF Phases, PassOver
<1>8. StackIsPath'
  BY <1>1 DEF StackIsPath, PassOver, TypeOK, Targets
<1> QED
  BY <1>2, <1>3, <1>4, <1>5, <1>6, <1>7, <1>8

LEMMA DescendIInv == ASSUME NEW t \in Ids PROVE IInv /\ Descend(t) => IInv'
<1> SUFFICES ASSUME IInv, Descend(t) PROVE IInv'
  OBVIOUS
<1> USE DEF IInv
<1>1. Top \in Ids /\ Top = stack[Len(stack)] /\ Len(stack) \in Nat \ {0}
  BY TopIsLast DEF Descend
<1>2. Enter(t) /\ t \notin visited /\ Targets(t) \in SUBSET Ids
  BY DEF Descend, TypeOK, Targets
<1>3. /\ stack' \in Seq(Ids) /\ Len(stack') = Len(stack) + 1
      /\ \A i \in 1..Len(stack) : stack'[i] = stack[i]
      /\ stack'[Len(stack) + 1] = t
  BY <1>2, Pushed
<1>4. TypeOK'
  BY <1>1, <1>2, <1>3 DEF TypeOK, Descend, Enter
<1>5. StackAgrees' /\ Finished' = Finished
  BY <1>2, EnterStack
<1>6. InlineDescends'
  BY <1>5 DEF InlineDescends, Descend, Targets
<1>7. Top \in visited /\ Top # t /\ t \notin Finished
  BY <1>1, <1>2 DEF StackAgrees, TypeOK, Finished
<1>8. Ranked'
  <2>1. Top \notin Finished
    BY <1>1 DEF StackAgrees, Finished
  <2> QED
    BY <1>1, <1>5, <1>7, <2>1 DEF Ranked, Descend, TypeOK
<1>9. FrameProgress'
  <2> SUFFICES ASSUME NEW i \in 1..Len(stack'),
                      NEW v \in Targets(stack'[i]) \ todo'[stack'[i]]
               PROVE  v \in recursive \/ v \in Finished \/ (i < Len(stack') /\ v = stack'[i + 1])
    BY <1>5 DEF FrameProgress, Descend, Targets
  <2>1. CASE i = Len(stack) + 1
    <3>1. stack'[i] = t /\ todo'[t] = Targets(t)
      BY <1>2, <1>3, <1>7, <2>1 DEF Descend, TypeOK
    <3> QED
      BY <3>1
  <2>2. CASE i \in 1..Len(stack)
    <3>1. stack'[i] = stack[i] /\ stack[i] # t /\ stack[i] \in Ids
      BY <1>2, <1>3, <2>2 DEF StackAgrees, TypeOK
    <3>2. stack[i] = Top => i = Len(stack)
      BY <1>1, <2>2 DEF StackAgrees
    <3>3. CASE stack[i] # Top
      <4>1. todo'[stack[i]] = todo[stack[i]]
        BY <3>1, <3>3 DEF Descend, TypeOK
      <4>2. i < Len(stack) /\ stack'[i + 1] = stack[i + 1]
        BY <1>1, <1>3, <2>2, <3>3
      <4> QED
        BY <1>3, <2>2, <3>1, <4>1, <4>2 DEF FrameProgress
    <3>4. CASE stack[i] = Top
      <4>1. v \notin todo[Top] \/ v = t
        BY <1>1, <1>7, <3>1, <3>4 DEF Descend, TypeOK
      <4>2. v = t => i < Len(stack') /\ v = stack'[i + 1]
        BY <1>1, <1>3, <3>2, <3>4
      <4>3. v \notin todo[Top] => v \in recursive \/ v \in Finished
        BY <2>2, <3>1, <3>2, <3>4 DEF FrameProgress
      <4> QED
        BY <4>1, <4>2, <4>3
    <3> QED
      BY <3>3, <3>4
  <2> QED
    BY <1>1, <1>3, <2>1, <2>2
<1>10. Phases'
  <2>1. pc' = pc /\ stack # <<>>
    BY DEF Descend
  <2>2. stack[Len(stack)] \in onStack
    BY <1>1 DEF StackAgrees
  <2>3. visited # {}
    BY <2>2 DEF TypeOK
  <2> QED
    BY <2>1, <2>3 DEF Phases
<1>11. StackIsPath'
  <2>1. \A u \in Ids : todo'[u] \subseteq Targets(u) /\ Targets(u)' = Targets(u)
    BY <1>1, <1>2 DEF StackIsPath, Descend, TypeOK, Targets
  <2>2. t \in Targets(stack[Len(stack)])
    BY <1>1 DEF StackIsPath, Descend
  <2>3. \A i \in 1..(Len(stack') - 1) : stack'[i + 1] \in Targets(stack'[i])
    <3> SUFFICES ASSUME NEW i \in 1..(Len(stack') - 1) PROVE stack'[i + 1] \in Targets(stack'[i])
      OBVIOUS
    <3>1. CASE i = Len(stack)
      BY <1>1, <1>3, <2>2, <3>1
    <3>2. CASE i \in 1..(Len(stack) - 1)
      BY <1>1, <1>3, <3>2 DEF StackIsPath
    <3> QED
      BY <1>1, <1>3, <3>1, <3>2
  <2>4. \A i \in 1..Len(stack') : stack'[i] \in Ids
    BY <1>3
  <2>5. \A i \in 1..(Len(stack') - 1) : i \in 1..Len(stack')
    BY <1>1, <1>3
  <2> QED
    BY <2>1, <2>3, <2>4, <2>5 DEF StackIsPath
<1> QED
  BY <1>4, <1>5, <1>6, <1>8, <1>9, <1>10, <1>11

LEMMA ReturnIInv == IInv /\ Return => IInv'
<1> SUFFICES ASSUME IInv, Return PROVE IInv'
  OBVIOUS
<1> USE DEF IInv
<1>1. Top \in Ids /\ Top = stack[Len(stack)] /\ Len(stack) \in Nat \ {0}
  BY TopIsLast DEF Return
<1>2. /\ stack' \in Seq(Ids) /\ Len(stack') = Len(stack) - 1
      /\ \A i \in 1..Len(stack') : stack'[i] = stack[i]
  BY Popped
<1>3. TypeOK'
  BY <1>1, <1>2 DEF TypeOK, Return
<1>4. StackAgrees'
  <2>1. 1..Len(stack) = (1..Len(stack')) \cup {Len(stack)}
    BY <1>1, <1>2
  <2>2. \A i \in 1..Len(stack') : stack[i] # Top
    BY <1>1, <1>2, <2>1 DEF StackAgrees
  <2>3. {stack'[i] : i \in 1..Len(stack')} = onStack \ {Top}
    BY <1>1, <1>2, <2>1, <2>2 DEF StackAgrees
  <2>4. \A i, j \in 1..Len(stack') : stack'[i] = stack'[j] => i = j
    BY <1>2, <2>1 DEF StackAgrees
  <2> QED
    BY <2>3, <2>4 DEF StackAgrees, Return
<1>5. Finished' = Finished \cup {Top} /\ Top \notin Finished /\ Top \in onStack
  BY <1>1 DEF Finished, Return, StackAgrees, TypeOK
<1>6. \A v \in Targets(Top) : v \in recursive \/ v \in Finished
  <2>1. Len(stack) \in 1..Len(stack) /\ Targets(Top) \ todo[Top] = Targets(Top)
    BY <1>1 DEF Return
  <2>2. \A v \in Targets(stack[Len(stack)]) \ todo[stack[Len(stack)]] :
          v \in recursive \/ v \in Finished \/ (Len(stack) < Len(stack) /\ v = stack[Len(stack) + 1])
    BY <2>1 DEF FrameProgress
  <2> QED
    BY <1>1, <2>1, <2>2
<1>7. rank' = [rank EXCEPT ![Top] = clock + 1] /\ clock' = clock + 1 /\ rank \in [Ids -> Nat] /\ clock \in Nat
  BY DEF Return, TypeOK
<1>8. \A v \in Finished : rank'[v] = rank[v] /\ rank[v] \in 1..clock
  BY <1>5, <1>7 DEF Ranked, Finished, TypeOK
<1>9. InlineDescends'
  <2> SUFFICES ASSUME NEW u \in Finished', NEW v \in Targets(u)
               PROVE  v \in recursive \/ (v \in Finished' /\ rank'[v] < rank'[u])
    BY DEF InlineDescends, Return, Targets
  <2>1. CASE u = Top
    BY <1>1, <1>5, <1>6, <1>7, <1>8, <2>1
  <2>2. CASE u \in Finished
    BY <1>5, <1>8, <2>2 DEF InlineDescends
  <2> QED
    BY <1>5, <2>1, <2>2
<1>10. Ranked'
  <2> SUFFICES ASSUME NEW u \in Ids
               PROVE  IF u \in Finished' THEN rank'[u] \in 1..clock' /\ todo[u] = {}
                                         ELSE rank'[u] = 0
    BY DEF Ranked, Return
  <2>1. CASE u = Top
    BY <1>1, <1>5, <1>7, <2>1 DEF Return
  <2>2. CASE u # Top
    BY <1>5, <1>7, <2>2 DEF Ranked
  <2> QED
    BY <2>1, <2>2
<1>11. FrameProgress'
  <2> SUFFICES ASSUME NEW i \in 1..Len(stack'),
                      NEW v \in Targets(stack'[i]) \ todo[stack'[i]]
               PROVE  v \in recursive \/ v \in Finished' \/ (i < Len(stack') /\ v = stack'[i + 1])
    BY DEF FrameProgress, Return, Targets
  <2>1. i \in 1..Len(stack) /\ stack'[i] = stack[i]
    BY <1>1, <1>2
  <2>2. v \in recursive \/ v \in Finished \/ (i < Len(stack) /\ v = stack[i + 1])
    BY <2>1 DEF FrameProgress
  <2>3. CASE i < Len(stack')
    BY <1>1, <1>2, <1>5, <2>2, <2>3
  <2>4. CASE i = Len(stack')
    BY <1>1, <1>2, <1>5, <2>2, <2>4
  <2> QED
    BY <1>2, <2>3, <2>4
<1>12. Phases'
  <2>1. Top \in visited
    BY <1>5 DEF TypeOK
  <2> QED
    BY <1>1, <2>1, Popped DEF Phases, Return
<1>13. StackIsPath'
  <2>1. \A u \in Ids : Targets(u)' = Targets(u)
    BY DEF Return, Targets
  <2>2. \A i \in 1..(Len(stack') - 1) :
          /\ i \in 1..Len(stack') /\ i + 1 \in 1..Len(stack')
          /\ i \in 1..(Len(stack) - 1) /\ stack'[i] \in Ids
    BY <1>1, <1>2
  <2> QED
    BY <1>2, <2>1, <2>2 DEF StackIsPath, Return
<1> QED
  BY <1>3, <1>4, <1>9, <1>10, <1>11, <1>12, <1>13

(* The collections of the walk stay in step, and inlining descends: the     *)
(* inductive invariant of visit_schema holds in every reachable state.      *)
THEOREM IInvHolds == Spec => []IInv
<1>1. IInv /\ [Next]_vars => IInv'
  <2> SUFFICES ASSUME IInv, [Next]_vars PROVE IInv'
    OBVIOUS
  <2>1. CASE Start
    BY <2>1, StartIInv
  <2>2. CASE \E t \in Ids : BackEdge(t) \/ PassOver(t) \/ Descend(t)
    BY <2>2, BackEdgeIInv, PassOverIInv, DescendIInv
  <2>3. CASE Return
    BY <2>3, ReturnIInv
  <2>4. CASE UNCHANGED vars
    BY <2>4 DEF vars, IInv, TypeOK, StackAgrees, InlineDescends, Ranked,
                FrameProgress, StackIsPath, Phases, Finished, Targets
  <2> QED
    BY <2>1, <2>2, <2>3, <2>4 DEF Next
<1> QED
  BY <1>1, InitIInv, PTL DEF Spec

(* A nonempty set of naturals, indexed by the elements of a set, has a      *)
(* least element: what stands in for induction on the return order.         *)
LEMMA LeastRank ==
  ASSUME NEW C, C # {}, NEW f \in [C -> Nat]
  PROVE  \E u \in C : \A v \in C : ~ (f[v] < f[u])
<1> DEFINE R == OpToRel(<, Nat)
           T == {f[u] : u \in C}
<1>1. IsWellFoundedOn(R, Nat)
  BY NatLessThanWellFounded
<1>2. T \subseteq Nat /\ T # {}
  OBVIOUS
<1> HIDE DEF R
<1>3. \E x \in T : \A y \in T : ~ (<<y, x>> \in R)
  BY <1>1, <1>2, WFMin
<1>4. \A x, y \in Nat : (<<y, x>> \in R) <=> (y < x)
  BY DEF R, OpToRel
<1> QED
  BY <1>2, <1>3, <1>4

(* Every reference cycle the walk reached holds a block: what plan_ref and  *)
(* the lowering need in order to come back, for every graph.                *)
LEMMA IInvCuts == IInv => EveryCycleIsCut
<1> SUFFICES ASSUME IInv, pc = "done",
                    NEW C \in SUBSET visited,
                    C # {}, \A u \in C : Targets(u) \cap C # {},
                    C \cap recursive = {}
             PROVE  FALSE
  BY DEF EveryCycleIsCut
<1>1. onStack = {}
  BY DEF IInv, Phases, StackAgrees
<1>2. C \subseteq Finished /\ C \subseteq Ids
  BY <1>1 DEF Finished, IInv, TypeOK
<1>3. [u \in C |-> rank[u]] \in [C -> Nat]
  BY <1>2 DEF IInv, TypeOK
<1>4. PICK u \in C : \A v \in C : ~ ([w \in C |-> rank[w]][v] < [w \in C |-> rank[w]][u])
  BY <1>3, LeastRank
<1>5. PICK v \in Targets(u) \cap C : TRUE
  OBVIOUS
<1>6. rank[v] < rank[u]
  BY <1>2, <1>5 DEF IInv, InlineDescends
<1> QED
  BY <1>4, <1>5, <1>6

THEOREM CyclesAreCut == Spec => []EveryCycleIsCut
BY IInvHolds, IInvCuts, PTL

-----------------------------------------------------------------------------
(* No more calls are active than there are schemas: no id is on the stack   *)
(* twice.                                                                   *)
LEMMA StackFits == IInv => Len(stack) <= Cardinality(Ids)
<1> SUFFICES ASSUME IInv PROVE Len(stack) <= Cardinality(Ids)
  OBVIOUS
<1> DEFINE n == Len(stack)
           f == [i \in 1..n |-> stack[i]]
<1>1. n \in Nat /\ \A i \in 1..n : stack[i] \in Ids
  BY LenProperties, ElementOfSeq DEF IInv, TypeOK
<1>2. \A i, j \in 1..n : stack[i] = stack[j] => i = j
  BY DEF IInv, StackAgrees
<1> HIDE DEF n
<1>3. f \in [1..n -> Ids] /\ \A i, j \in 1..n : f[i] = f[j] => i = j
  BY <1>1, <1>2
<1> HIDE DEF f
<1>4. f \in Injection(1..n, Ids)
  BY <1>3, Fun_IsInj
<1>5. Cardinality(1..n) <= Cardinality(Ids)
  BY <1>4, FS_Injection, IdsAssumption
<1>6. Cardinality(1..n) = n
  BY <1>1, FS_Interval
<1> QED
  BY <1>5, <1>6 DEF n

(* A target found on the stack closes a walk through every frame above it.  *)
LEMMA BackEdgeClosesWalk ==
  ASSUME IInv, NEW k \in 1..Len(stack), NEW j \in k..Len(stack),
         stack[k] \in Targets(stack[Len(stack)])
  PROVE  \E w \in ClosedWalks :
           LET n == Cardinality(DOMAIN w) IN
           /\ w[1] = stack[j]
           /\ \A i \in 1..(n - 1) : w[i + 1] \in Targets(w[i])
           /\ stack[j] \in Targets(w[n])
<1> DEFINE n == Len(stack)
           m == n - k + 1
           At(i) == IF j + i - 1 <= n THEN j + i - 1 ELSE k + j + i - n - 2
           w == [i \in 1..m |-> stack[At(i)]]
<1>1. n \in Nat /\ \A i \in 1..n : stack[i] \in Ids
  BY LenProperties, ElementOfSeq DEF IInv, TypeOK
<1>2. \A i \in 1..(n - 1) : stack[i + 1] \in Targets(stack[i])
  BY DEF IInv, StackIsPath
<1>3. n <= Cardinality(Ids) /\ Cardinality(Ids) \in Nat
  BY StackFits, FS_CardinalityType, IdsAssumption
<1>4. stack[k] \in Targets(stack[n])
  OBVIOUS
<1>5. k \in 1..n /\ j \in k..n
  OBVIOUS
<1> HIDE DEF n
<1>6. m \in 1..Cardinality(Ids) /\ m \in Nat
  BY <1>1, <1>3, <1>5
<1>7. \A i \in 1..m : At(i) \in 1..n
  BY <1>1, <1>5
<1>8. w \in [1..m -> Ids]
  BY <1>1, <1>7
<1>9. DOMAIN w = 1..m /\ Cardinality(1..m) = m
  BY <1>6, FS_Interval
<1>10. w \in ClosedWalks
  BY <1>6, <1>8 DEF ClosedWalks
<1>11. w[1] = stack[j]
  BY <1>1, <1>5, <1>6
<1>12. \A i \in 1..(m - 1) : w[i + 1] \in Targets(w[i])
  <2> SUFFICES ASSUME NEW i \in 1..(m - 1) PROVE stack[At(i + 1)] \in Targets(stack[At(i)])
    BY <1>6
  <2>1. CASE j + i - 1 < n
    <3>1. At(i) = j + i - 1 /\ At(i + 1) = At(i) + 1 /\ At(i) \in 1..(n - 1)
      BY <1>1, <1>5, <2>1
    <3> QED
      BY <1>2, <3>1
  <2>2. CASE j + i - 1 = n
    <3>1. At(i) = n /\ At(i + 1) = k
      BY <1>1, <1>5, <2>2
    <3> QED
      BY <1>4, <3>1
  <2>3. CASE j + i - 1 > n
    <3>1. At(i + 1) = At(i) + 1 /\ At(i) \in 1..(n - 1)
      BY <1>1, <1>5, <2>3
    <3> QED
      BY <1>2, <3>1
  <2> QED
    BY <1>1, <1>5, <2>1, <2>2, <2>3
<1>13. stack[j] \in Targets(w[m])
  <2>1. w[m] = stack[At(m)]
    BY <1>6
  <2>2. CASE j = k
    <3>1. At(m) = n
      BY <1>1, <1>5, <2>2
    <3> QED
      BY <1>4, <2>1, <2>2, <3>1
  <2>3. CASE j # k
    <3>1. At(m) = j - 1 /\ j - 1 \in 1..(n - 1) /\ (j - 1) + 1 = j
      BY <1>1, <1>5, <2>3
    <3> QED
      BY <1>2, <2>1, <3>1
  <2> QED
    BY <2>2, <2>3
<1> HIDE DEF w, m
<1> QED
  BY <1>9, <1>10, <1>11, <1>12, <1>13

LEMMA BackEdgeCutsCycles ==
  ASSUME NEW t \in Ids PROVE IInv /\ OnlyCyclesAreCut /\ BackEdge(t) => OnlyCyclesAreCut'
<1> SUFFICES ASSUME IInv, OnlyCyclesAreCut, BackEdge(t), NEW r \in recursive'
             PROVE  \E w \in ClosedWalks :
                      LET n == Cardinality(DOMAIN w) IN
                      /\ w[1] = r
                      /\ \A i \in 1..(n - 1) : w[i + 1] \in Targets(w[i])
                      /\ r \in Targets(w[n])
  BY DEF OnlyCyclesAreCut, BackEdge, Targets
<1>1. CASE r \in recursive
  BY <1>1 DEF OnlyCyclesAreCut
<1>2. CASE r \in DownTo(t)
  <2>1. Len(stack) \in Nat
    BY LenProperties DEF IInv, TypeOK
  <2>2. PICK j \in 1..Len(stack) : r = stack[j] /\ \E k \in 1..j : stack[k] = t
    BY <1>2 DEF DownTo
  <2>3. PICK k \in 1..j : stack[k] = t
    BY <2>2
  <2>4. k \in 1..Len(stack) /\ j \in k..Len(stack)
    BY <2>1
  <2>5. t \in Targets(stack[Len(stack)])
    BY TopIsLast DEF BackEdge, IInv, StackIsPath
  <2> QED
    BY <2>2, <2>3, <2>4, <2>5, BackEdgeClosesWalk
<1> QED
  BY <1>1, <1>2 DEF BackEdge

(* Nothing is made a block without need: every marked id lies on a cycle of *)
(* references, so an acyclic reader is planned without any block.           *)
THEOREM OnlyCyclesHold == Spec => []OnlyCyclesAreCut
<1>1. Init => OnlyCyclesAreCut
  BY DEF Init, OnlyCyclesAreCut
<1>2. IInv /\ OnlyCyclesAreCut /\ [Next]_vars => OnlyCyclesAreCut'
  <2> SUFFICES ASSUME IInv, OnlyCyclesAreCut, [Next]_vars PROVE OnlyCyclesAreCut'
    OBVIOUS
  <2>1. CASE \E t \in Ids : BackEdge(t)
    BY <2>1, BackEdgeCutsCycles
  <2>2. CASE recursive' = recursive /\ refs' = refs
    BY <2>2 DEF OnlyCyclesAreCut, Targets
  <2> QED
    BY <2>1, <2>2 DEF Next, vars, Start, PassOver, Descend, Return
<1> QED
  BY <1>1, <1>2, IInvHolds, PTL DEF Spec
=============================================================================
