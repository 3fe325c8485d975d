------------------------ MODULE SelfDescribingProofs ------------------------
(***************************************************************************)
(* For every depth bound, every alphabet of cells and every message: the   *)
(* calls of dec_value never nest deeper than the bound allows, and a       *)
(* message that is accepted holds what its headers promise.  The depth     *)
(* bound is compared with a number that each call hands to the next one,   *)
(* and a claim with the bytes that are left; neither looks at the stack or *)
(* at the message as a whole.                                              *)
(***************************************************************************)
EXTENDS SelfDescribing, DataInduction, SequenceTheorems, FiniteSetTheorems, TLAPS

-----------------------------------------------------------------------------
(* A stack of calls: the root at the bottom, and each call's depth is its   *)
(* place in the stack.                                                      *)
IsCall(f) == f = [tag |-> f.tag, depth |-> f.depth, todo |-> f.todo, done |-> f.done, names |-> f.names]
DepthsAreTrue(fs) ==
  /\ IsSeq(fs) /\ fs # <<>>
  /\ fs[1].tag = "root"
  /\ \A i \in 1..Len(fs) : IsCall(fs[i]) /\ fs[i].depth = i - 2

DepthInv == DepthsAreTrue(frames) /\ StackIsBounded

(* What a call still waits for, and what all of them do: a call with one    *)
(* above it waits for the value of that one, which is not counted twice.    *)
Waits(f) == f.todo - Len(f.done)
Waiting(fs) == [i \in 1..Len(fs) |-> Waits(fs[i])]
Awaited(fs) == Totals(Waiting(fs))[Len(fs)] - Len(fs) + 1
Tallied(fs) ==
  /\ \A i \in 1..Len(fs) : IsSeq(fs[i].done) /\ fs[i].todo \in Int /\ Len(fs[i].done) <= fs[i].todo
  /\ \A i \in 1..Len(fs) - 1 : Len(fs[i].done) < fs[i].todo
  /\ \A i \in 2..Len(fs) : fs[i].tag # "root"

(* In the first reading, what was read and what is waited for add up to     *)
(* what the headers promised.                                               *)
CountInv ==
  first = <<>> =>
    /\ IsSeq(msg) /\ \A i \in 1..Len(msg) : Promise(msg[i]) \in Int
    /\ Tallied(frames)
    /\ out \in {"running", "ok"} => Held(msg) + Awaited(frames) = Promised(msg)
    /\ out = "ok" => Awaited(frames) = 0

-----------------------------------------------------------------------------
(* The stack, when its top is changed, or when it is pushed or popped.      *)
LEMMA TopOf ==
  ASSUME NEW fs, DepthsAreTrue(fs)
  PROVE  /\ Len(fs) \in Nat \ {0} /\ DOMAIN fs = 1..Len(fs) /\ Len(fs) \in DOMAIN fs
         /\ Last(fs) = fs[Len(fs)] /\ IsCall(Last(fs)) /\ Last(fs).depth = Len(fs) - 2
<1>1. Len(fs) \in Nat \ {0} /\ DOMAIN fs = 1..Len(fs)
  BY SeqDomain, ButLast DEF DepthsAreTrue
<1>2. Len(fs) \in 1..Len(fs)
  BY <1>1
<1> QED
  BY <1>1, <1>2 DEF DepthsAreTrue, Last

(* A call with other children or other names.                               *)
LEMMA CallWith ==
  ASSUME NEW f, IsCall(f), NEW x
  PROVE  /\ LET g == [f EXCEPT !.done = x]
            IN /\ IsCall(g) /\ g.tag = f.tag /\ g.depth = f.depth /\ g.todo = f.todo
               /\ g.done = x
         /\ LET g == [f EXCEPT !.names = x]
            IN /\ IsCall(g) /\ g.tag = f.tag /\ g.depth = f.depth /\ g.todo = f.todo
               /\ g.done = f.done
<1>1. \E a, b, c, d, e : f = [tag |-> a, depth |-> b, todo |-> c, done |-> d, names |-> e]
  BY DEF IsCall
<1>2. PICK a, b, c, d, e : f = [tag |-> a, depth |-> b, todo |-> c, done |-> d, names |-> e]
  BY <1>1
<1>3. /\ [f EXCEPT !.done = x] = [tag |-> a, depth |-> b, todo |-> c, done |-> x, names |-> e]
      /\ [f EXCEPT !.names = x] = [tag |-> a, depth |-> b, todo |-> c, done |-> d, names |-> x]
  BY <1>2
<1> QED
  BY <1>2, <1>3 DEF IsCall

(* Replacing the top call by one of its depth leaves every depth as it is.  *)
LEMMA TopKeepsDepths ==
  ASSUME NEW fs, DepthsAreTrue(fs), NEW top, IsCall(top),
         top.tag = fs[Len(fs)].tag, top.depth = fs[Len(fs)].depth
  PROVE  LET gs == [fs EXCEPT ![Len(fs)] = top]
         IN DepthsAreTrue(gs) /\ Len(gs) = Len(fs) /\ gs[Len(fs)] = top
            /\ \A i \in 1..Len(fs) - 1 : gs[i] = fs[i]
<1> DEFINE n == Len(fs)
           gs == [fs EXCEPT ![n] = top]
<1>1. n \in Nat \ {0} /\ n \in DOMAIN fs /\ DOMAIN fs = 1..n /\ IsSeq(fs)
  BY TopOf DEF DepthsAreTrue
<1>2. /\ IsSeq(gs) /\ Len(gs) = n /\ gs[n] = top
      /\ \A i \in 1..n : i # n => gs[i] = fs[i]
  BY <1>1, Replaced
<1> HIDE DEF gs
<1>3. \A i \in 1..n : IsCall(gs[i]) /\ gs[i].depth = i - 2 /\ gs[i].tag = fs[i].tag
  BY <1>2 DEF DepthsAreTrue
<1>4. 1 \in 1..n /\ n # 0 /\ \A i \in 1..n - 1 : i \in 1..n /\ i # n
  <2>1. n \in Nat \ {0}
    BY TopOf
  <2> HIDE DEF n
  <2> QED
    BY <2>1
<1>5. gs # <<>> /\ gs[1].tag = "root"
  BY <1>2, <1>3, <1>4 DEF DepthsAreTrue
<1> QED
  BY <1>2, <1>3, <1>4, <1>5 DEF DepthsAreTrue, gs

(* A value given to the top call is one such step,                          *)
LEMMA GivenKeepsDepths ==
  ASSUME NEW fs, DepthsAreTrue(fs), NEW v
  PROVE  LET gs == Given(fs, v)
             n == Len(fs)
         IN /\ DepthsAreTrue(gs) /\ Len(gs) = n
            /\ \A i \in 1..n - 1 : gs[i] = fs[i]
            /\ gs[n].tag = fs[n].tag /\ gs[n].todo = fs[n].todo /\ gs[n].done = Append(fs[n].done, v)
<1> DEFINE old == fs[Len(fs)]
           top == [old EXCEPT !.done = Append(old.done, v)]
<1>1. IsCall(old)
  BY TopOf
<1>2. /\ IsCall(top) /\ top.tag = old.tag /\ top.depth = old.depth /\ top.todo = old.todo
      /\ top.done = Append(old.done, v)
  BY <1>1, CallWith
<1>3. Given(fs, v) = [fs EXCEPT ![Len(fs)] = top]
  BY DEF Given
<1> HIDE DEF top
<1>4. LET gs == [fs EXCEPT ![Len(fs)] = top]
      IN DepthsAreTrue(gs) /\ Len(gs) = Len(fs) /\ gs[Len(fs)] = top
         /\ \A i \in 1..Len(fs) - 1 : gs[i] = fs[i]
  BY <1>2, TopKeepsDepths
<1> QED
  BY <1>2, <1>3, <1>4

(* and so is the name of a field.                                           *)
LEMMA NamedKeepsDepths ==
  ASSUME NEW fs, DepthsAreTrue(fs), NEW name
  PROVE  LET gs == [fs EXCEPT ![Len(fs)].names = Append(@, name)]
             n == Len(fs)
         IN /\ DepthsAreTrue(gs) /\ Len(gs) = n
            /\ \A i \in 1..n - 1 : gs[i] = fs[i]
            /\ gs[n].tag = fs[n].tag /\ gs[n].todo = fs[n].todo /\ gs[n].done = fs[n].done
<1> DEFINE old == fs[Len(fs)]
           top == [old EXCEPT !.names = Append(old.names, name)]
<1>1. IsCall(old)
  BY TopOf
<1>2. IsCall(top) /\ top.tag = old.tag /\ top.depth = old.depth /\ top.todo = old.todo /\ top.done = old.done
  BY <1>1, CallWith
<1>3. [fs EXCEPT ![Len(fs)].names = Append(@, name)] = [fs EXCEPT ![Len(fs)] = top]
  OBVIOUS
<1> HIDE DEF top
<1>4. LET gs == [fs EXCEPT ![Len(fs)] = top]
      IN DepthsAreTrue(gs) /\ Len(gs) = Len(fs) /\ gs[Len(fs)] = top
         /\ \A i \in 1..Len(fs) - 1 : gs[i] = fs[i]
  BY <1>2, TopKeepsDepths
<1> QED
  BY <1>2, <1>3, <1>4

(* A header starts a call one place higher, with a depth one larger.        *)
LEMMA PushKeepsDepths ==
  ASSUME NEW fs, DepthsAreTrue(fs), NEW c
  PROVE  LET f == Frame(c, Last(fs).depth + 1)
             gs == Append(fs, f)
         IN /\ DepthsAreTrue(gs) /\ Len(gs) = Len(fs) + 1
            /\ gs[Len(fs) + 1] = f /\ \A i \in 1..Len(fs) : gs[i] = fs[i]
<1> DEFINE n == Len(fs)
           f == Frame(c, Last(fs).depth + 1)
           gs == Append(fs, f)
<1>1. n \in Nat \ {0} /\ Last(fs).depth = n - 2 /\ IsSeq(fs)
  BY TopOf DEF DepthsAreTrue
<1>2. f.depth = n - 1 /\ IsCall(f)
  <2>1. f.depth = Last(fs).depth + 1 /\ IsCall(f)
    BY DEF Frame, IsCall
  <2> QED
    BY <1>1, <2>1
<1> HIDE DEF f
<1>3. IsSeq(gs) /\ Len(gs) = n + 1 /\ gs[n + 1] = f /\ \A i \in 1..n : gs[i] = fs[i]
  BY <1>1, Appended
<1> HIDE DEF gs
<1>4. ASSUME NEW i \in 1..(n + 1)
      PROVE  IsCall(gs[i]) /\ gs[i].depth = i - 2
  <2>1. CASE i = n + 1
    BY <1>1, <1>2, <1>3, <2>1
  <2>2. CASE i \in 1..n
    BY <1>3, <2>2 DEF DepthsAreTrue
  <2> QED
    BY <1>1, <2>1, <2>2
<1>5. gs # <<>> /\ gs[1].tag = "root"
  BY <1>1, <1>3 DEF DepthsAreTrue
<1>6. DepthsAreTrue(gs)
  BY <1>3, <1>4, <1>5 DEF DepthsAreTrue
<1> QED
  BY <1>3, <1>6 DEF f, gs

(* A call that is not the root has a caller, whose depth stays.             *)
LEMMA PopKeepsDepths ==
  ASSUME NEW fs, DepthsAreTrue(fs), Last(fs).tag # "root"
  PROVE  /\ DepthsAreTrue(Front(fs)) /\ Len(Front(fs)) = Len(fs) - 1
         /\ Len(fs) \in Nat \ {0, 1} /\ \A i \in 1..Len(fs) - 1 : Front(fs)[i] = fs[i]
<1> DEFINE n == Len(fs)
           gs == Front(fs)
<1>1. n \in Nat \ {0, 1}
  BY TopOf DEF DepthsAreTrue
<1>2. IsSeq(gs) /\ Len(gs) = n - 1 /\ \A i \in 1..(n - 1) : gs[i] = fs[i]
  BY ButLast DEF DepthsAreTrue, Front
<1> HIDE DEF gs
<1>3. gs # <<>> /\ gs[1].tag = "root"
  BY <1>1, <1>2 DEF DepthsAreTrue
<1>4. \A i \in 1..(n - 1) : i \in 1..n
  BY <1>1
<1>5. \A i \in 1..(n - 1) : IsCall(gs[i]) /\ gs[i].depth = i - 2
  BY <1>2, <1>4 DEF DepthsAreTrue
<1> QED
  BY <1>1, <1>2, <1>3, <1>5 DEF DepthsAreTrue, gs

(* The one call that waits when a reading starts is the root.               *)
LEMMA RootIsTrue == DepthsAreTrue(<<Root>>) /\ Len(<<Root>>) = 1
<1>1. IsSeq(<<Root>>) /\ Len(<<Root>>) = 1 /\ <<Root>>[1] = Root /\ <<Root>> # <<>>
  BY DEF IsSeq
<1>2. Root.tag = "root" /\ Root.depth = -1 /\ IsCall(Root)
  BY DEF Root, IsCall
<1> QED
  BY <1>1, <1>2 DEF DepthsAreTrue

-----------------------------------------------------------------------------
(* The depths.                                                              *)
LEMMA InitDepth == Init => DepthInv
BY RootIsTrue, LimitsAssumption DEF Init, DepthInv, StackIsBounded

(* A header is read only while the depth of the call that reads it is small *)
(* enough, and that depth is the height of the stack.                       *)
LEMMA ReadHeaderKeepsDepth == ASSUME DepthInv, ReadHeader PROVE DepthInv'
<1>1. PICK c \in Coming(Headers) :
        IF Claims(c, left - Size(c))
        THEN Take(c) /\ frames' = Append(frames, Frame(c, Top.depth + 1))
        ELSE Fail("length")
  BY DEF ReadHeader
<1>2. CASE frames' = Append(frames, Frame(c, Top.depth + 1))
  <2>1. DepthsAreTrue(frames') /\ Len(frames') = Len(frames) + 1
    BY <1>2, PushKeepsDepths DEF DepthInv, Top
  <2>2. Len(frames) \in Nat \ {0} /\ Top.depth = Len(frames) - 2
    BY TopOf DEF DepthInv, Top
  <2>3. Top.depth + 1 <= MaxDepth
    BY DEF ReadHeader, Shallow
  <2> QED
    BY <2>1, <2>2, <2>3, LimitsAssumption DEF DepthInv, StackIsBounded
<1>3. CASE UNCHANGED frames
  BY <1>3 DEF DepthInv, StackIsBounded
<1> QED
  BY <1>1, <1>2, <1>3 DEF Fail

(* Reading a scalar or a name changes the top call only.                    *)
LEMMA ReadScalarKeepsDepth == ASSUME DepthInv, ReadScalar PROVE DepthInv'
<1>1. PICK c \in Coming(Scalars[Top.depth + 1]) :
        frames' = frames \/ frames' = Given(frames, Folded(c))
  BY DEF ReadScalar, Fail
<1>2. CASE frames' = Given(frames, Folded(c))
  BY <1>2, GivenKeepsDepths DEF DepthInv, StackIsBounded
<1> QED
  BY <1>1, <1>2 DEF DepthInv, StackIsBounded

LEMMA ReadNameKeepsDepth == ASSUME DepthInv, ReadName PROVE DepthInv'
<1>1. PICK c \in Coming(Wanted) :
        \/ frames' = frames
        \/ frames' = [frames EXCEPT ![Len(frames)].names = Append(@, c.v[1])]
  BY DEF ReadName, Fail
<1>2. CASE frames' = [frames EXCEPT ![Len(frames)].names = Append(@, c.v[1])]
  BY <1>2, NamedKeepsDepths DEF DepthInv, StackIsBounded
<1> QED
  BY <1>1, <1>2 DEF DepthInv, StackIsBounded

(* A call returns to the one below it.                                      *)
LEMMA ReturnKeepsDepth == ASSUME DepthInv, Return PROVE DepthInv'
<1>1. frames' = frames \/ frames' = Given(Front(frames), Fold(Top))
  BY DEF Return, Fail
<1>2. CASE frames' = Given(Front(frames), Fold(Top))
  <2>1. /\ DepthsAreTrue(Front(frames)) /\ Len(Front(frames)) = Len(frames) - 1
        /\ Len(frames) \in Nat
    BY PopKeepsDepths DEF DepthInv, Return, Top
  <2>2. DepthsAreTrue(frames') /\ Len(frames') = Len(frames) - 1
    BY <1>2, <2>1, GivenKeepsDepths
  <2> QED
    BY <2>1, <2>2, LimitsAssumption DEF DepthInv, StackIsBounded
<1> QED
  BY <1>1, <1>2 DEF DepthInv, StackIsBounded

LEMMA NextDepth == DepthInv /\ [Next]_vars => DepthInv'
<1> SUFFICES ASSUME DepthInv, [Next]_vars PROVE DepthInv'
  OBVIOUS
<1>1. CASE TooDeep \/ Truncated \/ Finish \/ UNCHANGED vars
  <2>1. frames' = frames
    BY <1>1 DEF TooDeep, Truncated, Finish, Fail, vars
  <2> QED
    BY <2>1 DEF DepthInv, StackIsBounded
<1>2. CASE ReadScalar
  BY <1>2, ReadScalarKeepsDepth
<1>3. CASE ReadHeader
  BY <1>3, ReadHeaderKeepsDepth
<1>4. CASE ReadName
  BY <1>4, ReadNameKeepsDepth
<1>5. CASE Return
  BY <1>5, ReturnKeepsDepth
<1>6. CASE Rewrite
  BY <1>6, RootIsTrue, LimitsAssumption DEF Rewrite, DepthInv, StackIsBounded
<1> QED
  BY <1>1, <1>2, <1>3, <1>4, <1>5, <1>6 DEF Next

(***************************************************************************)
(* Each call's depth is its place in the stack, in every reading of every  *)
(* message and of everything that is written for a value.                  *)
(***************************************************************************)
THEOREM DepthsFollowTheStack == Spec => []DepthInv
BY InitDepth, NextDepth, PTL DEF Spec

(***************************************************************************)
(* check_depth bounds the native stack: no message, however it nests, lets *)
(* more calls wait on each other than the bound allows.                    *)
(***************************************************************************)
THEOREM DepthBoundsTheStack == Spec => []StackIsBounded
<1>1. DepthInv => StackIsBounded
  BY DEF DepthInv
<1> QED
  BY <1>1, DepthsFollowTheStack, PTL

-----------------------------------------------------------------------------
(* What the calls wait for.                                                 *)
LEMMA AwaitedFacts ==
  ASSUME NEW fs, DepthsAreTrue(fs), Tallied(fs)
  PROVE  /\ IsNumbers(Waiting(fs)) /\ Len(Waiting(fs)) = Len(fs) /\ Awaited(fs) \in Int
         /\ \A i \in 1..Len(fs) : Waits(fs[i]) \in Nat /\ Waiting(fs)[i] = Waits(fs[i])
         /\ Totals(Waiting(fs))[Len(fs) - 1] \in Int
         /\ Awaited(fs) = Totals(Waiting(fs))[Len(fs) - 1] + Waits(fs[Len(fs)]) - Len(fs) + 1
<1> DEFINE n == Len(fs)
           w == Waiting(fs)
<1>1. n \in Nat \ {0} /\ n \in 1..n /\ n - 1 \in 0..n
  BY TopOf
<1>2. \A i \in 1..n : Waits(fs[i]) \in Nat
  <2> SUFFICES ASSUME NEW i \in 1..n PROVE Waits(fs[i]) \in Nat
    OBVIOUS
  <2>1. Len(fs[i].done) \in Nat /\ fs[i].todo \in Int /\ Len(fs[i].done) <= fs[i].todo
    BY DEF Tallied, IsSeq
  <2> QED
    BY <2>1 DEF Waits
<1>3. w = [i \in 1..n |-> w[i]] /\ \A i \in 1..n : w[i] = Waits(fs[i])
  BY DEF Waiting
<1>4. IsNumbers(w) /\ Len(w) = n
  <2> HIDE DEF w
  <2> QED
    BY <1>1, <1>2, <1>3, FunctionIsSeq DEF IsNumbers
<1>5. Totals(w)[n] = Totals(w)[n - 1] + w[n] /\ Totals(w)[n - 1] \in Int
  <2> HIDE DEF w, n
  <2> QED
    BY <1>1, <1>4, TotalsFacts
<1>6. Awaited(fs) = Totals(w)[n - 1] + Waits(fs[n]) - n + 1
  <2>1. Awaited(fs) = Totals(w)[n] - n + 1
    BY DEF Awaited
  <2>2. w[n] = Waits(fs[n]) /\ Waits(fs[n]) \in Nat
    BY <1>1, <1>2, <1>3
  <2> HIDE DEF w, n
  <2> QED
    BY <1>1, <1>5, <2>1, <2>2
<1>7. Awaited(fs) \in Int
  <2> HIDE DEF w
  <2> QED
    BY <1>1, <1>2, <1>5, <1>6
<1> QED
  BY <1>2, <1>3, <1>4, <1>5, <1>6, <1>7

(* Stacks that agree below a place.                                         *)
LEMMA AwaitedBelow ==
  ASSUME NEW fs, DepthsAreTrue(fs), Tallied(fs), NEW gs, DepthsAreTrue(gs), Tallied(gs),
         NEW n \in Nat, n <= Len(fs), n <= Len(gs), \A i \in 1..n : gs[i] = fs[i]
  PROVE  Totals(Waiting(gs))[n] = Totals(Waiting(fs))[n]
<1>1. /\ IsNumbers(Waiting(fs)) /\ Len(Waiting(fs)) = Len(fs)
      /\ IsNumbers(Waiting(gs)) /\ Len(Waiting(gs)) = Len(gs)
  BY AwaitedFacts
<1>2. Len(fs) \in Nat /\ Len(gs) \in Nat
  BY TopOf
<1>3. \A i \in 1..n : Waiting(gs)[i] = Waiting(fs)[i]
  <2>1. \A i \in 1..n : i \in 1..Len(fs) /\ i \in 1..Len(gs)
    BY <1>2
  <2> QED
    BY <2>1 DEF Waiting
<1> QED
  BY <1>1, <1>3, TotalsAgree

(* A value that comes is no longer waited for.                              *)
LEMMA GivenAwaits ==
  ASSUME NEW fs, DepthsAreTrue(fs), Tallied(fs), NEW v, Len(fs[Len(fs)].done) < fs[Len(fs)].todo
  PROVE  Tallied(Given(fs, v)) /\ Awaited(Given(fs, v)) = Awaited(fs) - 1
<1> DEFINE n == Len(fs)
           gs == Given(fs, v)
           old == fs[n]
<1>1. /\ DepthsAreTrue(gs) /\ Len(gs) = n /\ \A i \in 1..n - 1 : gs[i] = fs[i]
      /\ gs[n].tag = old.tag /\ gs[n].todo = old.todo /\ gs[n].done = Append(old.done, v)
  BY GivenKeepsDepths
<1>2. n \in Nat \ {0} /\ n \in 1..n
  BY TopOf
<1>3. IsSeq(old.done) /\ old.todo \in Int /\ Len(old.done) \in Nat
  BY <1>2 DEF Tallied, IsSeq
<1>4. IsSeq(gs[n].done) /\ Len(gs[n].done) = Len(old.done) + 1
  BY <1>1, <1>3, Appended
<1> HIDE DEF gs
<1>5. Tallied(gs)
  <2>1. ASSUME NEW i \in 1..n
        PROVE  /\ IsSeq(gs[i].done) /\ gs[i].todo \in Int /\ Len(gs[i].done) <= gs[i].todo
               /\ gs[i].tag = fs[i].tag
    <3>1. CASE i = n
      <4>1. Len(gs[n].done) <= gs[n].todo
        BY <1>1, <1>3, <1>4
      <4> QED
        BY <1>1, <1>3, <1>4, <3>1, <4>1
    <3>2. CASE i \in 1..n - 1
      BY <1>1, <3>2 DEF Tallied
    <3> QED
      BY <1>2, <3>1, <3>2
  <2>2. \A i \in 2..n : i \in 1..n
    OBVIOUS
  <2> QED
    BY <1>1, <2>1, <2>2 DEF Tallied
<1>6. Totals(Waiting(gs))[n - 1] = Totals(Waiting(fs))[n - 1]
  <2>1. n - 1 \in Nat /\ n - 1 <= Len(fs) /\ n - 1 <= Len(gs)
    BY <1>1, <1>2
  <2> QED
    BY <1>1, <1>5, <2>1, AwaitedBelow
<1>7. Waits(gs[n]) = Waits(old) - 1
  BY <1>1, <1>3, <1>4 DEF Waits
<1>8. /\ Awaited(fs) = Totals(Waiting(fs))[n - 1] + Waits(old) - n + 1
      /\ Totals(Waiting(fs))[n - 1] \in Int /\ Waits(old) \in Nat
  BY <1>2, AwaitedFacts
<1>9. Awaited(gs) = Totals(Waiting(gs))[n - 1] + Waits(gs[n]) - n + 1
  BY <1>1, <1>5, AwaitedFacts
<1> QED
  BY <1>2, <1>5, <1>6, <1>7, <1>8, <1>9 DEF gs

(* A name is waited for by nobody.                                          *)
LEMMA NamedAwaits ==
  ASSUME NEW fs, DepthsAreTrue(fs), Tallied(fs), NEW name
  PROVE  LET gs == [fs EXCEPT ![Len(fs)].names = Append(@, name)]
         IN Tallied(gs) /\ Awaited(gs) = Awaited(fs)
<1> DEFINE n == Len(fs)
           gs == [fs EXCEPT ![n].names = Append(@, name)]
<1>1. /\ DepthsAreTrue(gs) /\ Len(gs) = n /\ \A i \in 1..n - 1 : gs[i] = fs[i]
      /\ gs[n].tag = fs[n].tag /\ gs[n].todo = fs[n].todo /\ gs[n].done = fs[n].done
  BY NamedKeepsDepths
<1> HIDE DEF gs
<1>2. n \in Nat \ {0}
  BY TopOf
<1>3. \A i \in 1..n : gs[i].tag = fs[i].tag /\ gs[i].todo = fs[i].todo /\ gs[i].done = fs[i].done
  <2>1. \A i \in 1..n : i = n \/ i \in 1..n - 1
    BY <1>2
  <2> QED
    BY <1>1, <2>1
<1>4. Tallied(gs)
  <2>1. (\A i \in 2..n : i \in 1..n) /\ \A i \in 1..n - 1 : i \in 1..n
    BY <1>2
  <2> QED
    BY <1>1, <1>3, <2>1 DEF Tallied
<1>5. Waiting(gs) = Waiting(fs)
  BY <1>1, <1>3 DEF Waiting, Waits
<1> QED
  BY <1>1, <1>4, <1>5 DEF Awaited, gs

(* A call waits for its children instead of being waited for once.          *)
LEMMA PushAwaits ==
  ASSUME NEW fs, DepthsAreTrue(fs), Tallied(fs), Len(fs[Len(fs)].done) < fs[Len(fs)].todo,
         NEW c, c.tag # "root", Children(c) \in Nat
  PROVE  LET gs == Append(fs, Frame(c, Last(fs).depth + 1))
         IN Tallied(gs) /\ Awaited(gs) = Awaited(fs) + Children(c) - 1
<1> DEFINE n == Len(fs)
           f == Frame(c, Last(fs).depth + 1)
           gs == Append(fs, f)
<1>1. DepthsAreTrue(gs) /\ Len(gs) = n + 1 /\ gs[n + 1] = f /\ \A i \in 1..n : gs[i] = fs[i]
  BY PushKeepsDepths
<1>2. f.tag = c.tag /\ f.todo = Children(c) /\ f.done = <<>>
  BY DEF Frame
<1> HIDE DEF f, gs
<1>3. n \in Nat \ {0} /\ n \in 1..n
  BY TopOf
<1>4. IsSeq(f.done) /\ Len(f.done) = 0 /\ Waits(f) = Children(c)
  BY <1>2 DEF IsSeq, Waits
<1>5. Tallied(gs)
  <2>1. ASSUME NEW i \in 1..n + 1
        PROVE  /\ IsSeq(gs[i].done) /\ gs[i].todo \in Int /\ Len(gs[i].done) <= gs[i].todo
               /\ i # n + 1 => Len(gs[i].done) < gs[i].todo
               /\ i # 1 => gs[i].tag # "root"
    <3>1. CASE i = n + 1
      BY <1>1, <1>2, <1>4, <3>1
    <3>2. CASE i = n
      BY <1>1, <1>3, <3>2 DEF Tallied
    <3>3. CASE i \in 1..n - 1
      BY <1>1, <1>3, <3>3 DEF Tallied
    <3> QED
      BY <1>3, <3>1, <3>2, <3>3
  <2>2. /\ \A i \in 2..n + 1 : i \in 1..n + 1 /\ i # 1
        /\ (n + 1) - 1 = n /\ \A i \in 1..n : i \in 1..n + 1 /\ i # n + 1
    BY <1>3
  <2> QED
    BY <1>1, <2>1, <2>2 DEF Tallied
<1>6. Totals(Waiting(gs))[n] = Totals(Waiting(fs))[n]
  BY <1>1, <1>3, <1>5, AwaitedBelow
<1>7. Awaited(gs) = Totals(Waiting(gs))[n] + Waits(f) - (n + 1) + 1
  <2>1. (n + 1) - 1 = n
    BY <1>3
  <2> QED
    BY <1>1, <1>5, <2>1, AwaitedFacts
<1>8. Awaited(fs) = Totals(Waiting(fs))[n] - n + 1
  BY DEF Awaited
<1>9. Totals(Waiting(fs))[n] \in Int
  BY <1>3, AwaitedFacts, TotalsFacts
<1>10. Awaited(gs) = Awaited(fs) + Children(c) - 1
  <2> DEFINE t == Totals(Waiting(fs))[n]
  <2>1. Awaited(gs) = t + Children(c) - (n + 1) + 1 /\ Awaited(fs) = t - n + 1 /\ t \in Int
    BY <1>4, <1>6, <1>7, <1>8, <1>9
  <2> HIDE DEF n, t
  <2> QED
    BY <1>3, <2>1
<1> QED
  BY <1>5, <1>10 DEF gs, f

(* A call that waits for nothing goes, and is waited for again.             *)
LEMMA PopAwaits ==
  ASSUME NEW fs, DepthsAreTrue(fs), Tallied(fs), Last(fs).tag # "root", Waits(Last(fs)) = 0
  PROVE  LET gs == Front(fs)
         IN /\ DepthsAreTrue(gs) /\ Tallied(gs) /\ Awaited(gs) = Awaited(fs) + 1
            /\ Len(gs[Len(gs)].done) < gs[Len(gs)].todo
<1> DEFINE n == Len(fs)
           gs == Front(fs)
           m == n - 1
<1>1. /\ DepthsAreTrue(gs) /\ Len(gs) = m /\ n \in Nat \ {0, 1}
      /\ \A i \in 1..m : gs[i] = fs[i]
  BY PopKeepsDepths
<1> HIDE DEF gs
<1>2. m \in Nat \ {0} /\ m \in 1..m /\ n = m + 1 /\ Last(fs) = fs[n]
  BY <1>1 DEF Last
<1>3. /\ \A i \in 1..m : i \in 1..n /\ i \in 1..n - 1
      /\ \A i \in 2..m : i \in 1..m /\ i \in 2..n
      /\ \A i \in 1..m - 1 : i \in 1..m
  BY <1>1
<1>4. Tallied(gs)
  BY <1>1, <1>3 DEF Tallied
<1>5. Len(gs[m].done) < gs[m].todo
  BY <1>1, <1>2, <1>3 DEF Tallied
<1>6. Totals(Waiting(gs))[m] = Totals(Waiting(fs))[m]
  <2>1. m \in Nat /\ m <= Len(fs) /\ m <= Len(gs)
    BY <1>1, <1>2
  <2> QED
    BY <1>1, <1>4, <2>1, AwaitedBelow
<1>7. Awaited(gs) = Totals(Waiting(gs))[m] - m + 1
  BY <1>1 DEF Awaited
<1>8. Awaited(fs) = Totals(Waiting(fs))[m] + 0 - n + 1 /\ Totals(Waiting(fs))[m] \in Int
  BY <1>2, AwaitedFacts
<1>9. Awaited(gs) = Awaited(fs) + 1
  <2> HIDE DEF m, n
  <2> QED
    BY <1>2, <1>6, <1>7, <1>8
<1> QED
  BY <1>1, <1>4, <1>5, <1>9 DEF gs

-----------------------------------------------------------------------------
(* What a message holds and promises.                                       *)
LEMMA Volumes ==
  ASSUME NEW dims \in Seq(Nat)
  PROVE  /\ Product(dims) \in Int /\ Volume(dims) \in Int
         /\ Product(dims) # -1 => Product(dims) = Volume(dims)
<1> DEFINE n == Len(dims)
           times == [i \in 1..n |-> [x \in Int |-> x * dims[i]]]
           Partial(r) == [i \in 0..n |-> IF i = 0 THEN 1 ELSE r[i - 1] * dims[i]]
           volume == CHOOSE r : r = Partial(r)
           checked == [i \in 1..n |-> [x \in Int |-> IF x = -1 \/ x * dims[i] > MaxWord THEN -1
                                                     ELSE x * dims[i]]]
           Products(r) == [i \in 0..n |-> IF i = 0 THEN 1
                                          ELSE IF r[i - 1] = -1 \/ r[i - 1] * dims[i] > MaxWord THEN -1
                                          ELSE r[i - 1] * dims[i]]
           product == CHOOSE r : r = Products(r)
<1>1. n \in Nat /\ \A i \in 1..n : dims[i] \in Nat
  OBVIOUS
<1>2. Volume(dims) = volume[n] /\ Product(dims) = product[n]
  BY DEF Volume, Product
<1> HIDE DEF n
<1>3. \A i \in 1..n : i - 1 \in 0..n /\ i \in 0..n
  BY <1>1
<1>4. volume \in [0..n -> Int] /\ volume[0] = 1 /\ \A i \in 1..n : volume[i] = volume[i - 1] * dims[i]
  <2>1. StepsOn(Int, n, times)
    BY <1>1 DEF StepsOn
  <2> HIDE DEF times
  <2>2. PICK g : SolvedBy(g, Int, 1, n, times)
    <3>1. 1 \in Int
      OBVIOUS
    <3> QED
      BY <2>1, <3>1, Recursion, Zenon
  <2>3. g \in [0..n -> Int] /\ g[0] = 1 /\ \A i \in 1..n : g[i] = g[i - 1] * dims[i]
    BY <1>3, <2>2 DEF SolvedBy, times
  <2>4. g = Partial(g)
    <3>1. \A i \in 0..n : g[i] = IF i = 0 THEN 1 ELSE g[i - 1] * dims[i]
      BY <1>1, <2>3
    <3> QED
      BY <2>3, <3>1
  <2>5. volume = Partial(volume)
    <3> HIDE DEF Partial
    <3> QED
      BY <2>4
  <2> HIDE DEF volume
  <2>6. volume[0] = 1 /\ \A i \in 1..n : volume[i] = volume[i - 1] * dims[i]
    <3>1. \A i \in 0..n : volume[i] = IF i = 0 THEN 1 ELSE volume[i - 1] * dims[i]
      BY <2>5
    <3> QED
      BY <1>1, <1>3, <3>1
  <2> DEFINE T == {i \in 0..n : volume[i] \in Int}
  <2>7. 0 \in T /\ \A i \in 0..n - 1 : i \in T => i + 1 \in T
    <3>1. 0 \in T
      BY <1>1, <2>6
    <3>2. ASSUME NEW i \in 0..n - 1, i \in T PROVE i + 1 \in T
      <4>1. i + 1 \in 1..n /\ i + 1 \in 0..n /\ (i + 1) - 1 = i
        BY <1>1
      <4>2. volume[i + 1] = volume[i] * dims[i + 1]
        BY <2>6, <4>1
      <4>3. volume[i] \in Int /\ dims[i + 1] \in Nat
        BY <1>1, <3>2, <4>1
      <4>4. volume[i + 1] \in Int
        BY <4>2, <4>3
      <4> QED
        BY <4>1, <4>4
    <3> HIDE DEF T
    <3> QED
      BY <3>1, <3>2
  <2> HIDE DEF T
  <2>8. \A i \in 0..n : i \in T
    BY <1>1, <2>7, BoundedInduction
  <2>9. \A i \in 0..n : volume[i] \in Int
    BY <2>8 DEF T
  <2>10. volume = [i \in 0..n |-> volume[i]]
    BY <2>5
  <2> QED
    BY <2>6, <2>9, <2>10
<1>5. /\ product[0] = 1
      /\ \A i \in 1..n : product[i] = IF product[i - 1] = -1 \/ product[i - 1] * dims[i] > MaxWord THEN -1
                                      ELSE product[i - 1] * dims[i]
  <2>1. StepsOn(Int, n, checked)
    BY <1>1 DEF StepsOn
  <2> HIDE DEF checked
  <2>2. PICK g : SolvedBy(g, Int, 1, n, checked)
    <3>1. 1 \in Int
      OBVIOUS
    <3> QED
      BY <2>1, <3>1, Recursion, Zenon
  <2>3. /\ g \in [0..n -> Int] /\ g[0] = 1
        /\ \A i \in 1..n : g[i] = IF g[i - 1] = -1 \/ g[i - 1] * dims[i] > MaxWord THEN -1
                                  ELSE g[i - 1] * dims[i]
    BY <1>3, <2>2 DEF SolvedBy, checked
  <2>4. g = Products(g)
    <3>1. \A i \in 0..n : g[i] = IF i = 0 THEN 1
                                 ELSE IF g[i - 1] = -1 \/ g[i - 1] * dims[i] > MaxWord THEN -1
                                 ELSE g[i - 1] * dims[i]
      <4>1. \A i \in 0..n : i = 0 \/ (i # 0 /\ i \in 1..n)
        BY <1>1
      <4> QED
        BY <2>3, <4>1, Zenon
    <3> QED
      BY <2>3, <3>1
  <2>5. product = Products(product)
    <3> HIDE DEF Products
    <3> QED
      BY <2>4
  <2> HIDE DEF product
  <2>6. \A i \in 0..n : product[i] = IF i = 0 THEN 1
                                     ELSE IF product[i - 1] = -1 \/ product[i - 1] * dims[i] > MaxWord THEN -1
                                     ELSE product[i - 1] * dims[i]
    BY <2>5
  <2> QED
    BY <1>1, <1>3, <2>6
<1> HIDE DEF volume, product
<1>6. \A i \in 0..n : product[i] = -1 \/ product[i] = volume[i]
  <2> DEFINE T == {i \in 0..n : product[i] = -1 \/ product[i] = volume[i]}
  <2>1. 0 \in T
    BY <1>1, <1>4, <1>5
  <2>2. ASSUME NEW i \in 0..n - 1, i \in T PROVE i + 1 \in T
    <3>1. i + 1 \in 1..n /\ i + 1 \in 0..n /\ (i + 1) - 1 = i
      BY <1>1
    <3>2. /\ product[i + 1] = IF product[i] = -1 \/ product[i] * dims[i + 1] > MaxWord THEN -1
                              ELSE product[i] * dims[i + 1]
          /\ volume[i + 1] = volume[i] * dims[i + 1]
      BY <1>4, <1>5, <3>1
    <3>3. product[i] = -1 \/ product[i] = volume[i]
      BY <2>2
    <3>4. product[i + 1] = -1 \/ product[i + 1] = volume[i + 1]
      BY <3>2, <3>3, Zenon
    <3> QED
      BY <3>1, <3>4
  <2> HIDE DEF T
  <2>3. \A i \in 0..n - 1 : i \in T => i + 1 \in T
    BY <2>2
  <2>4. \A i \in 0..n : i \in T
    BY <1>1, <2>1, <2>3, BoundedInduction
  <2> QED
    BY <2>4 DEF T
<1>7. n \in 0..n
  BY <1>1
<1> QED
  BY <1>2, <1>4, <1>6, <1>7

(* A claim that is let through is what the header promises.                 *)
LEMMA ClaimsAreExact ==
  ASSUME NEW c \in Containers, NEW rest, Claims(c, rest)
  PROVE  Children(c) \in Nat /\ Promise(c) = Children(c) /\ c.tag \notin {"name", "root"}
<1>1. Children(c) >= 0
  BY DEF Claims
<1>2. CASE \E t \in {"list", "tuple", "set", "map"}, n \in Counts : c = Counted(t, n)
  <2>1. PICK t \in {"list", "tuple", "set", "map"}, n \in Counts : c = Counted(t, n)
    BY <1>2
  <2>2. n \in Nat /\ c.tag = t /\ c.n = n
    BY <2>1, CellsAssumption DEF Counted
  <2>3. Container(c.tag) /\ 2 * n \in Nat
    BY <2>2 DEF Container
  <2> QED
    BY <2>2, <2>3 DEF Children, Promise
<1>3. CASE \E t \in {"array", "tensor"}, ds \in Dims : c = Dimensioned(t, ds)
  <2>1. PICK t \in {"array", "tensor"}, ds \in Dims : c = Dimensioned(t, ds)
    BY <1>3
  <2>2. ds \in Seq(Nat) /\ c.tag = t /\ c.dims = ds
    BY <2>1, CellsAssumption DEF Dimensioned
  <2>3. Container(c.tag) /\ Children(c) = Product(ds) /\ Promise(c) = Volume(ds)
    BY <2>2 DEF Container, Children, Promise
  <2>4. Product(ds) \in Int /\ (Product(ds) # -1 => Product(ds) = Volume(ds))
    BY <2>2, Volumes
  <2> QED
    BY <1>1, <2>2, <2>3, <2>4
<1>4. CASE \E n \in Counts : c = Named("struct", "S", n)
  <2>1. PICK n \in Counts : c = Named("struct", "S", n)
    BY <1>4
  <2>2. n \in Nat /\ c.tag = "struct" /\ c.n = n
    BY <2>1, CellsAssumption DEF Named
  <2> QED
    BY <2>2 DEF Container, Children, Promise
<1>5. CASE (\E a \in Names : c = Named("enum", a, 0)) \/ c = Counted("some", 0)
  <2>1. c.tag \in {"enum", "some"}
    BY <1>5 DEF Named, Counted
  <2> QED
    BY <2>1 DEF Container, Children, Promise
<1> QED
  BY <1>2, <1>3, <1>4, <1>5 DEF Containers

(* One more cell.                                                           *)
LEMMA HeldOfNone == Held(<<>>) = 0 /\ Promised(<<>>) = 1
<1>1. {i \in 1..Len(<<>>) : <<>>[i].tag # "name"} = {}
  OBVIOUS
<1>2. Held(<<>>) = 0
  BY <1>1, FS_EmptySet DEF Held
<1> DEFINE s == [i \in 1..Len(<<>>) |-> Promise(<<>>[i])]
<1>3. s = [i \in 1..0 |-> s[i]]
  OBVIOUS
<1>4. Promised(<<>>) = 1 + Totals(s)[0]
  BY DEF Promised, Sums, Totals
<1>5. Totals(s)[0] = 0
  <2> HIDE DEF s
  <2>1. IsSeq(s) /\ Len(s) = 0
    BY <1>3, FunctionIsSeq
  <2>2. IsNumbers(s)
    BY <2>1 DEF IsNumbers
  <2> QED
    BY <2>2, TotalsFacts
<1> QED
  BY <1>2, <1>4, <1>5

LEMMA HeldWithOneMore ==
  ASSUME NEW cells, IsSeq(cells), NEW c
  PROVE  /\ Held(cells) \in Nat
         /\ Held(Append(cells, c)) = Held(cells) + IF c.tag = "name" THEN 0 ELSE 1
<1> DEFINE n == Len(cells)
           more == Append(cells, c)
           S == {i \in 1..n : cells[i].tag # "name"}
           T == {i \in 1..n + 1 : more[i].tag # "name"}
<1>1. n \in Nat /\ Len(more) = n + 1 /\ more[n + 1] = c /\ \A i \in 1..n : more[i] = cells[i]
  BY Appended
<1> HIDE DEF more
<1>2. Held(cells) = Cardinality(S) /\ Held(more) = Cardinality(T)
  BY <1>1 DEF Held
<1>3. IsFiniteSet(S) /\ Cardinality(S) \in Nat /\ n + 1 \notin S
  <2>1. IsFiniteSet(1..n)
    BY <1>1, FS_Interval
  <2>2. IsFiniteSet(S)
    BY <2>1, FS_Subset
  <2>3. Cardinality(S) \in Nat
    BY <2>2, FS_CardinalityType
  <2> QED
    BY <1>1, <2>2, <2>3
<1>4. T = IF c.tag = "name" THEN S ELSE S \cup {n + 1}
  <2>1. \A i \in 1..n + 1 : i \in 1..n \/ i = n + 1
    BY <1>1
  <2>2. \A i \in 1..n : i \in 1..n + 1 /\ i # n + 1
    BY <1>1
  <2>3. n + 1 \in 1..n + 1
    BY <1>1
  <2> QED
    BY <1>1, <2>1, <2>2, <2>3
<1>5. c.tag # "name" => Cardinality(S \cup {n + 1}) = Cardinality(S) + 1
  <2> HIDE DEF S
  <2> QED
    BY <1>3, FS_AddElement
<1> HIDE DEF S, T
<1> QED
  BY <1>2, <1>3, <1>4, <1>5 DEF more

LEMMA PromisedWithOneMore ==
  ASSUME NEW cells, IsSeq(cells), \A i \in 1..Len(cells) : Promise(cells[i]) \in Int,
         NEW c, Promise(c) \in Int
  PROVE  /\ Promised(cells) \in Int
         /\ Promised(Append(cells, c)) = Promised(cells) + Promise(c)
         /\ \A i \in 1..Len(Append(cells, c)) : Promise(Append(cells, c)[i]) \in Int
<1> DEFINE n == Len(cells)
           more == Append(cells, c)
           s == [i \in 1..n |-> Promise(cells[i])]
           t == [i \in 1..Len(more) |-> Promise(more[i])]
<1>1. n \in Nat /\ Len(more) = n + 1 /\ more[n + 1] = c /\ \A i \in 1..n : more[i] = cells[i]
  BY Appended
<1> HIDE DEF more
<1>2. \A i \in 1..n + 1 : Promise(more[i]) \in Int
  <2>1. \A i \in 1..n + 1 : i \in 1..n \/ i = n + 1
    BY <1>1
  <2> QED
    BY <1>1, <2>1
<1>3. s = [i \in 1..n |-> s[i]] /\ \A i \in 1..n : s[i] \in Int
  OBVIOUS
<1>4. t = [i \in 1..n + 1 |-> t[i]] /\ (\A i \in 1..n + 1 : t[i] \in Int)
  BY <1>1, <1>2
<1>5. t[n + 1] = Promise(c) /\ \A i \in 1..n : t[i] = s[i]
  <2>1. n + 1 \in 1..n + 1 /\ \A i \in 1..n : i \in 1..n + 1
    BY <1>1
  <2> QED
    BY <1>1, <2>1
<1>6. Promised(cells) = 1 + Totals(s)[n] /\ Promised(more) = 1 + Totals(t)[n + 1]
  BY <1>1 DEF Promised, Sums, Totals
<1> HIDE DEF s, t
<1>7. IsNumbers(s) /\ Len(s) = n /\ IsNumbers(t) /\ Len(t) = n + 1
  BY <1>1, <1>3, <1>4, FunctionIsSeq DEF IsNumbers
<1>8. n + 1 \in 1..n + 1 /\ (n + 1) - 1 = n /\ n \in 0..n /\ n <= n + 1
  BY <1>1
<1>9. Totals(t)[n] = Totals(s)[n]
  <2> HIDE DEF n, more
  <2>1. n <= Len(s) /\ n <= Len(t) /\ \A i \in 1..n : t[i] = s[i]
    BY <1>1, <1>5, <1>7
  <2> QED
    BY <1>1, <1>7, <2>1, TotalsAgree
<1>10. Totals(t)[n + 1] = Totals(t)[n] + Promise(c) /\ Totals(s)[n] \in Int
  <2>1. Totals(t)[n + 1] = Totals(t)[(n + 1) - 1] + t[n + 1]
    BY <1>7, <1>8, TotalsFacts
  <2>2. Totals(s)[n] \in Int
    BY <1>7, <1>8, TotalsFacts
  <2> QED
    BY <1>5, <1>8, <2>1, <2>2
<1> QED
  BY <1>1, <1>2, <1>6, <1>9, <1>10 DEF more

-----------------------------------------------------------------------------
(* The counts.                                                              *)
LEMMA InitCount == Init => CountInv
<1> SUFFICES ASSUME Init PROVE CountInv
  OBVIOUS
<1> DEFINE fs == <<Root>>
<1>1. msg = <<>> /\ frames = fs /\ out = "running"
  BY DEF Init
<1>2. DepthsAreTrue(fs) /\ Len(fs) = 1 /\ fs[1] = Root
  BY RootIsTrue
<1>3. Root.todo = 1 /\ Root.done = <<>> /\ Len(Root.done) = 0 /\ IsSeq(Root.done)
  BY DEF Root, IsSeq
<1> HIDE DEF fs
<1>4. Tallied(fs)
  BY <1>2, <1>3 DEF Tallied
<1>5. Awaited(fs) = Totals(Waiting(fs))[0] + 1 - 1 + 1
  <2>1. Waits(Root) = 1
    BY <1>3 DEF Waits
  <2>2. Awaited(fs) = Totals(Waiting(fs))[Len(fs) - 1] + Waits(fs[Len(fs)]) - Len(fs) + 1
    BY <1>2, <1>4, AwaitedFacts
  <2> QED
    BY <1>2, <2>1, <2>2
<1>6. Totals(Waiting(fs))[0] = 0
  BY <1>2, <1>4, AwaitedFacts, TotalsFacts
<1>7. Held(msg) + Awaited(frames) = Promised(msg)
  BY <1>1, <1>5, <1>6, HeldOfNone
<1>8. IsSeq(msg) /\ \A i \in 1..Len(msg) : Promise(msg[i]) \in Int
  BY <1>1 DEF IsSeq
<1> QED
  BY <1>1, <1>4, <1>7, <1>8 DEF CountInv

LEMMA FailKeepsCount ==
  ASSUME CountInv, NEW why \in {"depth", "eof", "malformed", "duplicate", "length"}, Fail(why)
  PROVE  CountInv'
<1>1. UNCHANGED <<msg, frames, first>> /\ out' \notin {"running", "ok"}
  BY DEF Fail
<1> QED
  BY <1>1 DEF CountInv

(* A cell that is taken is held, and what it promises is waited for.        *)
LEMMA TakeKeepsCount ==
  ASSUME DepthInv, CountInv, first = <<>> /\ out = "running", NEW c, Take(c), Promise(c) \in Int,
         Tallied(frames'),
         Awaited(frames') = Awaited(frames) + Promise(c) - IF c.tag = "name" THEN 0 ELSE 1
  PROVE  CountInv'
<1>1. msg' = Append(msg, c) /\ first' = <<>> /\ out' = "running"
  BY DEF Take
<1>2. /\ IsSeq(msg) /\ (\A i \in 1..Len(msg) : Promise(msg[i]) \in Int) /\ Tallied(frames)
      /\ Held(msg) + Awaited(frames) = Promised(msg)
  BY DEF CountInv
<1>3. IsSeq(msg')
  BY <1>1, <1>2, Appended
<1>4. /\ Promised(msg') = Promised(msg) + Promise(c) /\ Promised(msg) \in Int
      /\ \A i \in 1..Len(msg') : Promise(msg'[i]) \in Int
  BY <1>1, <1>2, PromisedWithOneMore
<1>5. Held(msg') = Held(msg) + (IF c.tag = "name" THEN 0 ELSE 1) /\ Held(msg) \in Nat
  BY <1>1, <1>2, HeldWithOneMore
<1>6. Awaited(frames) \in Int
  BY <1>2, AwaitedFacts DEF DepthInv
<1>7. Held(msg') + Awaited(frames') = Promised(msg')
  BY <1>2, <1>4, <1>5, <1>6
<1> QED
  BY <1>1, <1>3, <1>4, <1>7 DEF CountInv

(* While a value or a name is wanted, the top call waits for something.     *)
LEMMA WantsFacts ==
  ASSUME DepthInv, Shallow \/ WantsName
  PROVE  /\ out = "running" /\ Top = frames[Len(frames)]
         /\ Len(frames[Len(frames)].done) < frames[Len(frames)].todo
<1>1. Top = frames[Len(frames)]
  BY TopOf DEF DepthInv, Top
<1> QED
  BY <1>1 DEF Shallow, WantsValue, WantsName, Open

LEMMA ReadScalarKeepsCount == ASSUME DepthInv, CountInv, ReadScalar PROVE CountInv'
<1>1. PICK c \in Coming(Scalars[Top.depth + 1]) :
        /\ ~Container(c.tag)
        /\ IF Folded(c) = Malformed THEN Fail("malformed")
           ELSE IF Repeats(Top, Folded(c)) THEN Fail("duplicate")
           ELSE Take(c) /\ frames' = Given(frames, Folded(c))
  BY DEF ReadScalar
<1>2. CASE Fail("malformed") \/ Fail("duplicate")
  BY <1>2, FailKeepsCount
<1>3. CASE first # <<>> /\ Take(c)
  BY <1>3 DEF Take, CountInv
<1>4. CASE first = <<>> /\ Take(c) /\ frames' = Given(frames, Folded(c))
  <2>1. /\ out = "running" /\ Tallied(frames) /\ DepthsAreTrue(frames)
        /\ Len(frames[Len(frames)].done) < frames[Len(frames)].todo
    BY <1>4, WantsFacts DEF ReadScalar, CountInv, DepthInv
  <2>2. Tallied(frames') /\ Awaited(frames') = Awaited(frames) - 1 /\ Awaited(frames) \in Int
    BY <1>4, <2>1, GivenAwaits, AwaitedFacts
  <2>3. c \in Scalars[Top.depth + 1]
    BY <1>4 DEF Coming, Offered
  <2>4. Top.depth + 1 \in 0..MaxDepth
    <3>1. Top.depth = Len(frames) - 2 /\ Len(frames) \in Nat \ {0}
      BY TopOf DEF DepthInv, Top
    <3>2. Top.depth + 1 <= MaxDepth
      BY DEF ReadScalar, Shallow
    <3> QED
      BY <3>1, <3>2, LimitsAssumption
  <2>5. c.tag # "name"
    BY <2>3, <2>4, CellsAssumption
  <2>6. Promise(c) = 0
    <3>1. ~Container(c.tag)
      BY <1>1
    <3> QED
      BY <3>1 DEF Promise, Container
  <2>7. Awaited(frames') = Awaited(frames) + Promise(c) - IF c.tag = "name" THEN 0 ELSE 1
    BY <2>2, <2>5, <2>6
  <2> QED
    BY <1>4, <2>1, <2>2, <2>6, <2>7, TakeKeepsCount
<1> QED
  BY <1>1, <1>2, <1>3, <1>4

LEMMA ReadHeaderKeepsCount == ASSUME DepthInv, CountInv, ReadHeader PROVE CountInv'
<1>1. PICK c \in Coming(Headers) :
        IF Claims(c, left - Size(c))
        THEN Take(c) /\ frames' = Append(frames, Frame(c, Top.depth + 1))
        ELSE Fail("length")
  BY DEF ReadHeader
<1>2. CASE Fail("length")
  BY <1>2, FailKeepsCount
<1>3. CASE first # <<>> /\ Take(c)
  BY <1>3 DEF Take, CountInv
<1>4. CASE /\ first = <<>> /\ Claims(c, left - Size(c)) /\ Take(c)
           /\ frames' = Append(frames, Frame(c, Top.depth + 1))
  <2>1. /\ out = "running" /\ Tallied(frames) /\ DepthsAreTrue(frames) /\ Top = Last(frames)
        /\ Len(frames[Len(frames)].done) < frames[Len(frames)].todo
    BY <1>4, WantsFacts DEF ReadHeader, CountInv, DepthInv, Top
  <2>2. c \in Containers
    BY <1>4 DEF Coming, Offered, Headers
  <2>3. Children(c) \in Nat /\ Promise(c) = Children(c) /\ c.tag \notin {"name", "root"}
    BY <1>4, <2>2, ClaimsAreExact
  <2>4. Tallied(frames') /\ Awaited(frames') = Awaited(frames) + Children(c) - 1
    BY <1>4, <2>1, <2>3, PushAwaits
  <2>5. Awaited(frames') = Awaited(frames) + Promise(c) - IF c.tag = "name" THEN 0 ELSE 1
    BY <2>3, <2>4
  <2>6. Promise(c) \in Int
    BY <2>3
  <2> QED
    BY <1>4, <2>1, <2>4, <2>5, <2>6, TakeKeepsCount
<1> QED
  BY <1>1, <1>2, <1>3, <1>4

LEMMA ReadNameKeepsCount == ASSUME DepthInv, CountInv, ReadName PROVE CountInv'
<1>1. PICK c \in Coming(Wanted) :
        IF Contains(Top.names, c.v[1]) THEN Fail("duplicate")
        ELSE Take(c) /\ frames' = [frames EXCEPT ![Len(frames)].names = Append(@, c.v[1])]
  BY DEF ReadName
<1>2. CASE Fail("duplicate")
  BY <1>2, FailKeepsCount
<1>3. CASE first # <<>> /\ Take(c)
  BY <1>3 DEF Take, CountInv
<1>4. CASE /\ first = <<>> /\ Take(c)
           /\ frames' = [frames EXCEPT ![Len(frames)].names = Append(@, c.v[1])]
  <2>1. out = "running" /\ Tallied(frames) /\ DepthsAreTrue(frames)
    BY <1>4, WantsFacts DEF ReadName, CountInv, DepthInv
  <2>2. Tallied(frames') /\ Awaited(frames') = Awaited(frames) /\ Awaited(frames) \in Int
    BY <1>4, <2>1, NamedAwaits, AwaitedFacts
  <2>3. c.tag = "name"
    <3>1. c \in Wanted /\ WantsName
      BY <1>4 DEF Coming, Offered, ReadName
    <3> QED
      BY <3>1 DEF Wanted, Named
  <2>4. Promise(c) = 0
    BY <2>3 DEF Promise, Container
  <2>5. Awaited(frames') = Awaited(frames) + Promise(c) - IF c.tag = "name" THEN 0 ELSE 1
    BY <2>2, <2>3, <2>4
  <2>6. Promise(c) \in Int
    BY <2>4
  <2> QED
    BY <1>4, <2>1, <2>2, <2>5, <2>6, TakeKeepsCount
<1> QED
  BY <1>1, <1>2, <1>3, <1>4

(* A call that is done waits for nothing.                                   *)
LEMMA DoneWaitsForNothing ==
  ASSUME DepthInv, Tallied(frames), out = "running", ~Open
  PROVE  Waits(Last(frames)) = 0
<1>1. Last(frames) = frames[Len(frames)] /\ Len(frames) \in 1..Len(frames)
  BY TopOf DEF DepthInv
<1>2. /\ Len(Last(frames).done) \in Nat /\ Last(frames).todo \in Int
      /\ Len(Last(frames).done) <= Last(frames).todo
  BY <1>1 DEF Tallied, IsSeq
<1>3. ~(Len(Last(frames).done) < Last(frames).todo)
  BY DEF Open, Top
<1> QED
  BY <1>2, <1>3 DEF Waits

LEMMA ReturnKeepsCount == ASSUME DepthInv, CountInv, Return PROVE CountInv'
<1>1. /\ out = "running" /\ ~Open /\ Last(frames).tag # "root"
      /\ \/ Fail("duplicate")
         \/ /\ frames' = Given(Front(frames), Fold(Top))
            /\ UNCHANGED <<size, msg, pos, left, out, first>>
  BY DEF Return, Top
<1>2. CASE Fail("duplicate")
  BY <1>2, FailKeepsCount
<1>3. CASE first # <<>> /\ UNCHANGED first
  BY <1>3 DEF CountInv
<1>4. CASE /\ first = <<>> /\ frames' = Given(Front(frames), Fold(Top))
           /\ UNCHANGED <<size, msg, pos, left, out, first>>
  <2> DEFINE gs == Front(frames)
  <2>1. Tallied(frames) /\ DepthsAreTrue(frames)
    BY <1>4 DEF CountInv, DepthInv
  <2>2. Waits(Last(frames)) = 0
    BY <1>1, <2>1, DoneWaitsForNothing
  <2>3. /\ DepthsAreTrue(gs) /\ Tallied(gs) /\ Awaited(gs) = Awaited(frames) + 1
        /\ Len(gs[Len(gs)].done) < gs[Len(gs)].todo
    BY <1>1, <2>1, <2>2, PopAwaits
  <2>4. Awaited(frames) \in Int
    BY <2>1, AwaitedFacts
  <2> HIDE DEF gs
  <2>5. Tallied(Given(gs, Fold(Top))) /\ Awaited(Given(gs, Fold(Top))) = Awaited(gs) - 1
    BY <2>3, GivenAwaits
  <2>6. Tallied(frames') /\ Awaited(frames') = Awaited(frames)
    BY <1>4, <2>3, <2>4, <2>5 DEF gs
  <2> QED
    BY <1>1, <1>4, <2>6 DEF CountInv
<1> QED
  BY <1>1, <1>2, <1>3, <1>4

(* The root returns last.                                                   *)
LEMMA FinishKeepsCount == ASSUME DepthInv, CountInv, Finish PROVE CountInv'
<1>1. /\ out = "running" /\ ~Open /\ Last(frames).tag = "root"
      /\ out' = (IF left = 0 THEN "ok" ELSE "trailing")
      /\ UNCHANGED <<size, msg, pos, left, frames, first>>
  BY DEF Finish, Top
<1>2. CASE first # <<>>
  BY <1>1, <1>2 DEF CountInv
<1>3. CASE first = <<>>
  <2>1. Tallied(frames) /\ DepthsAreTrue(frames)
    BY <1>3 DEF CountInv, DepthInv
  <2>2. Waits(Last(frames)) = 0
    BY <1>1, <2>1, DoneWaitsForNothing
  <2>3. Len(frames) = 1 /\ Last(frames) = frames[1]
    <3>1. Len(frames) \in Nat \ {0} /\ Last(frames) = frames[Len(frames)]
      BY <2>1, TopOf
    <3>2. Len(frames) \notin 2..Len(frames)
      BY <1>1, <2>1, <3>1 DEF Tallied
    <3>3. \A n \in Nat \ {0} : n \notin 2..n => n = 1
      OBVIOUS
    <3>4. Len(frames) = 1
      BY <3>1, <3>2, <3>3
    <3> QED
      BY <3>1, <3>4
  <2>4. Awaited(frames) = Totals(Waiting(frames))[1 - 1] + Waits(frames[1]) - 1 + 1
    BY <2>1, <2>3, AwaitedFacts
  <2>5. Totals(Waiting(frames))[0] = 0
    BY <2>1, AwaitedFacts, TotalsFacts
  <2>6. Awaited(frames) = 0
    BY <2>2, <2>3, <2>4, <2>5
  <2> QED
    BY <1>1, <1>3, <2>6 DEF CountInv
<1> QED
  BY <1>2, <1>3

LEMMA NextCount == DepthInv /\ CountInv /\ [Next]_vars => CountInv'
<1> SUFFICES ASSUME DepthInv, CountInv, [Next]_vars PROVE CountInv'
  OBVIOUS
<1>1. CASE TooDeep \/ Truncated
  <2>1. Fail("depth") \/ Fail("eof")
    BY <1>1 DEF TooDeep, Truncated
  <2> QED
    BY <2>1, FailKeepsCount
<1>2. CASE Rewrite
  <2>1. first' # <<>>
    BY <1>2 DEF Rewrite
  <2> QED
    BY <2>1 DEF CountInv
<1>3. CASE UNCHANGED vars
  BY <1>3 DEF CountInv, vars
<1> QED
  BY <1>1, <1>2, <1>3, ReadScalarKeepsCount, ReadHeaderKeepsCount, ReadNameKeepsCount,
     ReturnKeepsCount, FinishKeepsCount DEF Next

(***************************************************************************)
(* Whatever a message claims, when it is accepted it holds exactly the     *)
(* values that its headers promise: dec_value reads a child for each, a    *)
(* map's two per entry, and dec_dimensioned lets no product pass that is   *)
(* not the true one.                                                       *)
(***************************************************************************)
THEOREM ReadsWhatIsPromised == Spec => [](first = <<>> => HoldsWhatItPromises)
<1>1. CountInv => (first = <<>> => HoldsWhatItPromises)
  <2> SUFFICES ASSUME CountInv, first = <<>>, out = "ok" PROVE Held(msg) = Promised(msg)
    BY DEF HoldsWhatItPromises
  <2>1. IsSeq(msg) /\ Held(msg) + Awaited(frames) = Promised(msg) /\ Awaited(frames) = 0
    BY DEF CountInv
  <2>2. Held(msg) \in Nat
    BY <2>1, HeldWithOneMore
  <2> QED
    BY <2>1, <2>2
<1> QED
  BY <1>1, DepthsFollowTheStack, InitCount, NextCount, PTL DEF Spec
=============================================================================
