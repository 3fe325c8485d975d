-------------------------- MODULE ProgramCacheProofs --------------------------
(***************************************************************************)
(* For any number of threads, shapes and calls: the inductive invariant of *)
(* ProgramCache, and that the racing cache implements the map that is      *)
(* settled once.                                                           *)
(***************************************************************************)
EXTENDS ProgramCache, TLAPS

LEMMA InitInv == Init => IInv
<1> SUFFICES ASSUME Init PROVE IInv
  OBVIOUS
<1>1. TypeOK
  <2>1. /\ cache \in [Shape -> Program \cup {None}]
        /\ readers \subseteq Thread /\ writer \in Thread \cup {Nobody}
        /\ want \in [Thread -> Shape \cup {None}]
        /\ built \in [Thread -> Program \cup {None}]
    BY DEF Init
  <2>2. /\ pc \in [Thread -> {"idle", "wantRead", "reading", "building", "wantWrite", "writing"}]
        /\ calls \in [Thread -> 0..MaxCalls]
    BY CacheAssumption DEF Init
  <2>4. aborted \in BOOLEAN
    BY DEF Init
  <2>3. got \in [Thread -> [Shape -> Program \cup {None}]] /\ builds \in [Thread -> [Shape -> Nat]]
    BY DEF Init
  <2> QED
    BY <2>1, <2>2, <2>3, <2>4 DEF TypeOK
<1>2. Locking
  BY CacheAssumption DEF Init, Locking
<1>3. Shared /\ Pending /\ BuiltOnce
  BY CacheAssumption DEF Init, Shared, Pending, BuiltOnce
<1> QED
  BY <1>1, <1>2, <1>3 DEF IInv

LEMMA CallInv == ASSUME IInv, NEW t \in Thread, NEW s \in Shape, Call(t, s) PROVE IInv'
BY CacheAssumption DEF Call, At, Goto, IInv, TypeOK, Locking, Shared, Pending, BuiltOnce

LEMMA AcquireReadInv == ASSUME IInv, NEW t \in Thread, AcquireRead(t) PROVE IInv'
BY CacheAssumption DEF AcquireRead, At, Goto, IInv, TypeOK, Locking, Shared, Pending, BuiltOnce

LEMMA HitInv == ASSUME IInv, NEW t \in Thread, Hit(t) PROVE IInv'
<1>1. TypeOK'
  BY CacheAssumption DEF Hit, At, Goto, Return, IInv, TypeOK, Pending
<1>2. Locking'
  BY DEF Hit, At, Goto, Return, IInv, TypeOK, Locking
<1>3. Shared'
  BY DEF Hit, At, Return, IInv, TypeOK, Shared
<1>4. Pending' /\ BuiltOnce'
  BY DEF Hit, At, Goto, Return, IInv, TypeOK, Pending, BuiltOnce
<1> QED
  BY <1>1, <1>2, <1>3, <1>4 DEF IInv

LEMMA MissInv == ASSUME IInv, NEW t \in Thread, Miss(t) PROVE IInv'
<1>1. TypeOK' /\ Locking'
  BY DEF Miss, At, Goto, IInv, TypeOK, Locking
<1>2. Shared' /\ Pending'
  BY DEF Miss, At, Goto, IInv, TypeOK, Shared, Pending
<1>3. builds[t][want[t]] = 0 /\ want[t] \in Shape
  <2>1. want[t] \in Shape
    BY DEF Miss, At, IInv, Pending
  <2>2. builds[t][want[t]] \in Nat /\ builds[t][want[t]] <= 1 /\ builds[t][want[t]] # 1
    BY <2>1 DEF Miss, At, IInv, TypeOK, BuiltOnce
  <2> QED
    BY <2>1, <2>2
<1>4. BuiltOnce'
  BY <1>3 DEF Miss, At, Goto, IInv, TypeOK, BuiltOnce
<1> QED
  BY <1>1, <1>2, <1>4 DEF IInv

(* A thread that is building a shape has not built it before: what it had   *)
(* built would have been in the cache when it looked.                       *)
LEMMA BuildInv == ASSUME IInv, NEW t \in Thread, Build(t) PROVE IInv'
<1>0. [shape |-> want[t], by |-> t, call |-> calls[t]] \in Program
  <2>1. want[t] \in Shape /\ calls[t] \in 1..MaxCalls
    <3>1. want[t] \in Shape /\ calls[t] > 0
      BY DEF Build, At, IInv, Pending
    <3>2. calls[t] \in 0..MaxCalls
      BY DEF IInv, TypeOK
    <3> QED
      BY <3>1, <3>2, CacheAssumption
  <2> QED
    BY <2>1 DEF Program
<1>1. TypeOK'
  <2>1. built' \in [Thread -> Program \cup {None}]
    BY <1>0 DEF Build, IInv, TypeOK
  <2>2. builds' \in [Thread -> [Shape -> Nat]]
    <3>1. want[t] \in Shape /\ builds \in [Thread -> [Shape -> Nat]]
      BY DEF Build, At, IInv, TypeOK, Pending
    <3>2. builds[t] \in [Shape -> Nat]
      BY <3>1
    <3>3. builds[t][want[t]] \in Nat
      BY <3>1, <3>2
    <3>4. builds' = [builds EXCEPT ![t][want[t]] = builds[t][want[t]] + 1]
      BY DEF Build
    <3> DEFINE m == builds[t][want[t]] + 1
    <3>5. m \in Nat
      BY <3>3
    <3>6. builds' = [builds EXCEPT ![t][want[t]] = m]
      BY <3>4
    <3> HIDE DEF m
    <3> QED
      BY <3>1, <3>5, <3>6
  <2>3. pc' \in [Thread -> {"idle", "wantRead", "reading", "building", "wantWrite", "writing"}]
    BY DEF Build, At, Goto, IInv, TypeOK
  <2> QED
    BY <2>1, <2>2, <2>3 DEF Build, IInv, TypeOK
<1>2. Locking' /\ Shared'
  BY DEF Build, At, Goto, IInv, TypeOK, Locking, Shared
<1>3. Pending'
  BY <1>0 DEF Build, At, Goto, IInv, TypeOK, Pending
<1>4. BuiltOnce'
  <2>1. want[t] \in Shape /\ pc[t] = "building"
    BY DEF Build, At, IInv, Pending
  <2>2. builds' = [builds EXCEPT ![t][want[t]] = 1]
    <3>1. builds[t][want[t]] = 0
      BY <2>1 DEF IInv, BuiltOnce
    <3>2. builds' = [builds EXCEPT ![t][want[t]] = builds[t][want[t]] + 1]
      BY DEF Build
    <3> QED
      BY <3>1, <3>2
  <2> QED
    BY <2>1, <2>2 DEF Build, At, Goto, IInv, TypeOK, BuiltOnce
<1> QED
  BY <1>1, <1>2, <1>3, <1>4 DEF IInv

LEMMA AcquireWriteInv == ASSUME IInv, NEW t \in Thread, AcquireWrite(t) PROVE IInv'
BY CacheAssumption DEF AcquireWrite, At, Goto, IInv, TypeOK, Locking, Shared, Pending, BuiltOnce

(* What a publishing thread does to the cache: the entry of its shape is    *)
(* settled, and no entry that was settled changes.                          *)
LEMMA PublishSettles ==
  ASSUME IInv, NEW t \in Thread, Publish(t)
  PROVE  /\ want[t] \in Shape /\ cache'[want[t]] \in Program
         /\ cache'[want[t]].shape = want[t]
         /\ \A s \in Shape : cache[s] # None => cache'[s] = cache[s]
         /\ \A s \in Shape : s # want[t] => cache'[s] = cache[s]
         /\ cache' \in [Shape -> Program \cup {None}]
<1>1. want[t] \in Shape /\ built[t] \in Program /\ built[t].shape = want[t]
  BY DEF Publish, At, IInv, Pending
<1>2. cache' = [cache EXCEPT ![want[t]] = IF cache[want[t]] = None THEN built[t] ELSE cache[want[t]]]
  BY DEF Publish
<1>3. cache \in [Shape -> Program \cup {None}]
      /\ (cache[want[t]] # None => cache[want[t]].shape = want[t])
  BY <1>1 DEF IInv, TypeOK, Shared
<1> QED
  BY <1>1, <1>2, <1>3

LEMMA PublishInv == ASSUME IInv, NEW t \in Thread, Publish(t) PROVE IInv'
<1>0. /\ want[t] \in Shape /\ cache'[want[t]] \in Program
      /\ cache'[want[t]].shape = want[t]
      /\ \A s \in Shape : cache[s] # None => cache'[s] = cache[s]
      /\ \A s \in Shape : s # want[t] => cache'[s] = cache[s]
      /\ cache' \in [Shape -> Program \cup {None}]
  BY PublishSettles
<1>1. TypeOK'
  BY <1>0 DEF Publish, At, Goto, Return, IInv, TypeOK
<1>2. Locking'
  BY CacheAssumption DEF Publish, At, Goto, Return, IInv, TypeOK, Locking
<1>3. Shared'
  <2>1. got' = [got EXCEPT ![t][want[t]] = cache'[want[t]]]
    BY DEF Publish, Return
  <2> QED
    BY <1>0, <2>1, CacheAssumption DEF IInv, TypeOK, Shared
<1>4. Pending'
  BY DEF Publish, At, Goto, Return, IInv, TypeOK, Pending
<1>5. BuiltOnce'
  <2>1. \A s \in Shape : cache[s] # None => cache'[s] # None
    BY <1>0
  <2>2. cache'[want[t]] # None
    BY <1>0, CacheAssumption
  <2> QED
    BY <2>1, <2>2 DEF Publish, At, Goto, Return, IInv, TypeOK, BuiltOnce
<1> QED
  BY <1>1, <1>2, <1>3, <1>4, <1>5 DEF IInv

LEMMA PanicInv == ASSUME IInv, NEW t \in Thread, Panic(t) PROVE IInv'
BY DEF Panic, At, IInv, TypeOK, Locking, Shared, Pending, BuiltOnce

LEMMA StepInv == IInv /\ [Next]_vars => IInv'
<1> SUFFICES ASSUME IInv, [Next]_vars PROVE IInv'
  OBVIOUS
<1>1. CASE \E t \in Thread : \E s \in Shape : Call(t, s)
  BY <1>1, CallInv
<1>2. CASE \E t \in Thread : AcquireRead(t) \/ Hit(t) \/ Miss(t)
  BY <1>2, AcquireReadInv, HitInv, MissInv
<1>3. CASE \E t \in Thread : Build(t) \/ Panic(t) \/ AcquireWrite(t) \/ Publish(t)
  BY <1>3, BuildInv, PanicInv, AcquireWriteInv, PublishInv
<1>4. CASE UNCHANGED vars
  BY <1>4 DEF vars, IInv, TypeOK, Locking, Shared, Pending, BuiltOnce
<1> QED
  BY <1>1, <1>2, <1>3, <1>4 DEF Next, Step

(* The write guard is exclusive, every caller of a shape shares its settled *)
(* program, and no thread builds a shape twice.                             *)
THEOREM CacheInvariant == Spec => []IInv
BY InitInv, StepInv, PTL DEF Spec

-----------------------------------------------------------------------------
LEMMA HitAnswers == ASSUME IInv, NEW t \in Thread, Hit(t) PROVE Once!Next
<1>1. want[t] \in Shape /\ cache[want[t]] \in Program
  BY DEF Hit, At, IInv, TypeOK, Pending
<1>2. Once!Answer(t, want[t], cache[want[t]])
  BY DEF Hit, Return, Once!Answer
<1> QED
  BY <1>1, <1>2 DEF Once!Next

LEMMA PublishAnswers == ASSUME IInv, NEW t \in Thread, Publish(t) PROVE Once!Next
<1>1. /\ want[t] \in Shape /\ cache'[want[t]] \in Program
      /\ cache'[want[t]].shape = want[t]
  BY PublishSettles
<1>2. got' = [got EXCEPT ![t][want[t]] = cache'[want[t]]]
  BY DEF Publish, Return
<1>3. cache' = [cache EXCEPT ![want[t]] = IF cache[want[t]] = None THEN built[t] ELSE cache[want[t]]]
      /\ cache \in [Shape -> Program \cup {None}]
  BY DEF Publish, IInv, TypeOK
<1>4. ASSUME cache[want[t]] = None PROVE Once!Settle(want[t], cache'[want[t]])
  BY <1>1, <1>3, <1>4 DEF Once!Settle, MadeFrom
<1>5. ASSUME cache[want[t]] # None PROVE cache[want[t]] = cache'[want[t]] /\ UNCHANGED cache
  BY <1>1, <1>3, <1>5
<1>6. \/ Once!Settle(want[t], cache'[want[t]])
      \/ (cache[want[t]] = cache'[want[t]] /\ UNCHANGED cache)
  BY <1>4, <1>5
<1>7. Once!Answer(t, want[t], cache'[want[t]])
  BY <1>2, <1>6 DEF Once!Answer
<1> QED
  BY <1>1, <1>7 DEF Once!Next

(* inner_program implements the map that is settled once.                   *)
THEOREM CacheSettlesOnce == Spec => SettledOnce
<1>1. Init => Once!Init
  BY DEF Init, Once!Init
<1>2. IInv /\ [Next]_vars => [Once!Next]_<<cache, got>>
  <2> SUFFICES ASSUME IInv, [Next]_vars PROVE Once!Next \/ UNCHANGED <<cache, got>>
    OBVIOUS
  <2>1. CASE \E t \in Thread : Hit(t) \/ Publish(t)
    BY <2>1, HitAnswers, PublishAnswers
  <2>2. CASE \E t \in Thread : \E s \in Shape : Call(t, s)
    BY <2>2 DEF Call
  <2>3. CASE \E t \in Thread : AcquireRead(t) \/ Miss(t) \/ Build(t) \/ Panic(t) \/ AcquireWrite(t)
    BY <2>3 DEF AcquireRead, Miss, Build, Panic, AcquireWrite
  <2>4. CASE UNCHANGED vars
    BY <2>4 DEF vars
  <2> QED
    BY <2>1, <2>2, <2>3, <2>4 DEF Next, Step
<1> QED
  BY <1>1, <1>2, CacheInvariant, PTL DEF Spec, SettledOnce, Once!Spec
=============================================================================
