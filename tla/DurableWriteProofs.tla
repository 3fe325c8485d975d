------------------------- MODULE DurableWriteProofs -------------------------
(***************************************************************************)
(* For every set of files, every chunking the sink chooses and every point *)
(* of failure: the write loop keeps counter, buffer and destination in     *)
(* step, and implements the abstract promise of Publication.               *)
(***************************************************************************)
EXTENDS DurableWrite, SequenceTheorems, TLAPS

(* A prefix of a sequence, as an element of Seq with its length and items.  *)
LEMMA PrefixSeq ==
  ASSUME NEW S, NEW s \in Seq(S), NEW k \in 0..Len(s)
  PROVE  /\ SubSeq(s, 1, k) \in Seq(S)
         /\ Len(SubSeq(s, 1, k)) = k
         /\ \A i \in 1..k : SubSeq(s, 1, k)[i] = s[i]
<1>1. k \in Nat /\ k \in Int /\ 1 \in Int /\ k - 1 + 1 = k /\ (IF 1 <= k THEN k - 1 + 1 ELSE 0) = k
  BY LenProperties
<1>2. \A i \in 1..k : s[i] \in S
  BY ElementOfSeq, LenProperties
<1>3. /\ SubSeq(s, 1, k) \in Seq(S)
      /\ Len(SubSeq(s, 1, k)) = IF 1 <= k THEN k - 1 + 1 ELSE 0
      /\ \A i \in 1..(k - 1 + 1) : SubSeq(s, 1, k)[i] = s[1 + i - 1]
  BY <1>1, <1>2, SubSeqProperties
<1> QED
  BY <1>1, <1>3

(* A prefix of a prefix is a prefix.                                        *)
LEMMA PrefixOfPrefix ==
  ASSUME NEW S, NEW s \in Seq(S), NEW m \in 0..Len(s), NEW k \in 0..m
  PROVE  SubSeq(SubSeq(s, 1, m), 1, k) = SubSeq(s, 1, k)
<1> DEFINE t == SubSeq(s, 1, m)
<1>1. t \in Seq(S) /\ Len(t) = m /\ \A i \in 1..m : t[i] = s[i]
  BY PrefixSeq
<1>2. k \in 0..Len(s) /\ k \in 0..Len(t)
  BY <1>1, LenProperties
<1> HIDE DEF t
<1>3. /\ SubSeq(t, 1, k) \in Seq(S) /\ Len(SubSeq(t, 1, k)) = k
      /\ \A i \in 1..k : SubSeq(t, 1, k)[i] = t[i]
  BY <1>1, <1>2, PrefixSeq
<1>4. /\ SubSeq(s, 1, k) \in Seq(S) /\ Len(SubSeq(s, 1, k)) = k
      /\ \A i \in 1..k : SubSeq(s, 1, k)[i] = s[i]
  BY <1>2, PrefixSeq
<1>5. SubSeq(t, 1, k) = SubSeq(s, 1, k)
  BY <1>1, <1>2, <1>3, <1>4, SeqEqual
<1> QED
  BY <1>5 DEF t

(* What one accepted chunk does to the destination.                         *)
LEMMA ChunkExtendsPrefix ==
  ASSUME WInv, NEW n \in 1..(Len(bytes) - written), WriteSome(n)
  PROVE  /\ sink' = SubSeq(bytes, 1, written + n)
         /\ Len(sink') = written + n
         /\ sink' \in Seq(Byte)
         /\ written + n \in 0..Len(bytes)
         /\ Len(sink) < Len(sink')
<1>1. /\ bytes \in Seq(Byte) /\ Len(bytes) \in Nat /\ written \in Nat
      /\ written = Len(sink) /\ sink = SubSeq(bytes, 1, written) /\ pc = "writing"
  BY LenProperties DEF WInv, WTypeOK, Progress, WriteSome
<1>2. /\ written \in 0..Len(bytes) /\ written + n \in written..Len(bytes)
      /\ written + n \in 0..Len(bytes) /\ 1 \in 1..(Len(bytes) + 1) /\ n >= 1 /\ n \in Nat
  BY <1>1
<1>3. SubSeq(bytes, 1, written) \o SubSeq(bytes, written + 1, written + n) = SubSeq(bytes, 1, written + n)
  <2>1. \A m \in 1..(Len(bytes) + 1) : \A h \in (m - 1)..Len(bytes) : \A k \in h..Len(bytes) :
          SubSeq(bytes, m, h) \o SubSeq(bytes, h + 1, k) = SubSeq(bytes, m, k)
    BY <1>1, ConcatAdjacentSubSeq
  <2>2. written \in (1 - 1)..Len(bytes)
    BY <1>2
  <2> QED
    BY <1>2, <2>1, <2>2
<1>4. sink' = SubSeq(bytes, 1, written + n)
  BY <1>1, <1>3 DEF WriteSome
<1> QED
  BY <1>1, <1>2, <1>4, PrefixSeq

LEMMA BeginWInv == ASSUME NEW b \in Files PROVE WInv /\ Begin(b) => WInv'
<1> SUFFICES ASSUME WInv, Begin(b) PROVE WInv'
  OBVIOUS
<1>1. b \in Seq(Byte) /\ bytes' = b /\ written' = 0 /\ sink' = sink
  BY FilesAssumption DEF Begin, WInv, Progress
<1>2. sink = <<>> /\ Len(sink) = 0 /\ sink \in Seq(Byte)
  <2>1. Len(sink) = 0 /\ sink \in Seq(Byte)
    BY DEF Begin, WInv, WTypeOK, Progress
  <2> QED
    BY <2>1, EmptySeq
<1>3. Len(b) \in Nat /\ (b # <<>> => Len(b) > 0) /\ (b = <<>> => Len(b) = 0)
  BY <1>1, LenProperties, EmptySeq
<1>4. SubSeq(b, 1, 0) = <<>>
  BY SubSeqEmpty
<1>5. pc' = IF b = <<>> THEN "flushing" ELSE "writing"
  BY DEF Begin
<1> QED
  BY <1>1, <1>2, <1>3, <1>4, <1>5 DEF WInv, WTypeOK, Progress

LEMMA WriteSomeWInv == ASSUME NEW n \in 1..Len(bytes) PROVE WInv /\ WriteSome(n) => WInv'
<1> SUFFICES ASSUME WInv, WriteSome(n) PROVE WInv'
  OBVIOUS
<1>1. n \in 1..(Len(bytes) - written) /\ pc = "writing"
  BY DEF WriteSome
<1>2. /\ sink' = SubSeq(bytes, 1, written + n) /\ Len(sink') = written + n
      /\ sink' \in Seq(Byte) /\ written + n \in 0..Len(bytes)
  BY <1>1, ChunkExtendsPrefix
<1>3. bytes' = bytes /\ written' = written + n /\ pc' = LoopHead(written + n)
  BY DEF WriteSome
<1>4. WTypeOK'
  BY <1>2, <1>3 DEF WInv, WTypeOK, LoopHead
<1>5. Len(sink') = written' /\ sink' = SubSeq(bytes', 1, Len(sink')) /\ Len(sink') <= Len(bytes')
  BY <1>2, <1>3
<1>6. /\ pc' # "idle"
      /\ pc' = "writing" => written' < Len(bytes')
      /\ pc' \in {"flushing", "ok"} => written' = Len(bytes')
  <2>1. Len(bytes) \in Nat
    BY LenProperties DEF WInv, WTypeOK
  <2> QED
    BY <1>2, <1>3, <2>1 DEF LoopHead
<1> QED
  BY <1>4, <1>5, <1>6 DEF WInv, Progress

LEMMA CrashWInv == WInv /\ Crash => WInv'
<1> SUFFICES ASSUME WInv, Crash PROVE WInv'
  OBVIOUS
<1>1. PICK k \in 0..Len(sink) : (pc = "ok" => k = Len(sink)) /\ sink' = SubSeq(sink, 1, k)
  BY DEF Crash
<1>2. /\ bytes \in Seq(Byte) /\ sink \in Seq(Byte) /\ Len(sink) \in 0..Len(bytes)
      /\ sink = SubSeq(bytes, 1, Len(sink)) /\ Len(bytes) \in Nat /\ Len(sink) \in Nat
  <2>1. bytes \in Seq(Byte) /\ sink \in Seq(Byte)
    BY DEF WInv, WTypeOK
  <2>2. Len(sink) <= Len(bytes) /\ sink = SubSeq(bytes, 1, Len(sink))
    BY DEF WInv, Progress
  <2>3. Len(bytes) \in Nat /\ Len(sink) \in Nat
    BY <2>1, LenProperties
  <2> QED
    BY <2>1, <2>2, <2>3
<1>3. sink' = SubSeq(bytes, 1, k)
  BY <1>1, <1>2, PrefixOfPrefix
<1>4. sink' \in Seq(Byte) /\ Len(sink') = k
  BY <1>1, <1>2, PrefixSeq
<1>5. k <= Len(bytes) /\ k \in Nat
  <2>1. Len(sink) \in Nat /\ Len(bytes) \in Nat /\ Len(sink) <= Len(bytes)
    BY <1>2
  <2> HIDE <1>2
  <2> QED
    BY <2>1
<1>6. bytes' = bytes /\ written' = written /\ pc' = "crashed" /\ written \in Nat
  BY DEF Crash, WInv, WTypeOK
<1> QED
  BY <1>2, <1>3, <1>4, <1>5, <1>6 DEF WInv, WTypeOK, Progress

LEMMA InitWInv == WInit => WInv
<1> SUFFICES ASSUME WInit PROVE WInv
  OBVIOUS
<1>1. SubSeq(<<>>, 1, 0) = <<>> /\ <<>> \in Seq(Byte) /\ Len(<<>>) = 0
  BY SubSeqEmpty, EmptySeq
<1> QED
  BY <1>1 DEF WInit, WInv, WTypeOK, Progress

LEMMA StepWInv == WInv /\ [WNext]_wvars => WInv'
<1> SUFFICES ASSUME WInv, [WNext]_wvars PROVE WInv'
  OBVIOUS
<1>1. CASE \E b \in Files : Begin(b)
  BY <1>1, BeginWInv
<1>2. CASE \E n \in 1..Len(bytes) : WriteSome(n)
  BY <1>2, WriteSomeWInv
<1>3. CASE WriteZero \/ WriteError \/ FlushOk \/ FlushError
  BY <1>3 DEF WriteZero, WriteError, FlushOk, FlushError, WInv, WTypeOK, Progress
<1>4. CASE Crash
  BY <1>4, CrashWInv
<1>5. CASE Interrupted \/ UNCHANGED wvars
  BY <1>5 DEF Interrupted, wvars, WInv, WTypeOK, Progress
<1> QED
  BY <1>1, <1>2, <1>3, <1>4, <1>5 DEF WNext, Loop

(* Counter, buffer and destination agree at every point of every run.       *)
THEOREM WriteKeepsStep == WSpec => []WInv
BY InitWInv, StepWInv, PTL DEF WSpec

-----------------------------------------------------------------------------
(* The steps of the loop are steps of Publication, or stutter.              *)
LEMMA BeginPublishes == ASSUME WInv, NEW b \in Files, Begin(b) PROVE Pub!Choose
<1>1. sink = <<>>
  BY EmptySeq DEF Begin, WInv, WTypeOK, Progress
<1> QED
  BY <1>1 DEF Pub!Choose, Begin, WInv, Progress

LEMMA WriteSomePublishes == ASSUME WInv, NEW n \in 1..Len(bytes), WriteSome(n) PROVE Pub!Grow
<1>1. n \in 1..(Len(bytes) - written) /\ pc = "writing" /\ pc' \in {"writing", "flushing"} /\ bytes' = bytes
  BY DEF WriteSome, LoopHead
<1>2. /\ sink' = SubSeq(bytes, 1, Len(sink')) /\ Len(sink') <= Len(bytes) /\ Len(sink) < Len(sink')
  BY <1>1, ChunkExtendsPrefix
<1> QED
  BY <1>1, <1>2 DEF Pub!Grow, Pub!PrefixOf

LEMMA FlushOkPublishes == ASSUME WInv, FlushOk PROVE Pub!Succeed
<1>1. Len(sink) = Len(bytes) /\ sink = SubSeq(bytes, 1, Len(bytes)) /\ bytes \in Seq(Byte)
  BY DEF WInv, WTypeOK, Progress, FlushOk
<1>2. sink = bytes
  BY <1>1, SubSeqFull
<1> QED
  BY <1>2 DEF Pub!Succeed, FlushOk

LEMMA CrashPublishes == ASSUME WInv, Crash PROVE Pub!Crash
<1>1. PICK k \in 0..Len(sink) : (pc = "ok" => k = Len(sink)) /\ sink' = SubSeq(sink, 1, k)
  BY DEF Crash
<1>2. sink \in Seq(Byte) /\ Len(sink) \in Nat
  BY LenProperties DEF WInv, WTypeOK
<1>3. Len(sink') = k /\ k <= Len(sink)
  BY <1>1, <1>2, PrefixSeq
<1>4. pc = "ok" => sink' = sink
  BY <1>1, <1>2, SubSeqFull
<1> QED
  BY <1>1, <1>3, <1>4 DEF Pub!Crash, Pub!PrefixOf, Crash, WInv, WTypeOK

(* write_to refines the abstract publication promise.                       *)
THEOREM WritePublishes == WSpec => Publishes
<1>1. WInit => Pub!Init
  BY DEF WInit, Pub!Init
<1>2. WInv /\ [WNext]_wvars => [Pub!Next]_<<bytes, sink, IF pc \in {"ok", "failed", "crashed"} THEN pc ELSE "none">>
  <2> SUFFICES ASSUME WInv, [WNext]_wvars
               PROVE  Pub!Next \/ UNCHANGED <<bytes, sink, IF pc \in {"ok", "failed", "crashed"} THEN pc ELSE "none">>
    OBVIOUS
  <2>1. CASE \E b \in Files : Begin(b)
    BY <2>1, BeginPublishes DEF Pub!Next
  <2>2. CASE \E n \in 1..Len(bytes) : WriteSome(n)
    BY <2>2, WriteSomePublishes DEF Pub!Next
  <2>3. CASE WriteZero \/ WriteError \/ FlushError
    BY <2>3 DEF WriteZero, WriteError, FlushError, Pub!Next, Pub!Fail
  <2>4. CASE FlushOk
    BY <2>4, FlushOkPublishes DEF Pub!Next
  <2>5. CASE Crash
    BY <2>5, CrashPublishes DEF Pub!Next
  <2>6. CASE Interrupted \/ UNCHANGED wvars
    BY <2>6 DEF Interrupted, wvars
  <2> QED
    BY <2>1, <2>2, <2>3, <2>4, <2>5, <2>6 DEF WNext, Loop
<1> QED
  BY <1>1, <1>2, WriteKeepsStep, PTL DEF WSpec, Publishes, Pub!Spec
=============================================================================
