---------------------------- MODULE DurableWrite ----------------------------
(***************************************************************************)
(* The write loop of DurableFilePlan::write_to                             *)
(* (rust/phon-storage/src/durable_file.rs) against a std::io::Write sink.  *)
(* The whole file is in memory before the first call; the loop feeds it to *)
(* a sink that may take part of a buffer, take nothing, be interrupted, or *)
(* fail, and then flushes once.  The sink is not in this repository: it    *)
(* keeps the io::Write contract, and what it acknowledged by a successful  *)
(* flush survives a crash.                                                 *)
(***************************************************************************)
EXTENDS Naturals, Sequences

CONSTANTS
  Byte,      \* the units a file is made of
  Files      \* what write_to_vec may hand to the loop

ASSUME FilesAssumption == Files \subseteq Seq(Byte)

VARIABLES
  pc,        \* "idle", "writing", "flushing", then "ok", "failed" or "crashed"
  bytes,     \* the buffer write_to_vec returned
  written,   \* the loop's counter, reported by WriteFailed
  sink       \* what the destination holds

wvars == <<pc, bytes, written, sink>>

WInit == pc = "idle" /\ bytes = <<>> /\ written = 0 /\ sink = <<>>

(* `while written < bytes.len()': where the loop goes next.                 *)
LoopHead(n) == IF n < Len(bytes) THEN "writing" ELSE "flushing"

(* write_to_vec succeeded and the loop starts.                              *)
Begin(b) ==
  /\ pc = "idle"
  /\ bytes' = b
  /\ pc' = IF b = <<>> THEN "flushing" ELSE "writing"
  /\ UNCHANGED <<written, sink>>

(* Mutant of WriteSome: the counter is assigned instead of advanced.        *)
WriteSome_Assigns(n) ==
  /\ pc = "writing" /\ n \in 1..(Len(bytes) - written)
  /\ sink' = sink \o SubSeq(bytes, written + 1, written + n)
  /\ written' = n
  /\ pc' = LoopHead(n)
  /\ UNCHANGED bytes

(* The sink takes the first n units of what is left.                        *)
WriteSome(n) ==
  /\ pc = "writing" /\ n \in 1..(Len(bytes) - written)
  /\ sink' = sink \o SubSeq(bytes, written + 1, written + n)
  /\ written' = written + n
  /\ pc' = LoopHead(written + n)
  /\ UNCHANGED bytes

(* Mutant of WriteZero: Ok(0) is taken for the end of the data.             *)
WriteZero_IsTheEnd ==
  /\ pc = "writing"
  /\ pc' = "flushing"
  /\ UNCHANGED <<bytes, written, sink>>

(* The sink takes nothing: WriteFailed with kind WriteZero.                 *)
WriteZero ==
  /\ pc = "writing"
  /\ pc' = "failed"
  /\ UNCHANGED <<bytes, written, sink>>

(* ErrorKind::Interrupted is retried, any other error ends the call.        *)
Interrupted == pc = "writing" /\ UNCHANGED wvars
WriteError ==
  /\ pc = "writing"
  /\ pc' = "failed"
  /\ UNCHANGED <<bytes, written, sink>>

FlushOk == pc = "flushing" /\ pc' = "ok" /\ UNCHANGED <<bytes, written, sink>>
FlushError == pc = "flushing" /\ pc' = "failed" /\ UNCHANGED <<bytes, written, sink>>

(* The process or the machine stops.  Only a successful flush promises that *)
(* the destination keeps what it was given; otherwise it keeps a prefix.    *)
Crash ==
  /\ pc # "crashed" /\ pc' = "crashed"
  /\ \E k \in 0..Len(sink) :
       /\ pc = "ok" => k = Len(sink)
       /\ sink' = SubSeq(sink, 1, k)
  /\ UNCHANGED <<bytes, written>>

Loop ==
  \/ \E n \in 1..Len(bytes) : WriteSome(n)
  \/ WriteZero \/ Interrupted \/ WriteError
  \/ FlushOk \/ FlushError

WNext == (\E b \in Files : Begin(b)) \/ Loop \/ Crash

WSpec == WInit /\ [][WNext]_wvars

-----------------------------------------------------------------------------
WTypeOK ==
  /\ pc \in {"idle", "writing", "flushing", "ok", "failed", "crashed"}
  /\ bytes \in Seq(Byte) /\ sink \in Seq(Byte) /\ written \in Nat

Pub == INSTANCE Publication WITH
         Contents <- Files, content <- bytes, dest <- sink,
         outcome <- IF pc \in {"ok", "failed", "crashed"} THEN pc ELSE "none"

(* The loop's counter, the buffer and the destination agree at each point:  *)
(* no unit is skipped, repeated or written past the counter, the flush only *)
(* starts when nothing is left, and an error reports exactly how much of    *)
(* the file the destination holds.                                          *)
Progress ==
  /\ pc = "idle" => bytes = <<>> /\ written = 0
  /\ pc # "crashed" => written = Len(sink)
  /\ Len(sink) <= Len(bytes) /\ sink = SubSeq(bytes, 1, Len(sink))
  /\ pc = "writing" => written < Len(bytes)
  /\ pc \in {"flushing", "ok"} => written = Len(bytes)

WInv == WTypeOK /\ Progress

(* The loop implements the abstract promise.                                *)
Publishes == Pub!Spec
=============================================================================
