---------------------------- MODULE Publication -----------------------------
(***************************************************************************)
(* What a caller of DurableFilePlan::write_to is promised about its raw    *)
(* destination, whatever the sink does: the destination only ever holds a  *)
(* prefix of one fixed content, success is reported only when it holds all *)
(* of it, and after success not even a crash takes anything away.          *)
(***************************************************************************)
EXTENDS Naturals, Sequences

CONSTANT Contents      \* the byte sequences that may be published

VARIABLES content, dest, outcome   \* outcome: "none", "ok", "failed", "crashed"

PrefixOf(d, c) == Len(d) <= Len(c) /\ d = SubSeq(c, 1, Len(d))

Init == content = <<>> /\ dest = <<>> /\ outcome = "none"

Choose == content = <<>> /\ dest = <<>> /\ outcome = "none"
          /\ content' \in Contents /\ UNCHANGED <<dest, outcome>>

Grow == /\ outcome = "none" /\ PrefixOf(dest', content) /\ Len(dest) < Len(dest')
        /\ UNCHANGED <<content, outcome>>

Succeed == outcome = "none" /\ dest = content /\ outcome' = "ok" /\ UNCHANGED <<content, dest>>

Fail == outcome = "none" /\ outcome' = "failed" /\ UNCHANGED <<content, dest>>

(* The process or the machine stops; what was not acknowledged may be lost. *)
Crash == /\ outcome # "crashed" /\ outcome' = "crashed"
         /\ IF outcome = "ok" THEN dest' = dest ELSE PrefixOf(dest', dest)
         /\ UNCHANGED content

Next == Choose \/ Grow \/ Succeed \/ Fail \/ Crash

Spec == Init /\ [][Next]_<<content, dest, outcome>>
=============================================================================
