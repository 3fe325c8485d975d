------------------------------- MODULE OnceMap -------------------------------
(***************************************************************************)
(* What inner_program promises its callers: the first answer for a shape   *)
(* settles it, every later answer for that shape is the same program, and  *)
(* a program answers for the shape it was made from.                       *)
(***************************************************************************)
CONSTANTS Thread, Shape, Program, None, MadeFrom(_)

VARIABLES table,   \* shape -> its settled program, or None
          got      \* thread -> shape -> the last answer the thread was given, or None

Init == table = [s \in Shape |-> None] /\ got = [t \in Thread |-> [s \in Shape |-> None]]

Settle(s, p) == table[s] = None /\ MadeFrom(p) = s /\ table' = [table EXCEPT ![s] = p]

Answer(t, s, p) ==
  /\ Settle(s, p) \/ (table[s] = p /\ UNCHANGED table)
  /\ got' = [got EXCEPT ![t][s] = p]

Next == \E t \in Thread, s \in Shape, p \in Program : Answer(t, s, p)

Spec == Init /\ [][Next]_<<table, got>>
=============================================================================
