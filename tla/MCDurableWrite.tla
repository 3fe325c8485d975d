--------------------------- MODULE MCDurableWrite ---------------------------
(* DurableWrite on every file of at most five units over two values.        *)
EXTENDS DurableWrite
CONSTANT MaxLen
SmallFiles == UNION {[1..n -> Byte] : n \in 1..MaxLen}
=============================================================================
