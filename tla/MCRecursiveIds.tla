--------------------------- MODULE MCRecursiveIds ---------------------------
(* Instances of RecursiveIds: every graph over a set of schemas in which    *)
(* each refers to at most two, whatever order the references are listed in. *)
EXTENDS RecursiveIds

CONSTANTS a, b, c, d

SmallDegree == [Ids -> {T \in SUBSET Ids : Cardinality(T) <= 2}]

=============================================================================
