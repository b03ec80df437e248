--------------------------- MODULE MCUserPipeFifo ---------------------------
(* Small instances of UserPipeFifo. *)
EXTENDS UserPipeFifo, TLC

\* Connections come in any order, or, where no SYMMETRY is given, in a fixed one: their
\* names tell nothing else about them.
AnyOrder == [x \in Session |-> 0]
OneOrder == CHOOSE f \in [Session -> 1 .. Cardinality(Session)] : \A x, y \in Session : x # y => f[x] # f[y]

Symmetry == Permutations(Session)
=============================================================================
