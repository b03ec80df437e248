--------------------------- MODULE MCNpSingleProc ---------------------------
(* Small instances of NpSingleProc. *)
EXTENDS NpSingleProc, TLC

CONSTANTS noname, alice

\* `a |1`, `a`, `a | b`: every kind of pipe.
Delayed == {<<1>>, <<NoPipe>>}
Shell == {<<1>>, <<2, 1>>, <<Ordinary, NoPipe>>}
Simple == {<<NoPipe>>}
Chained == {<<NoPipe>>, <<Ordinary, 1>>}

\* Connections come in any order, or, where no SYMMETRY is given, in a fixed one: their
\* names tell nothing else about them.
AnyOrder == [x \in Conn |-> 0]
OneOrder == CHOOSE f \in [Conn -> 1 .. Cardinality(Conn)] : \A x, y \in Conn : x # y => f[x] # f[y]

OneLine == [x \in Conn |-> 1]
TwoLines == [x \in Conn |-> 2]
FirstTwoThenOne == [x \in Conn |-> IF OneOrder[x] = 1 THEN 2 ELSE 1]

Symmetry == Permutations(Conn)
=============================================================================
