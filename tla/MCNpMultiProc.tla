--------------------------- MODULE MCNpMultiProc ---------------------------
(* Small instances of NpMultiProc. *)
EXTENDS NpMultiProc, TLC

CONSTANTS noname, alice, longA, longB

Nicks == {noname, alice}

\* Nicknames that fit into kNameSize.
StoredWhole == [n \in Nicks |-> n]

\* longA is a nickname of 64 bytes or more, longB its first 63 bytes.
LongNicks == {noname, longA, longB}
StoredCut == [n \in LongNicks |-> IF n = longA THEN longB ELSE n]

\* Connections come in any order, or, where no SYMMETRY is given, in a fixed one: their
\* names tell nothing else about them.
AnyOrder == [x \in Proc |-> 0]
OneOrder == CHOOSE f \in [Proc -> 1 .. Cardinality(Proc)] : \A x, y \in Proc : x # y => f[x] # f[y]

Symmetry == Permutations(Proc)
=============================================================================
