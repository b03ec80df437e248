--------------------------- MODULE MCSocksServer ---------------------------
(* Small instances of SocksServer. *)
EXTENDS SocksServer

TwoUpOneDown == [d \in Direction |-> IF d = "up" THEN 2 ELSE 1]
TwoEach == [d \in Direction |-> 2]
=============================================================================
