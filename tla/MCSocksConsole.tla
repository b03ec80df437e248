--------------------------- MODULE MCSocksConsole ---------------------------
(* Small instances of SocksConsole. *)
EXTENDS SocksConsole

(* A file that ends in exit and one that does not; the former alone. *)
Files == << <<"ls", "exit">>, <<"ls">> >>
OneFile == << <<"ls", "exit">> >>

(* An output that makes the prompt "%% ". *)
Percent == {<<"x", "%">>}

APort == {7001}
APortOrNone == {7001, NotANumber}
TooLarge == {65536 + 22}
=============================================================================
