---------------------------- MODULE MCCgiConsole ----------------------------
(* Small instances of CgiConsole. *)
EXTENDS CgiConsole

(* Per session: a file of two lines, an empty file. *)
TwoAndNone == << <<"first", "second">>, <<>> >>
Two == << <<"first", "second">> >>

(* An output that makes the prompt "%% ", and one with "% " inside. *)
Percent == {<<"x", "%">>}
PercentSpace == Percent \union {<<"%", " ", "x">>}
=============================================================================
