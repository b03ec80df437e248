--------------------------- MODULE MCShellSession ---------------------------
(* Small instances of ShellSession. *)
EXTENDS ShellSession

Cmd(n) == [argv |-> TRUE, redirect |-> "no", next |-> n]
Saved(n) == [argv |-> TRUE, redirect |-> "opens", next |-> n]
Unsaved(n) == [argv |-> TRUE, redirect |-> "fails", next |-> n]
Missing(n) == [argv |-> FALSE, redirect |-> "no", next |-> n]

(* Built-ins, c, b | | c, a |2, a | b |1, a |1 c, a > f |1, a > f for a file that
   cannot be opened, a | |1, and a |99999999999. *)
Ways == {Builtin, <<Cmd(NoPipe)>>, <<Cmd(Ordinary), Missing(Ordinary), Cmd(NoPipe)>>,
         <<Cmd(2)>>,
         <<Cmd(Ordinary), Cmd(1)>>, <<Cmd(1), Cmd(NoPipe)>>, <<Saved(1)>>, <<Unsaved(NoPipe)>>,
         <<Cmd(Ordinary), Missing(1)>>, <<Cmd(TooLarge)>>}

(* a |0, and |1 c with nothing in front; a | |2 b, a |1, and | c with nothing in front. *)
Misused == {<<Cmd(0)>>, <<Cmd(NoPipe)>>, <<Missing(1), Cmd(NoPipe)>>,
            <<Cmd(Ordinary), Missing(2), Cmd(NoPipe)>>, <<Cmd(1)>>,
            <<Missing(Ordinary), Cmd(NoPipe)>>}
=============================================================================
