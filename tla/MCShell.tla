------------------------------ MODULE MCShell ------------------------------
(* Shell with commands of every kind. *)
EXTENDS Shell

Command(w, in, out, p) == [words |-> w, in |-> in, out |-> out, prog |-> p]
MCCommands == {
    Command(1, FALSE, FALSE, "copy"), Command(2, FALSE, FALSE, "head"),
    Command(1, TRUE, FALSE, "copy"), Command(1, FALSE, FALSE, "missing"),
    Command(0, FALSE, TRUE, "missing"), Command(0, FALSE, FALSE, "missing")}
=============================================================================
