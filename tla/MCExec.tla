------------------------------- MODULE MCExec -------------------------------
(* A shell, and three processes that may descend from it and from one another. *)
EXTENDS Exec

CONSTANTS shell, p1, p2, p3
MCOthers == {p1, p2, p3}
=============================================================================
