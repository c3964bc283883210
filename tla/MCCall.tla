------------------------------- MODULE MCCall -------------------------------
(* A call with its three clocks, and calls with one of them off. *)
EXTENDS Call

Deadlines(connect, idle, total) == [connect |-> connect, idle |-> idle, total |-> total]
Clocks == {Deadlines(2, 8, 11), Deadlines(0, 0, 3)}
=============================================================================
