------------------------------- MODULE MCEcho -------------------------------
(***************************************************************************)
(* Instances of the cache over files that only move forward.               *)
(***************************************************************************)
EXTENDS EchoForward, TLC

CONSTANTS Ann, Bob, MaxVersion, CatF, CatFG, Refused, F, G

\* Versions of a file; a rewrite makes a later one.
Versions == 0 .. MaxVersion
Forward == {<<v, w>> \in Versions \X Versions : v < w}

\* One file, read by one command.
OneFile == {F}
OneCommand == {CatF}
ReadsOne == CatF :> {F}

\* The same, and a command eligible() refuses.
OneOrRefused == {CatF, Refused}
ReadsOneOrRefused == CatF :> {F} @@ Refused :> {}

\* Two files, a command on the first and a command on both.
TwoFiles == {F, G}
TwoCommands == {CatF, CatFG}
ReadsTwo == CatF :> {F} @@ CatFG :> {F, G}

\* A content of version v renders to v + 1 bytes.
Growing == [v \in Versions |-> v + 1]
=============================================================================
