------------------------------ MODULE MCStream ------------------------------
(* Two tool calls around a block of prose, as in the stream the tests replay. *)
EXTENDS Stream

MCCalls == {0, 2}
MCProse == {1}
MCLetters == {"a", "b"}
MCText == (0 :> <<Open, "a", "b", Close>>) @@ (2 :> <<Open, "b", Close>>)
=============================================================================
