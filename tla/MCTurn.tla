------------------------------- MODULE MCTurn -------------------------------
(***************************************************************************)
(* Instances of the conversation.                                          *)
(***************************************************************************)
EXTENDS Turn, TLC

A == <<"a", <<>>>>
A2 == <<"a", <<2>>>>

Reply(stop, text, calls) == [stop |-> stop, text |-> text, calls |-> calls]

\* A provider that mints one id for every call, one whose ids look like the names
\* uniqueIDs makes, one that sends none, and a stream that ends without a stop reason.
OrdinaryReplies ==
  { Reply("end_turn", TRUE, <<>>), Reply("end_turn", FALSE, <<>>),
    Reply("tool_use", FALSE, <<A, A>>), Reply("tool_use", TRUE, <<A2>>),
    Reply("tool_use", FALSE, <<NoId>>), Reply("max_tokens", TRUE, <<<<"call", <<1>>>>>>),
    Reply("max_tokens", FALSE, <<>>), Reply("unknown", FALSE, <<A>>) }

OneLongId == {A2}

ASSUME RepliesAreOrdinary == NoIdOfLastResort
=============================================================================
