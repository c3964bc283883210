-------------------------------- MODULE Turn --------------------------------
(***************************************************************************)
(* A conversation and the loop that drives it: runTurn (main.go), the      *)
(* renaming of tool call ids (toolcall.go), the compactor (compact.go),    *)
(* and the prompt that starts a turn, stops it, or starts over (shell.go). *)
(*                                                                         *)
(* A message keeps its role, the tool calls it makes or answers, and its   *)
(* size in tokens; `ended` is history: the turn ended with the message for *)
(* its stop reason.  The estimator's ratio is fixed.  retryLoop and        *)
(* dispatch are one step each.  An id is a stem and its suffixes:          *)
(* <<"a", <<>>>> is what a provider sends, <<"a", <<2>>>> its form a_2.    *)
(***************************************************************************)
EXTENDS Integers, Sequences, FiniteSets, SequencesExt, FiniteSetsExt

CONSTANTS
  Replies,       \* what a model may answer: stop reason, text or none, raw call ids
  Stems,         \* the ids without their suffixes
  LongIds,       \* the ids a suffix would take past 56 characters
  ResultSizes,   \* the sizes of a message of tool results
  MaxTurns,      \* config.maxTurns
  MaxCutStreak,  \* maxCutStreak
  Base,          \* the system prompt and the tools, in tokens
  Threshold,     \* compactor.threshold * window
  Keep,          \* compactor.keepRatio * window
  MaxMsgs,       \* bound: no prompt is typed into a longer conversation
  MaxIds         \* bound: nor after so many tool calls in the session

StopReasons == {"end_turn", "tool_use", "max_tokens", "filtered", "unknown"}

Id == Stems \X Seq(Nat)
NoId == <<"", <<>>>>

ASSUME TurnAssumption ==
  /\ {"", "call", "call_dup"} \subseteq Stems
  /\ \A r \in Replies : r.stop \in StopReasons /\ r.text \in BOOLEAN /\ r.calls \in Seq(Id)
  /\ MaxTurns \in Nat \ {0} /\ MaxCutStreak \in Nat \ {0}
  /\ ResultSizes \subseteq Nat \ {0}
  /\ Base \in Nat /\ Threshold \in Nat /\ Keep \in Nat
  /\ MaxMsgs \in Nat /\ MaxIds \in Nat

\* What the uniqueness of ids asks of the providers: no id has the form uniqueIDs falls
\* back to.
NoIdOfLastResort == \A r \in Replies : \A i \in 1 .. Len(r.calls) : r.calls[i][1] # "call_dup"

VARIABLES
  msgs,         \* the message array
  phase,        \* where runTurn is; "prompt" between two turns
  turn,         \* its counter
  cutStreak,    \* agent.cutStreak
  seenIDs,      \* agent.seenIDs
  interrupted   \* the turn's context has been cancelled

vars == <<msgs, phase, turn, cutStreak, seenIDs, interrupted>>

Phases == {"prompt", "top", "compacting", "calling", "tools"}

-----------------------------------------------------------------------------
(* Messages *)

Message(role, calls, results, size, ended) ==
  [role |-> role, calls |-> calls, results |-> results, size |-> size, ended |-> ended]

UserText == Message("user", <<>>, <<>>, 1, FALSE)    \* a prompt, or a summary
Assistant(calls, ended) == Message("assistant", calls, <<>>, 1, ended)
Results(calls, size) == Message("user", <<>>, calls, size, FALSE)

-----------------------------------------------------------------------------
(* uniqueIDs *)

\* Mutant of Candidate: the name of last resort has no number.
CandidateUnnumbered(id, n, seen) ==
  IF id \in LongIds THEN <<"call_dup", <<>>>> ELSE <<id[1], Append(id[2], n)>>

Candidate(id, n, seen) ==
  IF id \in LongIds THEN <<"call_dup", <<Cardinality(seen) + 1>>>>
  ELSE <<id[1], Append(id[2], n)>>

Free(id, seen) == {n \in 2 .. Cardinality(seen) + 2 : Candidate(id, n, seen) \notin seen}

\* A call with no id is given one, and an id that is taken its first free name.
Named(raw, seen) ==
  LET id == IF raw = NoId THEN <<"call", <<Cardinality(seen) + 1>>>> ELSE raw
  IN  IF id \in seen THEN Candidate(id, Min(Free(id, seen)), seen) ELSE id

\* Mutant of UniqueIDs: `seen` spans the reply, not the session.
UniqueInReply(calls, seen) ==
  LET after[i \in 0 .. Len(calls)] ==
        IF i = 0 THEN {} ELSE after[i - 1] \cup {Named(calls[i], after[i - 1])}
  IN  [ids  |-> [i \in 1 .. Len(calls) |-> Named(calls[i], after[i - 1])],
       seen |-> seen \cup after[Len(calls)]]

\* One call after the other; after[i] is what has been seen after the first i.
UniqueIDs(calls, seen) ==
  LET after[i \in 0 .. Len(calls)] ==
        IF i = 0 THEN seen ELSE after[i - 1] \cup {Named(calls[i], after[i - 1])}
  IN  [ids  |-> [i \in 1 .. Len(calls) |-> Named(calls[i], after[i - 1])],
       seen |-> after[Len(calls)]]

-----------------------------------------------------------------------------
(* The compactor.  Indices are those of TLA+: the first message is 1. *)

\* What a request would hold of the messages from each one on.
TokensFrom(ms) ==
  LET t[i \in 1 .. Len(ms) + 1] == IF i > Len(ms) THEN Base ELSE ms[i].size + t[i + 1]
  IN  t

Due(ms) == TokensFrom(ms)[1] >= Threshold

\* Mutant of CanCutBefore: the role is not looked at, nor what it implies.
CanCutAnywhere(ms, i) == 1 < i /\ i <= Len(ms)

CanCutBefore(ms, i) ==
  /\ 1 < i /\ i <= Len(ms)
  /\ ms[i].results = <<>> /\ ms[i].role = "assistant"

\* The walk from the newest message backward stops at the first that does not fit.
Want(ms) ==
  LET tokens == TokensFrom(ms)
  IN  Max({0} \cup {i \in 1 .. Len(ms) : tokens[i] > Keep}) + 1

Legal(ms, want) == {i \in want .. Len(ms) : CanCutBefore(ms, i)}

\* Mutant of SafeCut: it searches backward, toward dropping less.
SafeCutBackward(ms, want) ==
  Max({0} \cup {i \in 2 .. want : CanCutBefore(ms, i)})

\* 0 when there is none.
SafeCut(ms, want) == IF Legal(ms, want) = {} THEN 0 ELSE Min(Legal(ms, want))

\* The first message to keep, or 0 for no compaction.
Plan(ms) ==
  LET want == Want(ms)
      cut == SafeCut(ms, want)
  IN  IF Len(ms) < 4 \/ Keep <= 0 \/ want >= Len(ms) \/ cut >= Len(ms) THEN 0 ELSE cut

Compacted(ms, cut) == <<UserText>> \o SubSeq(ms, cut, Len(ms))

-----------------------------------------------------------------------------
Init ==
  /\ msgs = <<>> /\ phase = "prompt" /\ turn = 0
  /\ cutStreak = 0 /\ seenIDs = {} /\ interrupted = FALSE

\* submit: the prompt joins the history, and the turn begins under a new context.
Submit ==
  /\ phase = "prompt" /\ Len(msgs) <= MaxMsgs /\ Cardinality(seenIDs) <= MaxIds
  /\ msgs' = Append(msgs, UserText)
  /\ phase' = "top" /\ turn' = 1
  /\ UNCHANGED <<cutStreak, seenIDs, interrupted>>

\* runTurn returns what it has, and its context is gone.
Return ==
  /\ phase' = "prompt" /\ turn' = 0 /\ interrupted' = FALSE

OverLimit == turn > MaxTurns

\* The head of the loop: the turn limit, the stop key, the wall.
Stopped ==
  /\ phase = "top" /\ (OverLimit \/ interrupted)
  /\ Return
  /\ UNCHANGED <<msgs, cutStreak, seenIDs>>

Goes == phase = "top" /\ ~OverLimit /\ ~interrupted

CallModel ==
  /\ Goes /\ ~(Due(msgs) /\ Plan(msgs) > 0)
  /\ phase' = "calling"
  /\ UNCHANGED <<msgs, turn, cutStreak, seenIDs, interrupted>>

StartCompaction ==
  /\ Goes /\ Due(msgs) /\ Plan(msgs) > 0
  /\ phase' = "compacting"
  /\ UNCHANGED <<msgs, turn, cutStreak, seenIDs, interrupted>>

\* Mutant of Compact: the loop starts over, and looks at the wall again.
CompactAgain ==
  /\ phase = "compacting" /\ phase' = "top"
  /\ msgs' \in {msgs, Compacted(msgs, Plan(msgs))}
  /\ UNCHANGED <<turn, cutStreak, seenIDs, interrupted>>

\* The summarising call, which may fail or say nothing: "continuing uncompacted".
Compact ==
  /\ phase = "compacting" /\ phase' = "calling"
  /\ msgs' \in {msgs, Compacted(msgs, Plan(msgs))}
  /\ UNCHANGED <<turn, cutStreak, seenIDs, interrupted>>

\* retryLoop gives up, or is interrupted: the history keeps the question.
CallFails ==
  /\ phase = "calling"
  /\ Return
  /\ UNCHANGED <<msgs, cutStreak, seenIDs>>

\* No text, no call: nothing joins the history.
EmptyReply ==
  \E r \in Replies :
    /\ ~r.text /\ r.calls = <<>>
    /\ phase = "calling"
    /\ Return
    /\ UNCHANGED <<msgs, cutStreak, seenIDs>>

\* Filtered, or of an unknown stop reason, which a stream that ends with none has as well:
\* the turn ends with the message, and the calls it makes are not executed.
EndsByReason(r) == r.stop \in {"filtered", "unknown"}

\* It ends as well with a message that makes no call, cut off or not.
Ends(r) == EndsByReason(r) \/ r.calls = <<>>

FinalReply ==
  \E r \in Replies :
    LET u == UniqueIDs(r.calls, seenIDs) IN
    /\ phase = "calling" /\ Ends(r) /\ (r.text \/ r.calls # <<>>)
    /\ msgs' = Append(msgs, Assistant(u.ids, EndsByReason(r)))
    /\ seenIDs' = u.seen
    /\ Return
    /\ UNCHANGED cutStreak

\* Cut off at max_tokens with calls: none is executed, each is answered, and the loop
\* goes on.
CutOffReply ==
  \E r \in Replies :
    LET u == UniqueIDs(r.calls, seenIDs) IN
    /\ phase = "calling" /\ r.stop = "max_tokens" /\ r.calls # <<>>
    /\ msgs' = msgs \o <<Assistant(u.ids, FALSE), Results(u.ids, 1)>>
    /\ seenIDs' = u.seen
    /\ phase' = "top" /\ turn' = turn + 1
    /\ UNCHANGED <<cutStreak, interrupted>>

CallsReply ==
  \E r \in Replies :
    LET u == UniqueIDs(r.calls, seenIDs) IN
    /\ phase = "calling" /\ r.stop \in {"tool_use", "end_turn"} /\ r.calls # <<>>
    /\ msgs' = Append(msgs, Assistant(u.ids, FALSE))
    /\ seenIDs' = u.seen
    /\ phase' = "tools"
    /\ UNCHANGED <<turn, cutStreak, interrupted>>

\* dispatch answers every call, in order.
Dispatched(size) ==
  /\ phase = "tools"
  /\ msgs' = Append(msgs, Results(Last(msgs).calls, size))
  /\ UNCHANGED seenIDs

\* The human answered `q` to one of them.
Aborted ==
  /\ \E size \in ResultSizes : Dispatched(size)
  /\ Return
  /\ UNCHANGED cutStreak

\* At least one call got through the boundary.
SomeRan ==
  /\ \E size \in ResultSizes : Dispatched(size)
  /\ cutStreak' = 0
  /\ phase' = "top" /\ turn' = turn + 1
  /\ UNCHANGED interrupted

\* Every call was refused as truncated: the fuse.
AllCut ==
  /\ Dispatched(1)
  /\ cutStreak' = cutStreak + 1
  /\ IF cutStreak + 1 >= MaxCutStreak
       THEN Return
       ELSE /\ phase' = "top" /\ turn' = turn + 1
            /\ UNCHANGED interrupted

\* The stop key, /compact and /new.
Interrupt ==
  /\ phase # "prompt" /\ ~interrupted
  /\ interrupted' = TRUE
  /\ UNCHANGED <<msgs, phase, turn, cutStreak, seenIDs>>

CompactCommand ==
  /\ phase = "prompt" /\ Plan(msgs) > 0
  /\ msgs' = Compacted(msgs, Plan(msgs))
  /\ UNCHANGED <<phase, turn, cutStreak, seenIDs, interrupted>>

NewCommand ==
  /\ phase = "prompt" /\ msgs # <<>>
  /\ msgs' = <<>>
  /\ UNCHANGED <<phase, turn, cutStreak, seenIDs, interrupted>>

Loop ==
  \/ Stopped \/ CallModel \/ StartCompaction \/ Compact \/ CallFails \/ EmptyReply
  \/ FinalReply \/ CutOffReply \/ CallsReply \/ Aborted \/ SomeRan \/ AllCut

Next == Submit \/ Loop \/ Interrupt \/ CompactCommand \/ NewCommand

\* A model call ends (Retry), and so does a dispatch.
Spec == Init /\ [][Next]_vars /\ WF_vars(Loop)

(***************************************************************************)
(* Properties                                                              *)
(***************************************************************************)
Messages ==
  [role : {"user", "assistant"}, calls : Seq(Id), results : Seq(Id), size : Nat \ {0},
   ended : BOOLEAN]

TypeOK ==
  /\ msgs \in Seq(Messages)
  /\ phase \in Phases
  /\ turn \in 0 .. MaxTurns + 1
  /\ cutStreak \in Nat
  /\ seenIDs \in SUBSET Id /\ IsFiniteSet(seenIDs)
  /\ interrupted \in BOOLEAN

\* In every request, each tool call is answered by the next message, unless its own
\* message ended the turn for its stop reason; and each answer is to a call of the message
\* before, in the order of the calls: a call that is cut off, refused, stopped or compacted
\* away leaves neither an orphan result nor an unanswered call (validConversation,
\* compact.go 188-230; dispatch, subagent.go).
CallsAreAnswered ==
  phase = "calling" =>
    \A i \in 1 .. Len(msgs) :
      /\ msgs[i].calls # <<>> =>
           msgs[i].ended \/ (i < Len(msgs) /\ msgs[i + 1].results = msgs[i].calls)
      /\ msgs[i].results # <<>> => i > 1 /\ msgs[i - 1].calls = msgs[i].results

\* No request leaves a call unanswered, whatever ended the turn it was made in: what
\* compact.go:217 asks of a conversation before its last message.  The code does not keep
\* it: runTurn returns with the calls of a reply whose stop reason is filtered or unknown,
\* and the next prompt follows them (main.go 1039-1045).
NoCallIsLeft ==
  phase = "calling" =>
    \A i \in 1 .. Len(msgs) :
      msgs[i].calls # <<>> => i < Len(msgs) /\ msgs[i + 1].results = msgs[i].calls

\* No id names two calls of the history, whatever ids the provider reuses and however
\* often the conversation is compacted or started over (uniqueIDs, toolcall.go).
IdsAreUnique ==
  \A i, j \in 1 .. Len(msgs) :
    \A k \in DOMAIN msgs[i].calls, l \in DOMAIN msgs[j].calls :
      msgs[i].calls[k] = msgs[j].calls[l] => i = j /\ k = l

\* Whichever id is taken, sent again it finds a free name: the loop over the candidates
\* ends, also for an id that is too long for a suffix (uniqueIDs, toolcall.go 463).
NamesEnd == \A id \in seenIDs : Free(id, seenIDs) # {}

\* A compaction keeps as much of the conversation as fits in the keep budget and may
\* follow a summary, and more than the newest message; when nothing does, there is no
\* compaction (plan and safeCut, compact.go).
PlanIsTightest ==
  LET tokens == TokensFrom(msgs)
      fits == {i \in 2 .. Len(msgs) - 1 : CanCutBefore(msgs, i) /\ tokens[i] <= Keep}
  IN  Len(msgs) >= 4 => Plan(msgs) = IF fits = {} THEN 0 ELSE Min(fits)

\* How many steps of the loop a turn has left at most: four a round.
StepsLeft ==
  4 * (MaxTurns + 1 - turn)
    + (CASE phase = "prompt" -> 0 [] phase = "tools" -> 1 [] phase = "calling" -> 2
         [] phase = "compacting" -> 3 [] phase = "top" -> 4)

\* The loop only runs down: no compaction, no cut-off reply and no refused call buys
\* a turn another round (runTurn, main.go).
TurnRunsDown ==
  [][Loop => phase' = "prompt" \/ (StepsLeft' \in Nat /\ StepsLeft' < StepsLeft)]_vars

\* Every turn comes back to the prompt.
TurnEnds == phase # "prompt" ~> phase = "prompt"
=============================================================================
