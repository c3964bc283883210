------------------------------- MODULE Stream -------------------------------
(***************************************************************************)
(* One streamed reply, from the wire to the executor: ParseStream of both  *)
(* adapters (openai.go, anthropic.go) over readSSE, mergeArgs and the      *)
(* boundary a tool call crosses (toolcall.go), and the checks of runTurn   *)
(* and dispatch that decide whether it runs.                               *)
(*                                                                         *)
(* The model's arguments are texts of letters: Open is {"command":" and    *)
(* Close is "}.  A call's id and name travel together and are latched      *)
(* together: both are its index here.  Prose, reasoning and usage are left *)
(* out.  The server below is the environment: it cuts a call into frames   *)
(* as it likes, and any frame may arrive unreadable.                       *)
(***************************************************************************)
EXTENDS Integers, Sequences, FiniteSets, SequencesExt

CONSTANTS
  Calls,    \* the block indices of the tool calls the model makes
  Prose,    \* the block indices of its text
  Text,     \* the arguments the model writes for each call
  Letters   \* what a command may be made of

Open == "open"
Close == "close"
Raw == "raw"     \* the content of the object a gateway puts in place of a cut call

Blocks == Calls \cup Prose
NoId == -1       \* "" on the wire
EndFrame == -1   \* the frame that carries the stop reason

\* json.Valid of the trimmed text: one object, closed where it ends.
Valid(s) ==
  /\ Len(s) >= 2 /\ s[1] = Open /\ s[Len(s)] = Close
  /\ \A k \in 2 .. Len(s) - 1 : s[k] \notin {Open, Close}

ASSUME StreamAssumption ==
  /\ Calls \subseteq Nat /\ Prose \subseteq Nat /\ Calls \cap Prose = {}
  /\ IsFiniteSet(Calls)
  /\ {Open, Close, Raw} \cap Letters = {}
  /\ \A c \in Calls : /\ Text[c] \in Seq(Letters \cup {Open, Close})
                      /\ Len(Text[c]) >= 3 /\ Valid(Text[c])

Dialects == {"incremental", "cumulative", "resend"}
Stops == {"tool_use", "max_tokens"}

VARIABLES
  wire,      \* which protocol the provider speaks
  dialect,   \* how the gateway streams each call's arguments
  sent,      \* how much of each call's text the server has generated; NoId before its first frame
  cut,       \* the calls whose arguments the gateway replaced
  resent,    \* the calls whose arguments it has repeated, once each
  said,      \* "talking", then "finished" once the stop reason is sent, then "trailing"
  conn,      \* "open", then "ended" at end of file or "broken"
  accs,      \* the parser's accumulators, by block index
  rawStop    \* res.RawStop, "" until a stop reason is latched

\* History: what was lost with the frames that were not JSON.
VARIABLE hit

server == <<wire, dialect, sent, cut, resent, said>>
vars == <<server, conn, accs, rawStop, hit>>

-----------------------------------------------------------------------------
(* mergeArgs *)

\* Mutant of Merge: every fragment is appended.
MergeBlind(have, frag) == have \o frag

\* Mutant of Merge: a whole value is not a terminal state.
MergeOpenEnded(have, frag) == IF IsPrefix(have, frag) THEN frag ELSE have \o frag

Merge(have, frag) ==
  CASE frag = <<>> -> have
    [] frag # <<>> /\ have = <<>> -> frag
    [] frag # <<>> /\ have # <<>> /\ Valid(have) -> IF Valid(frag) THEN frag ELSE have
    [] OTHER -> IF IsPrefix(have, frag) THEN frag ELSE have \o frag

-----------------------------------------------------------------------------
(* The accumulators.  A block that was never seen is "absent"; starts     *)
(* counts its KindToolCallStart events.                                    *)

NoBlock == [kind |-> "absent", id |-> NoId, args |-> <<>>, starts |-> 0]

Latched(have, new) == IF new # NoId THEN new ELSE have

Announcements(a, id) == a.starts + (IF a.starts = 0 /\ id # NoId THEN 1 ELSE 0)

\* One element of tool_calls in an OpenAI chunk.
Chunk(a, id, frag) ==
  LET known == Latched(a.id, id)
  IN  [kind |-> "tool_use", id |-> known, args |-> Merge(a.args, frag),
       starts |-> Announcements(a, known)]

\* content_block_start on the Anthropic wire.
BlockStart(a, kind, id) ==
  [a EXCEPT !.kind = kind, !.id = Latched(@, id),
            !.starts = @ + (IF kind = "tool_use" THEN 1 ELSE 0)]

\* input_json_delta: a block whose start was never seen is taken for a call.
InputDelta(a, frag) ==
  [a EXCEPT !.kind = IF @ = "absent" THEN "tool_use" ELSE @, !.args = @ \o frag]

-----------------------------------------------------------------------------
(* The server *)

Init ==
  /\ wire \in {"openai", "anthropic"}
  /\ dialect \in [Calls -> Dialects]
  /\ wire = "anthropic" => \A c \in Calls : dialect[c] = "incremental"
  /\ sent = [c \in Calls |-> NoId] /\ cut = {} /\ resent = {} /\ said = "talking"
  /\ conn = "open" /\ accs = [b \in Blocks |-> NoBlock] /\ rawStop = ""
  /\ hit = {}

\* The frame reaches the parser, or is not JSON: noticed, skipped, survived.
Deliver(b, new) ==
  \/ accs' = [accs EXCEPT ![b] = new] /\ UNCHANGED <<hit, rawStop>>
  \/ hit' = hit \cup {b} /\ UNCHANGED <<accs, rawStop>>

Talking == conn = "open" /\ said = "talking"

\* What a frame carries when it brings the text from character m to n.
Fragment(c, m, n) ==
  IF dialect[c] = "cumulative" THEN SubSeq(Text[c], 1, n) ELSE SubSeq(Text[c], m + 1, n)

\* The first frame of a call; on this wire it may carry arguments.
OpenAIBegin(c) ==
  /\ Talking /\ wire = "openai" /\ sent[c] = NoId
  /\ \E n \in 0 .. Len(Text[c]) :
       /\ sent' = [sent EXCEPT ![c] = n]
       /\ Deliver(c, Chunk(accs[c], c, Fragment(c, 0, n)))
  /\ UNCHANGED <<wire, dialect, cut, resent, said, conn>>

\* Later frames carry a null id, or repeat it.
OpenAIFragment(c) ==
  /\ Talking /\ wire = "openai" /\ sent[c] # NoId
  /\ \E n \in sent[c] + 1 .. Len(Text[c]), id \in {c, NoId} :
       /\ sent' = [sent EXCEPT ![c] = n]
       /\ Deliver(c, Chunk(accs[c], id, Fragment(c, sent[c], n)))
  /\ UNCHANGED <<wire, dialect, cut, resent, said, conn>>

\* The whole value again, or as much of it as a re-send that was cut.
OpenAIResend(c) ==
  /\ Talking /\ dialect[c] = "resend" /\ sent[c] = Len(Text[c])
  /\ c \notin resent /\ resent' = resent \cup {c}
  /\ \E n \in 1 .. Len(Text[c]) : Deliver(c, Chunk(accs[c], NoId, SubSeq(Text[c], 1, n)))
  /\ UNCHANGED <<wire, dialect, sent, cut, said, conn>>

AnthropicBegin(c) ==
  /\ Talking /\ wire = "anthropic" /\ sent[c] = NoId
  /\ sent' = [sent EXCEPT ![c] = 0]
  /\ Deliver(c, BlockStart(accs[c], "tool_use", c))
  /\ UNCHANGED <<wire, dialect, cut, resent, said, conn>>

AnthropicFragment(c) ==
  /\ Talking /\ wire = "anthropic" /\ sent[c] # NoId /\ c \notin cut
  /\ \E n \in sent[c] + 1 .. Len(Text[c]) :
       /\ sent' = [sent EXCEPT ![c] = n]
       /\ Deliver(c, InputDelta(accs[c], Fragment(c, sent[c], n)))
  /\ UNCHANGED <<wire, dialect, cut, resent, said, conn>>

\* {"raw_arguments": ...} in place of a call that was cut.
AnthropicCut(c) ==
  /\ Talking /\ wire = "anthropic" /\ sent[c] = 0 /\ c \notin cut
  /\ cut' = cut \cup {c}
  /\ Deliver(c, InputDelta(accs[c], <<Open, Raw, Close>>))
  /\ UNCHANGED <<wire, dialect, sent, resent, said, conn>>

AnthropicProse(b) ==
  /\ Talking /\ wire = "anthropic" /\ accs[b] = NoBlock
  /\ Deliver(b, BlockStart(accs[b], "text", NoId))
  /\ UNCHANGED <<server, conn>>

LatchedStop(have, new) == IF new # "" THEN new ELSE have

\* finish_reason, or message_delta.  It may come in the middle of a call,
\* and it may say tool_use all the same.
Finish(stop) ==
  /\ Talking /\ said' = "finished"
  /\ \/ rawStop' = LatchedStop(rawStop, stop) /\ UNCHANGED hit
     \/ hit' = hit \cup {EndFrame} /\ UNCHANGED rawStop
  /\ UNCHANGED <<wire, dialect, sent, cut, resent, conn, accs>>

\* Usage, [DONE], the cost, a ping, message_stop: none of them ends the reading.
Trailer ==
  /\ conn = "open" /\ said = "finished" /\ said' = "trailing"
  /\ rawStop' = LatchedStop(rawStop, "")
  /\ UNCHANGED <<wire, dialect, sent, cut, resent, conn, accs, hit>>

\* End of file, in the middle of a frame or not: ParseStream returns no error.
EndOfFile ==
  /\ conn = "open" /\ conn' = "ended"
  /\ UNCHANGED <<server, accs, rawStop, hit>>

\* A read error, a cancelled context, or an `error` event on the Anthropic wire.
Break ==
  /\ conn = "open" /\ conn' = "broken"
  /\ UNCHANGED <<server, accs, rawStop, hit>>

Next ==
  \/ \E c \in Calls : \/ OpenAIBegin(c) \/ OpenAIFragment(c) \/ OpenAIResend(c)
                      \/ AnthropicBegin(c) \/ AnthropicFragment(c) \/ AnthropicCut(c)
  \/ \E b \in Prose : AnthropicProse(b)
  \/ \E stop \in Stops : Finish(stop)
  \/ Trailer \/ EndOfFile \/ Break

Spec == Init /\ [][Next]_vars

-----------------------------------------------------------------------------
(* What ParseStream returns *)

Reported(b) == accs[b].kind = "tool_use"

\* Mutant of InOrder: newest first.
Reversed(S) ==
  CHOOSE s \in [1 .. Cardinality(S) -> S] : \A j, k \in DOMAIN s : j < k => s[j] > s[k]

\* The blocks of S by ascending index.
InOrder(S) ==
  CHOOSE s \in [1 .. Cardinality(S) -> S] : \A j, k \in DOMAIN s : j < k => s[j] < s[k]

Reply ==
  LET at == InOrder({b \in Blocks : Reported(b)})
  IN  [k \in 1 .. Len(at) |-> [id |-> accs[at[k]].id, args |-> accs[at[k]].args]]

-----------------------------------------------------------------------------
(* The boundary.  A call with no id has no name either, and no tool is    *)
(* called that.                                                            *)

\* The bracket state after a letter: Open and Close hold an odd number of
\* quotes, and their braces count outside a string only.
Bracket(s, l) ==
  CASE l = Open  -> [in |-> ~s.in, depth |-> s.depth + (IF s.in THEN 0 ELSE 1)]
    [] l = Close -> [in |-> ~s.in, depth |-> s.depth - (IF s.in THEN 1 ELSE 0)]
    [] OTHER     -> s

IsOpen(raw) ==
  LET after[i \in 0 .. Len(raw)] ==
        IF i = 0 THEN [in |-> FALSE, depth |-> 0] ELSE Bracket(after[i - 1], raw[i])
  IN  after[Len(raw)].in \/ after[Len(raw)].depth > 0

\* Mutant of CheckCall: a bare parse.
CheckParses(raw) == IF Valid(raw) THEN "none" ELSE "not_json"

\* The empty text becomes {}, which lacks the required field.
CheckCall(raw) ==
  CASE raw = <<>>                                       -> "schema"
    [] raw # <<>> /\ ~Valid(raw) /\ IsOpen(raw)         -> "cut"
    [] raw # <<>> /\ ~Valid(raw) /\ ~IsOpen(raw)        -> "not_json"
    [] Valid(raw) /\ \E k \in 1 .. Len(raw) : raw[k] = Raw -> "cut"
    [] OTHER                                            -> "none"

EmptyCommand(raw) == Len(raw) = 2

\* runTurn returns on an error, max_tokens, and a stop reason it does not know.
Dispatches == conn = "ended" /\ rawStop = "tool_use"

Runs(b) ==
  /\ Dispatches /\ Reported(b) /\ accs[b].id # NoId
  /\ CheckCall(accs[b].args) = "none" /\ ~EmptyCommand(accs[b].args)

-----------------------------------------------------------------------------
(* Properties *)

\* Types: the parser's accumulators, the server's progress, the loss record.
TypeOK ==
  /\ wire \in {"openai", "anthropic"} /\ dialect \in [Calls -> Dialects]
  /\ sent \in [Calls -> Nat \cup {NoId}] /\ cut \subseteq Calls /\ resent \subseteq Calls
  /\ said \in {"talking", "finished", "trailing"} /\ conn \in {"open", "ended", "broken"}
  /\ accs \in [Blocks -> [kind : {"absent", "text", "tool_use"}, id : Calls \cup {NoId},
                          args : Seq(Letters \cup {Open, Close, Raw}), starts : 0 .. 1]]
  /\ rawStop \in Stops \cup {""} /\ hit \subseteq Blocks \cup {EndFrame}

\* A call none of whose frames was lost is held as far as the model has
\* written it, whatever the dialect, whatever the frames of other calls did
\* in between, and whether or not the stream ever ends: the partial result
\* of a broken stream keeps every call that had arrived (ParseStream).
HeldAsWritten ==
  \A c \in Calls \ (hit \cup cut) :
    sent[c] # NoId => /\ accs[c].kind = "tool_use" /\ accs[c].id = c
                      /\ accs[c].args = SubSeq(Text[c], 1, sent[c])

\* When the model has finished and no frame was lost, the reply is the
\* calls the model made, each whole, under its own id, in block order and
\* nothing else (the sort and the filter at the end of ParseStream).
ReplyIsTheModels ==
  said # "talking" /\ hit = {} /\ cut = {} /\ (\A c \in Calls : sent[c] = Len(Text[c])) =>
    /\ rawStop # ""
    /\ Len(Reply) = Cardinality(Calls)
    /\ \A k \in DOMAIN Reply : /\ Reply[k].id \in Calls /\ Reply[k].args = Text[Reply[k].id]
                              /\ \A j \in 1 .. k - 1 : Reply[j].id < Reply[k].id

\* What runs was written by the model to its last letter, unless a frame of
\* that very call was lost: a reply cut short under a stop reason that says
\* tool_use runs none of its unfinished calls, nor does one whose stream
\* broke (the boundary of toolcall.go, the switch of runTurn).
NothingPartialRuns ==
  \A b \in Blocks : Runs(b) /\ b \notin hit => b \in Calls /\ accs[b].args = Text[b]

\* A call the model did not finish is diagnosed as cut, never as bad JSON:
\* the two send the model down different paths (faultCut, faultNotJSON).
CutIsCalledCut ==
  \A c \in Calls \ hit :
    c \in cut \/ sent[c] \in 1 .. Len(Text[c]) - 1 => CheckCall(accs[c].args) = "cut"

\* Each call that can be answered was announced once, each other one never,
\* however many frames repeat its id and whichever were lost
\* (acc.announced, content_block_start).
AnnouncedOnce ==
  \A b \in Blocks : accs[b].starts = (IF accs[b].id # NoId THEN 1 ELSE 0)

\* Arguments that are whole stay whole: no later frame of any dialect makes
\* a call that could run unreadable (the terminal state of mergeArgs).
WholeStaysWhole ==
  [][\A b \in Blocks : Valid(accs[b].args) => Valid(accs'[b].args)]_vars

\* The invariant behind the ones above: what was lost of a call, what the
\* gateway did to it, and what its accumulator holds agree.  A call with no
\* frame yet has no accumulator; a replaced one holds the replacement; a
\* block of prose never becomes a call (blockAt, acc := calls[tc.Index]).
Consistent(c) ==
  /\ sent[c] \in {NoId} \cup 0 .. Len(Text[c])
  /\ sent[c] = NoId => accs[c] = NoBlock
  /\ accs[c].id \in {c, NoId}
  /\ c \in resent => sent[c] = Len(Text[c])
  /\ c \in cut => wire = "anthropic" /\ sent[c] = 0
  /\ c \in cut \ hit => accs[c].args = <<Open, Raw, Close>>
  /\ wire = "anthropic" /\ c \notin cut =>
       /\ sent[c] = 0 => accs[c].args = <<>>
       /\ sent[c] < Len(Text[c]) => \A k \in DOMAIN accs[c].args : accs[c].args[k] # Close

\* A stop reason that was sent and could be read is latched.
StopLatched == said # "talking" /\ EndFrame \notin hit => rawStop # ""

StreamInv ==
  /\ AnnouncedOnce /\ HeldAsWritten
  /\ \A c \in Calls : Consistent(c)
  /\ \A b \in Prose : accs[b].kind # "tool_use" /\ accs[b].id = NoId
  /\ wire = "anthropic" => \A c \in Calls : dialect[c] = "incremental"
=============================================================================
