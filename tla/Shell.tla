------------------------------- MODULE Shell --------------------------------
(***************************************************************************)
(* The terminal shell of external/tui/app.go: the loop that owns the keys, *)
(* the goroutine of the turn it runs, the goroutines of that turn that ask *)
(* the human for permission (App.Ask), and the shutdown.                   *)
(*                                                                         *)
(* Display (the pane, the notes, the ticker, resizes) is left out, and so  *)
(* are the keys that only edit: what is typed is a member of Lines.        *)
(*                                                                         *)
(* A step of the keys is App.key handling a key the loop has read.  The    *)
(* human may have pressed it before: ReadLoop's channel holds eight chunks *)
(* the loop has not read yet, and an ESC that may begin a longer sequence  *)
(* stays in buf over a select (app.go 457-527).  What waits there is no    *)
(* state here, since the loop cannot tell: it may read any key at any time.*)
(***************************************************************************)
EXTENDS Naturals

CONSTANTS
  Askers,       \* goroutines of a turn that may call Ask
  MaxAsks,      \* bound: the questions of one turn
  Nobody        \* a.pending is nil

ASSUME ShellAssumption == Nobody \notin Askers /\ MaxAsks \in Nat

\* What can be in the composer: nothing, an answer, a prompt, the command that leaves.
Lines == {"", "y", "words", "/exit"}

VARIABLES
  loop,         \* where the loop's goroutine is
  state,        \* a.state
  pending,      \* a.pending: whose question is on the screen
  cancel,       \* a.cancel is set
  text,         \* the composer
  done,         \* the channel of results, of capacity 1
  closed,       \* the channel a.closed is closed
  ended,        \* the session's context is cancelled
  stopped,      \* the turn's context is cancelled
  turn,         \* the goroutine that start made
  asker,        \* where each asker is
  reply         \* the reply channel of its question

\* The host: whether its turns wait for their askers, and the questions left to this one.
VARIABLES joins, left

\* History: the question on the screen, if any, when the loop read the first key of the
\* composer's text.
VARIABLE readAt

keyboard == <<text, readAt>>
host == <<turn, left, joins>>
asking == <<asker, reply>>
vars == <<loop, state, pending, cancel, keyboard, done, closed, ended, stopped, host, asking>>

Results == {"ok", "exit"}

Init ==
  /\ loop = "select" /\ state = "idle" /\ pending = Nobody /\ cancel = FALSE
  /\ text = "" /\ readAt = Nobody
  /\ done = "empty" /\ closed = FALSE /\ ended = FALSE /\ stopped = FALSE
  /\ turn = "none" /\ left = 0 /\ joins \in BOOLEAN
  /\ asker = [a \in Askers |-> "off"]
  /\ reply = [a \in Askers |-> "none"]

-----------------------------------------------------------------------------
(* The keys *)

Key(s) == loop = "select" /\ state = s

Cleared == text' = "" /\ readAt' = Nobody

Type ==
  /\ Key("idle") \/ Key("asking")
  /\ text' \in IF text = "" THEN Lines \ {""} ELSE {"words"}
  /\ readAt' = IF text = "" THEN pending ELSE readAt
  /\ UNCHANGED <<loop, state, pending, cancel, done, closed, ended, stopped,
                 host, asking>>

\* Backspace, Ctrl-U and their kind: down to nothing.
Erase ==
  /\ Key("idle") \/ Key("asking")
  /\ Cleared
  /\ UNCHANGED <<loop, state, pending, cancel, done, closed, ended, stopped, host,
                 asking>>

\* Enter on a prompt or a command: its work runs on a goroutine of its own (start).
Submit ==
  /\ Key("idle") /\ text # ""
  /\ state' = "running" /\ cancel' = TRUE /\ stopped' = ended
  /\ turn' = IF text = "/exit" THEN "exiting" ELSE "working"
  /\ left' = IF text = "/exit" THEN 0 ELSE MaxAsks
  /\ Cleared
  /\ UNCHANGED <<loop, pending, done, closed, ended, joins, asking>>

\* Enter on a line nothing is started for: not ready, no such command.
Unusable ==
  /\ Key("idle") /\ text # ""
  /\ Cleared
  /\ UNCHANGED <<loop, state, pending, cancel, done, closed, ended, stopped, host,
                 asking>>

\* Esc or Ctrl-C while a turn runs.
Interrupt ==
  /\ Key("running") /\ cancel
  /\ stopped' = TRUE
  /\ UNCHANGED <<loop, state, pending, cancel, keyboard, done, closed, ended, host, asking>>

\* Mutants of Replied: the answer stays in the composer;
RepliedAndKept(answer) ==
  /\ reply' = [reply EXCEPT ![pending] = answer]
  /\ pending' = Nobody
  /\ UNCHANGED keyboard
  /\ state' = "running"

\* the shell is idle again, and its turn works.
RepliedToIdle(answer) ==
  /\ reply' = [reply EXCEPT ![pending] = answer]
  /\ pending' = Nobody
  /\ Cleared
  /\ state' = "idle"

Replied(answer) ==
  /\ reply' = [reply EXCEPT ![pending] = answer]
  /\ pending' = Nobody
  /\ Cleared
  /\ state' = "running"

\* Enter, Esc and Ctrl-C answer the question on the screen.
Answer ==
  /\ Key("asking") /\ pending # Nobody
  /\ \E answer \in {text, "n", "q"} : Replied(answer)
  /\ UNCHANGED <<loop, cancel, done, closed, ended, stopped, host, asker>>

\* A second Ctrl-C or Ctrl-D at an empty prompt, or the end of the input, which comes at any
\* time: the loop returns without a drain.
Leave ==
  /\ loop = "select"
  /\ loop' = "left"
  /\ UNCHANGED <<state, pending, cancel, keyboard, done, closed, ended, stopped, host, asking>>

-----------------------------------------------------------------------------
(* The loop's other events *)

\* The channel is nil while a question is pending.
Accepts(a) == loop = "select" /\ pending = Nobody /\ asker[a] = "asked"

Accept(a) ==
  /\ Accepts(a)
  /\ asker' = [asker EXCEPT ![a] = "waiting"]
  /\ pending' = a /\ state' = "asking"
  /\ Cleared
  /\ UNCHANGED <<loop, cancel, done, closed, ended, stopped, host, reply>>

\* Mutants of Finish: as it was once, the question loses the keys when the turn ends;
FinishToIdle ==
  /\ done # "empty" /\ done' = "empty"
  /\ cancel' = FALSE
  /\ state' = "idle"

\* the shell stays where it was.
FinishStays ==
  /\ done # "empty" /\ done' = "empty"
  /\ cancel' = FALSE
  /\ UNCHANGED state

Finish ==
  /\ done # "empty" /\ done' = "empty"
  /\ cancel' = FALSE
  /\ state' = IF pending = Nobody THEN "idle" ELSE state

Result ==
  /\ loop = "select"
  /\ Finish
  /\ loop' = IF done = "exit" THEN "left" ELSE "select"
  /\ UNCHANGED <<pending, keyboard, closed, ended, stopped, host, asking>>

\* The session's context is cancelled: from outside, at any time.
EndSession ==
  /\ ~ended /\ ended' = TRUE /\ stopped' = TRUE
  /\ UNCHANGED <<loop, state, pending, cancel, keyboard, done, closed, host, asking>>

\* drain closes the reply channel of the question on the screen.
Released ==
  /\ pending' = Nobody
  /\ reply' = IF pending = Nobody THEN reply ELSE [reply EXCEPT ![pending] = "closed"]

Drain ==
  /\ loop = "select" /\ ended
  /\ Released
  /\ loop' = IF cancel THEN "draining" ELSE "left"
  /\ stopped' = (stopped \/ cancel)
  /\ UNCHANGED <<state, cancel, keyboard, done, closed, ended, host, asker>>

DrainResult ==
  /\ loop = "draining"
  /\ Finish
  /\ loop' = "left"
  /\ UNCHANGED <<pending, keyboard, closed, ended, stopped, host, asking>>

\* Mutant of DrainTimeout: the wait has no bound.
DrainForEver ==
  /\ loop = "draining" /\ closed
  /\ loop' = "left"
  /\ UNCHANGED <<state, pending, cancel, keyboard, done, closed, ended, stopped, host, asking>>

DrainTimeout ==
  /\ loop = "draining"
  /\ loop' = "left"
  /\ UNCHANGED <<state, pending, cancel, keyboard, done, closed, ended, stopped, host, asking>>

\* Mutant of Shutdown: Run returns without it.
ShutdownNever ==
  /\ loop = "left" /\ loop' = "returned"
  /\ UNCHANGED <<state, pending, cancel, keyboard, done, closed, ended, stopped, host, asking>>

\* Run's deferred shutdown, after the terminal is restored and the transcript printed.
Shutdown ==
  /\ loop = "left" /\ loop' = "returned"
  /\ closed' = TRUE
  /\ UNCHANGED <<state, pending, cancel, keyboard, done, ended, stopped, host, asking>>

-----------------------------------------------------------------------------
(* The turn and its askers *)

\* An agent of the turn comes to a command it needs permission for; a host that does not join
\* its askers may leave one behind.
Ask(a) ==
  /\ asker[a] = "off" /\ left > 0 /\ (turn = "working" \/ ~joins)
  /\ asker' = [asker EXCEPT ![a] = "asked"]
  /\ left' = left - 1
  /\ UNCHANGED <<loop, state, pending, cancel, keyboard, done, closed, ended, stopped, turn,
                 joins, reply>>

\* Mutant of Verdict: the zero value of a closed channel is taken for a yes.
VerdictCareless(answer) == IF answer \in {"y", "closed"} THEN "allowed" ELSE "refused"

\* What gate.ask makes of a reply.
Verdict(answer) == IF answer = "y" THEN "allowed" ELSE "refused"

Receive(a) ==
  /\ asker[a] = "waiting" /\ reply[a] # "none"
  /\ asker' = [asker EXCEPT ![a] = Verdict(reply[a])]
  /\ UNCHANGED <<loop, state, pending, cancel, keyboard, done, closed, ended, stopped, host,
                 reply>>

\* Both selects of Ask; the second may prefer it to an answer that has come.
AskClosed(a) ==
  /\ asker[a] \in {"asked", "waiting"} /\ closed
  /\ asker' = [asker EXCEPT ![a] = "refused"]
  /\ UNCHANGED <<loop, state, pending, cancel, keyboard, done, closed, ended, stopped, host,
                 reply>>

\* The agent has acted on the verdict.
Act(a) ==
  /\ asker[a] \in {"allowed", "refused"}
  /\ asker' = [asker EXCEPT ![a] = "off"]
  /\ reply' = [reply EXCEPT ![a] = "none"]
  /\ UNCHANGED <<loop, state, pending, cancel, keyboard, done, closed, ended, stopped, host>>

\* The function that start runs returns, its context is released, and the result is sent.
TurnEnds ==
  /\ turn \in {"working", "exiting"}
  /\ joins => \A a \in Askers : asker[a] = "off"
  /\ done = "empty"
  /\ done' = IF turn = "exiting" THEN "exit" ELSE "ok"
  /\ turn' = "none" /\ stopped' = TRUE
  /\ UNCHANGED <<loop, state, pending, cancel, keyboard, closed, ended, left, joins, asking>>

Keys == Type \/ Erase \/ Submit \/ Unusable \/ Interrupt \/ Answer \/ Leave

Step(a) == Receive(a) \/ AskClosed(a) \/ Act(a)

Next ==
  \/ Keys \/ EndSession
  \/ Result \/ Drain \/ DrainResult \/ DrainTimeout \/ Shutdown
  \/ TurnEnds
  \/ \E a \in Askers : Accept(a) \/ Ask(a) \/ Step(a)

\* The loop's goroutine and those of the turn run; select is random over what is ready, and
\* senders on a channel queue; the human answers what is asked.
Fairness ==
  /\ WF_vars(Result) /\ WF_vars(Drain) /\ WF_vars(DrainResult) /\ WF_vars(DrainTimeout)
  /\ WF_vars(Shutdown) /\ WF_vars(TurnEnds)
  /\ \A a \in Askers : SF_vars(Accept(a)) /\ WF_vars(Step(a))
  /\ WF_vars(Answer)

Spec == Init /\ [][Next]_vars /\ Fairness

(***************************************************************************)
(* Properties                                                              *)
(***************************************************************************)
TypeOK ==
  /\ loop \in {"select", "draining", "left", "returned"}
  /\ state \in {"idle", "running", "asking"}
  /\ pending \in Askers \cup {Nobody}
  /\ cancel \in BOOLEAN /\ closed \in BOOLEAN /\ ended \in BOOLEAN /\ stopped \in BOOLEAN
  /\ text \in Lines /\ readAt \in Askers \cup {Nobody}
  /\ done \in Results \cup {"empty"}
  /\ turn \in {"none", "working", "exiting"} /\ left \in 0 .. MaxAsks /\ joins \in BOOLEAN
  /\ asker \in [Askers -> {"off", "asked", "waiting", "allowed", "refused"}]
  /\ reply \in [Askers -> Lines \cup {"none", "n", "q", "closed"}]

\* While the loop runs, the keys go to a question exactly when one is on the screen, and it
\* is on the screen exactly while its asker waits for the answer: "it is the end of the
\* permission gate for the rest of the session" otherwise (app.go 607-621).
KeysFollowTheQuestion ==
  loop = "select" =>
    /\ state = "asking" <=> pending # Nobody
    /\ \A a \in Askers : pending = a <=> asker[a] = "waiting" /\ reply[a] = "none"

\* The shell says that something runs exactly while something does, or its result is on
\* the way: a host that joins its askers never finds the composer closed over nothing, nor
\* open over a turn.
RunningIsReal ==
  joins /\ loop = "select" =>
    /\ state = "idle" <=> turn = "none" /\ done = "empty"
    /\ cancel <=> state # "idle"

\* The composer holds only what the loop has read since the question on the screen came, or
\* since the prompt came back: no half-written prompt, and no text of the question before, is
\* left to answer a question, and nothing read at a question becomes a prompt (app.go 533-538,
\* 748-761).  It is about when a key is read: one pressed before the question that the loop
\* reads after it counts as typed at it, in the code as here.
TextIsOfWhatIsShown == loop = "select" /\ text # "" => readAt = pending

\* The inductive invariant: a result is in the channel only after its goroutine, a host that
\* joins has no asker without a turn, and a reply belongs to a question that was shown.
ShellInv ==
  /\ TypeOK /\ KeysFollowTheQuestion /\ RunningIsReal /\ TextIsOfWhatIsShown
  /\ closed => loop = "returned"
  /\ loop = "select" /\ state = "idle" => turn = "none" /\ done = "empty"
  /\ done # "empty" => turn = "none"
  /\ joins /\ turn # "working" => \A a \in Askers : asker[a] = "off"
  /\ \A a \in Askers : asker[a] \in {"off", "asked"} => reply[a] = "none"

\* What each asker sees of the shell.
Stage(a) ==
  CASE asker[a] = "off" -> "none"
    [] asker[a] = "waiting" ->
         IF reply[a] = "none" THEN "shown"
         ELSE IF reply[a] = "y" THEN "granted" ELSE "declined"
    [] OTHER -> asker[a]

Permissions == INSTANCE Permission WITH ask <- [a \in Askers |-> Stage(a)]

\* The shell implements Permission: nobody is allowed what the human did not grant at his own
\* question, whatever the shutdown, the drain and the end of a turn do to the channels.
PermissionIsKept == Permissions!Spec

\* A question is answered or refused: the shell's end releases whoever still waits.
QuestionEnds == \A a \in Askers : asker[a] \in {"asked", "waiting"} ~> asker[a] \in {"allowed", "refused"}

\* A host that joins its askers gets the composer back after every turn, unless the shell ends.
ShellComesBack == joins /\ state # "idle" ~> state = "idle" \/ loop # "select"

\* When the session's context is cancelled, Run returns, whoever asks or works.
SessionEnds == ended ~> loop = "returned"
=============================================================================
