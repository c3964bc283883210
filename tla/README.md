# Verification of bash-is-all-you-need, stage 12

The repository is a book: each chapter `NN-*/code` is a complete coding agent, a
terminal program that sends a conversation to a language model, runs the shell
commands the model asks for, and sends back what they print. Every stage is a copy
of the one before with one more idea, so `12-echo/code` contains all of them; it is
the program modelled here. `external/tui` is the terminal shell it runs in.

Paths below are relative to `src/12-echo/code` unless they start with `external`.

## The system

| Part | State it keeps | Operations | Correct when |
| --- | --- | --- | --- |
| result cache, `echo.go` | map, LRU list, byte count, under one mutex | lookup, store, eviction | a hit is what the command would print now; the three structures stay one cache within the bounds |
| classification, `triage.go`, `deadline.go` | none | error -> retry, fallback or fatal | a stop is fatal; only what may help is repeated |
| retry loop and ladder, `triage.go` | the ladder's position (shared), attempts and time waited (per call) | attempt, back off, advance | each provider gets its allowance and no more, the wait is bounded, the ladder only steps on |
| turn loop, `main.go` | the message array, the cut streak | wall check, model call, dispatch, stop reasons | every request pairs calls and results, and every turn ends |
| compaction, `compact.go` | the estimator's ratio | due, plan, safeCut, run | the cut is legal, and keeps what fits |
| tool calls, `toolcall.go` | the ids seen in the session | uniqueIDs, mergeArgs, checkCall | no id names two calls; what was cut does not run, and is called cut |
| dispatch, gate, subagents, `subagent.go` | gate.always, the child counter | ask, dispatch, spawn | every call is asked about and answered, in order |
| one model call and its deadlines, `triage.go`, `deadline.go` | a context and its first cause, the time of the last byte | modelCall, guardBody, watch, waitFor | a live stream is never called stalled, a dead one is, and the error says what ended the call |
| processes, `exec.go`, `proc_*.go` | a process group or a job, two buffers | attach, start, adopt, kill, Close | a stopped command leaves nothing of its tree; its output is read when it is settled |
| events, `events.go`, `trace.go`, `render.go` | subscribers, the panel's prices | Emit, OnEvent | subscribers see one order |
| stream adapters, `openai.go`, `anthropic.go`, `sse.go`, `provider.go` | accumulators of one response | ParseStream, normaliseStop | calls come out whole and in order |
| interactive session, `shell.go` | agent and messages, under a mutex | submit, /compact, /new, /set | a command sees a whole conversation |
| terminal shell, `external/tui/app.go` | the run state, a pending question, the turn's cancel | keys, Ask, start, finish, drain | every question is answered, by keys read while it is shown; the shell comes back to idle |
| settings, memory, skills, replay, views, terminal input | files and text | read, format, decode | - |
| stages 00 to 11, `external/web` | - | - | - |

How they interact: the session calls runTurn with the conversation; runTurn calls
the retry loop (`triage.go`), which calls modelCall and the adapters; then dispatch,
which asks the gate, runs commands through the cache, and spawns subagents. A
subagent is another runTurn on its own goroutine. It has its own conversation and
shares by pointer the cache, the ladder, the gate and the event bus, which is where
all the interleaving of the system comes from. The stop key cancels the context of
a turn and of everything below it.

What is hard: agents that step on each other's cache entries and ladder position;
files that change while a command runs or a witness is hashed; a stop at any moment;
histories that are wrong one request after the step that made them so.
`PROJECT.json` lists these hazards one by one, each at its line.

## Modules

| Module | Models |
| --- | --- |
| `Echo` | `echo.go` and its caller runCommand: agents that share a cache over files that change |
| `EchoForward` | `Echo` over files that never return to an earlier content, and the properties that need it |
| `EchoProofs` | theorems about `Echo` and `EchoForward` |
| `Triage` | the classifier and the errors a model call can build: operators, no state |
| `Retry` | retryLoop for agents that share a ladder, and the stop key |
| `RetryProofs` | theorems about `Retry` |
| `Dispatch` | an agent, its subagents and theirs: the two passes of dispatch, spawn and join, gate.ask |
| `DispatchProofs` | theorems about `Dispatch` |
| `Turn` | runTurn, uniqueIDs, the compactor, submit, /compact and /new |
| `TurnProofs` | theorems about `Turn` |
| `Permission` | what an agent may expect of whoever answers its questions: abstract |
| `Shell` | the loop of `external/tui/app.go` with Ask, start, finish, interrupt, drain and shutdown; implements `Permission` |
| `ShellProofs` | theorems about `Shell`, and the refinement |
| `Stream` | one streamed reply: ParseStream of both adapters, mergeArgs, checkCall, and what runs |
| `StreamProofs` | theorems about `Stream` |
| `Exec` | runBash and the process tree it is answerable for, on both platforms |
| `ExecProofs` | theorems about `Exec` |
| `Call` | one attempt at a model call and its clocks: modelCall, guardBody, stallGuard |
| `CallProofs` | theorems about `Call` |
| `MCEcho`, `MCRetry`, `MCTurn`, `MCStream`, `MCExec`, `MCCall` | the values of the constants for TLC |

How they fit: `Call` is one attempt of `Retry`, and `ErrorIsOfItsEnding` says that its
errors are the ones `Retry` draws from `Triage`; `Stream` is what `Call` reads, and its
calls are a reply of `Turn`; `Dispatch` is `Turn`'s step `tools`; `Exec` is the phase
`command` of `Dispatch`; `Shell` is the human of `Dispatch`, as `Permission` promises it.

### Echo

An agent goes through runCommand by phases: `ready`, `hash` (the witnesses of the
entry, outside the lock, a file at a time), `recheck` (the lock taken again),
`digest` (the files of a miss), `run`, `exited`, `redigest` (store's second digest,
a file at a time), `store`, `done`. `cache` is the map, the list and the byte count
together, because every access is under `rc.mu`; `mu` says who keeps the mutex across
a step, which happens only on the two returns of lookup that hash under the deferred
unlock. A file's content stands for its digest, and a command prints the content of
each file it was given, read one at a time: nothing makes the reading atomic. `Rewrite`
is the environment and may come between any two steps. A size is a sum of
widths, so that eviction has several entries to push out.

The variables `past`, `since`, `hit` and `replaced` are history: no guard reads them.

### Triage and Retry

`Triage` keeps from an error what the classifier looks at: phase, status, body type,
Retry-After, and the cause of the cancelled context. `CallErrors` is what modelCall
can return: in particular an error made from a status or from an event in the stream has
no cause, whatever ended the call.

`Retry` follows the loop: `try` (ctx check, lad.pos, the attempt counted), `calling`,
`failed` (the verdict), `moved` (advance done, the count of the rung not yet reset),
`sleeping`. The ladder, `cur`, is the one shared variable; advance
moves it only if it is where the caller last saw it. `Interrupt` ends the context of
all agents, as one turn and its subagents share it, and `NextTurn` starts a new one
when all are idle. `stillborn` is a call made under a cancelled context: it counts
as an attempt, and its request never leaves. `ended` and `calls` are history. The jitter of
a wait is every value the code may draw.

### Dispatch

One user turn of a family of agents. An agent is named by the path of call numbers
that leads to it, so parent and child are related by the name alone, and `Agents`
is the whole tree that `--max-depth` allows. An agent goes through `top`,
`checked` (the limit and the stop key have been looked at, the compaction and the request are still to
come), `calling`, `calls` (pass 1, a call at a time), `asking` (it holds gate.mu and
the question is on the screen), `command`, `subagents` (pass 2, wg.Wait) and, a child,
`returned` until its goroutine has put the report in its place (`Report`). `texts` are the
answers of the current reply in the order of its calls; "approved" stands in the place of a
subagent's report until then, and `Join` is the end of wg.Wait.
`Asks` is gate.ask up to the first decision under the lock; a question nobody has to be asked
is one step with its answer. `bad` stands for each call that checkCall, toolByName
or the two tests for blank texts refuse; a task at the last depth is refused because
`tools` does not offer it there. `verdicts`, `author` (which subagent wrote a report) and
`stoppedAt` (the round each agent was in when the stop key was pressed) are history.
The fuse may end any round whose calls were all refused; its count is in `Turn`.

### Turn

A message is its role, the calls it makes, the calls it answers, its size, and, as history,
whether the turn ended with it for its stop reason (`EndsByReason`). The
phases are `prompt`, `top` (limit, stop, wall), `compacting`, `calling`, `tools`. A
reply is drawn from `Replies`: a stop reason, text or none, and raw ids. An id is a
stem (`Stems`) and the numbers appended to it, so that the suffixed name `a_2` which uniqueIDs
makes and the `a_2` a provider may send are the same value, and so are a `call_dup_7` of either.
`Free` is the set of suffixes the loop of uniqueIDs may stop at; it takes the least, and
if there is none the loop does not end, which is why `NamesEnd` is a property. Retry loop and dispatch are one step each: `Retry`
shows that a call ends, `Dispatch` that each call is answered in its place. A command
of the session runs only when no turn does, which `external/tui/app.go` (start, key)
and the plain prompt both ensure.

### Shell and Permission

`Shell` is the goroutine of App.Run and the goroutines that talk to it. `loop` is where
Run is (`select`, `draining`, `left`, `returned`), `state` the three states of the keys, `pending` the
question on the screen, `cancel` whether the loop has a turn to cancel, `done` the channel
of results. An asker is a goroutine in App.Ask: `asked` (the first select, to hand the
question over), `waiting` (the second, for the reply), then its verdict. `readAt` is history:
the question that was on the screen when the loop read the first key of the composer's text. It is
not what the human saw: a key action is App.key with a key the loop has read, and a key pressed
earlier may have waited in the channel of ReadLoop (`external/tui/term/term.go:180`, eight chunks) or,
an ESC, in `buf` (`app.go:513`). The loop cannot tell, so the model has no state for it, and
a question may be answered by keys of before it. A line is what it decides: a prompt, a command, an
exit, an unusable one, `y`, or anything else. `joins` says whether the host's turn waits for
the goroutines it started, as the agent's does; the shell does not know. `Permission` has one
variable, the stage of each asker, and says three things: one question is shown at a
time, only a granted question is allowed, and everything may be refused. `Stage` is the mapping.

### Stream

A text of arguments is a sequence of letters between `Open`, which stands for
`{"command":"`, and `Close`, for `"}`; `Valid` is then json.Valid and `Bracket` the state of
jsonIsOpen. That leaves out texts that repeat their own beginning, for instance a key that
begins with a brace: mergeArgs tells the dialects apart by a prefix, and the properties are about
texts whose prefixes it can tell apart. The server is the environment. It sends frames
of the calls in any interleaving and any fragmentation, each call in a dialect of its own:
`incremental`, `cumulative`, or `resend` with the whole value, or a part of it, once more at
the end. Each frame reaches the parser or is not JSON (`Deliver`), and `hit` remembers whose it
was. A frame carries one element of tool_calls. The id and the name travel together and are
one value here. mergeArgs is not on the Anthropic wire, and `Init` gives that wire the
incremental dialect. The stream ends at any point, in an error or in an end of file; a gateway
may replace a cut call by its `raw_arguments` object. `Runs` goes through the
three places that decide: the stop reason (runTurn), checkCall, emptyCommand.

### Exec

`group` is the process group or the job, `holders` are the processes that hold the write end of
a pipe, and cmd.Wait returns when the shell is gone and nobody holds one. The
platform is drawn at the start, since the two differ in when a tree is adopted and in what
Close does. The processes are the environment: they may fork, leave their group (Unix only, and not its
leader), close their output, exit, or do nothing for ever. `strays` is history: what runBash's comments
say it does not answer for, a process that left the group or was born before the job could
hold its parent. SIGKILL takes effect at once; a process number that the system reuses
between Wait and the kill is not modelled.

### Call

`pc` follows modelCall: `dialling`, `waiting` (the request is out, the header clock runs),
`status` (the body of an error is read), `stream`, `closing` (the deferred stop waits for the
watcher), `returned`. `cause` is context.Cause of the call; `ended` is the first cause that was not
the cleanup's own. Time is in ticks; a tick passes only when no goroutine of the call has
anything to do, so that code is prompt and only the outside is slow. `mark` is the guard's
stamp, `checked` the last tick of the ticker, which has a quarter of the window. A read
may put the reader in Bus.Emit, where siblings may have the lock (`held`), and while it waits
there time passes: `delayed` remembers it. `heard` is when the last chunk had arrived, which
the code cannot know; `StallsAreSilences` compares the two. The type invariants of the proved modules
are not listed in a run, because TLAPS proves them.

## Runs

Passing runs:

| Run | Shows | Bounds |
| --- | --- | --- |
| `echo_files` | cache consistent and within its bounds, no torn text kept, hits current, no good entry dropped as stale | 2 agents, 2 files rewritten once each, a command on one and one on both, 2 entries, 3 bytes, TTL on |
| `echo_returns` | every runCommand comes back | 2 agents, 1 file, a cacheable and a refused command |
| `retry_pair` | allowance per provider, waiting budget, ladder steps, every model call runs down | 2 agents, 3 rungs, 2 attempts, budget 1, errors 404 and 500 and all causes, no Retry-After |
| `shell_session` | the keys the loop reads go to what is shown, a permission is a human's, every question ends, the shell comes back, and its end is not blocked | 2 askers, 3 questions a turn; hosts that join and hosts that do not |
| `stream_reply` | what is held is what was written, what runs was whole, a cut call is called cut, the reply is the model's | 2 calls of 4 and 3 letters around a block of text, both wires, three dialects, any frame lost |
| `exec_tree` | a stopped tree dies, output is settled when read, runBash returns | a shell and 3 processes, both platforms |
| `call_clocks` | stalls noticed and real, the total clock total, errors of their ending, every call returns | headers 2, idle 8, total 11 ticks, and a total of 3 alone; 11 ticks |
| `dispatch_family` | no subagent left behind, answers true and each report in its place, one question at a time, a stop ends the round, every turn returns | 2 calls a reply, depth 1, 2 rounds, 1 for a subagent; the gate open or not, a human or none |
| `turn_session` | a free name is always found, no call left but by a message that ended its turn, ids unique, compaction tightest, turns end | 7 kinds of reply, 2 rounds a turn, prompts up to 4 messages and 2 ids |

Violation runs, each a disagreement of the code with its own comment:

| Run | Disagreement |
| --- | --- |
| `echo_race` | `echo.go:299` calls the race of the second lock benign, "one wasted lookup rather than a wrong answer". An agent that stores an older text while another hashes makes it a wrong answer. |
| `retry_stop` | `deadline.go:300`: a stop must not become a second provider, but it does when the error in hand has a status. |
| `turn_unfinished` | A stream that ends without a finish reason leaves its calls with an unknown stop reason (`openai.go:663`); `main.go:1043` keeps the message, returns, and the next prompt follows it. `compact.go:217` calls such a history invalid, `toolcall.go:455` "a rejected request". |

Seen while modelling, without a run of its own:

- `subagent.go:441`: the second pass of dispatch looks at the approved tasks and not at
  `stopped`, so a task approved before `q` in the same reply is started after it;
  `multiply_test.go:1309` checks that no subagent is started "after the user stopped the session".
  `AnswersAreTrue` says it of the calls after the `q` only.
- `subagent.go:430`: the context is not looked at between two calls, and after the stop key
  the next command of the reply is started before it is killed; `exec.go:45` says "there is no next
  command".
- `external/tui/app.go:533`: keys typed ahead, still in the channel of ReadLoop or an ESC in
  `buf`, are handled as the answer of a question that came on the screen after them.
  `TextIsOfWhatIsShown` is about what the loop has read.
- `main.go:1037`: replies cut off at max_tokens inside a call continue the loop past the
  fuse of `main.go:1091`.
- `openai.go:511`, `anthropic.go:785`: "one malformed frame" is survived, but when it held the middle of
  a string, what is left is whole JSON of another command, which passes checkCall and runs.
  `NothingPartialRuns` therefore excepts a call that lost a frame.
- `external/tui/app.go:757`: an answer sets the shell to running. When the asker has outlived its
  turn nothing runs, no result will come, and the composer is closed; `RunningIsReal` and
  `ShellComesBack` are therefore about hosts that join their askers. The test at
  `external/tui/fixes_test.go:18` stops at the question.
- `external/tui/app.go:586`: drain releases the one question that is pending. A sibling
  that asks next is parked until drain's clock; `external/tui/fixes_test.go:101` says that "cancelling
  the session with a question on screen must not cost the drain timeout".
- `exec.go:116`, `proc_windows.go:173`: when the adoption fails the job is empty and kill
  reaches nothing, the shell included, where the note says that it reaches the shell.
- `deadline.go:125`: a byte that has arrived is "always visible to the next check" only if
  the reader reads: in Bus.Emit behind a sibling it does not. Hence `delayed` in
  `StallsAreSilences`.
- `shell.go:1041`: `/set connect-timeout` changes the deadlines and not the transport, whose
  ResponseHeaderTimeout was fixed at `main.go:666`; dialling has no clock but the total one.
- `echo.go:295` says hashing happens outside the lock, and the two returns of lookup at
  `echo.go:319` hash under it (`Echo` keeps `mu` there, so `echo_returns` covers that nobody waits
  for ever).
- `triage.go:785`: perRung is carried to a rung a sibling moved to, which then gets fewer attempts
  than its allowance. `triage.go:771`: two agents may announce their rungs in the wrong order.

Why the bounds are enough. The cache's races need one agent that is slow and one that
is quick, one rewrite of a file between them, and a second file for a torn text; eviction
needs entries of different sizes, and a single one over the budget, which two commands of
1 to 4 bytes against a budget of 3 give. The ladder's races need two agents and a rung to
leave and one to leave again: three rungs. Every boundary of the attempt count is met
with two attempts. The short leash needs three attempts and Retry-After a longer wait, and they
would take the run past its time: no run meets them, and they are covered by the theorems
`AllowanceHolds`, `BudgetHolds` and `CallsRunDown` only. A turn of two rounds has a
compaction before its second call, and with a prompt allowed up to four messages
`plan` meets its floor, its cut and its refusal; a repeated id needs two replies, and
the third name a session can need (`_3`) is reached.

In `dispatch_family` two calls are enough for one to be decided before the other, and for
two subagents to wait for the gate at once; a second level repeats what the first does,
and the proofs cover any depth and width.

In `shell_session` two askers are enough for one to be shown, one to wait for the screen, and for
a turn to end or the session to stop around either; three questions let an asker ask again
after an answer. In `stream_reply` two calls give every interleaving of frames, the block
of text between them a number that is not a call's, and four letters a beginning, a middle and an
end with a place to cut in each. In `exec_tree` three processes are a child, its child, and one
born before or after the adoption. In `call_clocks` the window is four periods of the ticker and
the total clock is past the latest moment at which the guard may fire, so that either may end
a call first; the second setting leaves the total clock alone. `MaxTime` is that clock, so it
cuts nothing off.

`MaxMsgs` and `MaxIds` bound only the prompt, so no turn is cut short by them. The
version of a file is bounded by `MaxVersion`. Counters of requests saturate one past
the allowance, where the property that reads them is already false.

Deadlock is checked except where the system stops: in `turn_session`, where the bound on prompts may
leave nothing to type, in `shell_session` after the shell has returned, in `stream_reply` after the
stream has, in `exec_tree` after runBash and its processes, and in `call_clocks` after the call.

Fairness. `CallReturns` assumes that each goroutine that can go on
does (weak fairness of each agent's own steps; the Go scheduler is preemptive) and, for the
cache, that a goroutine that keeps asking for a `sync.Mutex` gets it (strong fairness of the
steps that take it; Go's mutex goes into its starvation mode after a millisecond of
waiting). Rewrites, stops and new commands are never assumed to happen. `TurnEnds`
assumes that a turn that can go on does. `TurnReturns` adds to the two of the cache that the
human answers what is asked, which is what the gate's lock waits for; a closed input is an answer. That a model call comes back rests on the deadlines of the transport for each attempt,
which is `CallReturns` of `Call`, and on `CallRunsDown` of `Retry` for their number.

In `Shell` the loop's steps and the askers' are weakly fair, the choice of a question from
several senders is strongly fair per asker (a channel's senders queue), and the human
answers what is asked; keys, prompts and the end of the session are never assumed. In `Exec` the
steps of runBash and its two timers are weakly fair, and the processes owe nothing. In `Call`
what the code can do it does, time passes when it can do nothing, the bus's lock comes to who
waits for it, and the server owes nothing: a call returns because of its total clock, and the
property is stated for calls that have one.

## Proofs

The eight proof modules are checked by TLAPS for all values of the constants that
meet the named assumptions: any number of agents, files, commands, providers, processes and calls, any policy,
any depth, width and turn limits, any deadlines. Every invariant and every action property of the
passing runs is a theorem.

Three kinds of step go beyond one action at a time. Induction over the naturals (the length of a text,
of a reply, of a history) is `ByInduction`, over a set of numbers, from the library's theorem that a
well-founded relation has minimal elements. An operator that is defined by recursion, such as
uniqueIDs or the bracket scan, is a recursive function here; a proof first shows that a function
with that recursion exists (`RecursionExists`, `AccumulationExists`, or a witness), and then what
each of its values is. Sums and counts are over finite sets, an element at a time.

**Echo.** `EchoTyped` is the type invariant. The others need files that move forward
only (`ForwardOnly`: the order of rewrites is irreflexive and transitive), because
two equal digests say nothing about the time between them if a file may be put back
(`echo.go:402`; PROJECT.json lists it). The inductive invariant `EchoInv` adds to the properties an order in
time for every agent at every phase: on each path, the first digest precedes some
state of the disk when the command began, which precedes what the command read, which precedes the
second digest, which precedes the disk now. Where both ends are equal the middle is pinned, so the
text is what the disk held when the command began, on all paths at once. For an agent that
hashes, there is a moment of its call at which the disk had not yet passed the witnesses and
held each one already found unchanged; when all are, that moment is the one the hit is
current at. From it follow `EntriesAreSnapshots` (a stored text and its witnesses are what the
files held at one moment), `HitsAreCurrent` (a hit nobody stored under during the
hashing is what the files held at one moment of the call) and `StaleDropsAreEarned`. The
hypothesis about storing in `HitsAreCurrent` is the finding of `echo_race`: without it the
statement is false.

`ListMapAndCountAgree` and `BudgetsHold` do not use `ForwardOnly`: they hold of files that go
back too. Their invariant is `CacheOK` with `Fits` (`CacheIsOne`): the list holds each key of the map
once and no other, the count is the sum of the sizes in it, and both bounds hold. Each operation of
the code (drop, touch, push, evict) is shown to keep `CacheOK` by what it takes out of the list and of the
sum (`KeepingOK`, `WeightSplits`); eviction always finds a part that fits, since the empty cache does.
EchoAssumption says that a command reads finitely many files, since a sum over infinitely many
has no value.

**Retry.** `RetryTyped` is the type invariant, `AllowanceHolds` and `BudgetHolds` the
two bounds, `LadderOnlySteps` the action property. The invariant `RetryInv` ties `perRung` to
the requests really sent: the count of an agent on the rung it is at is never
more than `perRung`, and on any rung never more than the allowance, and an agent that
has moved on does not look at a rung it left. `LadderOnlySteps` needs it because an agent
acts on a position that may be out of date.

**Dispatch.** `DispatchInv` is the invariant: the four properties and `AgentInv`, what one
agent's phase says of its counter, its answers and its verdicts. All actions but Spawn and
Report touch one agent (`Own`); for these the proof shows that every other agent is
`Untouched`, and what is left is about one agent alone. Spawn and Report are the place where the
tree matters: a child has one parent and one place (`ChildOnce`, from the injectivity of
Append), so that waking an agent's children wakes nobody else's, and a child is
idle, with nothing left of an earlier life, when it is started: that is `SubagentsAreWaitedFor`, which
is therefore needed to prove the others. The theorems `Types`, `WaitedFor`, `Answers`
and `Questions` follow. `StopIsHeard` is inductive beside it: after the stop the
head of the loop lets no agent into a round, so an agent in one was in it when the key was pressed, its
counter does not move before the round ends, and a subagent started later is stopped at its first.

**Shell.** `ShellInv` is the type invariant, the three safety properties, and who may be
where: a result is in the channel only when its goroutine is gone, a host that joins has no asker
without a turn, a reply belongs to a question that was shown. `ShellKeepsPermission` is the refinement:
each action is shown to change the stage of one asker by a step of `Permission` (`OneStage`), or
none; that at most one question is shown comes from `KeysFollowTheQuestion`, so the
invariant is needed for the refinement as well.

**Stream.** The work is in the texts: what a prefix, a fragment and a whole value are to one
another, and that a prefix of a whole value that is not all of it is not whole. From these, mergeArgs on
what is held and a fragment of any dialect gives the longer prefix, which is
`CallsAreHeld`. `StreamInv` is stated a call at a time, and an action touches one call; the others
are kept (`OthersKept`). `WhatRunsIsWhole` follows, since what is valid is the whole text, unless
a frame was lost or the call was replaced, and a replaced one is refused. `CutCallsAreCalledCut` adds the
scan of jsonIsOpen: after the first letter of an unfinished object it is inside a string, and stays there
to the end of the text (`UnclosedIsOpen`, by induction on the letters). `TheReplyIsTheModels` is about the end of
ParseStream: any finite set of indices can be put in order (`OrderExists`, by induction on its size), so
the sort has a result and the reply is the calls in that order; that the stop reason is there is
`StopIsLatched`, an invariant of its own.

**Turn.** `TurnTyped` is the type invariant with what the loop relies on (`LoopInv`): a model is called
within the turn limit, dispatch has a message to answer, a compaction has a plan. `PlansAreTightest` says that the backward walk, the floor and the forward search of `plan` and `safeCut` together take
the least legal cut that fits, and none when there is none, for any sizes and any budget. `EveryCallIsAnswered` says that in every request each
call of the history has its result in the next message, in order, unless its message ended a turn for
its stop reason (the finding of `turn_unfinished`), and each result its call. It
assumes nothing of the provider. The property is about the moment of a request; its invariant `PairInv` speaks of every phase, and
excepts the one message that may be open, the last while `tools` runs. A compaction keeps it
because a cut comes before an assistant message that answers nothing.
`NoIdTwice` has `IdsInv`: every id of the history is in `seenIDs`, each is one call's, and no
`call_dup_N` among the ids seen has an N beyond their count. It needs that uniqueIDs always returns, and
returns something new: the suffixes tried are more than the names seen, so one is free
(`SuffixIsFree`, by the pigeonhole theorem), and the last part of `IdsInv` does the same for ids too long
for a suffix. `EveryNameIsFound` states it for every id of the session.

One hypothesis about the provider is explicit in the statements, because the code does not hold without
it. `NoIdOfLastResort`: the provider does not send ids of the form
`call_dup_N`. Otherwise a long id whose `call_dup_N` is taken makes the loop at
`toolcall.go:463` try the same name for ever, and `EveryNameIsFound` is false. `MCTurn` assumes
it, so TLC checks that the replies of the run meet them.

**Exec.** `ExecInv` says who is in the group and who strays at each point: on Unix
everything that runs is in the group or has left it, on Windows that holds from the adoption on, and
before it only the shell is not a stray. A kill then leaves strays only (`TreeDies`).

**Call.** `CallInv` is proved in two halves. The control half: a context has a cause in
`closing`, errors are made from the first cause, a watcher runs exactly for a stream with the idle clock
on. The timing half: the ticker is less than a period behind the clock, and the guard's stamp is
not behind what arrived unless the bus held the reader. `StallsAreNoticed` is their sum: a stamp
can be a window old at the last tick only if the watcher has fired, and the next is a quarter later.

**How long things may last.** A liveness property says two things: that there are only finitely many
steps to do, and that each of them is done. The first is safety and is proved, for all values of the
constants, by a measure in Nat that no step of the actor leaves as it is and no step of another raises:
`TurnsRunDown` (the loop has four steps a round and at most `MaxTurns + 1` rounds), `CallsRunDown`
(an agent has four steps an attempt and three a rung to move on, whatever its siblings do to the ladder
they share) and `AgentsOnlyRunDown` (three steps a call and six a round). The last needs an invariant of
its own, `SecondPass`: an agent that waits for its subagents has answered all its calls, so after the
second pass of `dispatch` it has nothing to ask again. The first and
the last are the halves of `TurnEnds` and `TurnReturns` that do not rest on fairness, and no run lists
`TurnRunsDown` and `AgentsRunDown`, since the runs check the liveness properties whole;
`CallRunsDown` is checked by `retry_pair`.

Model-checked only: the liveness properties (`CallReturns` of `Echo` and of `Call`, `TurnReturns`, `TurnEnds`, `CommandReturns`, `QuestionEnds`, `ShellComesBack`, `SessionEnds`), because the
prover has no rules for ENABLED and fairness: that the next step is always taken in the end stays with TLC; and the three
violation runs, which are counterexamples.

## Not modelled, and why

The other parsers (`eligible`'s shell grammar, readSSE's line splitting, the schema subset of `checkCall`
and its coercions, key decoding) are sequential functions of texts that the repository covers
with captured inputs; here they appear as the set of their results. The building of requests
turns a conversation into JSON. Layout, markdown, widths, views and the web edition
have no state the rest depends on. Settings, memory and replay read and write files from one
goroutine. The stages 00 to 11 are earlier copies, so most of the repository's lines are
repetitions of the ones modelled here or of the ones just named.

## Plan

1. The nine components, and theorems for all safety properties of the runs: done.
2. An abstract turn (a reply's calls are answered, each once, in order, or the turn ends)
   that `Dispatch` implements for each agent, and that `Turn` uses for its one step.
3. An abstract cache (a text is served only if it was true at a moment of the call) that
   `Echo` implements with the recheck comparing entries, and the place where the code does not.
4. `Retry` over `Call` instead of over the set of its errors.
