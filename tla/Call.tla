-------------------------------- MODULE Call --------------------------------
(***************************************************************************)
(* One attempt at one model call, and the clocks that may end it:          *)
(* modelCall (triage.go), stallGuard and guardBody (deadline.go), over an  *)
(* HTTP client, a server, the user's stop and the bus (events.go), whose   *)
(* lock a sibling's event may hold.                                        *)
(*                                                                         *)
(* Time is counted in ticks from the beginning of the attempt, and passes  *)
(* only when no goroutine has anything to do: the code is taken to be      *)
(* prompt, and the waiting is left to what it waits for.  What the server  *)
(* sends is left out; a chunk is read, and may make the reader emit.       *)
(***************************************************************************)
EXTENDS Triage

CONSTANTS
  Quarter,    \* a quarter of the idle window: the period of the guard's ticker
  Settings,   \* the deadlines a call may have: connect, idle and total, 0 for off
  MaxTime,    \* bound: how long a call is followed
  Statuses,   \* the statuses, other than 200, a provider answers with
  Afters      \* the waits a Retry-After asks for, 0 for none

ASSUME CallAssumption ==
  /\ Quarter \in Nat \ {0} /\ MaxTime \in Nat
  /\ Settings \subseteq [connect : Nat, idle : {0, 4 * Quarter}, total : Nat]
  /\ Statuses \subseteq Nat /\ Afters \subseteq Nat

VARIABLES
  clocks,     \* the three deadlines of this call; 0 is a clock that is off
  pc,         \* where modelCall is
  cause,      \* what ended the call's context
  sent,       \* when the request had been written
  mark,       \* stallGuard.last
  checked,    \* the newest tick of the guard's ticker, or its start
  watcher,    \* the goroutine that runs watch
  emitting,   \* the reader is in Bus.Emit
  error       \* the CallError that is returned

\* The others.
VARIABLES
  now,
  inbox,      \* a chunk has arrived and is not read
  server,     \* the connection: "open", "eof" or "broken"
  held        \* somebody else has the lock of Bus.Emit

\* History: the newest arrival before this instant, and whether there is one in it;
\* whether the reader was ever kept in Emit while time passed; what ended the context
\* first, and whether the call was cut by it.
VARIABLES heard, fresh, delayed, ended, cut

guard == <<mark, checked, watcher>>
outside == <<now, inbox, server, held, heard, fresh, delayed>>
call == <<pc, sent, emitting, error, cut>>
vars == <<clocks, cause, ended, guard, outside, call>>

NoError == CallError("none", 0, "none", 0, "none")

Phases == {"dialling", "waiting", "status", "stream", "closing", "returned"}

On(clock) == clock > 0

Init ==
  /\ clocks \in Settings
  /\ pc = "dialling" /\ cause = "none" /\ ended = "none" /\ error = NoError /\ cut = FALSE
  /\ sent = 0 /\ mark = 0 /\ checked = 0
  /\ watcher = "off" /\ emitting = FALSE
  /\ now = 0 /\ inbox = FALSE /\ server = "open" /\ held = FALSE
  /\ heard = 0 /\ fresh = FALSE /\ delayed = FALSE

-----------------------------------------------------------------------------
(* The context *)

\* cancel(why): a context keeps its first cause.
Cancel(why) ==
  /\ cause' = IF cause = "none" THEN why ELSE cause
  /\ ended' = IF cause = "none" THEN why ELSE ended

\* Mutant of TotalDue: the clock covers the stream, and not what comes before it.
TotalDueStreaming ==
  On(clocks.total) /\ now >= clocks.total /\ cause = "none" /\ pc \in {"stream", "closing"}

TotalDue == On(clocks.total) /\ now >= clocks.total /\ cause = "none" /\ pc # "returned"

TotalFires ==
  /\ TotalDue /\ Cancel("call_timeout")
  /\ UNCHANGED <<clocks, guard, outside, call>>

\* The stop key, or Ctrl-C: the context of the session is cancelled.
Interrupt ==
  /\ pc # "returned" /\ Cancel("interrupted")
  /\ UNCHANGED <<clocks, guard, outside, call>>

-----------------------------------------------------------------------------
(* modelCall *)

\* It returns before there is a stream, with a cause or without.
Returns(e, by) ==
  /\ pc' = "returned" /\ error' = e /\ cut' = by
  /\ UNCHANGED <<clocks, cause, ended, guard, outside, sent, emitting>>

BuildFails == pc = "dialling" /\ now = 0 /\ \E e \in BuildErrors : Returns(e, FALSE)

\* The request leaves.  The header clock starts when it has.
Sends ==
  /\ pc = "dialling" /\ cause = "none" /\ pc' = "waiting" /\ sent' = now
  /\ UNCHANGED <<clocks, cause, ended, guard, outside, emitting, error, cut>>

HeadersDue == pc = "waiting" /\ On(clocks.connect) /\ now - sent >= clocks.connect

\* httpc.Do fails: the connection, the header clock, or the context.
DoFails ==
  /\ pc \in {"dialling", "waiting"}
  /\ \E e \in ConnectErrors(cause) : Returns(e, cause # "none")

Refused ==
  /\ pc = "waiting" /\ cause = "none" /\ pc' = "status"
  /\ UNCHANGED <<clocks, cause, ended, guard, outside, sent, emitting, error, cut>>

\* Mutant of StatusFails: the body of an error is read without the context.
StatusFailsAlone ==
  /\ pc = "status" /\ cause = "none"
  /\ \E e \in StatusErrors(Statuses, Afters) : Returns(e, FALSE)

\* The body of an error, whole or cut short, makes the error; the cause is not kept.
StatusFails ==
  /\ pc = "status"
  /\ \E e \in StatusErrors(Statuses, Afters) : Returns(e, FALSE)

\* A 200: guardBody stamps the guard, and starts the watcher if its clock is on.
Opens ==
  /\ pc = "waiting" /\ cause = "none" /\ pc' = "stream"
  /\ mark' = now /\ checked' = now
  /\ heard' = now /\ fresh' = FALSE
  /\ watcher' = IF On(clocks.idle) THEN "watching" ELSE "off"
  /\ UNCHANGED <<clocks, cause, ended, sent, emitting, error, cut,
                 now, inbox, server, held, delayed>>

-----------------------------------------------------------------------------
(* ParseStream over the stallReader *)

Reading == pc = "stream" /\ ~emitting

\* A read marks the guard; what was read may be an event for the bus, whose lock is
\* free or is held, by one sibling after another.
ReadChunk ==
  /\ Reading /\ inbox /\ inbox' = FALSE /\ mark' = now
  /\ \/ emitting' = TRUE /\ held' \in BOOLEAN
     \/ emitting' = FALSE /\ UNCHANGED held
  /\ UNCHANGED <<clocks, cause, ended, checked, watcher, pc, sent, error, cut,
                 now, server, heard, fresh, delayed>>

\* Bus.Emit, when the lock is free.
Emit ==
  /\ pc = "stream" /\ emitting /\ ~held /\ emitting' = FALSE
  /\ UNCHANGED <<clocks, cause, ended, guard, outside, pc, sent, error, cut>>

\* The error is made, and the deferred stopGuard cancels the context.
Closes(e, by) ==
  /\ Reading /\ pc' = "closing" /\ error' = e /\ cut' = by
  /\ cause' = IF cause = "none" THEN "cancelled" ELSE cause
  /\ UNCHANGED <<clocks, ended, guard, outside, sent, emitting>>

Completes == server = "eof" /\ ~inbox /\ Closes(NoError, FALSE)

\* An error event in the stream is a CallError already.
EventFails == inbox /\ \E e \in EventErrors : Closes(e, FALSE)

\* Mutant of StreamFails: the cause is read when stopGuard has run.
StreamFailsLate ==
  /\ (server = "broken" /\ ~inbox) \/ cause # "none"
  /\ \E e \in StreamErrors(IF cause = "none" THEN "cancelled" ELSE cause) : Closes(e, cause # "none")

\* A read fails: the connection broke, or the context ended.
StreamFails ==
  /\ (server = "broken" /\ ~inbox) \/ cause # "none"
  /\ \E e \in StreamErrors(cause) : Closes(e, cause # "none")

\* stopGuard waits for the watcher, and modelCall returns.
Joins ==
  /\ pc = "closing" /\ watcher # "watching" /\ pc' = "returned"
  /\ UNCHANGED <<clocks, cause, ended, guard, outside, sent, emitting, error, cut>>

-----------------------------------------------------------------------------
(* watch *)

\* Mutant of TickDue: the ticker has the period of the window.
TickDueRarely == watcher = "watching" /\ now - checked >= 4 * Quarter

\* Each tick is handled at once, so the next is a period after it.
TickDue == watcher = "watching" /\ now - checked >= Quarter

\* Mutant of Silent: a window short by one period.
SilentSoon == now - mark >= clocks.idle - Quarter

Silent == now - mark >= clocks.idle

\* A tick: the newest stamp is old enough, or it is not.
Notices ==
  /\ TickDue /\ Silent /\ watcher' = "gone" /\ Cancel("stalled")
  /\ UNCHANGED <<clocks, mark, checked, outside, call>>

Passes ==
  /\ TickDue /\ ~Silent /\ checked' = now
  /\ UNCHANGED <<clocks, cause, ended, mark, watcher, outside, call>>

WatchEnds ==
  /\ watcher = "watching" /\ cause # "none" /\ watcher' = "gone"
  /\ UNCHANGED <<clocks, cause, ended, mark, checked, outside, call>>

-----------------------------------------------------------------------------
(* The server, the siblings, and time *)

\* At most one chunk arrives at an instant.
Arrives ==
  /\ pc = "stream" /\ server = "open" /\ ~fresh
  /\ inbox' = TRUE /\ fresh' = TRUE
  /\ UNCHANGED <<clocks, cause, ended, guard, call, now, server, held, heard, delayed>>

Hangs(how) ==
  /\ pc = "stream" /\ server = "open" /\ server' = how
  /\ UNCHANGED <<clocks, cause, ended, guard, call, now, inbox, held, heard, fresh, delayed>>

\* The lock of the bus comes to the reader.
SiblingIsDone ==
  /\ held /\ held' = FALSE
  /\ UNCHANGED <<clocks, cause, ended, guard, call, now, inbox, server, heard, fresh, delayed>>

\* Somebody has something to do now.
Busy ==
  \/ TotalDue \/ TickDue \/ HeadersDue \/ pc = "closing"
  \/ cause # "none" /\ (watcher = "watching" \/ pc \in {"dialling", "waiting", "status"})
  \/ pc = "stream" /\ emitting /\ ~held
  \/ Reading /\ (inbox \/ server # "open" \/ cause # "none")

Tick ==
  /\ ~Busy /\ pc # "returned" /\ now < MaxTime /\ now' = now + 1
  /\ delayed' = (delayed \/ emitting)
  /\ heard' = (IF fresh THEN now ELSE heard) /\ fresh' = FALSE
  /\ UNCHANGED <<clocks, cause, ended, guard, call, inbox, server, held>>

-----------------------------------------------------------------------------
\* What the code does of itself when it can; the rest waits for somebody.
Prompt ==
  \/ TotalFires
  \/ (HeadersDue \/ cause # "none") /\ DoFails
  \/ cause # "none" /\ StatusFails
  \/ ReadChunk \/ Completes \/ StreamFails \/ Joins
  \/ Notices \/ Passes \/ WatchEnds

Next ==
  \/ Prompt \/ Emit \/ Tick
  \/ BuildFails \/ Sends \/ DoFails \/ Refused \/ StatusFails \/ Opens \/ EventFails
  \/ Interrupt
  \/ Arrives \/ Hangs("eof") \/ Hangs("broken")
  \/ SiblingIsDone

\* Timers fire and goroutines run; the lock of the bus is a sync.Mutex, which
\* starves nobody, and no sibling stays in Emit for ever.
Fairness ==
  /\ WF_vars(Prompt) /\ WF_vars(Tick)
  /\ WF_vars(Emit) /\ WF_vars(SiblingIsDone)

Spec == Init /\ [][Next]_vars /\ Fairness

-----------------------------------------------------------------------------
(* Properties *)

\* Types: instants are numbers, and the error is one of Triage's.
TypeOK ==
  /\ clocks \in Settings
  /\ pc \in Phases /\ cause \in Endings /\ ended \in Endings /\ error \in Errors
  /\ sent \in Nat /\ mark \in Nat /\ checked \in Nat
  /\ watcher \in {"off", "watching", "gone"} /\ emitting \in BOOLEAN /\ cut \in BOOLEAN
  /\ now \in Nat /\ inbox \in BOOLEAN /\ server \in {"open", "eof", "broken"}
  /\ held \in BOOLEAN /\ delayed \in BOOLEAN /\ heard \in Nat /\ fresh \in BOOLEAN

\* A call is ended as stalled only when nothing has arrived for the whole idle
\* window, wherever the window falls between two ticks of the watcher (the claim
\* of stallGuard); it is the reader's own doing only when the bus held it up.
StallsAreSilences ==
  [][cause = "none" /\ cause' = "stalled" => delayed \/ now - heard >= clocks.idle]_vars

\* And it is noticed: no stream stays silent, and open, for a quarter more than the
\* window (guardBody's ticker).
StallIsNoticed ==
  pc = "stream" /\ On(clocks.idle) /\ cause = "none" => now - mark < clocks.idle + Quarter

\* The total clock ends whatever the call is doing, the dialling and the body of an
\* error included: no other clock covers those (modelCall's outermost context).
TotalHolds ==
  On(clocks.total) /\ pc # "returned" /\ ~delayed => now <= clocks.total

\* The error is one that Retry takes a call ended this way to return: the cause of
\* a call that was cut is the first that ended it, never that of the cleanup, and
\* one that was not cut has none.
ErrorIsOfItsEnding ==
  pc \in {"closing", "returned"} /\ error # NoError =>
    /\ cut => error \in CallErrors(Statuses, Afters, ended)
    /\ ~cut => error \in CallErrors(Statuses, Afters, "none")
    /\ cut => error.cause = ended

\* No watcher outlives its call (stopGuard's join).
NothingOutlivesTheCall == pc = "returned" => watcher # "watching"

\* The invariant behind the four: a stream that goes on is watched, the watcher is
\* less than a period behind the clock, and the guard never behind what arrived
\* unless the bus held the reader.
CallInv ==
  /\ StallIsNoticed /\ TotalHolds /\ ErrorIsOfItsEnding /\ NothingOutlivesTheCall
  /\ pc \notin {"closing", "returned"} => error = NoError /\ ~cut /\ cause = ended
  /\ pc = "closing" => cause # "none"
  /\ ended \in {"none", "interrupted", "stalled", "call_timeout"}
  /\ ended = "stalled" => pc \in {"stream", "closing", "returned"}
  /\ cut => ended # "none" /\ cause # "none"
  /\ watcher = "watching" => pc \in {"stream", "closing"} /\ On(clocks.idle)
  /\ pc = "stream" /\ On(clocks.idle) /\ cause = "none" => watcher = "watching"
  /\ watcher = "watching" => checked <= now /\ now - checked <= Quarter
                              /\ checked - mark < clocks.idle
  /\ mark <= now /\ heard <= now
  /\ pc = "stream" /\ fresh /\ ~inbox => mark = now
  /\ pc = "stream" /\ ~delayed => heard <= mark

\* With the total clock on, every call returns, whatever the server does.
CallReturns == On(clocks.total) => <>(pc = "returned")
=============================================================================
