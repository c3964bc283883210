------------------------------- MODULE Retry -------------------------------
(***************************************************************************)
(* retryLoop (triage.go): one model call of an agent, under the retry      *)
(* policy, over the ladder of providers that an agent and its concurrent   *)
(* subagents share by pointer, with the stop key of the user cancelling    *)
(* the context they all derive from (main.go, deadline.go).                *)
(*                                                                         *)
(* Durations are whole ticks, and the events are left out.                 *)
(***************************************************************************)
EXTENDS Triage, FiniteSets

CONSTANTS
  Agents,     \* the agents that call the model at the same time
  Rungs,      \* the number of providers on the ladder
  Attempts,   \* retryPolicy.attempts
  Base,       \* retryPolicy.base
  MaxWait,    \* retryPolicy.max
  Budget,     \* retryPolicy.budget
  Statuses,   \* the statuses, other than 200, a provider answers with
  Afters      \* the waits a Retry-After asks for, 0 for none

ASSUME RetryAssumption ==
  /\ Rungs \in Nat \ {0}
  /\ Attempts \in Nat \ {0}
  /\ Base \in Nat /\ MaxWait \in Nat /\ Budget \in Nat
  /\ Statuses \subseteq Nat /\ 0 \in Afters /\ Afters \subseteq Nat

Ladder == 0 .. Rungs - 1

VARIABLES
  cur,          \* ladder.cur
  interrupted,  \* the context has been cancelled with errInterrupted
  pc,           \* where each agent is in retryLoop
  at,           \* the rung lad.pos() gave it
  perRung,      \* the calls it counts on that rung
  waited,       \* the waits it has added up
  failure       \* the CallError of its last call

\* History: what ended the last call of each agent, and the calls it has made to
\* each rung, counted up to Attempts + 1.
VARIABLES ended, calls

shared == <<cur, interrupted>>
vars == <<shared, pc, at, perRung, waited, failure, ended, calls>>

NoFailure == CallError("none", 0, "none", 0, "none")

Phases == {"idle", "try", "calling", "stillborn", "failed", "moved", "sleeping"}

NoCalls == [r \in Ladder |-> 0]

OneMore(n) == IF n > Attempts THEN n ELSE n + 1

Init ==
  /\ cur = 0 /\ interrupted = FALSE
  /\ pc = [a \in Agents |-> "idle"]
  /\ at = [a \in Agents |-> 0]
  /\ perRung = [a \in Agents |-> 0]
  /\ waited = [a \in Agents |-> 0]
  /\ failure = [a \in Agents |-> NoFailure]
  /\ ended = [a \in Agents |-> "none"]
  /\ calls = [a \in Agents |-> NoCalls]

Go(a, from, to) == pc[a] = from /\ pc' = [pc EXCEPT ![a] = to]

\* retryLoop begins, with its counters at zero.
Start(a) ==
  /\ Go(a, "idle", "try")
  /\ UNCHANGED <<shared, at, perRung, waited, failure, ended, calls>>

\* It returns, and its locals are gone.
Finish(a, from) ==
  /\ Go(a, from, "idle")
  /\ at' = [at EXCEPT ![a] = 0]
  /\ perRung' = [perRung EXCEPT ![a] = 0]
  /\ waited' = [waited EXCEPT ![a] = 0]
  /\ failure' = [failure EXCEPT ![a] = NoFailure]
  /\ ended' = [ended EXCEPT ![a] = "none"]
  /\ calls' = [calls EXCEPT ![a] = NoCalls]
  /\ UNCHANGED shared

\* The head of the loop: lad.pos() and the call.  Under a context that is already
\* cancelled the request does not leave.
Try(a) ==
  /\ Go(a, "try", IF interrupted THEN "stillborn" ELSE "calling")
  /\ at' = [at EXCEPT ![a] = cur]
  /\ perRung' = [perRung EXCEPT ![a] = @ + 1]
  /\ calls' = [calls EXCEPT ![a][cur] = OneMore(@)]
  /\ UNCHANGED <<shared, waited, failure, ended>>

Succeed(a) == Finish(a, "calling")

\* The call fails on its own, or one of our clocks ends it, or the user does.
Fail(a, from, why) ==
  /\ Go(a, from, "failed")
  /\ ended' = [ended EXCEPT ![a] = why]
  /\ UNCHANGED <<shared, at, perRung, waited, calls>>

CallFails(a) ==
  \E why \in {"none", "stalled", "call_timeout"}
               \cup (IF interrupted THEN {"interrupted"} ELSE {}) :
    /\ Fail(a, "calling", why)
    /\ \E e \in CallErrors(Statuses, Afters, why) : failure' = [failure EXCEPT ![a] = e]

CallNeverLeaves(a) ==
  /\ Fail(a, "stillborn", "interrupted")
  /\ \E e \in ConnectErrors("interrupted") : failure' = [failure EXCEPT ![a] = e]

Says(a, v) == pc[a] = "failed" /\ Verdict(failure[a]) = v

\* Mutant of Exhausted: one attempt too many.
ExhaustedLate(a) == perRung[a] > Limit(failure[a], Attempts)

Exhausted(a) == perRung[a] >= Limit(failure[a], Attempts)

LeavesRung(a) == Says(a, "fallback") \/ (Says(a, "retry") /\ Exhausted(a))

GiveUp(a) ==
  /\ Says(a, "fatal")
  /\ Finish(a, "failed")

\* Mutant of AdvanceSteps: a rewind when the ladder has passed the rung.
AdvanceRewinds(a) ==
  /\ LeavesRung(a)
  /\ at[a] + 1 < Rungs
  /\ cur' = at[a] + 1
  /\ Go(a, "failed", "moved")
  /\ UNCHANGED <<interrupted, at, perRung, waited, failure, ended, calls>>

\* ladder.advance, from the rung the agent called: a step, or a step a sibling has
\* already made, or nowhere to go.
AdvanceSteps(a) ==
  /\ LeavesRung(a)
  /\ cur <= at[a] /\ at[a] + 1 < Rungs
  /\ cur' = at[a] + 1
  /\ Go(a, "failed", "moved")
  /\ UNCHANGED <<interrupted, at, perRung, waited, failure, ended, calls>>

SiblingMoved(a) ==
  /\ LeavesRung(a)
  /\ cur > at[a]
  /\ Go(a, "failed", "moved")
  /\ UNCHANGED <<shared, at, perRung, waited, failure, ended, calls>>

\* Mutant of NowhereToGo: what advance answers is not looked at.
NowhereNoticed(a) ==
  /\ LeavesRung(a)
  /\ cur <= at[a] /\ at[a] + 1 >= Rungs
  /\ Go(a, "failed", "try")
  /\ perRung' = [perRung EXCEPT ![a] = 0]
  /\ failure' = [failure EXCEPT ![a] = NoFailure]
  /\ ended' = [ended EXCEPT ![a] = "none"]
  /\ UNCHANGED <<shared, at, waited, calls>>

NowhereToGo(a) ==
  /\ LeavesRung(a)
  /\ cur <= at[a] /\ at[a] + 1 >= Rungs
  /\ Finish(a, "failed")

\* The loop goes on, on the rung the ladder has by then.
FreshRung(a) ==
  /\ Go(a, "moved", "try")
  /\ perRung' = [perRung EXCEPT ![a] = 0]
  /\ failure' = [failure EXCEPT ![a] = NoFailure]
  /\ ended' = [ended EXCEPT ![a] = "none"]
  /\ UNCHANGED <<cur, interrupted, at, waited, calls>>

\* retryPolicy.wait: what the server asked for, within eight times the ceiling, or
\* a draw below the exponential backoff.
AtMost(m, n) == IF n > m THEN m ELSE n

Backoff(n) ==
  LET exp == Base * 2 ^ (n - 1)
  IN  IF exp > MaxWait \/ exp = 0 THEN MaxWait ELSE exp

Waits(n, after) ==
  IF after > 0 THEN {AtMost(MaxWait * 8, after)}
  ELSE {w \in 0 .. Backoff(n) : w = 0 \/ w < Backoff(n)}

Retries(a) == Says(a, "retry") /\ ~Exhausted(a)

\* Mutant of Sleep: each wait is held against the budget by itself.
SleepUnsummed(a) ==
  /\ Retries(a)
  /\ \E w \in Waits(perRung[a], failure[a].after) :
       /\ w <= Budget
       /\ waited' = [waited EXCEPT ![a] = @ + w]
  /\ Go(a, "failed", "sleeping")
  /\ failure' = [failure EXCEPT ![a] = NoFailure]
  /\ ended' = [ended EXCEPT ![a] = "none"]
  /\ UNCHANGED <<shared, at, perRung, calls>>

Sleep(a) ==
  /\ Retries(a)
  /\ \E w \in Waits(perRung[a], failure[a].after) :
       /\ waited[a] + w <= Budget
       /\ waited' = [waited EXCEPT ![a] = @ + w]
  /\ Go(a, "failed", "sleeping")
  /\ failure' = [failure EXCEPT ![a] = NoFailure]
  /\ ended' = [ended EXCEPT ![a] = "none"]
  /\ UNCHANGED <<shared, at, perRung, calls>>

BudgetExhausted(a) ==
  /\ Retries(a)
  /\ \E w \in Waits(perRung[a], failure[a].after) : waited[a] + w > Budget
  /\ Finish(a, "failed")

\* waitFor: the timer, or the cancellation, whichever the select sees.
Wake(a) ==
  /\ Go(a, "sleeping", "try")
  /\ UNCHANGED <<shared, at, perRung, waited, failure, ended, calls>>

SleepCut(a) ==
  /\ interrupted
  /\ Finish(a, "sleeping")

\* The user presses the stop key during a turn; the next turn has a new context.
Interrupt ==
  /\ ~interrupted /\ \E a \in Agents : pc[a] # "idle"
  /\ interrupted' = TRUE
  /\ UNCHANGED <<cur, pc, at, perRung, waited, failure, ended, calls>>

NextTurn ==
  /\ interrupted /\ \A a \in Agents : pc[a] = "idle"
  /\ interrupted' = FALSE
  /\ UNCHANGED <<cur, pc, at, perRung, waited, failure, ended, calls>>

Continue(a) ==
  \/ Try(a) \/ Succeed(a) \/ CallFails(a) \/ CallNeverLeaves(a) \/ GiveUp(a)
  \/ AdvanceSteps(a) \/ SiblingMoved(a) \/ NowhereToGo(a)
  \/ FreshRung(a) \/ Sleep(a) \/ BudgetExhausted(a) \/ Wake(a) \/ SleepCut(a)

Next == (\E a \in Agents : Start(a) \/ Continue(a)) \/ Interrupt \/ NextTurn

Spec == Init /\ [][Next]_vars

(***************************************************************************)
(* Properties                                                              *)
(***************************************************************************)
TypeOK ==
  /\ cur \in Ladder
  /\ interrupted \in BOOLEAN
  /\ pc \in [Agents -> Phases]
  /\ at \in [Agents -> Ladder]
  /\ perRung \in [Agents -> Nat]
  /\ waited \in [Agents -> Nat]
  /\ failure \in [Agents -> Errors]
  /\ ended \in [Agents -> Endings]
  /\ calls \in [Agents -> [Ladder -> 0 .. Attempts + 1]]

\* The ladder goes one rung at a time, never back, and only off the rung that some
\* agent has just been failed by: an agent that still holds an older rung rewinds
\* nothing and skips nothing (advance, triage.go 482-512).
LadderStepsOnEvidence ==
  [][cur' # cur => /\ cur' = cur + 1
                   /\ \E a \in Agents : /\ at[a] = cur /\ pc[a] = "failed"
                                        /\ Verdict(failure[a]) # "fatal"]_vars

\* No request is sent to one provider more than `attempts` times, the first
\* included, whatever its siblings do to the ladder (triage.go 301-313).
AllowancePerRung ==
  \A a \in Agents, r \in Ladder : calls[a][r] <= Attempts

\* "budget: ceiling on all waiting in one call, summed" (triage.go 308): it is not
\* started again on the next rung.
WaitsWithinBudget == \A a \in Agents : waited[a] <= Budget

\* A call the user stopped is neither retried nor sent to another provider:
\* "interrupted: fatal, and the one that must not be retried OR fallen back"
\* (deadline.go 300-302).
InterruptIsFatal ==
  \A a \in Agents : pc[a] = "failed" /\ ended[a] = "interrupted" =>
    Verdict(failure[a]) = "fatal"

\* How many steps a model call has left at most: by the rung it is on or goes to
\* next, then by the attempts left there.
NextRung(a) == IF pc[a] \in {"calling", "stillborn", "failed"} THEN at[a] ELSE cur

StepsOnRung(a) ==
  CASE pc[a] = "idle"                      -> 0
    [] pc[a] = "moved"                     -> 4 * Attempts + 2
    [] pc[a] = "try"                       -> 4 * (Attempts - perRung[a]) + 1
    [] pc[a] = "sleeping"                  -> 4 * (Attempts - perRung[a]) + 2
    [] pc[a] = "failed"                    -> 4 * (Attempts - perRung[a]) + 3
    [] pc[a] \in {"calling", "stillborn"}  -> 4 * (Attempts - perRung[a]) + 4

StepsLeft(a) == (Rungs - 1 - NextRung(a)) * (4 * Attempts + 3) + StepsOnRung(a)

\* A model call only runs down, and nothing its siblings do to the ladder gives it
\* back an attempt, a rung or a wait: the `for {}` of retryLoop goes round a bounded
\* number of times, whichever of its exits it takes (retryLoop, advance).
CallRunsDown ==
  [][\A a \in Agents : pc[a] # "idle" /\ pc'[a] # "idle" =>
       /\ StepsLeft(a)' \in Nat /\ StepsLeft(a)' <= StepsLeft(a)
       /\ Continue(a) => StepsLeft(a)' < StepsLeft(a)]_vars

\* The inductive invariant.  No agent holds a rung the ladder has not reached, and
\* what it counts on its rung is what it sent there, unless the ladder moved.
AgentInv(a) ==
  /\ at[a] <= cur
  /\ \A r \in Ladder : calls[a][r] <= Attempts /\ (r > at[a] => calls[a][r] = 0)
  /\ pc[a] = "idle" => perRung[a] = 0 /\ calls[a] = NoCalls
  /\ pc[a] \in {"try", "sleeping"} =>
       /\ perRung[a] < Attempts
       /\ cur = at[a] => calls[a][cur] <= perRung[a]
  /\ pc[a] \in {"calling", "stillborn", "failed"} =>
       /\ perRung[a] <= Attempts
       /\ calls[a][at[a]] <= perRung[a]
  /\ pc[a] = "moved" => at[a] < cur

RetryInv == TypeOK /\ WaitsWithinBudget /\ \A a \in Agents : AgentInv(a)
=============================================================================
