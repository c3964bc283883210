------------------------------ MODULE Dispatch ------------------------------
(***************************************************************************)
(* One user turn: an agent, the subagents it starts, and the permission    *)
(* gate they share.  Each runs runTurn (main.go) and dispatch              *)
(* (subagent.go) on a goroutine of its own; gate.ask (main.go) puts one    *)
(* question at a time to the human.                                        *)
(*                                                                         *)
(* An agent is the path of call numbers that leads to it: <<>> is the      *)
(* agent of the session, <<2>> the subagent of its second call.  A call is *)
(* "bash", "task", or "bad", one that the boundary of stage 11 refuses.    *)
(***************************************************************************)
EXTENDS Integers, Sequences, FiniteSets

CONSTANTS
  MaxCalls,     \* bound: the calls of a reply
  MaxDepth,     \* --max-depth
  MaxTurns,     \* config.maxTurns
  SubTurns,     \* config.subTurns
  Nobody        \* gate.mu is free

Root == <<>>

Agents == UNION {[1 .. d -> 1 .. MaxCalls] : d \in 0 .. MaxDepth}

ASSUME DispatchAssumption ==
  /\ MaxCalls \in Nat \ {0} /\ MaxDepth \in Nat
  /\ MaxTurns \in Nat \ {0} /\ SubTurns \in Nat \ {0}
  /\ Nobody \notin Agents

VARIABLES
  open,         \* gate.yolo || gate.always
  available,    \* gate.available
  mu,           \* who holds gate.mu while the human is asked
  interrupted,  \* the context of the turn has been cancelled
  pc,           \* where each agent is
  turn,         \* its counter
  calls,        \* the tool calls of its last reply
  texts         \* dispatch's answers to them so far

\* History: what the gate said of each call of the last reply, which subagent wrote the report
\* in its place, and the round each agent was in when the stop key was pressed.
VARIABLES verdicts, author, stoppedAt

session == <<open, available>>
history == <<verdicts, author>>
vars == <<session, mu, interrupted, pc, turn, calls, texts, history, stoppedAt>>

Phases == {"idle", "top", "checked", "calling", "calls", "asking", "command", "subagents",
           "returned"}

Kinds == {"bash", "task", "bad"}

Texts == {"output", "approved", "report", "denied", "stopped", "refused", "skipped"}

Replies == UNION {[1 .. n -> Kinds] : n \in 1 .. MaxCalls}

Child(a, k) == Append(a, k)

Limit(a) == IF a = Root THEN MaxTurns ELSE SubTurns

Stopped(a) == \E k \in 1 .. Len(texts[a]) : texts[a][k] = "stopped"

Approved(a) == {k \in 1 .. Len(texts[a]) : texts[a][k] = "approved"}

NoReports == [k \in 1 .. MaxCalls |-> Nobody]

Init ==
  /\ open \in BOOLEAN /\ available \in BOOLEAN
  /\ mu = Nobody /\ interrupted = FALSE
  /\ pc = [a \in Agents |-> "idle"]
  /\ turn = [a \in Agents |-> 0]
  /\ calls = [a \in Agents |-> <<>>]
  /\ texts = [a \in Agents |-> <<>>]
  /\ verdicts = [a \in Agents |-> <<>>]
  /\ author = [a \in Agents |-> NoReports]
  /\ stoppedAt = [a \in Agents |-> 0]

Go(a, from, to) == pc[a] = from /\ pc' = [pc EXCEPT ![a] = to]

-----------------------------------------------------------------------------
(* runTurn *)

Submit ==
  /\ Go(Root, "idle", "top")
  /\ turn' = [turn EXCEPT ![Root] = 1]
  /\ UNCHANGED <<session, mu, interrupted, calls, texts, history, stoppedAt>>

Forgotten(f, a, nothing) == f' = [f EXCEPT ![a] = nothing]

RoundForgotten(a) ==
  /\ Forgotten(calls, a, <<>>) /\ Forgotten(texts, a, <<>>)
  /\ Forgotten(verdicts, a, <<>>) /\ Forgotten(author, a, NoReports)

\* The end of runTurn: the session's agent goes back to the prompt, a subagent reports.
Return(a) ==
  /\ pc' = [pc EXCEPT ![a] = IF a = Root THEN "idle" ELSE "returned"]
  /\ Forgotten(turn, a, 0) /\ RoundForgotten(a)
  /\ interrupted' = (interrupted /\ a # Root)
  /\ stoppedAt' = [b \in Agents |-> IF a = Root THEN 0 ELSE stoppedAt[b]]
  /\ UNCHANGED <<session, mu>>

\* The head of the loop: the turn limit, and the stop key.
GiveUp(a) ==
  /\ pc[a] = "top" /\ (turn[a] > Limit(a) \/ interrupted)
  /\ Return(a)

Check(a) ==
  /\ turn[a] <= Limit(a) /\ ~interrupted
  /\ Go(a, "top", "checked")
  /\ UNCHANGED <<session, mu, interrupted, turn, calls, texts, history, stoppedAt>>

\* The compaction, if one is due, and the request, which a cancelled context does not let out.
CallModel(a) ==
  /\ ~interrupted
  /\ Go(a, "checked", "calling")
  /\ UNCHANGED <<session, mu, interrupted, turn, calls, texts, history, stoppedAt>>

\* An error, an answer without calls, or a reply that ends the turn.
NoCalls(a) ==
  /\ pc[a] = "calling" \/ (pc[a] = "checked" /\ interrupted)
  /\ Return(a)

\* Mutant of CutOff: the reply is asked for again where it is handled.
CutOffRetried(a) ==
  /\ Go(a, "calling", "checked")
  /\ turn' = [turn EXCEPT ![a] = @ + 1]
  /\ UNCHANGED <<session, mu, interrupted, calls, texts, history, stoppedAt>>

\* A reply with calls that max_tokens cut off: they are answered unseen, and the loop goes on.
CutOff(a) ==
  /\ Go(a, "calling", "top")
  /\ turn' = [turn EXCEPT ![a] = @ + 1]
  /\ UNCHANGED <<session, mu, interrupted, calls, texts, history, stoppedAt>>

Reply(a) ==
  /\ Go(a, "calling", "calls")
  /\ \E reply \in Replies : calls' = [calls EXCEPT ![a] = reply]
  /\ UNCHANGED <<session, mu, interrupted, turn, texts, history, stoppedAt>>

-----------------------------------------------------------------------------
(* dispatch, pass 1: the calls in order, each answered or approved *)

\* The call agent a is at, if any is left.
At(a) == Len(texts[a]) + 1

AtCall(a) == pc[a] = "calls" /\ At(a) <= Len(calls[a])

Answer(a, verdict, text) ==
  /\ texts' = [texts EXCEPT ![a] = Append(@, text)]
  /\ verdicts' = [verdicts EXCEPT ![a] = Append(@, verdict)]

Skip(a) ==
  /\ AtCall(a) /\ Stopped(a)
  /\ Answer(a, "none", "skipped")
  /\ UNCHANGED <<session, mu, interrupted, pc, turn, calls, author, stoppedAt>>

\* No such tool, which is what "task" is at the last depth, or unusable arguments.
IsRefused(a) ==
  \/ calls[a][At(a)] = "bad"
  \/ calls[a][At(a)] = "task" /\ Len(a) >= MaxDepth

Refuse(a) ==
  /\ AtCall(a) /\ ~Stopped(a) /\ IsRefused(a)
  /\ Answer(a, "none", "refused")
  /\ UNCHANGED <<session, mu, interrupted, pc, turn, calls, author, stoppedAt>>

\* A subagent waits for pass 2; a command runs now, between the question and the answer.
Allow(a) ==
  IF calls[a][At(a)] = "task"
    THEN /\ Answer(a, "allow", "approved")
         /\ pc' = [pc EXCEPT ![a] = "calls"]
    ELSE /\ verdicts' = [verdicts EXCEPT ![a] = Append(@, "allow")]
         /\ pc' = [pc EXCEPT ![a] = "command"]
         /\ UNCHANGED texts

\* gate.ask, with gate.mu: nothing to ask, nobody to ask, or a question on the screen.
Asks(a) == AtCall(a) /\ ~Stopped(a) /\ ~IsRefused(a) /\ mu = Nobody

AskOpen(a) ==
  /\ Asks(a) /\ open
  /\ Allow(a)
  /\ UNCHANGED <<session, mu, interrupted, turn, calls, author, stoppedAt>>

AskNobody(a) ==
  /\ Asks(a) /\ ~open /\ ~available
  /\ Answer(a, "deny", "denied")
  /\ UNCHANGED <<session, mu, interrupted, pc, turn, calls, author, stoppedAt>>

\* Mutant of AskHuman: `always` is not looked at under the lock.
AskHumanAnyway(a) ==
  /\ Asks(a) /\ available
  /\ pc' = [pc EXCEPT ![a] = "asking"]
  /\ mu' = a
  /\ UNCHANGED <<session, interrupted, turn, calls, texts, history, stoppedAt>>

AskHuman(a) ==
  /\ Asks(a) /\ ~open /\ available
  /\ pc' = [pc EXCEPT ![a] = "asking"]
  /\ mu' = a
  /\ UNCHANGED <<session, interrupted, turn, calls, texts, history, stoppedAt>>

Yes(a) ==
  /\ pc[a] = "asking"
  /\ Allow(a)
  /\ mu' = Nobody
  /\ UNCHANGED <<session, interrupted, turn, calls, author, stoppedAt>>

All(a) ==
  /\ pc[a] = "asking"
  /\ Allow(a)
  /\ open' = TRUE /\ mu' = Nobody
  /\ UNCHANGED <<available, interrupted, turn, calls, author, stoppedAt>>

No(a) ==
  /\ Go(a, "asking", "calls")
  /\ Answer(a, "deny", "denied")
  /\ mu' = Nobody
  /\ UNCHANGED <<session, interrupted, turn, calls, author, stoppedAt>>

\* `q`, and an input that is closed.
Quit(a) ==
  /\ Go(a, "asking", "calls")
  /\ Answer(a, "abort", "stopped")
  /\ mu' = Nobody
  /\ UNCHANGED <<session, interrupted, turn, calls, author, stoppedAt>>

\* runCommand returns, with the output of a command that ended or was killed.
CommandEnds(a) ==
  /\ Go(a, "command", "calls")
  /\ texts' = [texts EXCEPT ![a] = Append(@, "output")]
  /\ UNCHANGED <<session, mu, interrupted, turn, calls, history, stoppedAt>>

-----------------------------------------------------------------------------
(* dispatch, pass 2: the approved subagents, all at once *)

AllSeen(a) == pc[a] = "calls" /\ calls[a] # <<>> /\ Len(texts[a]) = Len(calls[a])

Spawn(a) ==
  /\ AllSeen(a) /\ Approved(a) # {}
  /\ pc' = [b \in Agents |->
              IF b = a THEN "subagents"
              ELSE IF \E k \in Approved(a) : b = Child(a, k) THEN "top" ELSE pc[b]]
  /\ turn' = [b \in Agents |->
                IF \E k \in Approved(a) : b = Child(a, k) THEN 1 ELSE turn[b]]
  /\ UNCHANGED <<session, mu, interrupted, calls, texts, history, stoppedAt>>

\* Mutant of Report: the reports are put in the order they arrive in.
ReportInOrder(a, k) ==
  /\ pc[a] = "subagents" /\ k \in Approved(a)
  /\ Child(a, k) \in Agents /\ pc[Child(a, k)] = "returned"
  /\ LET place == CHOOSE l \in Approved(a) : \A m \in Approved(a) : l <= m
     IN  /\ texts' = [texts EXCEPT ![a][place] = "report"]
         /\ author' = [author EXCEPT ![a][place] = Child(a, k)]
  /\ pc' = [pc EXCEPT ![Child(a, k)] = "idle"]
  /\ UNCHANGED <<session, mu, interrupted, turn, calls, verdicts, stoppedAt>>

\* The goroutine of a subagent that has returned: its report goes to the place of its call.
Report(a, k) ==
  /\ pc[a] = "subagents" /\ k \in Approved(a)
  /\ Child(a, k) \in Agents /\ pc[Child(a, k)] = "returned"
  /\ texts' = [texts EXCEPT ![a][k] = "report"]
  /\ author' = [author EXCEPT ![a][k] = Child(a, k)]
  /\ pc' = [pc EXCEPT ![Child(a, k)] = "idle"]
  /\ UNCHANGED <<session, mu, interrupted, turn, calls, verdicts, stoppedAt>>

\* Mutant of Join: the first report is enough.
JoinFirst(a) ==
  /\ \E k \in 1 .. Len(texts[a]) : texts[a][k] = "report"
  /\ Go(a, "subagents", "calls")
  /\ UNCHANGED <<session, mu, interrupted, turn, calls, texts, history, stoppedAt>>

\* wg.Wait: every subagent has reported.
Join(a) ==
  /\ Approved(a) = {}
  /\ Go(a, "subagents", "calls")
  /\ UNCHANGED <<session, mu, interrupted, turn, calls, texts, history, stoppedAt>>

\* The results join the history.  The turn goes on unless the human stopped this agent, or
\* the fuse trips: its streak is counted in Turn, here it may be reached by any round whose
\* calls were all refused.
AllRefused(a) == \A k \in 1 .. Len(texts[a]) : texts[a][k] = "refused"

EndsHere(a) ==
  /\ AllSeen(a) /\ Approved(a) = {} /\ (Stopped(a) \/ AllRefused(a))
  /\ Return(a)

\* Mutant of GoesOn: a round that is not counted.
GoesOnUncounted(a) ==
  /\ AllSeen(a) /\ Approved(a) = {} /\ ~Stopped(a)
  /\ pc' = [pc EXCEPT ![a] = "top"]
  /\ RoundForgotten(a)
  /\ UNCHANGED <<session, mu, interrupted, turn, stoppedAt>>

GoesOn(a) ==
  /\ AllSeen(a) /\ Approved(a) = {} /\ ~Stopped(a)
  /\ pc' = [pc EXCEPT ![a] = "top"]
  /\ turn' = [turn EXCEPT ![a] = @ + 1]
  /\ RoundForgotten(a)
  /\ UNCHANGED <<session, mu, interrupted, stoppedAt>>

\* The stop key.
Interrupt ==
  /\ pc[Root] # "idle" /\ ~interrupted
  /\ interrupted' = TRUE
  /\ stoppedAt' = turn
  /\ UNCHANGED <<session, mu, pc, turn, calls, texts, history>>

Ask(a) == AskOpen(a) \/ AskNobody(a) \/ AskHuman(a)

Human(a) == Yes(a) \/ All(a) \/ No(a) \/ Quit(a)

Continue(a) ==
  \/ GiveUp(a) \/ Check(a) \/ CallModel(a) \/ NoCalls(a) \/ CutOff(a) \/ Reply(a)
  \/ Skip(a) \/ Refuse(a) \/ CommandEnds(a)
  \/ Spawn(a) \/ Join(a) \/ EndsHere(a) \/ GoesOn(a)

Next ==
  \/ Submit \/ Interrupt
  \/ \E a \in Agents : Continue(a) \/ Ask(a) \/ Human(a)
  \/ \E a \in Agents, k \in 1 .. MaxCalls : Report(a, k)

\* Goroutines run, sync.Mutex starves nobody, and the human answers what is asked.
Fairness ==
  /\ \A a \in Agents : WF_vars(Continue(a)) /\ SF_vars(Ask(a)) /\ WF_vars(Human(a))
  /\ \A a \in Agents, k \in 1 .. MaxCalls : WF_vars(Report(a, k))

Spec == Init /\ [][Next]_vars /\ Fairness

(***************************************************************************)
(* Properties                                                              *)
(***************************************************************************)
TypeOK ==
  /\ open \in BOOLEAN /\ available \in BOOLEAN
  /\ mu \in Agents \cup {Nobody}
  /\ interrupted \in BOOLEAN
  /\ pc \in [Agents -> Phases]
  /\ turn \in [Agents -> Nat] /\ \A a \in Agents : turn[a] <= Limit(a) + 1
  /\ calls \in [Agents -> Replies \cup {<<>>}]
  /\ texts \in [Agents -> Seq(Texts)]
  /\ verdicts \in [Agents -> Seq({"none", "allow", "deny", "abort"})]
  /\ author \in [Agents -> [1 .. MaxCalls -> Agents \cup {Nobody}]]
  /\ stoppedAt \in [Agents -> Nat]

\* A subagent is alive exactly while its parent waits for it in pass 2, for a call that was
\* approved: none is left behind by a stop, an abort or a turn limit (wg.Wait,
\* subagent.go 440-456).
SubagentsAreWaitedFor ==
  \A a \in Agents, k \in 1 .. MaxCalls :
    Child(a, k) \in Agents =>
      (pc[Child(a, k)] # "idle" <=> pc[a] = "subagents" /\ k \in Approved(a))

\* What the conversation says of a call is what happened to it: it ran or was delegated if
\* the gate allowed this very call, a report is that of the subagent this call started, it
\* was denied or stopped if the gate said so, and after an abort no call is asked about or run.
\* (A task the human allowed before is still delegated in pass 2.)  dispatch, subagent.go
\* 324-463.
AnswersAreTrue ==
  \A a \in Agents :
    /\ pc[a] \in {"asking", "command"} => ~Stopped(a)
    /\ pc[a] = "command" => calls[a][At(a)] = "bash" /\ verdicts[a][At(a)] = "allow"
    /\ \A k \in 1 .. Len(texts[a]) :
         /\ texts[a][k] = "skipped" <=> \E j \in 1 .. k - 1 : verdicts[a][j] = "abort"
         /\ texts[a][k] \in {"output", "approved", "report"} <=> verdicts[a][k] = "allow"
         /\ texts[a][k] = "denied" <=> verdicts[a][k] = "deny"
         /\ texts[a][k] = "stopped" <=> verdicts[a][k] = "abort"
         /\ texts[a][k] = "output" => calls[a][k] = "bash"
         /\ texts[a][k] \in {"approved", "report"} => calls[a][k] = "task"
         /\ texts[a][k] = "report" => author[a][k] = Child(a, k)

\* One question at a time: whoever asks holds the gate, whoever holds it asks, and no
\* question is on the screen once the human has said `a` to any agent (gate.ask).
OneQuestion ==
  /\ \A a \in Agents : pc[a] = "asking" <=> mu = a
  /\ open => mu = Nobody

InRound(a) == pc[a] \in {"checked", "calling", "calls", "asking", "command", "subagents"}

\* The inductive invariant.  An agent in a round is within its limit, one between rounds has
\* no answers, a verdict goes with each answer but that of a running command, and a question is
\* about a call that can be asked about, of an agent that was not stopped.
AgentInv(a) ==
  /\ InRound(a) => turn[a] <= Limit(a)
  /\ pc[a] \in {"idle", "top", "checked", "calling", "returned"} =>
       texts[a] = <<>> /\ verdicts[a] = <<>>
  /\ Len(verdicts[a]) = IF pc[a] = "command" THEN Len(texts[a]) + 1 ELSE Len(texts[a])
  /\ Len(texts[a]) <= Len(calls[a])
  /\ pc[a] \in {"asking", "command"} =>
       Len(texts[a]) < Len(calls[a]) /\ ~Stopped(a) /\ ~IsRefused(a)

DispatchInv ==
  /\ TypeOK /\ OneQuestion /\ SubagentsAreWaitedFor /\ AnswersAreTrue
  /\ \A a \in Agents : AgentInv(a)

\* After the stop key no agent begins another round: one that is in a round, with its
\* request, its questions, its commands or its subagents, is in the round in which the key was
\* pressed, and a subagent started later asks the model nothing (runTurn, main.go 902-916, which
\* looks at the stop at the head of the loop only).
StopEndsTheRound == interrupted => \A a \in Agents : InRound(a) => turn[a] = stoppedAt[a]

\* How many steps an agent has left at most in its round, and in all.
Unanswered(a) == Len(calls[a]) - Len(texts[a])

StepsOfRound(a) ==
  CASE pc[a] = "top"       -> 3 * MaxCalls + 6
    [] pc[a] = "checked"   -> 3 * MaxCalls + 5
    [] pc[a] = "calling"   -> 3 * MaxCalls + 4
    [] pc[a] = "calls"     -> IF Unanswered(a) = 0 /\ Approved(a) = {} THEN 1
                              ELSE 3 * Unanswered(a) + 3
    [] pc[a] = "asking"    -> 3 * Unanswered(a) + 2
    [] pc[a] = "command"   -> 3 * Unanswered(a) + 1
    [] pc[a] = "subagents" -> 2
    [] pc[a] \in {"idle", "returned"} -> 0

StepsLeft(a) == (Limit(a) + 1 - turn[a]) * (3 * MaxCalls + 6) + StepsOfRound(a)

InFlight(a) == pc[a] \notin {"idle", "returned"}

\* An agent only runs down, and nothing its family does gives it back a round, a call or a
\* question: no stop, refusal or second pass starts its work over (runTurn, dispatch).
AgentsRunDown ==
  [][\A a \in Agents : InFlight(a) /\ InFlight(a)' =>
       /\ StepsLeft(a)' \in Nat /\ StepsLeft(a)' <= StepsLeft(a)
       /\ Continue(a) \/ Ask(a) \/ Human(a) => StepsLeft(a)' < StepsLeft(a)]_vars

\* If the human answers, every turn comes back to the prompt: no agent waits for a gate or
\* a subagent that will never answer.
TurnReturns == pc[Root] # "idle" ~> pc[Root] = "idle"
=============================================================================
