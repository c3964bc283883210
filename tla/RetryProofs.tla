---------------------------- MODULE RetryProofs ----------------------------
(***************************************************************************)
(* What the retry loop guarantees for any number of agents and providers,  *)
(* and for any policy.                                                     *)
(***************************************************************************)
EXTENDS Retry, TLAPS

\* The allowance of a failure is within the policy's, and it is not zero.
LEMMA LimitWithin ==
  ASSUME NEW e
  PROVE  Limit(e, Attempts) \in 1 .. Attempts
BY RetryAssumption DEF Limit

\* A wait is a natural number of ticks.
LEMMA WaitsAreNat ==
  ASSUME NEW n, NEW after \in Nat, NEW w \in Waits(n, after)
  PROVE  w \in Nat
<1>1. CASE after > 0
  BY <1>1, RetryAssumption DEF Waits, AtMost
<1>2. CASE ~(after > 0)
  BY <1>2 DEF Waits
<1> QED
  BY <1>1, <1>2

\* What modelCall returns is an error of the program.
LEMMA CallErrorsTyped ==
  ASSUME NEW why \in Endings, NEW e \in CallErrors(Statuses, Afters, why)
  PROVE  e \in Errors
<1>1. CallErrors(Statuses, Afters, why) \subseteq
        BuildErrors \cup ConnectErrors(why) \cup EventErrors
          \cup StatusErrors(Statuses, Afters) \cup StreamErrors(why)
  BY DEF CallErrors, Endings
<1>2. BuildErrors \subseteq Errors /\ ConnectErrors(why) \subseteq Errors
        /\ StreamErrors(why) \subseteq Errors /\ EventErrors \subseteq Errors
  BY DEF BuildErrors, ConnectErrors, StreamErrors, EventErrors, CallError, Errors, Endings
<1>3. StatusErrors(Statuses, Afters) \subseteq Errors
  <2>1. ASSUME NEW s \in Statuses, NEW t \in Types, NEW w \in Afters
        PROVE  CallError("status", s, t, w, "none") \in Errors
    BY RetryAssumption DEF CallError, Errors, Endings
  <2> QED
    BY <2>1 DEF StatusErrors
<1> QED
  BY <1>1, <1>2, <1>3

-----------------------------------------------------------------------------
(***************************************************************************)
(* What a step of one agent leaves alone                                   *)
(***************************************************************************)
\* Agent b is where it was.
Untouched(b) ==
  /\ pc'[b] = pc[b] /\ at'[b] = at[b] /\ perRung'[b] = perRung[b]
  /\ waited'[b] = waited[b] /\ calls'[b] = calls[b]

\* A step of one agent does not move another.
LEMMA OthersUntouched ==
  ASSUME TypeOK, NEW a \in Agents, NEW b \in Agents, a # b, Start(a) \/ Continue(a)
  PROVE  Untouched(b)
<1> USE DEF TypeOK, Untouched
<1>1. CASE Start(a) \/ Try(a) \/ FreshRung(a) \/ Wake(a)
  BY <1>1 DEF Start, Try, FreshRung, Wake, Go
<1>2. CASE Succeed(a) \/ GiveUp(a) \/ NowhereToGo(a) \/ BudgetExhausted(a) \/ SleepCut(a)
  BY <1>2 DEF Succeed, GiveUp, NowhereToGo, BudgetExhausted, SleepCut, Finish, Go
<1>3. CASE CallFails(a) \/ CallNeverLeaves(a)
  BY <1>3 DEF CallFails, CallNeverLeaves, Fail, Go
<1>4. CASE AdvanceSteps(a) \/ SiblingMoved(a)
  BY <1>4 DEF AdvanceSteps, SiblingMoved, Go
<1>5. CASE Sleep(a)
  BY <1>5 DEF Sleep, Go
<1> QED
  BY <1>1, <1>2, <1>3, <1>4, <1>5 DEF Continue

\* An agent that is where it was, under a ladder that has not gone back, is as it was.
LEMMA UntouchedKeeps ==
  ASSUME TypeOK, NEW b \in Agents, AgentInv(b), Untouched(b), cur' \in Ladder, cur' >= cur
  PROVE  AgentInv(b)'
<1>1. at[b] \in Int /\ cur \in Int /\ cur' \in Int
  BY RetryAssumption DEF TypeOK, Ladder
<1>2. cur' = at[b] => cur = at[b]
  BY <1>1 DEF AgentInv
<1>3. at'[b] <= cur'
  BY <1>1 DEF AgentInv, Untouched
<1>4. pc[b] = "moved" => at[b] < cur'
  BY <1>1 DEF AgentInv
<1> QED
  BY <1>2, <1>3, <1>4 DEF AgentInv, Untouched

-----------------------------------------------------------------------------
(***************************************************************************)
(* Types                                                                   *)
(***************************************************************************)
LEMMA NothingTyped == NoFailure \in Errors /\ NoCalls \in [Ladder -> 0 .. Attempts + 1]
BY RetryAssumption DEF NoFailure, CallError, Errors, Endings, NoCalls

LEMMA InitTyped == Init => TypeOK
<1> SUFFICES ASSUME Init PROVE TypeOK
  OBVIOUS
<1>1. 0 \in Ladder
  BY RetryAssumption DEF Ladder
<1>2. cur \in Ladder /\ interrupted \in BOOLEAN
  BY <1>1 DEF Init
<1>3. at \in [Agents -> Ladder]
  BY <1>1 DEF Init
<1>4. perRung \in [Agents -> Nat] /\ waited \in [Agents -> Nat]
  BY DEF Init
<1>5. failure \in [Agents -> Errors]
  BY NothingTyped DEF Init
<1>6. calls \in [Agents -> [Ladder -> 0 .. Attempts + 1]]
  BY NothingTyped DEF Init
<1>7. pc \in [Agents -> Phases] /\ ended \in [Agents -> Endings]
  BY DEF Init, Phases, Endings
<1> QED
  BY <1>2, <1>3, <1>4, <1>5, <1>6, <1>7 DEF TypeOK

\* What changes where an agent goes changes no more than its phase.
LEMMA GoTyped ==
  ASSUME TypeOK, NEW a \in Agents, NEW from, NEW to \in Phases, Go(a, from, to)
  PROVE  pc' \in [Agents -> Phases]
BY DEF Go, TypeOK

LEMMA FinishTyped ==
  ASSUME TypeOK, NEW a \in Agents, NEW from, Finish(a, from)
  PROVE  TypeOK'
<1>1. pc' \in [Agents -> Phases]
  BY GoTyped DEF Finish, Phases
<1>2. 0 \in Ladder
  BY RetryAssumption DEF Ladder
<1> QED
  BY <1>1, <1>2, NothingTyped DEF Finish, TypeOK, Endings, shared

\* A step of an agent keeps the types.
LEMMA StepTyped ==
  ASSUME TypeOK, NEW a \in Agents, Start(a) \/ Continue(a)
  PROVE  TypeOK'
<1> USE DEF TypeOK
<1>1. CASE Start(a) \/ Wake(a)
  <2>1. pc' \in [Agents -> Phases]
    BY <1>1, GoTyped DEF Start, Wake, Phases
  <2> QED
    BY <1>1, <2>1 DEF Start, Wake, shared
<1>2. CASE Try(a)
  <2>1. pc' \in [Agents -> Phases]
    BY <1>2, GoTyped DEF Try, Phases
  <2>2. OneMore(calls[a][cur]) \in 0 .. Attempts + 1
    BY RetryAssumption DEF OneMore
  <2>3. calls' = [calls EXCEPT ![a] = [calls[a] EXCEPT ![cur] = OneMore(calls[a][cur])]]
    BY <1>2 DEF Try
  <2>4. [calls[a] EXCEPT ![cur] = OneMore(calls[a][cur])] \in [Ladder -> 0 .. Attempts + 1]
    BY <2>2
  <2>5. calls' \in [Agents -> [Ladder -> 0 .. Attempts + 1]]
    BY <2>3, <2>4
  <2>6. at' \in [Agents -> Ladder] /\ perRung' \in [Agents -> Nat]
    BY <1>2 DEF Try
  <2> QED
    BY <1>2, <2>1, <2>5, <2>6 DEF Try, shared
<1>3. CASE Succeed(a) \/ GiveUp(a) \/ NowhereToGo(a) \/ BudgetExhausted(a) \/ SleepCut(a)
  BY <1>3, FinishTyped DEF Succeed, GiveUp, NowhereToGo, BudgetExhausted, SleepCut
<1>4. CASE CallFails(a)
  <2>0. PICK why \in {"none", "stalled", "call_timeout", "interrupted"} :
          /\ Fail(a, "calling", why)
          /\ \E e \in CallErrors(Statuses, Afters, why) : failure' = [failure EXCEPT ![a] = e]
    BY <1>4 DEF CallFails
  <2>1. PICK e \in CallErrors(Statuses, Afters, why) :
          failure' = [failure EXCEPT ![a] = e]
    BY <2>0
  <2>2. why \in Endings /\ e \in Errors
    BY CallErrorsTyped DEF Endings
  <2>3. pc' \in [Agents -> Phases]
    BY <2>0, GoTyped DEF Fail, Phases
  <2> QED
    BY <2>0, <2>1, <2>2, <2>3 DEF Fail, shared
<1>5. CASE CallNeverLeaves(a)
  <2>1. PICK e \in ConnectErrors("interrupted") :
          Fail(a, "stillborn", "interrupted") /\ failure' = [failure EXCEPT ![a] = e]
    BY <1>5 DEF CallNeverLeaves
  <2>2. e \in Errors /\ "interrupted" \in Endings
    BY RetryAssumption DEF ConnectErrors, CallError, Errors, Endings
  <2>3. pc' \in [Agents -> Phases]
    BY <2>1, GoTyped DEF Fail, Phases
  <2> QED
    BY <2>1, <2>2, <2>3 DEF Fail, shared
<1>6. CASE AdvanceSteps(a)
  <2>1. pc' \in [Agents -> Phases]
    BY <1>6, GoTyped DEF AdvanceSteps, Phases
  <2>2. cur' \in Ladder
    BY <1>6, RetryAssumption DEF AdvanceSteps, Ladder
  <2> QED
    BY <1>6, <2>1, <2>2 DEF AdvanceSteps
<1>7. CASE SiblingMoved(a)
  <2>1. pc' \in [Agents -> Phases]
    BY <1>7, GoTyped DEF SiblingMoved, Phases
  <2> QED
    BY <1>7, <2>1 DEF SiblingMoved, shared
<1>8. CASE FreshRung(a)
  <2>1. pc' \in [Agents -> Phases]
    BY <1>8, GoTyped DEF FreshRung, Phases
  <2>2. 0 \in Ladder /\ "none" \in Endings
    BY RetryAssumption DEF Ladder, Endings
  <2> QED
    BY <1>8, <2>1, <2>2, NothingTyped DEF FreshRung
<1>9. CASE Sleep(a)
  <2>1. pc' \in [Agents -> Phases]
    BY <1>9, GoTyped DEF Sleep, Phases
  <2>2. PICK w \in Waits(perRung[a], failure[a].after) :
          waited' = [waited EXCEPT ![a] = @ + w]
    BY <1>9 DEF Sleep
  <2>3. failure[a].after \in Nat
    BY DEF Errors
  <2>4. waited' \in [Agents -> Nat]
    BY <2>2, <2>3, WaitsAreNat
  <2>5. "none" \in Endings
    BY DEF Endings
  <2> QED
    BY <1>9, <2>1, <2>4, <2>5, NothingTyped DEF Sleep, shared
<1> QED
  BY <1>1, <1>2, <1>3, <1>4, <1>5, <1>6, <1>7, <1>8, <1>9 DEF Continue

\* A key press changes no more than the context.
LEMMA KeyTyped ==
  ASSUME TypeOK, Interrupt \/ NextTurn
  PROVE  TypeOK' /\ cur' = cur /\ \A b \in Agents : Untouched(b)
BY DEF Interrupt, NextTurn, TypeOK, Untouched

\* The retry loop keeps its types (the variables of retryLoop and of the ladder).
THEOREM RetryTyped == Spec => []TypeOK
<1>1. TypeOK /\ [Next]_vars => TypeOK'
  <2> SUFFICES ASSUME TypeOK, [Next]_vars PROVE TypeOK'
    OBVIOUS
  <2>1. CASE Next
    BY <2>1, StepTyped, KeyTyped DEF Next
  <2>2. CASE UNCHANGED vars
    BY <2>2 DEF vars, shared, TypeOK
  <2> QED
    BY <2>1, <2>2
<1> QED
  BY <1>1, InitTyped, PTL DEF Spec

-----------------------------------------------------------------------------
(***************************************************************************)
(* The allowance and the budget                                            *)
(***************************************************************************)
LEMMA InitInv == Init => RetryInv
<1> SUFFICES ASSUME Init PROVE RetryInv
  OBVIOUS
<1>1. TypeOK
  BY InitTyped
<1>2. WaitsWithinBudget
  BY RetryAssumption DEF Init, WaitsWithinBudget
<1>3. ASSUME NEW a \in Agents PROVE AgentInv(a)
  BY RetryAssumption DEF Init, AgentInv, NoCalls, Ladder
<1> QED
  BY <1>1, <1>2, <1>3 DEF RetryInv

\* The ladder never goes back.
LEMMA LadderClimbs ==
  ASSUME TypeOK, NEW a \in Agents, Start(a) \/ Continue(a)
  PROVE  cur' >= cur
<1>1. cur \in Int
  BY DEF TypeOK, Ladder
<1>2. cur' = cur \/ AdvanceSteps(a)
  BY DEF Continue, Start, Try, Succeed, CallFails, Fail, CallNeverLeaves, GiveUp, SiblingMoved,
         NowhereToGo, FreshRung, Sleep, BudgetExhausted, Wake, SleepCut, Finish, shared
<1> QED
  BY <1>1, <1>2 DEF AdvanceSteps, TypeOK, Ladder

\* Back to "idle", with nothing counted.
LEMMA FinishKeeps ==
  ASSUME TypeOK, NEW a \in Agents, NEW from, Finish(a, from)
  PROVE  AgentInv(a)'
<1>1. pc'[a] = "idle" /\ at'[a] = 0 /\ perRung'[a] = 0 /\ calls'[a] = NoCalls /\ cur' = cur
  BY DEF Finish, Go, TypeOK, shared
<1>2. cur >= 0
  BY DEF TypeOK, Ladder
<1>3. \A r \in Ladder : NoCalls[r] = 0
  BY DEF NoCalls
<1> QED
  BY <1>1, <1>2, <1>3, RetryAssumption DEF AgentInv

\* The agent that moves keeps its own part of the invariant.
LEMMA MoverKeeps ==
  ASSUME TypeOK, NEW a \in Agents, AgentInv(a), Start(a) \/ Continue(a)
  PROVE  AgentInv(a)'
<1>0. /\ cur \in Ladder /\ at[a] \in Ladder /\ perRung[a] \in Nat
      /\ calls[a] \in [Ladder -> 0 .. Attempts + 1]
      /\ Ladder \subseteq Int /\ Attempts \in Nat \ {0}
  BY RetryAssumption DEF TypeOK, Ladder
<1>1. CASE Start(a)
  <2>1. /\ pc[a] = "idle" /\ pc'[a] = "try"
        /\ cur' = cur /\ at' = at /\ perRung' = perRung /\ calls' = calls
    BY <1>1 DEF Start, Go, TypeOK, shared
  <2>2. \A r \in Ladder : NoCalls[r] = 0
    BY DEF NoCalls
  <2> QED
    BY <1>0, <2>1, <2>2 DEF AgentInv
<1>2. CASE Try(a)
  <2>1. /\ pc[a] = "try" /\ pc'[a] \in {"calling", "stillborn"}
        /\ cur' = cur /\ at'[a] = cur /\ perRung'[a] = perRung[a] + 1
        /\ calls'[a] = [calls[a] EXCEPT ![cur] = OneMore(calls[a][cur])]
    BY <1>2 DEF Try, Go, TypeOK, shared
  <2>2. calls[a][cur] <= perRung[a]
    BY <1>0, <2>1 DEF AgentInv
  <2>3. calls'[a][cur] = calls[a][cur] + 1
    BY <1>0, <2>1 DEF OneMore, AgentInv
  <2>4. \A r \in Ladder : calls'[a][r] <= Attempts /\ (r > cur => calls'[a][r] = 0)
    BY <1>0, <2>1, <2>2, <2>3 DEF AgentInv
  <2>5. perRung'[a] <= Attempts /\ calls'[a][cur] <= perRung'[a]
    BY <1>0, <2>1, <2>2, <2>3 DEF AgentInv
  <2> QED
    BY <1>0, <2>1, <2>4, <2>5 DEF AgentInv
<1>3. CASE Succeed(a) \/ GiveUp(a) \/ NowhereToGo(a) \/ BudgetExhausted(a) \/ SleepCut(a)
  BY <1>3, FinishKeeps DEF Succeed, GiveUp, NowhereToGo, BudgetExhausted, SleepCut
<1>4. CASE CallFails(a) \/ CallNeverLeaves(a)
  <2>1. /\ pc[a] \in {"calling", "stillborn"} /\ pc'[a] = "failed"
        /\ cur' = cur /\ at' = at /\ perRung' = perRung /\ calls' = calls
    BY <1>4 DEF CallFails, CallNeverLeaves, Fail, Go, TypeOK, shared
  <2> QED
    BY <2>1 DEF AgentInv
<1>5. CASE AdvanceSteps(a) \/ SiblingMoved(a)
  <2>1. /\ pc[a] = "failed" /\ pc'[a] = "moved"
        /\ at' = at /\ perRung' = perRung /\ calls' = calls
    BY <1>5 DEF AdvanceSteps, SiblingMoved, Go, TypeOK
  <2>2. cur' = at[a] + 1 \/ (cur' = cur /\ cur > at[a])
    BY <1>5 DEF AdvanceSteps, SiblingMoved, shared
  <2>3. at[a] \in Int /\ cur \in Int
    BY <1>0
  <2>4. at[a] < cur'
    BY <2>2, <2>3
  <2>5. at[a] <= cur'
    BY <2>2, <2>3
  <2> QED
    BY <2>1, <2>4, <2>5 DEF AgentInv
<1>6. CASE FreshRung(a)
  <2>1. /\ pc[a] = "moved" /\ pc'[a] = "try"
        /\ cur' = cur /\ at' = at /\ perRung'[a] = 0 /\ calls' = calls
    BY <1>6 DEF FreshRung, Go, TypeOK
  <2>2. at[a] < cur
    BY <2>1 DEF AgentInv
  <2>3. calls[a][cur] = 0 /\ cur # at[a]
    BY <1>0, <2>2 DEF AgentInv
  <2> QED
    BY <1>0, <2>1, <2>3 DEF AgentInv
<1>7. CASE Sleep(a)
  <2>1. /\ pc[a] = "failed" /\ pc'[a] = "sleeping"
        /\ cur' = cur /\ at' = at /\ perRung' = perRung /\ calls' = calls
    BY <1>7 DEF Sleep, Go, TypeOK, shared
  <2>2. perRung[a] < Attempts
    BY <1>0, <1>7, LimitWithin DEF Sleep, Retries, Exhausted
  <2> QED
    BY <1>0, <2>1, <2>2 DEF AgentInv
<1>8. CASE Wake(a)
  <2>1. /\ pc[a] = "sleeping" /\ pc'[a] = "try"
        /\ cur' = cur /\ at' = at /\ perRung' = perRung /\ calls' = calls
    BY <1>8 DEF Wake, Go, TypeOK, shared
  <2> QED
    BY <2>1 DEF AgentInv
<1> QED
  BY <1>1, <1>2, <1>3, <1>4, <1>5, <1>6, <1>7, <1>8 DEF Continue

\* A wait is slept only within what the budget has left.
LEMMA StepWithinBudget ==
  ASSUME TypeOK, WaitsWithinBudget, NEW a \in Agents, Start(a) \/ Continue(a)
  PROVE  WaitsWithinBudget'
<1>1. CASE Sleep(a)
  <2>1. PICK w \in Waits(perRung[a], failure[a].after) :
          waited[a] + w <= Budget /\ waited' = [waited EXCEPT ![a] = @ + w]
    BY <1>1 DEF Sleep
  <2> QED
    BY <2>1 DEF WaitsWithinBudget, TypeOK
<1>2. CASE ~Sleep(a)
  <2>1. waited' = waited \/ waited' = [waited EXCEPT ![a] = 0]
    BY <1>2
    DEF Continue, Start, Try, Succeed, CallFails, Fail, CallNeverLeaves, GiveUp, AdvanceSteps,
        SiblingMoved, NowhereToGo, FreshRung, BudgetExhausted, Wake, SleepCut, Finish
  <2>2. \A b \in Agents : waited'[b] \in {waited[b], 0}
    BY <2>1 DEF TypeOK
  <2> QED
    BY <2>2, RetryAssumption DEF WaitsWithinBudget
<1> QED
  BY <1>1, <1>2

\* The inductive invariant.
THEOREM Invariance == Spec => []RetryInv
<1>1. RetryInv /\ [Next]_vars => RetryInv'
  <2> SUFFICES ASSUME RetryInv, [Next]_vars PROVE RetryInv'
    OBVIOUS
  <2>0. TypeOK /\ WaitsWithinBudget /\ \A b \in Agents : AgentInv(b)
    BY DEF RetryInv
  <2>1. ASSUME NEW a \in Agents, Start(a) \/ Continue(a) PROVE RetryInv'
    <3>1. TypeOK' /\ WaitsWithinBudget'
      BY <2>0, <2>1, StepTyped, StepWithinBudget
    <3>2. cur' \in Ladder /\ cur' >= cur
      BY <2>0, <2>1, <3>1, LadderClimbs DEF TypeOK
    <3>3. ASSUME NEW b \in Agents PROVE AgentInv(b)'
      <4>1. CASE a = b
        BY <2>0, <2>1, <4>1, MoverKeeps
      <4>2. CASE a # b
        BY <2>0, <2>1, <3>2, <4>2, OthersUntouched, UntouchedKeeps
      <4> QED
        BY <4>1, <4>2
    <3> QED
      BY <3>1, <3>3 DEF RetryInv
  <2>2. CASE Interrupt \/ NextTurn
    <3>1. TypeOK' /\ cur' = cur /\ \A b \in Agents : Untouched(b)
      BY <2>0, <2>2, KeyTyped
    <3>2. cur' \in Ladder /\ cur' >= cur
      BY <3>1 DEF TypeOK, Ladder
    <3>3. \A b \in Agents : AgentInv(b)'
      BY <2>0, <3>1, <3>2, UntouchedKeeps
    <3>4. WaitsWithinBudget'
      BY <2>0, <3>1 DEF WaitsWithinBudget, Untouched
    <3> QED
      BY <3>1, <3>3, <3>4 DEF RetryInv
  <2>3. CASE UNCHANGED vars
    BY <2>3, <2>0 DEF vars, shared, RetryInv, TypeOK, WaitsWithinBudget, AgentInv
  <2> QED
    BY <2>1, <2>2, <2>3 DEF Next
<1> QED
  BY <1>1, InitInv, PTL DEF Spec

\* No request is sent to one provider more than `attempts` times (triage.go 301-313).
THEOREM AllowanceHolds == Spec => []AllowancePerRung
<1>1. RetryInv => AllowancePerRung
  BY DEF RetryInv, AgentInv, AllowancePerRung
<1> QED
  BY <1>1, Invariance, PTL

\* "budget: ceiling on all waiting in one call, summed" (triage.go 308).
THEOREM BudgetHolds == Spec => []WaitsWithinBudget
<1>1. RetryInv => WaitsWithinBudget
  BY DEF RetryInv
<1> QED
  BY <1>1, Invariance, PTL

\* The ladder goes one rung at a time, and only off a rung that has just failed an
\* agent: the rewind of the comment on advance cannot happen (triage.go 482-512).
THEOREM LadderOnlySteps == Spec => LadderStepsOnEvidence
<1> DEFINE A == cur' # cur =>
                  /\ cur' = cur + 1
                  /\ \E a \in Agents : /\ at[a] = cur /\ pc[a] = "failed"
                                       /\ Verdict(failure[a]) # "fatal"
<1>1. RetryInv /\ [Next]_vars => [A]_vars
  <2> SUFFICES ASSUME RetryInv, Next, cur' # cur PROVE A
    BY DEF vars, shared
  <2>1. PICK a \in Agents : AdvanceSteps(a)
    BY DEF Next, Continue, Start, Try, Succeed, CallFails, Fail, CallNeverLeaves, GiveUp,
           SiblingMoved, NowhereToGo, FreshRung, Sleep, BudgetExhausted, Wake,
           SleepCut, Finish, shared, Interrupt, NextTurn
  <2>2. at[a] <= cur /\ at[a] \in Int /\ cur \in Int
    BY DEF RetryInv, AgentInv, TypeOK, Ladder
  <2>3. at[a] = cur /\ cur' = cur + 1
    BY <2>1, <2>2 DEF AdvanceSteps
  <2>4. pc[a] = "failed" /\ Verdict(failure[a]) # "fatal"
    BY <2>1 DEF AdvanceSteps, LeavesRung, Says
  <2> QED
    BY <2>3, <2>4
<1> QED
  BY <1>1, Invariance, PTL DEF Spec, LadderStepsOnEvidence

-----------------------------------------------------------------------------
(***************************************************************************)
(* How long a model call may last                                          *)
(***************************************************************************)
\* Fewer rungs, or as many and fewer steps on the rung, are fewer steps.
LEMMA Fewer ==
  ASSUME NEW x \in Nat, NEW y \in Nat, NEW w \in Nat, NEW s \in Nat, NEW t \in Nat,
         t < s + w, y < x \/ (y = x /\ t <= s)
  PROVE  /\ y * w + t \in Nat /\ y * w + t <= x * w + s
         /\ y < x \/ t < s => y * w + t < x * w + s
<1>1. y * w \in Nat /\ x * w \in Nat
  OBVIOUS
<1>2. y < x => y * w + w <= x * w
  <2> SUFFICES ASSUME y < x PROVE y * w + w <= x * w
    OBVIOUS
  <2> DEFINE d == x - y - 1
  <2>1. d \in Nat /\ x = y + d + 1
    OBVIOUS
  <2> HIDE DEF d
  <2>2. x * w = y * w + d * w + w /\ d * w \in Nat
    BY <2>1
  <2> QED
    BY <1>1, <2>2
<1> QED
  BY <1>1, <1>2

\* A call in flight is on a rung of the ladder, and has not run out of steps there.
LEMMA RungAndSteps ==
  ASSUME TypeOK, NEW a \in Agents, AgentInv(a), pc[a] # "idle"
  PROVE  /\ Rungs - 1 - NextRung(a) \in Nat /\ NextRung(a) \in Int
         /\ StepsOnRung(a) \in 1 .. 4 * Attempts + 4 /\ Attempts \in Nat \ {0}
         /\ pc[a] # "moved" => StepsOnRung(a) \in Nat /\ perRung[a] \in 0 .. Attempts
<1>1. /\ cur \in 0 .. Rungs - 1 /\ at[a] \in 0 .. Rungs - 1 /\ perRung[a] \in Nat
      /\ pc[a] \in Phases /\ Rungs \in Nat /\ Attempts \in Nat \ {0}
  BY RetryAssumption DEF TypeOK, Ladder
<1>2. Rungs - 1 - NextRung(a) \in Nat /\ NextRung(a) \in Int
  BY <1>1 DEF NextRung
<1>3. CASE pc[a] = "moved"
  BY <1>1, <1>2, <1>3 DEF StepsOnRung
<1>4. CASE pc[a] # "moved"
  <2>1. perRung[a] \in 0 .. Attempts
    BY <1>1, <1>4 DEF AgentInv, Phases
  <2>2. StepsOnRung(a) \in 1 .. 4 * Attempts + 4
    BY <1>1, <1>4, <2>1 DEF StepsOnRung, Phases
  <2> QED
    BY <1>1, <1>2, <2>1, <2>2
<1> QED
  BY <1>3, <1>4

\* Either the rung is a later one, or there are no more steps than before.
RunsDown(a) ==
  \/ NextRung(a) < NextRung(a)'
  \/ NextRung(a)' = NextRung(a) /\ StepsOnRung(a)' <= StepsOnRung(a)

RunsDownByOne(a) ==
  NextRung(a) < NextRung(a)' \/ StepsOnRung(a)' < StepsOnRung(a)

LEMMA MoverRunsDown ==
  ASSUME TypeOK, NEW a \in Agents, AgentInv(a), Continue(a), pc'[a] # "idle"
  PROVE  /\ RunsDown(a) /\ RunsDownByOne(a)
         /\ StepsOnRung(a)' < StepsOnRung(a) + (4 * Attempts + 3)
<1>0. /\ cur \in Int /\ at[a] \in Int /\ perRung[a] \in Nat /\ Attempts \in Nat \ {0}
      /\ at[a] <= cur
  BY RetryAssumption DEF TypeOK, Ladder, AgentInv
<1> USE DEF RunsDown, RunsDownByOne, NextRung, StepsOnRung
<1>1. CASE Try(a)
  <2>1. /\ pc[a] = "try" /\ pc'[a] \in {"calling", "stillborn"}
        /\ cur' = cur /\ at'[a] = cur /\ perRung'[a] = perRung[a] + 1
    BY <1>1 DEF Try, Go, TypeOK, shared
  <2> QED
    BY <1>0, <2>1
<1>2. CASE Succeed(a) \/ GiveUp(a) \/ NowhereToGo(a) \/ BudgetExhausted(a) \/ SleepCut(a)
  BY <1>2 DEF Succeed, GiveUp, NowhereToGo, BudgetExhausted, SleepCut, Finish, Go, TypeOK
<1>3. CASE CallFails(a) \/ CallNeverLeaves(a)
  <2>1. /\ pc[a] \in {"calling", "stillborn"} /\ pc'[a] = "failed"
        /\ cur' = cur /\ at' = at /\ perRung' = perRung
    BY <1>3 DEF CallFails, CallNeverLeaves, Fail, Go, TypeOK, shared
  <2> QED
    BY <1>0, <2>1
<1>4. CASE AdvanceSteps(a) \/ SiblingMoved(a)
  <2>1. /\ pc[a] = "failed" /\ pc'[a] = "moved" /\ perRung[a] <= Attempts
    BY <1>4 DEF AdvanceSteps, SiblingMoved, Go, TypeOK, AgentInv
  <2>2. cur' = at[a] + 1 \/ (cur' = cur /\ cur > at[a])
    BY <1>4 DEF AdvanceSteps, SiblingMoved, shared
  <2>3. at[a] < cur'
    BY <1>0, <2>2
  <2>4. StepsOnRung(a) >= 3 /\ StepsOnRung(a)' = 4 * Attempts + 2 /\ StepsOnRung(a) \in Int
    BY <1>0, <2>1
  <2>5. NextRung(a) = at[a] /\ NextRung(a)' = cur'
    BY <2>1
  <2> HIDE DEF NextRung, StepsOnRung
  <2> QED
    BY <1>0, <2>3, <2>4, <2>5
<1>5. CASE FreshRung(a)
  <2>1. pc[a] = "moved" /\ pc'[a] = "try" /\ cur' = cur /\ perRung'[a] = 0
    BY <1>5 DEF FreshRung, Go, TypeOK
  <2> QED
    BY <1>0, <2>1
<1>6. CASE Sleep(a)
  <2>1. /\ pc[a] = "failed" /\ pc'[a] = "sleeping"
        /\ cur' = cur /\ at' = at /\ perRung' = perRung
    BY <1>6 DEF Sleep, Go, TypeOK, shared
  <2> QED
    BY <1>0, <2>1
<1>7. CASE Wake(a)
  <2>1. /\ pc[a] = "sleeping" /\ pc'[a] = "try"
        /\ cur' = cur /\ at' = at /\ perRung' = perRung
    BY <1>7 DEF Wake, Go, TypeOK, shared
  <2> QED
    BY <1>0, <2>1
<1> QED
  BY <1>1, <1>2, <1>3, <1>4, <1>5, <1>6, <1>7 DEF Continue

\* What a sibling does may take the call to a later rung, and nothing else.
LEMMA SiblingRunsDown ==
  ASSUME TypeOK, NEW a \in Agents, AgentInv(a), pc[a] # "idle", Untouched(a),
         cur' >= cur, cur' \in Ladder
  PROVE  /\ RunsDown(a) /\ StepsOnRung(a)' < StepsOnRung(a) + (4 * Attempts + 3)
<1>1. cur \in Int /\ cur' \in Int
  BY RetryAssumption DEF TypeOK, Ladder
<1>2. StepsOnRung(a)' = StepsOnRung(a)
  BY DEF StepsOnRung, Untouched
<1>3. NextRung(a) < NextRung(a)' \/ NextRung(a)' = NextRung(a)
  BY <1>1 DEF NextRung, Untouched
<1>4. StepsOnRung(a) \in Int /\ Attempts \in Nat \ {0}
  BY RungAndSteps
<1> QED
  BY <1>2, <1>3, <1>4 DEF RunsDown

\* A model call only runs down, whatever its siblings do to the ladder: at most
\* Rungs * (4 * Attempts + 3) + 1 steps of its own from its start to its end, for any
\* number of agents (retryLoop, triage.go 640-800).
THEOREM CallsRunDown == Spec => CallRunsDown
<1> DEFINE A == \A a \in Agents : pc[a] # "idle" /\ pc'[a] # "idle" =>
                  /\ StepsLeft(a)' \in Nat /\ StepsLeft(a)' <= StepsLeft(a)
                  /\ Continue(a) => StepsLeft(a)' < StepsLeft(a)
<1>0. (TypeOK => \A a \in Agents : AgentInv(a) /\ pc[a] # "idle" =>
         /\ Rungs - 1 - NextRung(a) \in Nat /\ NextRung(a) \in Int
         /\ StepsOnRung(a) \in Nat)'
  <2>1. TypeOK => \A a \in Agents : AgentInv(a) /\ pc[a] # "idle" =>
          /\ Rungs - 1 - NextRung(a) \in Nat /\ NextRung(a) \in Int
          /\ StepsOnRung(a) \in Nat
    BY RungAndSteps
  <2> QED
    BY <2>1, PTL
<1>1. RetryInv /\ RetryInv' /\ [Next]_vars => [A]_vars
  <2> SUFFICES ASSUME RetryInv, RetryInv', Next,
                      NEW a \in Agents, pc[a] # "idle", pc'[a] # "idle"
               PROVE  /\ StepsLeft(a)' \in Nat /\ StepsLeft(a)' <= StepsLeft(a)
                      /\ Continue(a) => StepsLeft(a)' < StepsLeft(a)
    OBVIOUS
  <2>1. TypeOK /\ AgentInv(a) /\ TypeOK' /\ AgentInv(a)'
    BY DEF RetryInv
  <2>2. /\ Rungs - 1 - NextRung(a) \in Nat /\ NextRung(a) \in Int
        /\ StepsOnRung(a) \in Nat /\ Attempts \in Nat \ {0}
    BY <2>1, RungAndSteps
  <2>3. /\ Rungs - 1 - NextRung(a)' \in Nat /\ NextRung(a)' \in Int /\ StepsOnRung(a)' \in Nat
    BY <2>1, <1>0
  <2>4. /\ RunsDown(a) /\ StepsOnRung(a)' < StepsOnRung(a) + (4 * Attempts + 3)
        /\ Continue(a) => RunsDownByOne(a)
    <3>1. CASE Continue(a)
      BY <2>1, <3>1, MoverRunsDown
    <3>2. CASE ~Continue(a)
      <4>1. Untouched(a) /\ cur' >= cur /\ cur' \in Ladder
        <5>1. ~Start(a)
          BY DEF Start, Go
        <5>2. CASE \E b \in Agents : Start(b) \/ Continue(b)
          <6>1. PICK b \in Agents : Start(b) \/ Continue(b)
            BY <5>2
          <6> QED
            <7>1. a # b
              BY <3>2, <5>1, <6>1
            <7>2. Untouched(a)
              BY <2>1, <6>1, <7>1, OthersUntouched
            <7>3. cur' >= cur
              BY <2>1, <6>1, LadderClimbs
            <7> QED
              BY <2>1, <7>2, <7>3 DEF TypeOK
        <5>3. CASE Interrupt \/ NextTurn
          <6>1. cur' = cur /\ Untouched(a)
            BY <2>1, <5>3, KeyTyped
          <6>2. cur \in Ladder /\ cur \in Int
            BY <2>1 DEF TypeOK, Ladder
          <6> QED
            BY <6>1, <6>2
        <5> QED
          BY <5>2, <5>3 DEF Next
      <4> QED
        BY <2>1, <3>2, <4>1, SiblingRunsDown
    <3> QED
      BY <3>1, <3>2
  <2> DEFINE x == Rungs - 1 - NextRung(a)
             y == Rungs - 1 - NextRung(a)'
             w == 4 * Attempts + 3
             s == StepsOnRung(a)
             t == StepsOnRung(a)'
  <2>5. x \in Nat /\ y \in Nat /\ w \in Nat /\ s \in Nat /\ t \in Nat /\ t < s + w
    BY <2>2, <2>3, <2>4
  <2>6. Rungs \in Int
    BY RetryAssumption
  <2>7. (y < x \/ (y = x /\ t <= s)) /\ (Continue(a) => y < x \/ t < s)
    BY <2>2, <2>3, <2>4, <2>6 DEF RunsDown, RunsDownByOne
  <2>8. StepsLeft(a) = x * w + s /\ StepsLeft(a)' = y * w + t
    BY DEF StepsLeft
  <2> HIDE DEF x, y, w, s, t
  <2> QED
    BY <2>5, <2>7, <2>8, Fewer
<1>2. Spec => []RetryInv
  BY Invariance
<1> QED
  BY <1>1, <1>2, PTL DEF Spec, CallRunsDown
=============================================================================
