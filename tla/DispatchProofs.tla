--------------------------- MODULE DispatchProofs ---------------------------
(***************************************************************************)
(* Theorems about Dispatch, for any number of calls, depth and rounds.     *)
(*                                                                         *)
(* All actions but Spawn and Report touch one agent only, and leave it in  *)
(* or out of its parent's care as it was; the tree of agents is needed for *)
(* those two.                                                              *)
(***************************************************************************)
EXTENDS Dispatch, SequenceTheorems, TLAPS

\* The steps of one agent that change no other.
Own(a) ==
  \/ GiveUp(a) \/ Check(a) \/ CallModel(a) \/ NoCalls(a) \/ CutOff(a) \/ Reply(a)
  \/ Skip(a) \/ Refuse(a) \/ CommandEnds(a) \/ Join(a) \/ EndsHere(a) \/ GoesOn(a)
  \/ Ask(a) \/ Human(a)

\* The steps that change another agent, too.
Family(a) == Spawn(a) \/ \E k \in 1 .. MaxCalls : Report(a, k)

\* Steps between two phases that end no round, as Go makes them.
Moves(a) == Check(a) \/ CallModel(a) \/ CutOff(a) \/ Reply(a) \/ CommandEnds(a) \/ Join(a)

-----------------------------------------------------------------------------
(***************************************************************************)
(* The tree                                                                *)
(***************************************************************************)
LEMMA AgentsAreSeqs == \A a \in Agents : a \in Seq(Nat)
BY DispatchAssumption DEF Agents

LEMMA ChildOnce ==
  ASSUME NEW a \in Agents, NEW b \in Agents, NEW k \in 1 .. MaxCalls, NEW l \in 1 .. MaxCalls,
         Child(a, k) = Child(b, l)
  PROVE  a = b /\ k = l
<1>1. a \in Seq(Nat) /\ b \in Seq(Nat)
  BY AgentsAreSeqs
<1>2. k \in Nat /\ l \in Nat
  BY DispatchAssumption
<1> QED
  BY <1>1, <1>2, AppendInjective DEF Child

LEMMA ChildIsNew ==
  ASSUME NEW a \in Agents, NEW k \in 1 .. MaxCalls
  PROVE  Child(a, k) # a /\ Child(a, k) # Root
<1>1. a \in Seq(Nat) /\ k \in Nat
  BY AgentsAreSeqs, DispatchAssumption
<1>2. Len(Child(a, k)) = Len(a) + 1 /\ Len(a) \in Nat
  BY <1>1, AppendProperties, LenProperties DEF Child
<1>3. Child(a, k) # a
  BY <1>2
<1>4. Child(a, k) # <<>>
  BY <1>1, AppendProperties DEF Child
<1> QED
  BY <1>3, <1>4 DEF Root

LEMMA RootIsAgent == Root \in Agents
<1>1. 0 \in 0 .. MaxDepth
  BY DispatchAssumption
<1>2. <<>> \in [1 .. 0 -> 1 .. MaxCalls]
  OBVIOUS
<1> QED
  BY <1>1, <1>2 DEF Agents, Root

\* The calls an agent has approved are calls of its reply.
LEMMA ApprovedAreCalls ==
  ASSUME TypeOK, NEW a \in Agents, Len(texts[a]) <= Len(calls[a])
  PROVE  Approved(a) \subseteq 1 .. MaxCalls
<1>1. texts[a] \in Seq(Texts) /\ calls[a] \in Replies \cup {<<>>}
  BY DEF TypeOK
<1>2. Len(calls[a]) \in 0 .. MaxCalls
  BY <1>1, DispatchAssumption DEF Replies
<1>3. Len(texts[a]) \in Nat
  BY <1>1, LenProperties
<1> QED
  BY <1>2, <1>3, DispatchAssumption DEF Approved

-----------------------------------------------------------------------------
(***************************************************************************)
(* Steps of one agent                                                      *)
(***************************************************************************)
Untouched(b) ==
  /\ pc'[b] = pc[b] /\ turn'[b] = turn[b] /\ calls'[b] = calls[b]
  /\ texts'[b] = texts[b] /\ verdicts'[b] = verdicts[b] /\ author'[b] = author[b]

LEMMA OthersUntouched ==
  ASSUME TypeOK, NEW a \in Agents, NEW b \in Agents, a # b, Own(a)
  PROVE  Untouched(b)
<1> USE DEF TypeOK, Untouched, history
<1>1. CASE GiveUp(a) \/ NoCalls(a) \/ EndsHere(a)
  BY <1>1 DEF GiveUp, NoCalls, EndsHere, Return, RoundForgotten, Forgotten
<1>2. CASE Moves(a)
  BY <1>2 DEF Moves, Check, CallModel, CutOff, Reply, CommandEnds, Join, Go
<1>3. CASE Skip(a) \/ Refuse(a)
  BY <1>3 DEF Skip, Refuse, Answer
<1>4. CASE GoesOn(a)
  BY <1>4 DEF GoesOn, RoundForgotten, Forgotten
<1>5. CASE Ask(a)
  BY <1>5 DEF Ask, AskOpen, AskNobody, AskHuman, Allow, Answer
<1>6. CASE Human(a)
  BY <1>6 DEF Human, Yes, All, No, Quit, Allow, Answer, Go
<1> QED
  BY <1>1, <1>2, <1>3, <1>4, <1>5, <1>6 DEF Own, Moves

\* Such a step ends outside pass 2, begins in it only when all have reported, and only the
\* agent of the session goes to the prompt.
LEMMA OwnPhases ==
  ASSUME TypeOK, NEW a \in Agents, Own(a)
  PROVE  /\ pc[a] # "idle" /\ pc'[a] # "subagents"
         /\ pc[a] = "subagents" => Approved(a) = {}
         /\ a # Root => pc'[a] # "idle"
<1> USE DEF TypeOK
<1>1. CASE GiveUp(a) \/ NoCalls(a) \/ EndsHere(a)
  BY <1>1 DEF GiveUp, NoCalls, EndsHere, AllSeen, Return
<1>2. CASE Moves(a)
  BY <1>2 DEF Moves, Check, CallModel, CutOff, Reply, CommandEnds, Join, Go
<1>3. CASE Skip(a) \/ Refuse(a)
  BY <1>3 DEF Skip, Refuse, AtCall
<1>4. CASE GoesOn(a)
  BY <1>4 DEF GoesOn, AllSeen
<1>5. CASE Ask(a)
  BY <1>5 DEF Ask, AskOpen, AskNobody, AskHuman, Asks, AtCall, Allow
<1>6. CASE Human(a)
  BY <1>6 DEF Human, Yes, All, No, Quit, Allow, Go
<1> QED
  BY <1>1, <1>2, <1>3, <1>4, <1>5, <1>6 DEF Own, Moves

-----------------------------------------------------------------------------
(***************************************************************************)
(* Types                                                                   *)
(***************************************************************************)
Verdicts == {"none", "allow", "deny", "abort"}

LEMMA InitHolds == Init => DispatchInv
<1> SUFFICES ASSUME Init PROVE DispatchInv
  OBVIOUS
<1> USE DEF Init
<1>1. \A a \in Agents : Limit(a) \in Nat
  BY DispatchAssumption DEF Limit
<1>2. TypeOK
  <2>1. <<>> \in Seq(Texts) /\ <<>> \in Seq({"none", "allow", "deny", "abort"})
    OBVIOUS
  <2>2. \A a \in Agents : turn[a] <= Limit(a) + 1
    BY <1>1
  <2>3. author \in [Agents -> [1 .. MaxCalls -> Agents \cup {Nobody}]]
    BY DEF NoReports
  <2> QED
    BY <2>1, <2>2, <2>3 DEF TypeOK, Phases
<1>3. OneQuestion
  <2>1. \A a \in Agents : a # Nobody
    BY DispatchAssumption
  <2>2. \A a \in Agents : pc[a] = "idle"
    OBVIOUS
  <2> QED
    BY <2>1, <2>2 DEF OneQuestion
<1>5. SubagentsAreWaitedFor
  BY DEF SubagentsAreWaitedFor
<1>6. AnswersAreTrue
  BY DEF AnswersAreTrue
<1>4. \A a \in Agents : AgentInv(a)
  BY DEF AgentInv, InRound
<1> QED
  BY <1>2, <1>3, <1>4, <1>5, <1>6 DEF DispatchInv

LEMMA AnswerTypes ==
  ASSUME TypeOK, NEW a \in Agents, NEW text \in Texts, NEW verdict \in Verdicts
  PROVE  /\ [texts EXCEPT ![a] = Append(@, text)] \in [Agents -> Seq(Texts)]
         /\ [verdicts EXCEPT ![a] = Append(@, verdict)] \in [Agents -> Seq(Verdicts)]
<1>1. texts[a] \in Seq(Texts) /\ verdicts[a] \in Seq(Verdicts)
  BY DEF TypeOK, Verdicts
<1>2. Append(texts[a], text) \in Seq(Texts) /\ Append(verdicts[a], verdict) \in Seq(Verdicts)
  BY <1>1, AppendProperties
<1> QED
  BY <1>2 DEF TypeOK, Verdicts

\* The variables a step of dispatch may change, in their types.
Typed ==
  /\ pc' \in [Agents -> Phases]
  /\ texts' \in [Agents -> Seq(Texts)]
  /\ verdicts' \in [Agents -> Seq(Verdicts)]

LEMMA AnswerIsTyped ==
  ASSUME TypeOK, NEW a \in Agents, NEW text \in Texts, NEW verdict \in Verdicts,
         Answer(a, verdict, text), pc' \in [Agents -> Phases]
  PROVE  Typed
BY AnswerTypes DEF Answer, Typed

LEMMA AllowIsTyped ==
  ASSUME TypeOK, NEW a \in Agents, Allow(a)
  PROVE  Typed
<1>1. pc' \in [Agents -> Phases]
  BY DEF Allow, TypeOK, Phases
<1>2. "approved" \in Texts /\ "allow" \in Verdicts
  BY DEF Texts, Verdicts
<1>3. CASE Answer(a, "allow", "approved")
  BY <1>1, <1>2, <1>3, AnswerIsTyped
<1>4. CASE /\ verdicts' = [verdicts EXCEPT ![a] = Append(@, "allow")]
           /\ UNCHANGED texts
  BY <1>1, <1>2, <1>4, AnswerTypes DEF Typed, TypeOK
<1> QED
  BY <1>3, <1>4 DEF Allow

LEMMA ForgottenTypes ==
  ASSUME TypeOK, NEW a \in Agents, RoundForgotten(a)
  PROVE  /\ calls' \in [Agents -> Replies \cup {<<>>}]
         /\ texts' \in [Agents -> Seq(Texts)]
         /\ verdicts' \in [Agents -> Seq(Verdicts)]
         /\ author' \in [Agents -> [1 .. MaxCalls -> Agents \cup {Nobody}]]
<1>1. <<>> \in Seq(Texts) /\ <<>> \in Seq(Verdicts)
  OBVIOUS
<1>2. NoReports \in [1 .. MaxCalls -> Agents \cup {Nobody}]
  BY DEF NoReports
<1> QED
  BY <1>1, <1>2 DEF RoundForgotten, Forgotten, TypeOK, Verdicts

LEMMA ReturnTypes ==
  ASSUME TypeOK, NEW a \in Agents, Return(a)
  PROVE  TypeOK'
<1>1. \A b \in Agents : Limit(b) \in Nat \ {0}
  BY DispatchAssumption DEF Limit
<1>2. pc' \in [Agents -> Phases]
  BY DEF Return, TypeOK, Phases
<1>3. turn' \in [Agents -> Nat] /\ \A b \in Agents : turn'[b] <= Limit(b) + 1
  <2>1. turn' = [turn EXCEPT ![a] = 0]
    BY DEF Return, Forgotten
  <2>2. turn \in [Agents -> Nat] /\ \A b \in Agents : turn[b] <= Limit(b) + 1
    BY DEF TypeOK
  <2>3. turn' \in [Agents -> Nat]
    BY <2>1, <2>2
  <2>4. ASSUME NEW b \in Agents PROVE turn'[b] <= Limit(b) + 1
    <3>1. turn'[b] = IF b = a THEN 0 ELSE turn[b]
      BY <2>1, <2>2
    <3>2. Limit(b) \in Nat
      BY <1>1
    <3> QED
      BY <2>2, <3>1, <3>2
  <2> QED
    BY <2>3, <2>4
<1>4. RoundForgotten(a)
  BY DEF Return
<1>5. stoppedAt' \in [Agents -> Nat]
  BY DEF Return, TypeOK
<1> QED
  BY <1>2, <1>3, <1>4, <1>5, ForgottenTypes DEF Return, session, TypeOK, Verdicts

LEMMA OwnTypes ==
  ASSUME TypeOK, NEW a \in Agents, AgentInv(a), Own(a)
  PROVE  TypeOK'
<1> USE DEF Phases, history
<1>1. CASE GiveUp(a) \/ NoCalls(a) \/ EndsHere(a)
  BY <1>1, ReturnTypes DEF GiveUp, NoCalls, EndsHere
<1>2. CASE Check(a) \/ CallModel(a) \/ Join(a)
  BY <1>2 DEF TypeOK, session, Check, CallModel, Join, Go
<1>3. CASE Reply(a)
  BY <1>3 DEF TypeOK, session, Reply, Go
<1>4. CASE CommandEnds(a)
  <2>1. "output" \in Texts /\ "none" \in Verdicts
    BY DEF Texts, Verdicts
  <2>2. texts' \in [Agents -> Seq(Texts)]
    BY <1>4, <2>1, AnswerTypes DEF CommandEnds
  <2> QED
    BY <1>4, <2>2 DEF TypeOK, session, CommandEnds, Go
<1>5. CASE Skip(a) \/ Refuse(a)
  <2>1. Typed
    <3>1. {"refused", "skipped"} \subseteq Texts /\ "none" \in Verdicts
      BY DEF Texts, Verdicts
    <3>2. pc' \in [Agents -> Phases]
      BY <1>5 DEF Skip, Refuse, TypeOK
    <3>3. Answer(a, "none", "refused") \/ Answer(a, "none", "skipped")
      BY <1>5 DEF Skip, Refuse
    <3> QED
      BY <3>1, <3>2, <3>3, AnswerIsTyped
  <2> QED
    BY <1>5, <2>1 DEF TypeOK, session, Skip, Refuse, Typed, Verdicts
<1>6. CASE GoesOn(a)
  <2>1. turn' \in [Agents -> Nat] /\ \A b \in Agents : turn'[b] <= Limit(b) + 1
    <3>1. turn[a] <= Limit(a) /\ Limit(a) \in Nat
      BY <1>6, DispatchAssumption DEF GoesOn, AllSeen, AgentInv, InRound, Limit
    <3> QED
      BY SMTT(30), <1>6, <3>1 DEF GoesOn, TypeOK
  <2>2. RoundForgotten(a)
    BY <1>6 DEF GoesOn
  <2> QED
    BY <1>6, <2>1, <2>2, ForgottenTypes DEF TypeOK, session, GoesOn, Verdicts
<1>7. CASE AskOpen(a) \/ AskNobody(a)
  <2>1. Typed
    <3>1. "denied" \in Texts /\ "deny" \in Verdicts
      BY DEF Texts, Verdicts
    <3>2. CASE AskOpen(a)
      BY <3>2, AllowIsTyped DEF AskOpen
    <3>3. CASE AskNobody(a)
      <4>1. pc' \in [Agents -> Phases] /\ Answer(a, "deny", "denied")
        BY <3>3 DEF AskNobody, TypeOK
      <4> QED
        BY <3>1, <4>1, AnswerIsTyped
    <3> QED
      BY <1>7, <3>2, <3>3
  <2> QED
    BY <1>7, <2>1 DEF TypeOK, session, AskOpen, AskNobody, Typed, Verdicts
<1>8. CASE AskHuman(a)
  BY <1>8 DEF TypeOK, session, AskHuman
<1>9. CASE Yes(a) \/ All(a)
  <2>1. Typed
    BY <1>9, AllowIsTyped DEF Yes, All
  <2> QED
    BY <1>9, <2>1 DEF TypeOK, session, Yes, All, Typed, Verdicts
<1>10. CASE No(a) \/ Quit(a)
  <2>1. Typed
    <3>1. /\ "denied" \in Texts /\ "stopped" \in Texts
          /\ "deny" \in Verdicts /\ "abort" \in Verdicts
      BY DEF Texts, Verdicts
    <3>2. pc' \in [Agents -> Phases]
      BY <1>10 DEF No, Quit, Go, TypeOK
    <3>3. Answer(a, "deny", "denied") \/ Answer(a, "abort", "stopped")
      BY <1>10 DEF No, Quit
    <3> QED
      BY <3>1, <3>2, <3>3, AnswerIsTyped
  <2> QED
    BY <1>10, <2>1 DEF TypeOK, session, No, Quit, Typed, Verdicts
<1>11. CASE CutOff(a)
  <2>1. turn[a] <= Limit(a) /\ Limit(a) \in Nat
    BY <1>11, DispatchAssumption DEF CutOff, Go, AgentInv, InRound, Limit
  <2>2. turn' \in [Agents -> Nat] /\ \A b \in Agents : turn'[b] <= Limit(b) + 1
    BY <1>11, <2>1 DEF CutOff, TypeOK
  <2> QED
    BY <1>11, <2>2 DEF TypeOK, session, CutOff, Go
<1> QED
  BY <1>1, <1>2, <1>3, <1>4, <1>5, <1>6, <1>7, <1>8, <1>9, <1>10, <1>11 DEF Own, Ask, Human

\* A report changes one answer.
LEMMA ReportIs ==
  ASSUME TypeOK, NEW a \in Agents, AgentInv(a), NEW k \in 1 .. MaxCalls, Report(a, k)
  PROVE  /\ Len(texts'[a]) = Len(texts[a]) /\ texts'[a] \in Seq(Texts)
         /\ k \in 1 .. Len(texts[a]) /\ texts'[a][k] = "report"
         /\ \A l \in 1 .. Len(texts[a]) : l # k => texts'[a][l] = texts[a][l]
         /\ \A c \in Agents : c # a => texts'[c] = texts[c] /\ author'[c] = author[c]
         /\ texts' \in [Agents -> Seq(Texts)]
<1>1. PICK n : n \in Nat /\ n = Len(texts[a]) /\ texts[a] \in [1 .. n -> Texts]
  <2>1. texts[a] \in Seq(Texts)
    BY DEF TypeOK
  <2> QED
    BY <2>1, LenProperties
<1>2. k \in 1 .. n
  BY <1>1 DEF Report, Approved
<1>3. texts' = [texts EXCEPT ![a] = [texts[a] EXCEPT ![k] = "report"]]
  BY DEF Report
<1>4. [texts[a] EXCEPT ![k] = "report"] \in [1 .. n -> Texts]
  BY <1>1 DEF Texts
<1>5. [texts[a] EXCEPT ![k] = "report"] \in Seq(Texts)
  <2>1. [1 .. n -> Texts] \subseteq Seq(Texts)
    BY <1>1
  <2> QED
    BY <1>4, <2>1
<1>6. texts'[a] = [texts[a] EXCEPT ![k] = "report"]
  BY <1>3 DEF TypeOK
<1>7. Len(texts'[a]) = n
  BY <1>1, <1>4, <1>5, <1>6
<1>8. \A c \in Agents : c # a => texts'[c] = texts[c] /\ author'[c] = author[c]
  BY <1>3 DEF Report, TypeOK
<1> QED
  BY <1>1, <1>2, <1>3, <1>5, <1>6, <1>7, <1>8 DEF TypeOK

LEMMA ReportTypes ==
  ASSUME TypeOK, NEW a \in Agents, AgentInv(a), NEW k \in 1 .. MaxCalls, Report(a, k)
  PROVE  TypeOK'
<1>1. pc' \in [Agents -> Phases]
  BY DEF Report, TypeOK, Phases
<1>2. author' \in [Agents -> [1 .. MaxCalls -> Agents \cup {Nobody}]]
  BY DEF Report, TypeOK
<1> QED
  BY <1>1, <1>2, ReportIs DEF Report, TypeOK, session

LEMMA SpawnTypes ==
  ASSUME TypeOK, NEW a \in Agents, Spawn(a)
  PROVE  TypeOK'
<1> USE DEF TypeOK, session, history, Phases
<1>1. \A b \in Agents : Limit(b) \in Nat \ {0}
  BY DispatchAssumption DEF Limit
<1> QED
  BY SMTT(30), <1>1 DEF Spawn

-----------------------------------------------------------------------------
(***************************************************************************)
(* Parents and children                                                    *)
(***************************************************************************)
LEMMA OwnWaits ==
  ASSUME TypeOK, SubagentsAreWaitedFor, NEW a \in Agents, Own(a)
  PROVE  SubagentsAreWaitedFor'
<1> SUFFICES ASSUME NEW b \in Agents, NEW k \in 1 .. MaxCalls, Child(b, k) \in Agents
             PROVE  pc'[Child(b, k)] # "idle" <=> pc'[b] = "subagents" /\ k \in Approved(b)'
  BY DEF SubagentsAreWaitedFor
<1>1. pc[Child(b, k)] # "idle" <=> pc[b] = "subagents" /\ k \in Approved(b)
  BY DEF SubagentsAreWaitedFor
<1>2. CASE b = a
  <2>1. Child(a, k) # a
    BY ChildIsNew
  <2>2. pc'[Child(a, k)] = pc[Child(a, k)]
    BY <1>2, <2>1, OthersUntouched DEF Untouched
  <2> QED
    BY <1>1, <1>2, <2>2, OwnPhases
<1>3. CASE b # a
  <2>1. pc'[b] = pc[b] /\ texts'[b] = texts[b]
    BY <1>3, OthersUntouched DEF Untouched
  <2>2. Approved(b)' = Approved(b)
    BY <2>1 DEF Approved
  <2>3. pc'[Child(b, k)] # "idle" <=> pc[Child(b, k)] # "idle"
    <3>1. CASE Child(b, k) = a
      BY <3>1, OwnPhases, ChildIsNew
    <3>2. CASE Child(b, k) # a
      BY <3>2, OthersUntouched DEF Untouched
    <3> QED
      BY <3>1, <3>2
  <2> QED
    BY <1>1, <2>1, <2>2, <2>3
<1> QED
  BY <1>2, <1>3

LEMMA PhaseNames ==
  "subagents" \in Phases /\ "top" \in Phases /\ "calls" \in Phases /\ "idle" \in Phases
BY DEF Phases

\* The phases Spawn leaves: the agent's own, that of the subagents it approved, and the others
\* as they were.
LEMMA FamilyPhases ==
  ASSUME TypeOK, NEW a \in Agents, NEW to \in Phases, NEW childTo \in Phases,
         pc' = [b \in Agents |->
                 IF b = a THEN to
                 ELSE IF \E k \in Approved(a) : b = Child(a, k) THEN childTo ELSE pc[b]],
         Approved(a) \subseteq 1 .. MaxCalls
  PROVE  /\ pc'[a] = to
         /\ \A k \in 1 .. MaxCalls : Child(a, k) \in Agents =>
              pc'[Child(a, k)] = IF k \in Approved(a) THEN childTo ELSE pc[Child(a, k)]
         /\ \A b \in Agents, k \in 1 .. MaxCalls : b # a /\ Child(b, k) \in Agents =>
              pc'[Child(b, k)] = IF Child(b, k) = a THEN to ELSE pc[Child(b, k)]
<1>1. pc'[a] = to
  OBVIOUS
<1>2. ASSUME NEW k \in 1 .. MaxCalls, Child(a, k) \in Agents
      PROVE  pc'[Child(a, k)] = IF k \in Approved(a) THEN childTo ELSE pc[Child(a, k)]
  <2>1. Child(a, k) # a
    BY ChildIsNew
  <2>2. (\E l \in Approved(a) : Child(a, k) = Child(a, l)) <=> k \in Approved(a)
    BY ChildOnce
  <2> QED
    BY <1>2, <2>1, <2>2
<1>3. ASSUME NEW b \in Agents, NEW k \in 1 .. MaxCalls, b # a, Child(b, k) \in Agents
      PROVE  pc'[Child(b, k)] = IF Child(b, k) = a THEN to ELSE pc[Child(b, k)]
  <2>1. ~ \E l \in Approved(a) : Child(b, k) = Child(a, l)
    BY <1>3, ChildOnce
  <2> QED
    BY <1>3, <2>1
<1> QED
  BY <1>1, <1>2, <1>3

LEMMA SpawnWaits ==
  ASSUME TypeOK, SubagentsAreWaitedFor, NEW a \in Agents, AgentInv(a), Spawn(a)
  PROVE  SubagentsAreWaitedFor'
<1> SUFFICES ASSUME NEW b \in Agents, NEW k \in 1 .. MaxCalls, Child(b, k) \in Agents
             PROVE  pc'[Child(b, k)] # "idle" <=> pc'[b] = "subagents" /\ k \in Approved(b)'
  BY DEF SubagentsAreWaitedFor
<1>1. pc[Child(b, k)] # "idle" <=> pc[b] = "subagents" /\ k \in Approved(b)
  BY DEF SubagentsAreWaitedFor
<1>2. Approved(b)' = Approved(b) /\ pc[a] = "calls"
  BY DEF Spawn, Approved, AllSeen
<1>3. Approved(a) \subseteq 1 .. MaxCalls
  BY ApprovedAreCalls DEF AgentInv
<1>4. pc' = [c \in Agents |->
              IF c = a THEN "subagents"
              ELSE IF \E l \in Approved(a) : c = Child(a, l) THEN "top" ELSE pc[c]]
  BY DEF Spawn
<1>5. /\ pc'[a] = "subagents"
      /\ \A l \in 1 .. MaxCalls : Child(a, l) \in Agents =>
           pc'[Child(a, l)] = IF l \in Approved(a) THEN "top" ELSE pc[Child(a, l)]
      /\ \A c \in Agents, l \in 1 .. MaxCalls : c # a /\ Child(c, l) \in Agents =>
           pc'[Child(c, l)] = IF Child(c, l) = a THEN "subagents" ELSE pc[Child(c, l)]
  BY <1>3, <1>4, FamilyPhases, PhaseNames
<1>6. CASE b = a
  <2>1. pc[Child(a, k)] = "idle"
    BY <1>1, <1>2, <1>6
  <2>2. pc'[Child(a, k)] # "idle" <=> k \in Approved(a)
    BY <1>5, <1>6, <2>1
  <2>3. Approved(b)' = Approved(a)
    BY <1>2, <1>6
  <2> QED
    BY <1>5, <1>6, <2>2, <2>3
<1>7. CASE b # a
  <2>1. pc'[Child(b, k)] # "idle" <=> pc[Child(b, k)] # "idle"
    BY <1>2, <1>7, <1>5
  <2>2. pc'[b] = "subagents" <=> pc[b] = "subagents"
    <3>1. CASE \E l \in Approved(a) : b = Child(a, l)
      <4>1. pc[b] = "idle"
        BY <1>2, <1>3, <3>1 DEF SubagentsAreWaitedFor
      <4> QED
        BY <1>4, <1>7, <3>1, <4>1
    <3>2. CASE ~ \E l \in Approved(a) : b = Child(a, l)
      BY <1>4, <1>7, <3>2
    <3> QED
      BY <3>1, <3>2
  <2> QED
    BY <1>1, <1>2, <2>1, <2>2
<1> QED
  BY <1>6, <1>7

\* A report ends the care for one subagent.
LEMMA ReportWaits ==
  ASSUME TypeOK, SubagentsAreWaitedFor, NEW a \in Agents, AgentInv(a),
         NEW l \in 1 .. MaxCalls, Report(a, l)
  PROVE  SubagentsAreWaitedFor'
<1> SUFFICES ASSUME NEW b \in Agents, NEW k \in 1 .. MaxCalls, Child(b, k) \in Agents
             PROVE  pc'[Child(b, k)] # "idle" <=> pc'[b] = "subagents" /\ k \in Approved(b)'
  BY DEF SubagentsAreWaitedFor
<1>1. pc[Child(b, k)] # "idle" <=> pc[b] = "subagents" /\ k \in Approved(b)
  BY DEF SubagentsAreWaitedFor
<1>2. /\ pc[a] = "subagents" /\ Child(a, l) \in Agents /\ pc[Child(a, l)] = "returned"
      /\ pc'[Child(a, l)] = "idle"
      /\ \A c \in Agents : c # Child(a, l) => pc'[c] = pc[c]
  BY DEF Report, TypeOK
<1>3. CASE b = a
  <2>1. k \in Approved(a)' <=> k \in Approved(a) /\ k # l
    <3>1. /\ Len(texts'[a]) = Len(texts[a]) /\ texts'[a][l] = "report"
          /\ \A i \in 1 .. Len(texts[a]) : i # l => texts'[a][i] = texts[a][i]
      BY ReportIs
    <3> QED
      BY <3>1 DEF Approved
  <2>2. Child(a, k) = Child(a, l) <=> k = l
    BY ChildOnce
  <2>3. pc'[a] = "subagents"
    BY <1>2, ChildIsNew
  <2>4. Approved(b)' = Approved(a)'
    BY <1>3 DEF Approved
  <2> QED
    BY <1>1, <1>2, <1>3, <2>1, <2>2, <2>3, <2>4
<1>4. CASE b # a
  <2>1. pc'[Child(b, k)] = pc[Child(b, k)]
    BY <1>2, <1>4, ChildOnce
  <2>2. pc'[b] = "subagents" <=> pc[b] = "subagents"
    BY <1>2
  <2>3. Approved(b)' = Approved(b)
    <3>1. texts'[b] = texts[b]
      BY <1>4, ReportIs
    <3> QED
      BY <3>1 DEF Approved
  <2> QED
    BY <1>1, <2>1, <2>2, <2>3
<1> QED
  BY <1>3, <1>4

-----------------------------------------------------------------------------
(***************************************************************************)
(* The gate                                                                *)
(***************************************************************************)
LEMMA NobodyAsks == \A a \in Agents : a # Nobody
BY DispatchAssumption

\* A step that takes no agent to or from a question leaves the gate as it is.
LEMMA QuestionKept ==
  ASSUME OneQuestion, mu' = mu, open' = open,
         \A b \in Agents : pc'[b] = "asking" <=> pc[b] = "asking"
  PROVE  OneQuestion'
BY DEF OneQuestion

LEMMA OwnQuestion ==
  ASSUME TypeOK, OneQuestion, NEW a \in Agents, Own(a)
  PROVE  OneQuestion'
<1>1. \A b \in Agents : b # a => pc'[b] = pc[b]
  BY OthersUntouched DEF Untouched
<1>2. CASE GiveUp(a) \/ NoCalls(a) \/ EndsHere(a)
  <2>1. /\ mu' = mu /\ open' = open
        /\ pc[a] # "asking" /\ pc'[a] # "asking"
    BY <1>2 DEF GiveUp, NoCalls, EndsHere, AllSeen, Return, session, TypeOK
  <2> QED
    BY <1>1, <2>1, QuestionKept
<1>3. CASE Moves(a)
  <2>1. /\ mu' = mu /\ open' = open
        /\ pc[a] # "asking" /\ pc'[a] # "asking"
    BY <1>3 DEF Moves, Check, CallModel, CutOff, Reply, CommandEnds, Join, Go, session, TypeOK
  <2> QED
    BY <1>1, <2>1, QuestionKept
<1>4. CASE Skip(a) \/ Refuse(a) \/ GoesOn(a)
  <2>1. /\ mu' = mu /\ open' = open
        /\ pc[a] # "asking" /\ pc'[a] # "asking"
    BY <1>4 DEF Skip, Refuse, AtCall, GoesOn, AllSeen, session, TypeOK
  <2> QED
    BY <1>1, <2>1, QuestionKept
<1>5. CASE AskOpen(a) \/ AskNobody(a)
  <2>1. /\ mu' = mu /\ open' = open
        /\ pc[a] # "asking" /\ pc'[a] # "asking"
    BY <1>5 DEF AskOpen, AskNobody, Asks, AtCall, Allow, session, TypeOK
  <2> QED
    BY <1>1, <2>1, QuestionKept
<1>6. CASE AskHuman(a)
  <2>1. /\ mu = Nobody /\ mu' = a /\ open' = open /\ ~open
        /\ pc'[a] = "asking"
    BY <1>6 DEF AskHuman, Asks, session, TypeOK
  <2> QED
    BY <1>1, <2>1, NobodyAsks DEF OneQuestion
<1>7. CASE Human(a)
  <2>1. pc[a] = "asking" /\ mu' = Nobody /\ pc'[a] # "asking"
    BY <1>7 DEF Human, Yes, All, No, Quit, Allow, Go, TypeOK
  <2> QED
    BY <1>1, <2>1, NobodyAsks DEF OneQuestion
<1> QED
  BY <1>2, <1>3, <1>4, <1>5, <1>6, <1>7 DEF Own, Moves, Ask

LEMMA FamilyQuestion ==
  ASSUME TypeOK, OneQuestion, SubagentsAreWaitedFor,
         NEW a \in Agents, AgentInv(a), Family(a)
  PROVE  OneQuestion'
<1>1. mu' = mu /\ open' = open
  BY DEF Family, Spawn, Report, session
<1>2. Approved(a) \subseteq 1 .. MaxCalls
  BY ApprovedAreCalls DEF AgentInv
<1>3. ASSUME NEW b \in Agents
      PROVE  pc'[b] = "asking" <=> pc[b] = "asking"
  <2>1. CASE Spawn(a)
    <3>1. pc[a] = "calls"
      BY <2>1 DEF Spawn, AllSeen
    <3>2. \A k \in Approved(a) : b = Child(a, k) => pc[b] = "idle"
      BY <1>2, <3>1 DEF SubagentsAreWaitedFor
    <3> QED
      BY <2>1, <3>1, <3>2 DEF Spawn
  <2>2. ASSUME NEW k \in 1 .. MaxCalls, Report(a, k)
        PROVE  pc'[b] = "asking" <=> pc[b] = "asking"
    BY <2>2 DEF Report, TypeOK
  <2> QED
    BY <2>1, <2>2 DEF Family
<1> QED
  BY <1>1, <1>3, QuestionKept

-----------------------------------------------------------------------------
(***************************************************************************)
(* The answers                                                             *)
(***************************************************************************)
\* AnswersAreTrue of one agent, with what its steps need.
Local(a) ==
  /\ AgentInv(a)
  /\ pc[a] \in {"asking", "command"} => ~Stopped(a)
  /\ pc[a] = "command" => calls[a][At(a)] = "bash" /\ verdicts[a][At(a)] = "allow"
  /\ \A k \in 1 .. Len(texts[a]) :
       /\ texts[a][k] = "skipped" <=> \E j \in 1 .. k - 1 : verdicts[a][j] = "abort"
       /\ texts[a][k] \in {"output", "approved", "report"} <=> verdicts[a][k] = "allow"
       /\ texts[a][k] = "denied" <=> verdicts[a][k] = "deny"
       /\ texts[a][k] = "stopped" <=> verdicts[a][k] = "abort"
       /\ texts[a][k] = "output" => calls[a][k] = "bash"
       /\ texts[a][k] \in {"approved", "report"} => calls[a][k] = "task"
       /\ texts[a][k] = "report" => author[a][k] = Child(a, k)

LEMMA LocalForAll ==
  (\A a \in Agents : Local(a)) <=> AnswersAreTrue /\ \A a \in Agents : AgentInv(a)
BY DEF Local, AnswersAreTrue

LEMMA ReplyLength ==
  ASSUME TypeOK, NEW a \in Agents
  PROVE  Len(calls[a]) \in Nat
<1>1. calls[a] \in Replies \cup {<<>>}
  BY DEF TypeOK
<1>2. Len(calls[a]) \in 0 .. MaxCalls
  BY <1>1, DispatchAssumption DEF Replies
<1> QED
  BY <1>2

LEMMA UntouchedLocal ==
  ASSUME NEW b \in Agents, Untouched(b), Local(b)
  PROVE  Local(b)'
<1>1. /\ pc'[b] = pc[b] /\ turn'[b] = turn[b] /\ calls'[b] = calls[b]
      /\ texts'[b] = texts[b] /\ verdicts'[b] = verdicts[b] /\ author'[b] = author[b]
  BY DEF Untouched
<1>2. At(b)' = At(b) /\ (Stopped(b)' <=> Stopped(b)) /\ (IsRefused(b)' <=> IsRefused(b))
  BY <1>1 DEF At, Stopped, IsRefused
<1>3. AgentInv(b)'
  BY <1>1, <1>2 DEF Local, AgentInv, InRound
<1>4. /\ pc'[b] = "command" => calls'[b][At(b)'] = "bash" /\ verdicts'[b][At(b)'] = "allow"
      /\ pc'[b] \in {"asking", "command"} => ~Stopped(b)'
  BY <1>1, <1>2 DEF Local
<1>5. At(b)' = Len(texts'[b]) + 1 /\ At(b) = Len(texts[b]) + 1
  BY DEF At
<1> QED
  BY <1>1, <1>3, <1>4, <1>5 DEF Local

\* An agent that has no answers yet, or no more.
LEMMA EmptyLocal ==
  ASSUME NEW a \in Agents,
         texts'[a] = <<>>, verdicts'[a] = <<>>, Len(calls'[a]) \in Nat,
         pc'[a] \notin {"asking", "command"},
         pc'[a] \in {"checked", "calling", "calls", "subagents"} => turn'[a] <= Limit(a)
  PROVE  Local(a)'
<1>1. Len(texts'[a]) = 0 /\ Len(verdicts'[a]) = 0
  OBVIOUS
<1> QED
  BY <1>1 DEF Local, AgentInv, InRound

\* An answer that agrees with the gate, given in its turn.
LEMMA AnswerLocal ==
  ASSUME TypeOK, NEW a \in Agents, Local(a),
         NEW text \in Texts, NEW verdict \in Verdicts, Answer(a, verdict, text),
         pc[a] \in {"calls", "asking"}, pc'[a] = "calls",
         turn'[a] = turn[a], calls'[a] = calls[a], author'[a] = author[a],
         Len(texts[a]) < Len(calls[a]),
         text = "skipped" <=> \E k \in 1 .. Len(texts[a]) : texts[a][k] = "stopped",
         text \notin {"output", "report"},
         text = "approved" <=> verdict = "allow",
         text = "denied" <=> verdict = "deny",
         text = "stopped" <=> verdict = "abort",
         text = "approved" => calls[a][At(a)] = "task"
  PROVE  Local(a)'
<1>0. PICK n : n \in Nat /\ n = Len(texts[a])
  <2>1. texts[a] \in Seq(Texts)
    BY DEF TypeOK
  <2> QED
    BY <2>1, LenProperties
<1>1. texts[a] \in Seq(Texts) /\ verdicts[a] \in Seq(Verdicts) /\ Len(calls[a]) \in Nat
  BY ReplyLength DEF TypeOK, Verdicts
<1>2. texts'[a] = Append(texts[a], text) /\ verdicts'[a] = Append(verdicts[a], verdict)
  BY DEF Answer, TypeOK
<1>3. Len(verdicts[a]) = n /\ turn[a] <= Limit(a)
  BY <1>0 DEF Local, AgentInv, InRound
<1>4. /\ Len(texts'[a]) = n + 1 /\ Len(verdicts'[a]) = n + 1
      /\ texts'[a][n + 1] = text /\ verdicts'[a][n + 1] = verdict
      /\ \A k \in 1 .. n : texts'[a][k] = texts[a][k] /\ verdicts'[a][k] = verdicts[a][k]
  <2>1. \A k \in 1 .. n : k \in 1 .. Len(texts[a]) /\ k \in 1 .. Len(verdicts[a])
    BY <1>0, <1>3
  <2>2. /\ Len(texts'[a]) = n + 1 /\ texts'[a][n + 1] = text
        /\ \A k \in 1 .. Len(texts[a]) : texts'[a][k] = texts[a][k]
    BY <1>0, <1>1, <1>2, AppendProperties
  <2>3. /\ Len(verdicts'[a]) = n + 1 /\ verdicts'[a][n + 1] = verdict
        /\ \A k \in 1 .. Len(verdicts[a]) : verdicts'[a][k] = verdicts[a][k]
    BY <1>1, <1>2, <1>3, AppendProperties
  <2> QED
    BY <2>1, <2>2, <2>3
<1>5. AgentInv(a)'
  <2>1. n + 1 <= Len(calls'[a])
    <3>1. Len(calls'[a]) = Len(calls[a])
      OBVIOUS
    <3> QED
      BY <1>0, <1>1, <3>1
  <2> QED
    BY <1>3, <1>4, <2>1 DEF AgentInv, InRound
<1>6. (\E k \in 1 .. Len(texts[a]) : texts[a][k] = "stopped")
        <=> \E j \in 1 .. n : verdicts[a][j] = "abort"
  BY <1>0 DEF Local
<1>7. ASSUME NEW k \in 1 .. n + 1
      PROVE  /\ texts'[a][k] = "skipped" <=> \E j \in 1 .. k - 1 : verdicts'[a][j] = "abort"
             /\ texts'[a][k] \in {"output", "approved", "report"} <=> verdicts'[a][k] = "allow"
             /\ texts'[a][k] = "denied" <=> verdicts'[a][k] = "deny"
             /\ texts'[a][k] = "stopped" <=> verdicts'[a][k] = "abort"
             /\ texts'[a][k] = "output" => calls'[a][k] = "bash"
             /\ texts'[a][k] \in {"approved", "report"} => calls'[a][k] = "task"
             /\ texts'[a][k] = "report" => author'[a][k] = Child(a, k)
  <2>1. CASE k \in 1 .. n
    <3>1. (\E j \in 1 .. k - 1 : verdicts'[a][j] = "abort")
            <=> \E j \in 1 .. k - 1 : verdicts[a][j] = "abort"
      <4>1. 1 .. k - 1 \subseteq 1 .. n
        BY <1>0, <2>1
      <4> QED
        BY <1>4, <4>1
    <3>2. /\ texts[a][k] = "skipped" <=> \E j \in 1 .. k - 1 : verdicts[a][j] = "abort"
          /\ texts[a][k] \in {"output", "approved", "report"} <=> verdicts[a][k] = "allow"
          /\ texts[a][k] = "denied" <=> verdicts[a][k] = "deny"
          /\ texts[a][k] = "stopped" <=> verdicts[a][k] = "abort"
          /\ texts[a][k] = "output" => calls[a][k] = "bash"
          /\ texts[a][k] \in {"approved", "report"} => calls[a][k] = "task"
          /\ texts[a][k] = "report" => author[a][k] = Child(a, k)
      BY <1>0, <2>1 DEF Local
    <3> QED
      BY <1>4, <2>1, <3>1, <3>2
  <2>2. CASE k = n + 1
    <3>1. (\E j \in 1 .. k - 1 : verdicts'[a][j] = "abort") <=> text = "skipped"
      <4>1. 1 .. k - 1 = 1 .. n
        BY <1>0, <2>2
      <4>2. (\E j \in 1 .. n : verdicts'[a][j] = "abort") <=> \E j \in 1 .. n : verdicts[a][j] = "abort"
        BY <1>4
      <4> QED
        BY <1>6, <4>1, <4>2
    <3>2. At(a) = n + 1
      BY <1>0 DEF At
    <3>3. texts'[a][k] = text /\ verdicts'[a][k] = verdict
      BY <1>4, <2>2
    <3> QED
      BY <2>2, <3>1, <3>2, <3>3
  <2>3. k \in 1 .. n \/ k = n + 1
    BY <1>0
  <2> QED
    BY <2>1, <2>2, <2>3
<1> QED
  BY <1>4, <1>5, <1>7 DEF Local

\* runTurn returns, or goes on to the next round.
LEMMA ReturnLocal ==
  ASSUME TypeOK, NEW a \in Agents, Return(a)
  PROVE  Local(a)'
<1>1. /\ texts'[a] = <<>> /\ verdicts'[a] = <<>> /\ calls'[a] = <<>>
      /\ pc'[a] \in {"idle", "returned"}
  BY DEF Return, RoundForgotten, Forgotten, TypeOK
<1>2. Len(calls'[a]) \in Nat
  BY <1>1
<1> QED
  BY <1>1, <1>2, EmptyLocal

\* The gate allows the call at hand.
LEMMA AllowLocal ==
  ASSUME TypeOK, NEW a \in Agents, Local(a), Allow(a),
         pc[a] \in {"calls", "asking"},
         turn'[a] = turn[a], calls'[a] = calls[a], author'[a] = author[a],
         Len(texts[a]) < Len(calls[a]), ~Stopped(a), ~IsRefused(a)
  PROVE  Local(a)'
<1>1. CASE calls[a][At(a)] = "task"
  <2>1. Answer(a, "allow", "approved") /\ pc'[a] = "calls"
    BY <1>1 DEF Allow, TypeOK
  <2>2. "approved" \in Texts /\ "allow" \in Verdicts
    BY DEF Texts, Verdicts
  <2> QED
    BY <1>1, <2>1, <2>2, AnswerLocal DEF Stopped
<1>2. CASE calls[a][At(a)] # "task"
  <2>1. PICK n : n \in Nat /\ n = Len(texts[a])
    <3>1. texts[a] \in Seq(Texts)
      BY DEF TypeOK
    <3> QED
      BY <3>1, LenProperties
  <2>2. Len(verdicts[a]) = n /\ turn[a] <= Limit(a) /\ verdicts[a] \in Seq(Verdicts)
    BY <2>1 DEF Local, AgentInv, InRound, TypeOK, Verdicts
  <2>3. calls[a][At(a)] = "bash"
    <3>1. calls[a] \in Replies \cup {<<>>}
      BY DEF TypeOK
    <3>2. PICK m \in 1 .. MaxCalls : calls[a] \in [1 .. m -> Kinds]
      BY <2>1, <3>1 DEF Replies
    <3>3. At(a) \in 1 .. m
      BY <2>1, <3>2, DispatchAssumption DEF At
    <3>4. calls[a][At(a)] \in {"bash", "task", "bad"}
      BY <3>2, <3>3 DEF Kinds
    <3> QED
      BY <1>2, <3>4 DEF IsRefused
  <2>4. verdicts'[a] = Append(verdicts[a], "allow") /\ pc'[a] = "command" /\ texts'[a] = texts[a]
    BY <1>2 DEF Allow, TypeOK
  <2>5. "allow" \in Verdicts
    BY DEF Verdicts
  <2>6. /\ Len(verdicts'[a]) = n + 1 /\ verdicts'[a][n + 1] = "allow"
        /\ \A k \in 1 .. n : verdicts'[a][k] = verdicts[a][k]
    BY <2>2, <2>4, <2>5, AppendProperties
  <2>7. AgentInv(a)'
    BY <2>1, <2>2, <2>4, <2>6 DEF AgentInv, InRound, Stopped, IsRefused, At
  <2>8. ASSUME NEW k \in 1 .. n
        PROVE  (\E j \in 1 .. k - 1 : verdicts'[a][j] = "abort")
                 <=> \E j \in 1 .. k - 1 : verdicts[a][j] = "abort"
    <3>1. 1 .. k - 1 \subseteq 1 .. n
      BY <2>1
    <3> QED
      BY <2>6, <3>1
  <2>9. At(a)' = n + 1 /\ At(a) = n + 1
    BY <2>1, <2>4 DEF At
  <2>10. ~ Stopped(a)'
    BY <2>4 DEF Stopped
  <2>11. verdicts'[a][At(a)'] = "allow" /\ calls'[a][At(a)'] = "bash"
    BY <2>3, <2>6, <2>9
  <2>12. Len(texts'[a]) = n
    BY <2>1, <2>4
  <2>13. ASSUME NEW k \in 1 .. n
         PROVE  /\ texts'[a][k] = "skipped" <=> \E j \in 1 .. k - 1 : verdicts'[a][j] = "abort"
                /\ texts'[a][k] \in {"output", "approved", "report"} <=> verdicts'[a][k] = "allow"
                /\ texts'[a][k] = "denied" <=> verdicts'[a][k] = "deny"
                /\ texts'[a][k] = "stopped" <=> verdicts'[a][k] = "abort"
                /\ texts'[a][k] = "output" => calls'[a][k] = "bash"
                /\ texts'[a][k] \in {"approved", "report"} => calls'[a][k] = "task"
                /\ texts'[a][k] = "report" => author'[a][k] = Child(a, k)
    <3>1. /\ verdicts'[a][k] = verdicts[a][k] /\ texts'[a] = texts[a] /\ calls'[a] = calls[a]
          /\ author'[a] = author[a]
      BY <2>4, <2>6
    <3> QED
      BY <2>1, <2>8, <3>1 DEF Local
  <2> QED
    BY <2>7, <2>10, <2>11, <2>12, <2>13 DEF Local
<1> QED
  BY <1>1, <1>2

\* A command that ended: its output is the answer to the call that was allowed.
LEMMA CommandLocal ==
  ASSUME TypeOK, NEW a \in Agents, Local(a), CommandEnds(a)
  PROVE  Local(a)'
<1>0. PICK n : n \in Nat /\ n = Len(texts[a])
  <2>1. texts[a] \in Seq(Texts)
    BY DEF TypeOK
  <2> QED
    BY <2>1, LenProperties
<1>1. /\ texts'[a] = Append(texts[a], "output") /\ verdicts'[a] = verdicts[a]
      /\ calls'[a] = calls[a] /\ turn'[a] = turn[a] /\ pc[a] = "command" /\ pc'[a] = "calls"
      /\ author' = author
  BY DEF CommandEnds, Go, TypeOK, history
<1>2. texts[a] \in Seq(Texts) /\ "output" \in Texts
  BY DEF TypeOK, Texts
<1>3. /\ Len(texts'[a]) = n + 1 /\ texts'[a][n + 1] = "output"
      /\ \A k \in 1 .. n : texts'[a][k] = texts[a][k]
  BY <1>0, <1>1, <1>2, AppendProperties
<1>4. /\ Len(verdicts[a]) = n + 1 /\ turn[a] <= Limit(a) /\ n < Len(calls[a])
      /\ calls[a][n + 1] = "bash" /\ verdicts[a][n + 1] = "allow"
      /\ \A j \in 1 .. n : texts[a][j] # "stopped"
  BY <1>0, <1>1 DEF Local, AgentInv, InRound, At, Stopped
<1>5. AgentInv(a)'
  <2>1. n + 1 <= Len(calls'[a])
    BY <1>0, <1>1, <1>4, ReplyLength
  <2> QED
    BY <1>1, <1>3, <1>4, <2>1 DEF AgentInv, InRound
<1>6. \A j \in 1 .. n : verdicts[a][j] # "abort"
  BY <1>0, <1>4 DEF Local
<1>7. ASSUME NEW k \in 1 .. n + 1
      PROVE  /\ texts'[a][k] = "skipped" <=> \E j \in 1 .. k - 1 : verdicts'[a][j] = "abort"
             /\ texts'[a][k] \in {"output", "approved", "report"} <=> verdicts'[a][k] = "allow"
             /\ texts'[a][k] = "denied" <=> verdicts'[a][k] = "deny"
             /\ texts'[a][k] = "stopped" <=> verdicts'[a][k] = "abort"
             /\ texts'[a][k] = "output" => calls'[a][k] = "bash"
             /\ texts'[a][k] \in {"approved", "report"} => calls'[a][k] = "task"
             /\ texts'[a][k] = "report" => author'[a][k] = Child(a, k)
  <2>1. CASE k \in 1 .. n
    BY <1>0, <1>1, <1>3, <2>1 DEF Local
  <2>2. CASE k = n + 1
    <3>1. ~ \E j \in 1 .. k - 1 : verdicts'[a][j] = "abort"
      BY <1>0, <1>1, <1>6, <2>2
    <3> QED
      BY <1>1, <1>3, <1>4, <2>2, <3>1
  <2> QED
    BY <1>0, <2>1, <2>2
<1> QED
  BY <1>1, <1>3, <1>5, <1>7 DEF Local

LEMMA OwnLocal ==
  ASSUME TypeOK, NEW a \in Agents, Local(a), Own(a)
  PROVE  Local(a)'
<1>0. Len(calls[a]) \in Nat /\ Len(texts[a]) \in Nat
  <2>1. texts[a] \in Seq(Texts)
    BY DEF TypeOK
  <2> QED
    BY <2>1, LenProperties, ReplyLength
<1>1. CASE GiveUp(a) \/ NoCalls(a) \/ EndsHere(a)
  BY <1>1, ReturnLocal DEF GiveUp, NoCalls, EndsHere
<1>2. CASE Check(a) \/ CallModel(a)
  <2>1. /\ pc[a] \in {"top", "checked"} /\ pc'[a] \in {"checked", "calling"}
        /\ texts'[a] = texts[a] /\ verdicts'[a] = verdicts[a] /\ Len(calls'[a]) \in Nat
    BY <1>0, <1>2 DEF Check, CallModel, Go, TypeOK, history
  <2>2. turn'[a] <= Limit(a)
    BY <1>2 DEF Check, CallModel, Go, Local, AgentInv, InRound
  <2> QED
    BY <2>1, <2>2, EmptyLocal DEF Local, AgentInv
<1>3. CASE Reply(a)
  <2>1. /\ pc[a] = "calling" /\ pc'[a] = "calls" /\ turn'[a] = turn[a]
        /\ texts'[a] = texts[a] /\ verdicts'[a] = verdicts[a]
    BY <1>3 DEF Reply, Go, TypeOK, history
  <2>2. Len(calls'[a]) \in Nat
    <3>1. PICK reply \in Replies : calls'[a] = reply
      BY <1>3 DEF Reply, TypeOK
    <3>2. Len(reply) \in 0 .. MaxCalls
      BY <3>1, DispatchAssumption DEF Replies
    <3> QED
      BY <3>1, <3>2
  <2> QED
    BY <2>1, <2>2, EmptyLocal DEF Local, AgentInv, InRound
<1>4. CASE Skip(a)
  <2>1. /\ Answer(a, "none", "skipped") /\ Stopped(a) /\ Len(texts[a]) < Len(calls[a])
        /\ pc[a] = "calls" /\ pc'[a] = "calls" /\ turn'[a] = turn[a] /\ calls'[a] = calls[a]
        /\ author' = author
    BY <1>0, <1>4 DEF Skip, AtCall, At
  <2>2. "skipped" \in Texts /\ "none" \in Verdicts
    BY DEF Texts, Verdicts
  <2> QED
    BY <2>1, <2>2, AnswerLocal DEF Stopped
<1>5. CASE Refuse(a)
  <2>1. /\ Answer(a, "none", "refused") /\ ~Stopped(a) /\ Len(texts[a]) < Len(calls[a])
        /\ pc[a] = "calls" /\ pc'[a] = "calls" /\ turn'[a] = turn[a] /\ calls'[a] = calls[a]
        /\ author' = author
    BY <1>0, <1>5 DEF Refuse, AtCall, At
  <2>2. "refused" \in Texts /\ "none" \in Verdicts
    BY DEF Texts, Verdicts
  <2> QED
    BY <2>1, <2>2, AnswerLocal DEF Stopped
<1>6. CASE CommandEnds(a)
  BY <1>6, CommandLocal
<1>7. CASE GoesOn(a)
  <2>1. /\ pc'[a] = "top" /\ texts'[a] = <<>> /\ verdicts'[a] = <<>> /\ calls'[a] = <<>>
    BY <1>7 DEF GoesOn, RoundForgotten, Forgotten, TypeOK
  <2>2. Len(calls'[a]) \in Nat
    BY <2>1
  <2> QED
    BY <2>1, <2>2, EmptyLocal
<1>8. CASE AskOpen(a)
  <2>1. /\ Allow(a) /\ ~Stopped(a) /\ ~IsRefused(a) /\ Len(texts[a]) < Len(calls[a])
        /\ pc[a] = "calls" /\ turn'[a] = turn[a] /\ calls'[a] = calls[a]
        /\ author' = author
    BY <1>0, <1>8 DEF AskOpen, Asks, AtCall, At
  <2> QED
    BY <2>1, AllowLocal
<1>9. CASE AskNobody(a)
  <2>1. /\ Answer(a, "deny", "denied") /\ ~Stopped(a) /\ Len(texts[a]) < Len(calls[a])
        /\ pc[a] = "calls" /\ pc'[a] = "calls" /\ turn'[a] = turn[a] /\ calls'[a] = calls[a]
        /\ author' = author
    BY <1>0, <1>9 DEF AskNobody, Asks, AtCall, At
  <2>2. "denied" \in Texts /\ "deny" \in Verdicts
    BY DEF Texts, Verdicts
  <2> QED
    BY <2>1, <2>2, AnswerLocal DEF Stopped
<1>10. CASE AskHuman(a)
  <2>1. /\ ~Stopped(a) /\ ~IsRefused(a) /\ Len(texts[a]) < Len(calls[a])
        /\ pc[a] = "calls" /\ pc'[a] = "asking"
        /\ turn'[a] = turn[a] /\ calls'[a] = calls[a]
        /\ author' = author
        /\ texts'[a] = texts[a] /\ verdicts'[a] = verdicts[a]
    BY <1>0, <1>10 DEF AskHuman, Asks, AtCall, At, TypeOK, history
  <2> QED
    BY <2>1 DEF Local, AgentInv, InRound, Stopped, IsRefused, At
<1>11. CASE Yes(a) \/ All(a)
  <2>1. /\ Allow(a) /\ ~Stopped(a) /\ ~IsRefused(a) /\ Len(texts[a]) < Len(calls[a])
        /\ pc[a] = "asking" /\ turn'[a] = turn[a] /\ calls'[a] = calls[a]
        /\ author' = author
    BY <1>11 DEF Yes, All, Local, AgentInv
  <2> QED
    BY <2>1, AllowLocal
<1>12. CASE No(a) \/ Quit(a)
  <2>1. /\ ~Stopped(a) /\ Len(texts[a]) < Len(calls[a])
        /\ pc[a] = "asking" /\ pc'[a] = "calls" /\ turn'[a] = turn[a] /\ calls'[a] = calls[a]
        /\ author' = author
    BY <1>12 DEF No, Quit, Go, Local, AgentInv, TypeOK
  <2>2. /\ "denied" \in Texts /\ "deny" \in Verdicts
        /\ "stopped" \in Texts /\ "abort" \in Verdicts
    BY DEF Texts, Verdicts
  <2>3. Answer(a, "deny", "denied") \/ Answer(a, "abort", "stopped")
    BY <1>12 DEF No, Quit
  <2> QED
    BY <2>1, <2>2, <2>3, AnswerLocal DEF Stopped
<1>13. CASE CutOff(a)
  <2>1. /\ pc[a] = "calling" /\ pc'[a] = "top"
        /\ texts'[a] = texts[a] /\ verdicts'[a] = verdicts[a] /\ Len(calls'[a]) \in Nat
    BY <1>0, <1>13 DEF CutOff, Go, TypeOK, history
  <2> QED
    BY <2>1, EmptyLocal DEF Local, AgentInv
<1>14. CASE Join(a)
  <2>1. /\ pc[a] = "subagents" /\ pc'[a] = "calls" /\ turn' = turn /\ calls' = calls
        /\ texts' = texts /\ verdicts' = verdicts /\ author' = author
    BY <1>14 DEF Join, Go, TypeOK, history
  <2> QED
    BY <2>1 DEF Local, AgentInv, InRound
<1> QED
  BY <1>1, <1>2, <1>3, <1>4, <1>5, <1>6, <1>7, <1>8, <1>9, <1>10, <1>11, <1>12, <1>13, <1>14
  DEF Own, Ask, Human

LEMMA SpawnLocal ==
  ASSUME TypeOK, SubagentsAreWaitedFor, NEW a \in Agents, Spawn(a),
         NEW b \in Agents, Local(a), Local(b)
  PROVE  Local(b)'
<1>1. /\ calls' = calls /\ texts' = texts /\ verdicts' = verdicts /\ author' = author
      /\ pc[a] = "calls" /\ pc'[a] = "subagents"
  BY DEF Spawn, AllSeen, history
<1>2. Approved(a) \subseteq 1 .. MaxCalls
  BY ApprovedAreCalls DEF Local, AgentInv
<1>3. CASE \E k \in Approved(a) : b = Child(a, k)
  <2>1. b # a /\ pc[b] = "idle"
    BY <1>1, <1>2, <1>3, ChildIsNew DEF SubagentsAreWaitedFor
  <2>2. pc'[b] = "top"
    BY <1>3, <2>1 DEF Spawn
  <2>3. texts'[b] = <<>> /\ verdicts'[b] = <<>> /\ Len(calls'[b]) \in Nat
    BY <1>1, <2>1, ReplyLength DEF Local, AgentInv
  <2> QED
    BY <2>2, <2>3, EmptyLocal
<1>4. CASE b = a
  <2>1. turn'[a] = turn[a]
    BY <1>2, ChildIsNew DEF Spawn
  <2> QED
    BY <1>1, <1>4, <2>1 DEF Local, AgentInv, InRound
<1>5. CASE b # a /\ ~ \E k \in Approved(a) : b = Child(a, k)
  <2>1. Untouched(b)
    BY <1>1, <1>5 DEF Spawn, Untouched
  <2> QED
    BY <2>1, UntouchedLocal
<1> QED
  BY <1>3, <1>4, <1>5

LEMMA ReportLocal ==
  ASSUME TypeOK, NEW a \in Agents, NEW l \in 1 .. MaxCalls, Report(a, l),
         NEW b \in Agents, Local(a), Local(b)
  PROVE  Local(b)'
<1>1. /\ calls' = calls /\ verdicts' = verdicts /\ turn' = turn
      /\ pc[a] = "subagents" /\ l \in Approved(a) /\ Child(a, l) \in Agents
      /\ pc[Child(a, l)] = "returned" /\ pc'[Child(a, l)] = "idle"
      /\ \A c \in Agents : c # Child(a, l) => pc'[c] = pc[c]
  BY DEF Report, TypeOK
<1>2. /\ Len(texts'[a]) = Len(texts[a]) /\ texts'[a][l] = "report"
      /\ \A k \in 1 .. Len(texts[a]) : k # l => texts'[a][k] = texts[a][k]
      /\ \A c \in Agents : c # a => texts'[c] = texts[c] /\ author'[c] = author[c]
  BY ReportIs DEF Local
<1>3. CASE b = Child(a, l)
  <2>1. b # a /\ pc[b] = "returned" /\ pc'[b] = "idle"
    BY <1>1, <1>3, ChildIsNew
  <2>2. texts'[b] = <<>> /\ verdicts'[b] = <<>> /\ Len(calls'[b]) \in Nat
    BY <1>1, <1>2, <2>1, ReplyLength DEF Local, AgentInv
  <2> QED
    BY <2>1, <2>2, EmptyLocal
<1>4. CASE b = a
  <2>0. PICK n : n \in Nat /\ n = Len(texts[a])
    <3>1. texts[a] \in Seq(Texts)
      BY DEF TypeOK
    <3> QED
      BY <3>1, LenProperties
  <2>1. pc'[a] = "subagents"
    BY <1>1, ChildIsNew
  <2>2. AgentInv(a)'
    BY <1>1, <1>2, <2>0, <2>1 DEF Local, AgentInv, InRound
  <2>3. /\ author'[a][l] = Child(a, l)
        /\ \A k \in 1 .. MaxCalls : k # l => author'[a][k] = author[a][k]
    BY DEF Report, TypeOK
  <2>4. \A k \in 1 .. n : k \in 1 .. MaxCalls
    <3>1. n <= Len(calls[a]) /\ calls[a] \in Replies \cup {<<>>}
      BY <2>0 DEF Local, AgentInv, TypeOK
    <3>2. Len(calls[a]) \in 0 .. MaxCalls
      BY <3>1, DispatchAssumption DEF Replies
    <3> QED
      BY <2>0, <3>1, <3>2, DispatchAssumption
  <2>5. texts[a][l] = "approved" /\ l \in 1 .. n
    BY <1>1, <2>0 DEF Approved
  <2>6. ASSUME NEW k \in 1 .. n
        PROVE  /\ texts'[a][k] = "skipped" <=> \E j \in 1 .. k - 1 : verdicts'[a][j] = "abort"
               /\ texts'[a][k] \in {"output", "approved", "report"} <=> verdicts'[a][k] = "allow"
               /\ texts'[a][k] = "denied" <=> verdicts'[a][k] = "deny"
               /\ texts'[a][k] = "stopped" <=> verdicts'[a][k] = "abort"
               /\ texts'[a][k] = "output" => calls'[a][k] = "bash"
               /\ texts'[a][k] \in {"approved", "report"} => calls'[a][k] = "task"
               /\ texts'[a][k] = "report" => author'[a][k] = Child(a, k)
    <3>1. CASE k = l
      <4>1. /\ texts[a][k] = "skipped" <=> \E j \in 1 .. k - 1 : verdicts[a][j] = "abort"
            /\ verdicts[a][k] = "allow" /\ calls[a][k] = "task"
        BY <2>0, <2>5, <3>1 DEF Local
      <4>2. texts'[a][k] = "report" /\ author'[a][k] = Child(a, k)
        BY <1>2, <2>3, <3>1
      <4> QED
        BY <1>1, <2>5, <3>1, <4>1, <4>2
    <3>2. CASE k # l
      <4>1. texts'[a][k] = texts[a][k] /\ author'[a][k] = author[a][k]
        BY <1>2, <2>0, <2>3, <2>4, <3>2
      <4> QED
        BY <1>1, <2>0, <4>1 DEF Local
    <3> QED
      BY <3>1, <3>2
  <2> QED
    BY <1>2, <1>4, <2>0, <2>1, <2>2, <2>6 DEF Local
<1>5. CASE b # a /\ b # Child(a, l)
  <2>1. Untouched(b)
    BY <1>1, <1>2, <1>5 DEF Untouched
  <2> QED
    BY <2>1, UntouchedLocal
<1> QED
  BY <1>3, <1>4, <1>5

-----------------------------------------------------------------------------
(***************************************************************************)
(* The invariant                                                           *)
(***************************************************************************)
LEMMA OwnKeeps ==
  ASSUME DispatchInv, NEW a \in Agents, Own(a)
  PROVE  DispatchInv'
<1>1. TypeOK /\ OneQuestion /\ SubagentsAreWaitedFor /\ \A b \in Agents : Local(b)
  BY LocalForAll DEF DispatchInv
<1>2. AgentInv(a)
  BY <1>1 DEF Local
<1>3. ASSUME NEW b \in Agents
      PROVE  Local(b)'
  BY <1>1, OthersUntouched, UntouchedLocal, OwnLocal
<1>4. AnswersAreTrue' /\ \A b \in Agents : AgentInv(b)'
  BY <1>3 DEF Local, AnswersAreTrue
<1>5. TypeOK' /\ OneQuestion' /\ SubagentsAreWaitedFor'
  BY <1>1, <1>2, OwnTypes, OwnQuestion, OwnWaits
<1> QED
  BY <1>4, <1>5 DEF DispatchInv

LEMMA FamilyKeeps ==
  ASSUME DispatchInv, NEW a \in Agents, Family(a)
  PROVE  DispatchInv'
<1>1. TypeOK /\ OneQuestion /\ SubagentsAreWaitedFor /\ \A b \in Agents : Local(b)
  BY LocalForAll DEF DispatchInv
<1>2. AgentInv(a)
  BY <1>1 DEF Local
<1>3. ASSUME NEW b \in Agents
      PROVE  Local(b)'
  BY <1>1, SpawnLocal, ReportLocal DEF Family
<1>4. AnswersAreTrue' /\ \A b \in Agents : AgentInv(b)'
  BY <1>3 DEF Local, AnswersAreTrue
<1>5. TypeOK' /\ OneQuestion' /\ SubagentsAreWaitedFor'
  BY <1>1, <1>2, SpawnTypes, ReportTypes, FamilyQuestion, SpawnWaits, ReportWaits DEF Family
<1> QED
  BY <1>4, <1>5 DEF DispatchInv

LEMMA SubmitKeeps ==
  ASSUME DispatchInv, Submit
  PROVE  DispatchInv'
<1>1. TypeOK /\ OneQuestion /\ SubagentsAreWaitedFor /\ \A b \in Agents : Local(b)
  BY LocalForAll DEF DispatchInv
<1>2. /\ open' = open /\ available' = available /\ mu' = mu /\ interrupted' = interrupted
      /\ calls' = calls /\ texts' = texts /\ verdicts' = verdicts
      /\ author' = author /\ stoppedAt' = stoppedAt
      /\ pc[Root] = "idle" /\ pc' = [pc EXCEPT ![Root] = "top"]
      /\ turn' = [turn EXCEPT ![Root] = 1]
  BY DEF Submit, Go, session, history
<1>3. pc'[Root] = "top" /\ \A b \in Agents : b # Root => pc'[b] = pc[b]
  BY <1>1, <1>2, RootIsAgent DEF TypeOK
<1>4. TypeOK'
  <2>1. \A b \in Agents : Limit(b) \in Nat \ {0}
    BY DispatchAssumption DEF Limit
  <2>2. pc' \in [Agents -> Phases]
    BY <1>1, <1>2, RootIsAgent DEF TypeOK, Phases
  <2>3. turn' \in [Agents -> Nat] /\ \A b \in Agents : turn'[b] <= Limit(b) + 1
    BY SMTT(30), <1>1, <1>2, <2>1, RootIsAgent DEF TypeOK
  <2> QED
    BY <1>1, <1>2, <2>2, <2>3 DEF TypeOK
<1>5. OneQuestion'
  BY <1>1, <1>2, <1>3, QuestionKept
<1>6. SubagentsAreWaitedFor'
  <2> SUFFICES ASSUME NEW b \in Agents, NEW k \in 1 .. MaxCalls, Child(b, k) \in Agents
               PROVE  pc'[Child(b, k)] # "idle" <=> pc'[b] = "subagents" /\ k \in Approved(b)'
    BY DEF SubagentsAreWaitedFor
  <2>1. pc[Child(b, k)] # "idle" <=> pc[b] = "subagents" /\ k \in Approved(b)
    BY <1>1 DEF SubagentsAreWaitedFor
  <2>2. Approved(b)' = Approved(b)
    BY <1>2 DEF Approved
  <2>3. Child(b, k) # Root
    BY ChildIsNew
  <2> QED
    BY <1>2, <1>3, <2>1, <2>2, <2>3
<1>7. ASSUME NEW b \in Agents
      PROVE  Local(b)'
  <2>1. CASE b = Root
    <3>1. texts'[b] = <<>> /\ verdicts'[b] = <<>> /\ Len(calls'[b]) \in Nat
      BY <1>1, <1>2, <2>1, ReplyLength DEF Local, AgentInv
    <3> QED
      BY <1>3, <2>1, <3>1, EmptyLocal
  <2>2. CASE b # Root
    <3>1. Untouched(b)
      BY <1>1, <1>2, <1>3, <2>2 DEF Untouched, TypeOK
    <3> QED
      BY <1>1, <3>1, UntouchedLocal
  <2> QED
    BY <2>1, <2>2
<1>8. AnswersAreTrue' /\ \A b \in Agents : AgentInv(b)'
  BY <1>7 DEF Local, AnswersAreTrue
<1> QED
  BY <1>4, <1>5, <1>6, <1>8 DEF DispatchInv

\* What DispatchInv is about does not include the stop key.
LEMMA OthersKeep ==
  ASSUME DispatchInv, Interrupt \/ UNCHANGED vars
  PROVE  DispatchInv'
<1>1. /\ open' = open /\ available' = available /\ mu' = mu
      /\ pc' = pc /\ turn' = turn /\ calls' = calls /\ texts' = texts /\ verdicts' = verdicts
      /\ author' = author /\ interrupted' \in BOOLEAN /\ stoppedAt' \in [Agents -> Nat]
  BY DEF Interrupt, vars, session, history, DispatchInv, TypeOK
<1>2. TypeOK'
  BY <1>1 DEF DispatchInv, TypeOK
<1>3. OneQuestion'
  BY <1>1, QuestionKept DEF DispatchInv
<1>4. SubagentsAreWaitedFor'
  BY <1>1 DEF DispatchInv, SubagentsAreWaitedFor, Approved
<1>5. ASSUME NEW b \in Agents
      PROVE  Local(b)'
  <2>1. Local(b)
    BY LocalForAll DEF DispatchInv
  <2>2. Untouched(b)
    BY <1>1 DEF Untouched
  <2> QED
    BY <2>1, <2>2, UntouchedLocal
<1>6. AnswersAreTrue' /\ \A b \in Agents : AgentInv(b)'
  BY <1>5 DEF Local, AnswersAreTrue
<1> QED
  BY <1>2, <1>3, <1>4, <1>6 DEF DispatchInv

LEMMA NextIs ==
  [Next]_vars <=> \/ Submit \/ Interrupt \/ UNCHANGED vars
                  \/ \E a \in Agents : Own(a) \/ Family(a)
BY DEF Next, Continue, Own, Family

\* The inductive invariant of dispatch, the gate and the subagents holds in every state, for
\* any depth, any number of calls in a reply and any turn limits.
THEOREM Invariant == Spec => []DispatchInv
<1>1. ASSUME DispatchInv, [Next]_vars
      PROVE  DispatchInv'
  <2>1. CASE Submit
    BY <1>1, <2>1, SubmitKeeps
  <2>2. CASE Interrupt \/ UNCHANGED vars
    BY <1>1, <2>2, OthersKeep
  <2>3. ASSUME NEW a \in Agents, Own(a) \/ Family(a)
        PROVE  DispatchInv'
    BY <1>1, <2>3, OwnKeeps, FamilyKeeps
  <2> QED
    BY <1>1, <2>1, <2>2, <2>3, NextIs
<1> QED
  BY <1>1, InitHolds, PTL DEF Spec

\* Every variable keeps its type, and no agent runs more rounds than its limit (the head of
\* runTurn's loop, main.go 895-916).
THEOREM Types == Spec => []TypeOK
<1>1. DispatchInv => TypeOK
  BY DEF DispatchInv
<1> QED
  BY <1>1, Invariant, PTL

\* wg.Wait leaves no subagent behind, and none is alive without a parent that waits for it
\* (subagent.go 440-456).
THEOREM WaitedFor == Spec => []SubagentsAreWaitedFor
<1>1. DispatchInv => SubagentsAreWaitedFor
  BY DEF DispatchInv
<1> QED
  BY <1>1, Invariant, PTL

\* What is told to the model of a call is what became of it (dispatch).
THEOREM Answers == Spec => []AnswersAreTrue
<1>1. DispatchInv => AnswersAreTrue
  BY DEF DispatchInv
<1> QED
  BY <1>1, Invariant, PTL

\* gate.mu lets one agent of the family ask at a time, and none after `a`.
THEOREM Questions == Spec => []OneQuestion
<1>1. DispatchInv => OneQuestion
  BY DEF DispatchInv
<1> QED
  BY <1>1, Invariant, PTL

\* A step after which the agent is in a round was taken with no stop pressed, or within the
\* round.
LEMMA OwnRound ==
  ASSUME TypeOK, NEW a \in Agents, Own(a), InRound(a)'
  PROVE  \/ ~interrupted'
         \/ InRound(a) /\ turn'[a] = turn[a] /\ stoppedAt' = stoppedAt
<1> USE DEF TypeOK, InRound
<1>1. CASE GiveUp(a) \/ NoCalls(a) \/ EndsHere(a)
  BY <1>1 DEF GiveUp, NoCalls, EndsHere, Return
<1>2. CASE Moves(a)
  BY <1>2 DEF Moves, Check, CallModel, CutOff, Reply, CommandEnds, Join, Go
<1>3. CASE Skip(a) \/ Refuse(a)
  BY <1>3 DEF Skip, Refuse, AtCall
<1>4. CASE GoesOn(a)
  BY <1>4 DEF GoesOn
<1>5. CASE Ask(a)
  BY <1>5 DEF Ask, AskOpen, AskNobody, AskHuman, Asks, AtCall
<1>6. CASE Human(a)
  BY <1>6 DEF Human, Yes, All, No, Quit, Go
<1> QED
  BY <1>1, <1>2, <1>3, <1>4, <1>5, <1>6 DEF Own, Moves

\* The stop key is forgotten when the session's agent returns, and not before.
LEMMA OwnStop ==
  ASSUME TypeOK, NEW a \in Agents, Own(a), interrupted'
  PROVE  interrupted /\ stoppedAt' = stoppedAt
<1> USE DEF TypeOK
<1>1. CASE GiveUp(a) \/ NoCalls(a) \/ EndsHere(a)
  BY <1>1 DEF GiveUp, NoCalls, EndsHere, Return
<1>2. CASE Moves(a)
  BY <1>2 DEF Moves, Check, CallModel, CutOff, Reply, CommandEnds, Join
<1>3. CASE Skip(a) \/ Refuse(a) \/ GoesOn(a)
  BY <1>3 DEF Skip, Refuse, GoesOn
<1>4. CASE Ask(a)
  BY <1>4 DEF Ask, AskOpen, AskNobody, AskHuman
<1>5. CASE Human(a)
  BY <1>5 DEF Human, Yes, All, No, Quit
<1> QED
  BY <1>1, <1>2, <1>3, <1>4, <1>5 DEF Own, Moves

\* In a family of any depth and width, with any limits, no agent begins another round after the
\* stop key, whatever it was doing when the key was pressed and whatever its family, the gate and
\* the human do: a request, a reply that was cut off, commands, questions or a second pass in
\* progress end with the round (main.go 902-916).
THEOREM StopIsHeard == Spec => []StopEndsTheRound
<1>1. Init => StopEndsTheRound
  BY DEF Init, StopEndsTheRound
<1>2. ASSUME DispatchInv, StopEndsTheRound, [Next]_vars, interrupted',
             NEW b \in Agents, InRound(b)'
      PROVE  turn'[b] = stoppedAt'[b]
  <2>0. TypeOK /\ Root \in Agents
    BY <1>2, RootIsAgent DEF DispatchInv
  <2>1. interrupted /\ InRound(b) => turn[b] = stoppedAt[b]
    BY <1>2 DEF StopEndsTheRound
  <2>2. CASE Submit
    <3>1. /\ interrupted' = interrupted /\ stoppedAt' = stoppedAt
          /\ turn' = [turn EXCEPT ![Root] = 1] /\ pc' = [pc EXCEPT ![Root] = "top"]
      BY <2>2 DEF Submit, Go
    <3>2. pc'[Root] = "top"
      BY <2>0, <3>1 DEF TypeOK
    <3>3. b # Root
      BY <1>2, <3>2 DEF InRound
    <3>4. pc'[b] = pc[b] /\ turn'[b] = turn[b]
      BY <2>0, <3>1, <3>3 DEF TypeOK
    <3> QED
      BY <1>2, <2>1, <3>1, <3>4 DEF InRound
  <2>3. CASE Interrupt
    BY <2>3 DEF Interrupt
  <2>4. CASE UNCHANGED vars
    BY <1>2, <2>1, <2>4 DEF vars, InRound
  <2>5. ASSUME NEW a \in Agents, Own(a)
        PROVE  turn'[b] = stoppedAt'[b]
    <3>1. interrupted /\ stoppedAt' = stoppedAt
      BY <1>2, <2>0, <2>5, OwnStop
    <3>2. CASE a = b
      BY <1>2, <2>0, <2>1, <2>5, <3>1, <3>2, OwnRound
    <3>3. CASE a # b
      BY <1>2, <2>0, <2>1, <2>5, <3>1, <3>3, OthersUntouched DEF Untouched, InRound
    <3> QED
      BY <3>2, <3>3
  <2>6. ASSUME NEW a \in Agents, Spawn(a)
        PROVE  turn'[b] = stoppedAt'[b]
    <3>1. interrupted /\ stoppedAt' = stoppedAt
      BY <1>2, <2>6 DEF Spawn
    <3>2. CASE b = a
      <4>1. Approved(a) \subseteq 1 .. MaxCalls
        BY <1>2, <2>0, ApprovedAreCalls DEF DispatchInv, AgentInv
      <4>2. ~ \E k \in Approved(a) : a = Child(a, k)
        BY <4>1, ChildIsNew
      <4>3. turn'[a] = turn[a] /\ InRound(a)
        BY <2>6, <4>2 DEF Spawn, AllSeen, InRound
      <4> QED
        BY <2>1, <3>1, <3>2, <4>3
    <3>3. CASE b # a /\ \E k \in Approved(a) : b = Child(a, k)
      <4>1. pc'[b] = "top"
        BY <2>6, <3>3 DEF Spawn
      <4> QED
        BY <1>2, <4>1 DEF InRound
    <3>4. CASE b # a /\ ~ \E k \in Approved(a) : b = Child(a, k)
      <4>1. pc'[b] = pc[b] /\ turn'[b] = turn[b]
        BY <2>6, <3>4 DEF Spawn
      <4> QED
        BY <1>2, <2>1, <3>1, <4>1 DEF InRound
    <3> QED
      BY <3>2, <3>3, <3>4
  <2>7. ASSUME NEW a \in Agents, NEW k \in 1 .. MaxCalls, Report(a, k)
        PROVE  turn'[b] = stoppedAt'[b]
    <3>1. /\ interrupted' = interrupted /\ stoppedAt' = stoppedAt /\ turn' = turn
          /\ pc'[b] = pc[b] \/ pc'[b] = "idle"
      BY <2>0, <2>7 DEF Report, TypeOK
    <3> QED
      BY <1>2, <2>1, <3>1 DEF InRound
  <2> QED
    BY <1>2, <2>2, <2>3, <2>4, <2>5, <2>6, <2>7, NextIs DEF Family
<1>3. DispatchInv /\ StopEndsTheRound /\ [Next]_vars => StopEndsTheRound'
  BY <1>2 DEF StopEndsTheRound
<1> QED
  BY <1>1, <1>3, Invariant, PTL DEF Spec

-----------------------------------------------------------------------------
(***************************************************************************)
(* How long a turn may last                                                *)
(***************************************************************************)
\* Fewer rounds, or as many and fewer steps in the round, are fewer steps.
LEMMA Fewer ==
  ASSUME NEW x \in Nat, NEW y \in Nat, NEW w \in Nat, NEW s \in Nat, NEW t \in Nat,
         t < s + w, y < x \/ (y = x /\ t <= s)
  PROVE  /\ y * w + t \in Nat /\ y * w + t <= x * w + s
         /\ y < x \/ t < s => y * w + t < x * w + s
<1>1. y * w \in Nat /\ x * w \in Nat
  OBVIOUS
<1>2. y < x => y * w + w <= x * w
  <2> SUFFICES ASSUME y < x PROVE y * w + w <= x * w
    OBVIOUS
  <2> DEFINE d == x - y - 1
  <2>1. d \in Nat /\ x = y + d + 1
    OBVIOUS
  <2> HIDE DEF d
  <2>2. x * w = y * w + d * w + w /\ d * w \in Nat
    BY <2>1
  <2> QED
    BY <1>1, <2>2
<1> QED
  BY <1>1, <1>2

LEMMA UnansweredIs ==
  ASSUME DispatchInv, NEW a \in Agents
  PROVE  /\ Unanswered(a) \in Nat /\ Len(texts[a]) \in Nat /\ texts[a] \in Seq(Texts)
         /\ pc[a] \in {"asking", "command"} \/ AtCall(a) => Unanswered(a) >= 1
         /\ AllSeen(a) => Unanswered(a) = 0
<1>1. texts[a] \in Seq(Texts) /\ Len(texts[a]) \in Nat /\ Len(calls[a]) \in Nat
  BY ReplyLength, LenProperties DEF DispatchInv, TypeOK
<1>2. /\ Len(texts[a]) <= Len(calls[a])
      /\ pc[a] \in {"asking", "command"} => Len(texts[a]) < Len(calls[a])
  BY DEF DispatchInv, AgentInv
<1> QED
  BY <1>1, <1>2 DEF Unanswered, AtCall, At, AllSeen

LEMMA RoundSteps ==
  ASSUME DispatchInv, NEW a \in Agents
  PROVE  StepsOfRound(a) \in Nat /\ Limit(a) + 1 - turn[a] \in Nat /\ turn[a] \in Nat
<1>1. Unanswered(a) \in Nat /\ MaxCalls \in Nat
  BY UnansweredIs, DispatchAssumption
<1>2. pc[a] \in Phases /\ turn[a] \in Nat /\ turn[a] <= Limit(a) + 1 /\ Limit(a) \in Nat
  BY DispatchAssumption DEF DispatchInv, TypeOK, Limit
<1>3. Limit(a) + 1 - turn[a] \in Nat
  BY <1>2
<1> QED
  BY <1>1, <1>2, <1>3 DEF StepsOfRound, Phases

\* Once a call is answered, there are three steps a call left.
LEMMA AnsweredOne ==
  ASSUME DispatchInv, NEW a \in Agents, Unanswered(a) >= 1, NEW text,
         pc'[a] = "calls", texts'[a] = Append(texts[a], text), calls'[a] = calls[a]
  PROVE  StepsOfRound(a)' \in Nat /\ StepsOfRound(a)' <= 3 * Unanswered(a)
<1>1. /\ Unanswered(a) \in Nat /\ Len(texts[a]) \in Nat /\ texts[a] \in Seq(Texts)
      /\ Len(calls[a]) \in Nat
  BY UnansweredIs, ReplyLength DEF DispatchInv
<1>2. Len(texts'[a]) = Len(texts[a]) + 1
  BY <1>1
<1>3. Unanswered(a)' = Unanswered(a) - 1
  BY <1>1, <1>2 DEF Unanswered
<1>4. StepsOfRound(a)' \in {1, 3 * (Unanswered(a) - 1) + 3}
  BY <1>3 DEF StepsOfRound
<1> QED
  BY <1>1, <1>4

\* A command that is allowed has a step less than a question, and two less than a call.
LEMMA AllowedOne ==
  ASSUME DispatchInv, NEW a \in Agents, Unanswered(a) >= 1, Allow(a), calls'[a] = calls[a]
  PROVE  StepsOfRound(a)' \in Nat /\ StepsOfRound(a)' <= 3 * Unanswered(a) + 1
<1>1. Unanswered(a) \in Nat
  BY UnansweredIs
<1>2. CASE calls[a][At(a)] = "task"
  <2>1. pc'[a] = "calls" /\ texts'[a] = Append(texts[a], "approved")
    BY <1>2 DEF Allow, Answer, DispatchInv, TypeOK
  <2>2. StepsOfRound(a)' \in Nat /\ StepsOfRound(a)' <= 3 * Unanswered(a)
    BY <2>1, AnsweredOne
  <2> QED
    BY <1>1, <2>2
<1>3. CASE calls[a][At(a)] # "task"
  <2>1. pc'[a] = "command" /\ texts'[a] = texts[a]
    BY <1>3 DEF Allow, DispatchInv, TypeOK
  <2>2. Unanswered(a)' = Unanswered(a)
    BY <2>1 DEF Unanswered
  <2>3. StepsOfRound(a)' = 3 * Unanswered(a)' + 1
    BY <2>1 DEF StepsOfRound
  <2>4. StepsOfRound(a)' = 3 * Unanswered(a) + 1
    BY <2>2, <2>3
  <2> QED
    BY <1>1, <2>4
<1> QED
  BY <1>2, <1>3

\* The round goes on with fewer steps, or the next one begins.
RunsDown(a) ==
  \/ turn'[a] = turn[a] /\ StepsOfRound(a)' < StepsOfRound(a)
  \/ /\ turn'[a] = turn[a] + 1 /\ StepsOfRound(a) >= 1
     /\ StepsOfRound(a)' = 3 * MaxCalls + 6

\* Who waits for its subagents has an answer, for now, to every call.
SecondPass == \A a \in Agents : pc[a] = "subagents" => Len(texts[a]) = Len(calls[a])

LEMMA OwnRunsDown ==
  ASSUME DispatchInv, SecondPass, NEW a \in Agents, Own(a), InFlight(a)'
  PROVE  RunsDown(a)
<1>0. /\ Unanswered(a) \in Nat /\ MaxCalls \in Nat /\ turn[a] \in Nat /\ TypeOK
      /\ pc[a] \in {"asking", "command"} \/ AtCall(a) => Unanswered(a) >= 1
      /\ AllSeen(a) => Unanswered(a) = 0
  BY UnansweredIs, DispatchAssumption DEF DispatchInv, TypeOK
<1>1. CASE GiveUp(a) \/ NoCalls(a) \/ EndsHere(a)
  BY <1>0, <1>1 DEF GiveUp, NoCalls, EndsHere, Return, InFlight, TypeOK
<1>2. CASE Check(a) \/ CallModel(a)
  <2>1. /\ turn' = turn
        /\ \/ pc[a] = "top" /\ pc'[a] = "checked"
           \/ pc[a] = "checked" /\ pc'[a] = "calling"
    BY <1>0, <1>2 DEF Check, CallModel, Go, TypeOK
  <2>2. CASE pc[a] = "top" /\ pc'[a] = "checked"
    <3>1. StepsOfRound(a) = 3 * MaxCalls + 6 /\ StepsOfRound(a)' = 3 * MaxCalls + 5
      BY <2>2 DEF StepsOfRound
    <3> QED
      BY <1>0, <2>1, <3>1 DEF RunsDown
  <2>3. CASE pc[a] = "checked" /\ pc'[a] = "calling"
    <3>1. StepsOfRound(a) = 3 * MaxCalls + 5 /\ StepsOfRound(a)' = 3 * MaxCalls + 4
      BY <2>3 DEF StepsOfRound
    <3> QED
      BY <1>0, <2>1, <3>1 DEF RunsDown
  <2> QED
    BY <2>1, <2>2, <2>3
<1>3. CASE CutOff(a)
  <2>1. pc[a] = "calling" /\ pc'[a] = "top" /\ turn'[a] = turn[a] + 1
    BY <1>0, <1>3 DEF CutOff, Go, TypeOK
  <2> QED
    BY <1>0, <2>1 DEF RunsDown, StepsOfRound
<1>4. CASE Reply(a)
  <2>1. /\ pc[a] = "calling" /\ pc'[a] = "calls" /\ turn' = turn /\ texts' = texts
        /\ calls'[a] \in Replies
    BY <1>0, <1>4 DEF Reply, Go, TypeOK, history
  <2>2. texts[a] = <<>>
    BY <2>1 DEF DispatchInv, AgentInv
  <2>3. Len(calls'[a]) \in 1 .. MaxCalls
    BY <2>1, <1>0 DEF Replies
  <2>4. Unanswered(a)' = Len(calls'[a])
    BY <2>1, <2>2, <2>3 DEF Unanswered
  <2>5. StepsOfRound(a)' = 3 * Len(calls'[a]) + 3
    BY <2>1, <2>3, <2>4 DEF StepsOfRound
  <2>6. StepsOfRound(a) = 3 * MaxCalls + 4
    BY <2>1 DEF StepsOfRound
  <2> QED
    BY <1>0, <2>1, <2>3, <2>5, <2>6 DEF RunsDown
<1>5. ASSUME pc[a] = "calls", Unanswered(a) >= 1 PROVE StepsOfRound(a) = 3 * Unanswered(a) + 3
  BY <1>0, <1>5 DEF StepsOfRound
<1>6. CASE Skip(a) \/ Refuse(a) \/ AskNobody(a)
  <2>1. AtCall(a) /\ pc' = pc /\ turn' = turn /\ calls' = calls
        /\ \E text : texts'[a] = Append(texts[a], text)
    BY <1>0, <1>6 DEF Skip, Refuse, AskNobody, Asks, Answer, TypeOK
  <2>2. StepsOfRound(a) = 3 * Unanswered(a) + 3
    BY <1>0, <1>5, <2>1 DEF AtCall
  <2>3. StepsOfRound(a)' \in Nat /\ StepsOfRound(a)' <= 3 * Unanswered(a)
    BY <1>0, <2>1, AnsweredOne DEF AtCall
  <2> QED
    BY <1>0, <2>1, <2>2, <2>3 DEF RunsDown
<1>7. CASE AskOpen(a)
  <2>1. AtCall(a) /\ Allow(a) /\ turn' = turn /\ calls' = calls
    BY <1>7 DEF AskOpen, Asks
  <2>2. StepsOfRound(a) = 3 * Unanswered(a) + 3
    BY <1>0, <1>5, <2>1 DEF AtCall
  <2>3. StepsOfRound(a)' \in Nat /\ StepsOfRound(a)' <= 3 * Unanswered(a) + 1
    BY <1>0, <2>1, AllowedOne
  <2> QED
    BY <1>0, <2>1, <2>2, <2>3 DEF RunsDown
<1>8. CASE AskHuman(a)
  <2>1. AtCall(a) /\ pc'[a] = "asking" /\ turn' = turn /\ calls' = calls /\ texts' = texts
    BY <1>0, <1>8 DEF AskHuman, Asks, TypeOK, history
  <2>2. StepsOfRound(a) = 3 * Unanswered(a) + 3
    BY <1>0, <1>5, <2>1 DEF AtCall
  <2>3. StepsOfRound(a)' = 3 * Unanswered(a) + 2
    BY <2>1 DEF StepsOfRound, Unanswered
  <2> QED
    BY <1>0, <2>1, <2>2, <2>3 DEF RunsDown
<1>9. CASE Human(a)
  <2>1. pc[a] = "asking" /\ turn' = turn /\ calls' = calls
    BY <1>9 DEF Human, Yes, All, No, Quit, Go
  <2>2. StepsOfRound(a) = 3 * Unanswered(a) + 2
    BY <2>1 DEF StepsOfRound
  <2>3. StepsOfRound(a)' \in Nat /\ StepsOfRound(a)' <= 3 * Unanswered(a) + 1
    <3>1. CASE Yes(a) \/ All(a)
      BY <1>0, <2>1, <3>1, AllowedOne DEF Yes, All
    <3>2. CASE No(a) \/ Quit(a)
      <4>1. pc'[a] = "calls" /\ \E text : texts'[a] = Append(texts[a], text)
        BY <1>0, <3>2 DEF No, Quit, Go, Answer, TypeOK
      <4>2. StepsOfRound(a)' \in Nat /\ StepsOfRound(a)' <= 3 * Unanswered(a)
        BY <1>0, <2>1, <4>1, AnsweredOne
      <4> QED
        BY <1>0, <4>2
    <3> QED
      BY <1>9, <3>1, <3>2 DEF Human
  <2> QED
    BY <1>0, <2>1, <2>2, <2>3 DEF RunsDown
<1>10. CASE CommandEnds(a)
  <2>1. /\ pc[a] = "command" /\ pc'[a] = "calls" /\ turn' = turn /\ calls' = calls
        /\ texts'[a] = Append(texts[a], "output")
    BY <1>0, <1>10 DEF CommandEnds, Go, TypeOK
  <2>2. StepsOfRound(a) = 3 * Unanswered(a) + 1
    BY <2>1 DEF StepsOfRound
  <2>3. StepsOfRound(a)' \in Nat /\ StepsOfRound(a)' <= 3 * Unanswered(a)
    BY <1>0, <2>1, AnsweredOne
  <2> QED
    BY <1>0, <2>1, <2>2, <2>3 DEF RunsDown
<1>11. CASE GoesOn(a)
  <2>1. /\ pc[a] = "calls" /\ AllSeen(a) /\ Approved(a) = {}
        /\ pc'[a] = "top" /\ turn'[a] = turn[a] + 1
    BY <1>0, <1>11 DEF GoesOn, AllSeen, TypeOK
  <2> QED
    BY <1>0, <2>1 DEF RunsDown, StepsOfRound
<1>12. CASE Join(a)
  <2>1. /\ pc[a] = "subagents" /\ pc'[a] = "calls" /\ Approved(a) = {} /\ turn' = turn
        /\ calls' = calls /\ texts' = texts
    BY <1>0, <1>12 DEF Join, Go, TypeOK
  <2>2. Unanswered(a)' = 0 /\ Approved(a)' = {}
    BY <1>0, <2>1, UnansweredIs DEF SecondPass, Unanswered, Approved
  <2>3. StepsOfRound(a) = 2 /\ StepsOfRound(a)' = 1
    BY <2>1, <2>2 DEF StepsOfRound
  <2> QED
    BY <2>1, <2>3 DEF RunsDown
<1> QED
  BY <1>1, <1>2, <1>3, <1>4, <1>6, <1>7, <1>8, <1>9, <1>10, <1>11, <1>12 DEF Own, Ask

LEMMA SecondPassKept ==
  ASSUME DispatchInv, SecondPass, [Next]_vars
  PROVE  SecondPass'
<1>1. TypeOK
  BY DEF DispatchInv
<1> SUFFICES ASSUME NEW b \in Agents, pc'[b] = "subagents"
             PROVE  Len(texts'[b]) = Len(calls'[b])
  BY DEF SecondPass
<1>2. CASE Submit
  BY <1>1, <1>2 DEF Submit, Go, TypeOK, SecondPass
<1>3. CASE Interrupt \/ UNCHANGED vars
  BY <1>3 DEF Interrupt, vars, SecondPass
<1>4. ASSUME NEW a \in Agents, Own(a) PROVE Len(texts'[b]) = Len(calls'[b])
  <2>1. a # b
    BY <1>1, <1>4, OwnPhases
  <2> QED
    BY <1>1, <1>4, <2>1, OthersUntouched DEF Untouched, SecondPass
<1>5. ASSUME NEW a \in Agents, Spawn(a) PROVE Len(texts'[b]) = Len(calls'[b])
  BY <1>1, <1>5 DEF Spawn, AllSeen, SecondPass, TypeOK
<1>6. ASSUME NEW a \in Agents, NEW k \in 1 .. MaxCalls, Report(a, k)
      PROVE  Len(texts'[b]) = Len(calls'[b])
  <2>1. /\ pc[b] = "subagents" /\ calls' = calls
        /\ AgentInv(a)
    BY <1>1, <1>6 DEF Report, TypeOK, DispatchInv
  <2>2. Len(texts'[b]) = Len(texts[b])
    BY <1>1, <1>6, <2>1, ReportIs
  <2> QED
    BY <2>1, <2>2 DEF SecondPass
<1> QED
  BY <1>2, <1>3, <1>4, <1>5, <1>6, NextIs DEF Family

\* To start the subagents is the step of a round before the last two.
LEMMA SpawnRunsDown ==
  ASSUME DispatchInv, NEW a \in Agents, Spawn(a)
  PROVE  RunsDown(a)
<1>1. TypeOK /\ Approved(a) \subseteq 1 .. MaxCalls
  BY ApprovedAreCalls DEF DispatchInv, AgentInv
<1>2. pc[a] = "calls" /\ Approved(a) # {} /\ Unanswered(a) = 0 /\ pc'[a] = "subagents"
  BY <1>1, UnansweredIs DEF Spawn, AllSeen, TypeOK
<1>3. ~ \E k \in Approved(a) : a = Child(a, k)
  BY <1>1, ChildIsNew
<1>4. turn'[a] = turn[a]
  BY <1>3 DEF Spawn
<1> QED
  BY <1>2, <1>4 DEF RunsDown, StepsOfRound

\* A step of another agent leaves one that is in flight as it was.
LEMMA OthersInFlight ==
  ASSUME DispatchInv, Next, NEW b \in Agents, InFlight(b), InFlight(b)',
         ~(Own(b) \/ Spawn(b))
  PROVE  turn'[b] = turn[b] /\ StepsOfRound(b)' = StepsOfRound(b)
<1>0. TypeOK /\ Root \in Agents
  BY RootIsAgent DEF DispatchInv
<1> DEFINE Same == pc'[b] = pc[b] /\ turn'[b] = turn[b] /\ calls'[b] = calls[b]
                   /\ texts'[b] = texts[b]
<1>1. Same => turn'[b] = turn[b] /\ StepsOfRound(b)' = StepsOfRound(b)
  BY DEF StepsOfRound, Unanswered, Approved
<1>2. CASE Submit
  <2>1. Same
    BY <1>0, <1>2 DEF Submit, Go, TypeOK, InFlight
  <2> QED
    BY <1>1, <2>1
<1>3. CASE Interrupt
  BY <1>1, <1>3 DEF Interrupt
<1>4. ASSUME NEW a \in Agents, Own(a) PROVE Same
  BY <1>0, <1>4, OthersUntouched DEF Untouched
<1>5. ASSUME NEW a \in Agents, Spawn(a) PROVE Same
  <2>1. a # b /\ Approved(a) \subseteq 1 .. MaxCalls /\ pc[a] # "subagents"
    BY <1>0, <1>5, ApprovedAreCalls DEF DispatchInv, AgentInv, Spawn, AllSeen
  <2>2. \A k \in Approved(a) : b = Child(a, k) => pc[b] = "idle"
    BY <2>1 DEF DispatchInv, SubagentsAreWaitedFor
  <2>3. ~ \E k \in Approved(a) : b = Child(a, k)
    BY <2>2 DEF InFlight
  <2> QED
    BY <1>0, <1>5, <2>1, <2>3 DEF Spawn, TypeOK
<1>6. ASSUME NEW a \in Agents, NEW k \in 1 .. MaxCalls, Report(a, k)
      PROVE  turn'[b] = turn[b] /\ StepsOfRound(b)' = StepsOfRound(b)
  <2>1. b # Child(a, k) /\ turn' = turn /\ calls' = calls
    BY <1>6 DEF Report, InFlight
  <2>2. pc'[b] = pc[b]
    BY <1>0, <1>6, <2>1 DEF Report, TypeOK
  <2>3. CASE b = a
    <3>1. pc[b] = "subagents"
      BY <1>6, <2>3 DEF Report
    <3> QED
      BY <2>1, <2>2, <3>1 DEF StepsOfRound
  <2>4. CASE b # a
    <3>1. texts'[b] = texts[b]
      BY <1>0, <1>6, <2>4, ReportIs DEF DispatchInv
    <3> QED
      BY <1>1, <2>1, <2>2, <3>1
  <2> QED
    BY <2>3, <2>4
<1> HIDE DEF Same
<1> QED
  BY <1>1, <1>2, <1>3, <1>4, <1>5, <1>6 DEF Next, Continue, Own

\* An agent only runs down: at most (Limit(a) + 1) * (3 * MaxCalls + 6) steps of its own
\* from the first to the return, for any depth, width and limits, and whatever its family, the
\* gate and the human do.  The half of TurnReturns that does not rest on fairness (runTurn,
\* main.go 895-1089; dispatch, subagent.go 324-463).
THEOREM AgentsOnlyRunDown == Spec => AgentsRunDown
<1> DEFINE A == \A a \in Agents : InFlight(a) /\ InFlight(a)' =>
                  /\ StepsLeft(a)' \in Nat /\ StepsLeft(a)' <= StepsLeft(a)
                  /\ Continue(a) \/ Ask(a) \/ Human(a) => StepsLeft(a)' < StepsLeft(a)
<1>1. DispatchInv => \A a \in Agents : StepsOfRound(a) \in Nat /\ Limit(a) + 1 - turn[a] \in Nat
                                       /\ turn[a] \in Nat
  BY RoundSteps
<1>2. (DispatchInv => \A a \in Agents : StepsOfRound(a) \in Nat /\ Limit(a) + 1 - turn[a] \in Nat
                                        /\ turn[a] \in Nat)'
  BY <1>1, PTL
<1>3. DispatchInv /\ DispatchInv' /\ SecondPass /\ [Next]_vars => [A]_vars
  <2> SUFFICES ASSUME DispatchInv, DispatchInv', SecondPass, Next,
                      NEW a \in Agents, InFlight(a), InFlight(a)'
               PROVE  /\ StepsLeft(a)' \in Nat /\ StepsLeft(a)' <= StepsLeft(a)
                      /\ Continue(a) \/ Ask(a) \/ Human(a) => StepsLeft(a)' < StepsLeft(a)
    OBVIOUS
  <2> DEFINE x == Limit(a) + 1 - turn[a]
             y == Limit(a) + 1 - turn'[a]
             w == 3 * MaxCalls + 6
             s == StepsOfRound(a)
             t == StepsOfRound(a)'
  <2>1. x \in Nat /\ s \in Nat /\ y \in Nat /\ t \in Nat /\ turn[a] \in Nat /\ turn'[a] \in Nat
    BY <1>1, <1>2 DEF Limit
  <2>2. w \in Nat /\ w >= 1 /\ Limit(a) \in Nat
    BY DispatchAssumption DEF Limit
  <2>3. \/ RunsDown(a)
        \/ turn'[a] = turn[a] /\ t = s /\ ~(Continue(a) \/ Ask(a) \/ Human(a))
    <3>1. CASE Own(a)
      BY <3>1, OwnRunsDown
    <3>2. CASE Spawn(a)
      BY <3>2, SpawnRunsDown
    <3>3. CASE ~(Own(a) \/ Spawn(a))
      BY <3>3, OthersInFlight DEF Own, Continue
    <3> QED
      BY <3>1, <3>2, <3>3
  <2>4. StepsLeft(a) = x * w + s /\ StepsLeft(a)' = y * w + t
    BY DEF StepsLeft, Limit
  <2>5. \/ y = x /\ t < s
        \/ y < x /\ t = w /\ s >= 1
        \/ y = x /\ t = s /\ ~(Continue(a) \/ Ask(a) \/ Human(a))
    <3>1. CASE turn'[a] = turn[a]
      BY <3>1, <2>1, <2>2, <2>3 DEF RunsDown
    <3>2. CASE turn'[a] = turn[a] + 1
      BY <3>2, <2>1, <2>2, <2>3 DEF RunsDown
    <3> QED
      BY <2>3, <3>1, <3>2 DEF RunsDown
  <2> HIDE DEF x, y, w, s, t
  <2>6. t < s + w /\ (y < x \/ (y = x /\ t <= s))
    BY <2>1, <2>2, <2>5
  <2>7. /\ y * w + t \in Nat /\ y * w + t <= x * w + s
        /\ y < x \/ t < s => y * w + t < x * w + s
    BY <2>1, <2>2, <2>6, Fewer
  <2> QED
    BY <2>4, <2>5, <2>7
<1>4. Spec => []SecondPass
  <2>1. Init => SecondPass
    BY DEF Init, SecondPass
  <2>2. DispatchInv /\ SecondPass /\ [Next]_vars => SecondPass'
    BY SecondPassKept
  <2> QED
    BY <2>1, <2>2, Invariant, PTL DEF Spec
<1> QED
  BY <1>3, <1>4, Invariant, PTL DEF Spec, AgentsRunDown
=============================================================================
