---------------------------- MODULE ShellProofs -----------------------------
(***************************************************************************)
(* What the terminal shell guarantees for any number of askers and         *)
(* questions.                                                              *)
(***************************************************************************)
EXTENDS Shell, TLAPS

\* The type invariant in two parts, as no prover takes them together.
Flags ==
  /\ cancel \in BOOLEAN /\ closed \in BOOLEAN /\ ended \in BOOLEAN /\ stopped \in BOOLEAN
  /\ joins \in BOOLEAN

Others ==
  /\ loop \in {"select", "draining", "left", "returned"}
  /\ state \in {"idle", "running", "asking"}
  /\ pending \in Askers \cup {Nobody}
  /\ text \in Lines /\ readAt \in Askers \cup {Nobody}
  /\ done \in Results \cup {"empty"}
  /\ turn \in {"none", "working", "exiting"} /\ left \in 0 .. MaxAsks
  /\ asker \in [Askers -> {"off", "asked", "waiting", "allowed", "refused"}]
  /\ reply \in [Askers -> Lines \cup {"none", "n", "q", "closed"}]

LEMMA TypeParts == TypeOK <=> Flags /\ Others
BY DEF TypeOK, Flags, Others

\* Every step keeps the flags.
LEMMA FlagsStep ==
  ASSUME Flags, [Next]_vars
  PROVE  Flags'
<1>1. CASE Type
  BY <1>1 DEF Flags, keyboard, host, asking, Type, Key
<1>2. CASE Erase
  BY <1>2 DEF Flags, keyboard, host, asking, Erase, Cleared
<1>3. CASE Submit
  BY <1>3 DEF Flags, keyboard, host, asking, Submit, Cleared
<1>4. CASE Unusable
  BY <1>4 DEF Flags, keyboard, host, asking, Unusable, Cleared
<1>5. CASE Interrupt
  BY <1>5 DEF Flags, keyboard, host, asking, Interrupt
<1>6. CASE Answer
  BY <1>6 DEF Flags, keyboard, host, asking, Answer, Replied, Cleared
<1>7. CASE Leave
  BY <1>7 DEF Flags, keyboard, host, asking, Leave
<1>8. CASE EndSession
  BY <1>8 DEF Flags, keyboard, host, asking, EndSession
<1>9. CASE Result
  BY <1>9 DEF Flags, keyboard, host, asking, Result, Finish
<1>10. CASE Drain
  BY <1>10 DEF Flags, keyboard, host, asking, Drain, Released
<1>11. CASE DrainResult
  BY <1>11 DEF Flags, keyboard, host, asking, DrainResult, Finish
<1>12. CASE DrainTimeout
  BY <1>12 DEF Flags, keyboard, host, asking, DrainTimeout
<1>13. CASE Shutdown
  BY <1>13 DEF Flags, keyboard, host, asking, Shutdown
<1>14. CASE TurnEnds
  BY <1>14 DEF Flags, keyboard, host, asking, TurnEnds
<1>15. ASSUME NEW a \in Askers, Accept(a) PROVE Flags'
  BY <1>15 DEF Flags, keyboard, host, asking, Accept, Accepts, Cleared
<1>16. ASSUME NEW a \in Askers, Ask(a) PROVE Flags'
  BY <1>16 DEF Flags, keyboard, host, asking, Ask
<1>17. ASSUME NEW a \in Askers, Receive(a) PROVE Flags'
  BY <1>17 DEF Flags, keyboard, host, asking, Receive, Verdict
<1>18. ASSUME NEW a \in Askers, AskClosed(a) PROVE Flags'
  BY <1>18 DEF Flags, keyboard, host, asking, AskClosed
<1>19. ASSUME NEW a \in Askers, Act(a) PROVE Flags'
  BY <1>19 DEF Flags, keyboard, host, asking, Act
<1>20. CASE UNCHANGED vars
  BY <1>20 DEF Flags, vars, keyboard, host, asking
<1> QED
  BY <1>1, <1>2, <1>3, <1>4, <1>5, <1>6, <1>7, <1>8, <1>9, <1>10, <1>11, <1>12, <1>13, <1>14,
     <1>15, <1>16, <1>17, <1>18, <1>19, <1>20 DEF Next, Keys, Step

\* Every step keeps the other types.
LEMMA OthersStep ==
  ASSUME Others, [Next]_vars
  PROVE  Others'
<1>1. CASE Type
  BY <1>1, ShellAssumption DEF Others, Lines, Results, keyboard, host, asking, Type, Key
<1>2. CASE Erase
  BY <1>2, ShellAssumption DEF Others, Lines, Results, keyboard, host, asking, Erase, Cleared
<1>3. CASE Submit
  <2>1. left' \in 0 .. MaxAsks
    <3>1. left' = 0 \/ left' = MaxAsks
      BY <1>3 DEF Submit
    <3> QED
      BY <3>1, ShellAssumption
  <2>2. left' \in 0 .. MaxAsks => Others'
    BY <1>3 DEF Others, Lines, Results, keyboard, host, asking, Submit, Cleared
  <2> QED
    BY <2>1, <2>2
<1>4. CASE Unusable
  BY <1>4, ShellAssumption DEF Others, Lines, Results, keyboard, host, asking, Unusable, Cleared
<1>5. CASE Interrupt
  BY <1>5 DEF Others, keyboard, host, asking, Interrupt
<1>6. CASE Answer
  <2>1. PICK answer \in {text, "n", "q"} : Replied(answer)
    BY <1>6 DEF Answer
  <2>2. answer \in Lines \cup {"none", "n", "q", "closed"}
    BY <2>1 DEF Others
  <2>3. reply' \in [Askers -> Lines \cup {"none", "n", "q", "closed"}]
    BY <2>1, <2>2 DEF Others, Replied
  <2>4. /\ pending' = Nobody /\ text' = "" /\ readAt' \in {readAt, Nobody} /\ state' = "running"
        /\ UNCHANGED <<loop, done, turn, left, asker>>
    BY <1>6, <2>1 DEF Answer, Replied, Cleared, host
  <2> QED
    BY <2>3, <2>4 DEF Others, Lines
<1>7. CASE Leave
  BY <1>7, ShellAssumption DEF Others, Lines, Results, keyboard, host, asking, Leave
<1>8. CASE EndSession
  BY <1>8 DEF Others, keyboard, host, asking, EndSession
<1>9. CASE Result
  BY <1>9, ShellAssumption DEF Others, Lines, Results, keyboard, host, asking, Result, Finish
<1>10. CASE Drain
  BY <1>10, ShellAssumption DEF Others, Lines, Results, keyboard, host, asking, Drain, Released
<1>11. CASE DrainResult
  BY <1>11, ShellAssumption DEF Others, Lines, Results, keyboard, host, asking, DrainResult,
     Finish
<1>12. CASE DrainTimeout
  BY <1>12, ShellAssumption DEF Others, Lines, Results, keyboard, host, asking, DrainTimeout
<1>13. CASE Shutdown
  BY <1>13, ShellAssumption DEF Others, Lines, Results, keyboard, host, asking, Shutdown
<1>14. CASE TurnEnds
  BY <1>14, ShellAssumption DEF Others, Lines, Results, keyboard, host, asking, TurnEnds
<1>15. ASSUME NEW a \in Askers, Accept(a) PROVE Others'
  BY <1>15, ShellAssumption DEF Others, Lines, Results, keyboard, host, asking, Accept, Accepts,
     Cleared
<1>16. ASSUME NEW a \in Askers, Ask(a) PROVE Others'
  <2>1. left' \in 0 .. MaxAsks
    BY <1>16, ShellAssumption DEF Others, Ask
  <2>2. left' \in 0 .. MaxAsks => Others'
    BY <1>16 DEF Others, Lines, Results, keyboard, host, asking, Ask
  <2> QED
    BY <2>1, <2>2
<1>17. ASSUME NEW a \in Askers, Receive(a) \/ AskClosed(a) PROVE Others'
  <2>1. asker' = [asker EXCEPT ![a] = "allowed"] \/ asker' = [asker EXCEPT ![a] = "refused"]
    BY <1>17 DEF Receive, AskClosed, Verdict
  <2>2. asker' \in [Askers -> {"off", "asked", "waiting", "allowed", "refused"}]
    BY <2>1 DEF Others
  <2>3. UNCHANGED <<loop, state, pending, text, readAt, done, turn, left, reply>>
    BY <1>17 DEF Receive, AskClosed, keyboard, host
  <2> QED
    BY <2>2, <2>3 DEF Others
<1>19. ASSUME NEW a \in Askers, Act(a) PROVE Others'
  <2>1. asker' = [asker EXCEPT ![a] = "off"] /\ reply' = [reply EXCEPT ![a] = "none"]
    BY <1>19 DEF Act
  <2>2. /\ asker' \in [Askers -> {"off", "asked", "waiting", "allowed", "refused"}]
        /\ reply' \in [Askers -> Lines \cup {"none", "n", "q", "closed"}]
    BY <2>1 DEF Others
  <2>3. UNCHANGED <<loop, state, pending, text, readAt, done, turn, left>>
    BY <1>19 DEF Act, keyboard, host
  <2> QED
    BY <2>2, <2>3 DEF Others
<1>20. CASE UNCHANGED vars
  BY <1>20 DEF Others, vars, keyboard, host, asking
<1> QED
  BY <1>1, <1>2, <1>3, <1>4, <1>5, <1>6, <1>7, <1>8, <1>9, <1>10, <1>11, <1>12, <1>13, <1>14,
     <1>15, <1>16, <1>17, <1>19, <1>20 DEF Next, Keys, Step

-----------------------------------------------------------------------------
(* The invariant, a part at a time *)

\* What ShellInv adds to the three properties.
Bookkeeping ==
  /\ closed => loop = "returned"
  /\ loop = "select" /\ state = "idle" => turn = "none" /\ done = "empty"
  /\ done # "empty" => turn = "none"
  /\ joins /\ turn # "working" => \A a \in Askers : asker[a] = "off"
  /\ \A a \in Askers : asker[a] \in {"off", "asked"} => reply[a] = "none"

\* The keys follow the question.
LEMMA QuestionStep ==
  ASSUME ShellInv, [Next]_vars
  PROVE  KeysFollowTheQuestion'
<1> USE DEF ShellInv, TypeOK, Lines, Results, KeysFollowTheQuestion, RunningIsReal,
            TextIsOfWhatIsShown, Bookkeeping,
            keyboard, host, asking
<1>1. CASE Type
  BY <1>1, ShellAssumption DEF Type, Key
<1>2. CASE Erase
  BY <1>2, ShellAssumption DEF Erase, Key, Cleared
<1>3. CASE Submit
  BY <1>3, ShellAssumption DEF Submit, Key, Cleared
<1>4. CASE Unusable
  BY <1>4, ShellAssumption DEF Unusable, Key, Cleared
<1>5. CASE Interrupt
  BY <1>5, ShellAssumption DEF Interrupt, Key
<1>6. CASE Answer
  BY <1>6, ShellAssumption DEF Answer, Key, Replied, Cleared
<1>7. CASE Leave
  BY <1>7, ShellAssumption DEF Leave
<1>8. CASE EndSession
  BY <1>8, ShellAssumption DEF EndSession
<1>9. CASE Result
  BY <1>9, ShellAssumption DEF Result, Finish
<1>10. CASE Drain
  BY <1>10, ShellAssumption DEF Drain, Released
<1>11. CASE DrainResult
  BY <1>11, ShellAssumption DEF DrainResult, Finish
<1>12. CASE DrainTimeout
  BY <1>12, ShellAssumption DEF DrainTimeout
<1>13. CASE Shutdown
  BY <1>13, ShellAssumption DEF Shutdown
<1>14. CASE TurnEnds
  BY <1>14, ShellAssumption DEF TurnEnds
<1>15. ASSUME NEW a \in Askers, Accept(a) PROVE KeysFollowTheQuestion'
  BY <1>15, ShellAssumption DEF Accept, Accepts, Cleared
<1>16. ASSUME NEW a \in Askers, Ask(a) PROVE KeysFollowTheQuestion'
  BY <1>16, ShellAssumption DEF Ask
<1>17. ASSUME NEW a \in Askers, Receive(a) PROVE KeysFollowTheQuestion'
  BY <1>17, ShellAssumption DEF Receive, Verdict
<1>18. ASSUME NEW a \in Askers, AskClosed(a) PROVE KeysFollowTheQuestion'
  BY <1>18, ShellAssumption DEF AskClosed
<1>19. ASSUME NEW a \in Askers, Act(a) PROVE KeysFollowTheQuestion'
  BY <1>19, ShellAssumption DEF Act
<1>20. CASE UNCHANGED vars
  BY <1>20 DEF vars
<1> QED
  BY <1>1, <1>2, <1>3, <1>4, <1>5, <1>6, <1>7, <1>8, <1>9, <1>10, <1>11, <1>12, <1>13, <1>14,
     <1>15, <1>16, <1>17, <1>18, <1>19, <1>20 DEF Next, Keys, Step

\* What is said to run does.
LEMMA RunningStep ==
  ASSUME ShellInv, [Next]_vars
  PROVE  RunningIsReal'
<1> USE DEF ShellInv, TypeOK, Lines, Results, KeysFollowTheQuestion, RunningIsReal,
            TextIsOfWhatIsShown, Bookkeeping,
            keyboard, host, asking
<1>1. CASE Type
  BY <1>1, ShellAssumption DEF Type, Key
<1>2. CASE Erase
  BY <1>2, ShellAssumption DEF Erase, Key, Cleared
<1>3. CASE Submit
  BY <1>3, ShellAssumption DEF Submit, Key, Cleared
<1>4. CASE Unusable
  BY <1>4, ShellAssumption DEF Unusable, Key, Cleared
<1>5. CASE Interrupt
  BY <1>5, ShellAssumption DEF Interrupt, Key
<1>6. CASE Answer
  BY <1>6, ShellAssumption DEF Answer, Key, Replied, Cleared
<1>7. CASE Leave
  BY <1>7, ShellAssumption DEF Leave
<1>8. CASE EndSession
  BY <1>8, ShellAssumption DEF EndSession
<1>9. CASE Result
  BY <1>9, ShellAssumption DEF Result, Finish
<1>10. CASE Drain
  BY <1>10, ShellAssumption DEF Drain, Released
<1>11. CASE DrainResult
  BY <1>11, ShellAssumption DEF DrainResult, Finish
<1>12. CASE DrainTimeout
  BY <1>12, ShellAssumption DEF DrainTimeout
<1>13. CASE Shutdown
  BY <1>13, ShellAssumption DEF Shutdown
<1>14. CASE TurnEnds
  BY <1>14, ShellAssumption DEF TurnEnds
<1>15. ASSUME NEW a \in Askers, Accept(a) PROVE RunningIsReal'
  BY <1>15, ShellAssumption DEF Accept, Accepts, Cleared
<1>16. ASSUME NEW a \in Askers, Ask(a) PROVE RunningIsReal'
  BY <1>16, ShellAssumption DEF Ask
<1>17. ASSUME NEW a \in Askers, Receive(a) PROVE RunningIsReal'
  BY <1>17, ShellAssumption DEF Receive, Verdict
<1>18. ASSUME NEW a \in Askers, AskClosed(a) PROVE RunningIsReal'
  BY <1>18, ShellAssumption DEF AskClosed
<1>19. ASSUME NEW a \in Askers, Act(a) PROVE RunningIsReal'
  BY <1>19, ShellAssumption DEF Act
<1>20. CASE UNCHANGED vars
  BY <1>20 DEF vars
<1> QED
  BY <1>1, <1>2, <1>3, <1>4, <1>5, <1>6, <1>7, <1>8, <1>9, <1>10, <1>11, <1>12, <1>13, <1>14,
     <1>15, <1>16, <1>17, <1>18, <1>19, <1>20 DEF Next, Keys, Step

\* The composer is for what is shown.
LEMMA TypedStep ==
  ASSUME ShellInv, [Next]_vars
  PROVE  TextIsOfWhatIsShown'
<1> USE DEF ShellInv, TypeOK, Lines, Results, KeysFollowTheQuestion, RunningIsReal,
            TextIsOfWhatIsShown, Bookkeeping,
            keyboard, host, asking
<1>1. CASE Type
  BY <1>1, ShellAssumption DEF Type, Key
<1>2. CASE Erase
  BY <1>2, ShellAssumption DEF Erase, Key, Cleared
<1>3. CASE Submit
  BY <1>3, ShellAssumption DEF Submit, Key, Cleared
<1>4. CASE Unusable
  BY <1>4, ShellAssumption DEF Unusable, Key, Cleared
<1>5. CASE Interrupt
  BY <1>5, ShellAssumption DEF Interrupt, Key
<1>6. CASE Answer
  BY <1>6, ShellAssumption DEF Answer, Key, Replied, Cleared
<1>7. CASE Leave
  BY <1>7, ShellAssumption DEF Leave
<1>8. CASE EndSession
  BY <1>8, ShellAssumption DEF EndSession
<1>9. CASE Result
  BY <1>9, ShellAssumption DEF Result, Finish
<1>10. CASE Drain
  BY <1>10, ShellAssumption DEF Drain, Released
<1>11. CASE DrainResult
  BY <1>11, ShellAssumption DEF DrainResult, Finish
<1>12. CASE DrainTimeout
  BY <1>12, ShellAssumption DEF DrainTimeout
<1>13. CASE Shutdown
  BY <1>13, ShellAssumption DEF Shutdown
<1>14. CASE TurnEnds
  BY <1>14, ShellAssumption DEF TurnEnds
<1>15. ASSUME NEW a \in Askers, Accept(a) PROVE TextIsOfWhatIsShown'
  BY <1>15, ShellAssumption DEF Accept, Accepts, Cleared
<1>16. ASSUME NEW a \in Askers, Ask(a) PROVE TextIsOfWhatIsShown'
  BY <1>16, ShellAssumption DEF Ask
<1>17. ASSUME NEW a \in Askers, Receive(a) PROVE TextIsOfWhatIsShown'
  BY <1>17, ShellAssumption DEF Receive, Verdict
<1>18. ASSUME NEW a \in Askers, AskClosed(a) PROVE TextIsOfWhatIsShown'
  BY <1>18, ShellAssumption DEF AskClosed
<1>19. ASSUME NEW a \in Askers, Act(a) PROVE TextIsOfWhatIsShown'
  BY <1>19, ShellAssumption DEF Act
<1>20. CASE UNCHANGED vars
  BY <1>20 DEF vars
<1> QED
  BY <1>1, <1>2, <1>3, <1>4, <1>5, <1>6, <1>7, <1>8, <1>9, <1>10, <1>11, <1>12, <1>13, <1>14,
     <1>15, <1>16, <1>17, <1>18, <1>19, <1>20 DEF Next, Keys, Step

\* The rest of the invariant.
LEMMA BookkeepingStep ==
  ASSUME ShellInv, [Next]_vars
  PROVE  Bookkeeping'
<1> USE DEF ShellInv, TypeOK, Lines, Results, KeysFollowTheQuestion, RunningIsReal,
            TextIsOfWhatIsShown, Bookkeeping,
            keyboard, host, asking
<1>1. CASE Type
  BY <1>1, ShellAssumption DEF Type, Key
<1>2. CASE Erase
  BY <1>2, ShellAssumption DEF Erase, Key, Cleared
<1>3. CASE Submit
  BY <1>3, ShellAssumption DEF Submit, Key, Cleared
<1>4. CASE Unusable
  BY <1>4, ShellAssumption DEF Unusable, Key, Cleared
<1>5. CASE Interrupt
  BY <1>5, ShellAssumption DEF Interrupt, Key
<1>6. CASE Answer
  BY <1>6, ShellAssumption DEF Answer, Key, Replied, Cleared
<1>7. CASE Leave
  BY <1>7, ShellAssumption DEF Leave
<1>8. CASE EndSession
  BY <1>8, ShellAssumption DEF EndSession
<1>9. CASE Result
  BY <1>9, ShellAssumption DEF Result, Finish
<1>10. CASE Drain
  BY <1>10, ShellAssumption DEF Drain, Released
<1>11. CASE DrainResult
  BY <1>11, ShellAssumption DEF DrainResult, Finish
<1>12. CASE DrainTimeout
  BY <1>12, ShellAssumption DEF DrainTimeout
<1>13. CASE Shutdown
  BY <1>13, ShellAssumption DEF Shutdown
<1>14. CASE TurnEnds
  BY <1>14, ShellAssumption DEF TurnEnds
<1>15. ASSUME NEW a \in Askers, Accept(a) PROVE Bookkeeping'
  BY <1>15, ShellAssumption DEF Accept, Accepts, Cleared
<1>16. ASSUME NEW a \in Askers, Ask(a) PROVE Bookkeeping'
  BY <1>16, ShellAssumption DEF Ask
<1>17. ASSUME NEW a \in Askers, Receive(a) PROVE Bookkeeping'
  BY <1>17, ShellAssumption DEF Receive, Verdict
<1>18. ASSUME NEW a \in Askers, AskClosed(a) PROVE Bookkeeping'
  BY <1>18, ShellAssumption DEF AskClosed
<1>19. ASSUME NEW a \in Askers, Act(a) PROVE Bookkeeping'
  BY <1>19, ShellAssumption DEF Act
<1>20. CASE UNCHANGED vars
  BY <1>20 DEF vars
<1> QED
  BY <1>1, <1>2, <1>3, <1>4, <1>5, <1>6, <1>7, <1>8, <1>9, <1>10, <1>11, <1>12, <1>13, <1>14,
     <1>15, <1>16, <1>17, <1>18, <1>19, <1>20 DEF Next, Keys, Step

-----------------------------------------------------------------------------
(* Theorems *)

\* The loop's flags, its question, its turn and the askers agree at every moment (loop and
\* finish, app.go 461-621).
THEOREM ShellInvariant == Spec => []ShellInv
<1>1. Init => ShellInv
  <2> SUFFICES ASSUME Init PROVE ShellInv
    OBVIOUS
  <2>1. Flags
    BY DEF Init, Flags
  <2>2. Others
    <3>1. 0 \in 0 .. MaxAsks
      BY ShellAssumption
    <3> QED
      BY <3>1 DEF Init, Others, Lines
  <2>3. KeysFollowTheQuestion /\ RunningIsReal /\ TextIsOfWhatIsShown
    BY ShellAssumption DEF Init, KeysFollowTheQuestion, RunningIsReal, TextIsOfWhatIsShown
  <2>4. Bookkeeping
    BY DEF Init, Bookkeeping
  <2> QED
    BY <2>1, <2>2, <2>3, <2>4, TypeParts DEF ShellInv, Bookkeeping
<1>2. ASSUME ShellInv, [Next]_vars PROVE ShellInv'
  <2>1. TypeOK'
    BY <1>2, TypeParts, FlagsStep, OthersStep, PTL DEF ShellInv
  <2> QED
    BY <1>2, <2>1, QuestionStep, RunningStep, TypedStep, BookkeepingStep DEF ShellInv, Bookkeeping
<1> QED
  BY <1>1, <1>2, PTL DEF Spec

\* However many goroutines ask, the keys go to a question exactly while one is on the screen and
\* its asker waits (loop, app.go 496-538; askKey, 748-758).
THEOREM QuestionHasTheKeys == Spec => []KeysFollowTheQuestion
<1>1. ShellInv => KeysFollowTheQuestion
  BY DEF ShellInv
<1> QED
  BY <1>1, ShellInvariant, PTL

\* With a host that joins its askers the shell is idle exactly when nothing runs (start and
\* finish, app.go 607-621 and 1011-1025).
THEOREM RunningMeansRunning == Spec => []RunningIsReal
<1>1. ShellInv => RunningIsReal
  BY DEF ShellInv
<1> QED
  BY <1>1, ShellInvariant, PTL

\* However many goroutines ask, what the loop has read at one prompt or question is gone from
\* the composer at the next, however the first one ended: it is cleared at every change of what
\* it is for (app.go 533-538, 748-758 and 805).  When the keys were pressed is not in it.
THEOREM ReadAtWhatIsShown == Spec => []TextIsOfWhatIsShown
<1>1. ShellInv => TextIsOfWhatIsShown
  BY DEF ShellInv
<1> QED
  BY <1>1, ShellInvariant, PTL

-----------------------------------------------------------------------------
(* The shell implements Permission *)

Stages == [a \in Askers |-> Stage(a)]

\* An action that touches one asker changes one stage.
LEMMA OneStage ==
  ASSUME TypeOK, TypeOK', NEW a \in Askers,
         \A b \in Askers : b # a => asker'[b] = asker[b] /\ reply'[b] = reply[b]
  PROVE  Stages' = [Stages EXCEPT ![a] = Stage(a)']
<1>1. ASSUME NEW b \in Askers, b # a PROVE Stage(b)' = Stage(b)
  BY <1>1 DEF Stage
<1>2. Stages' = [b \in Askers |-> Stage(b)']
  BY DEF Stages
<1> QED
  BY <1>1, <1>2 DEF Stages

\* An action that touches none changes none.
LEMMA NoStage ==
  ASSUME UNCHANGED asking
  PROVE  UNCHANGED Stages
BY DEF Stages, Stage, asking

LEMMA StepRefines ==
  ASSUME ShellInv, ShellInv', [Next]_vars
  PROVE  [Permissions!Next]_Stages
<1> USE DEF Permissions!Next, Permissions!Moves
<1>1. CASE UNCHANGED asking
  BY <1>1, NoStage
<1>2. CASE Answer
  <2>1. PICK answer \in {text, "n", "q"} : Replied(answer)
    BY <1>2 DEF Answer
  <2>2. pending \in Askers /\ asker[pending] = "waiting" /\ reply[pending] = "none" /\ asker' =
     asker
    BY <1>2 DEF Answer, Key, ShellInv, TypeOK, KeysFollowTheQuestion
  <2>3. reply' = [reply EXCEPT ![pending] = answer] /\ answer # "none"
    BY <2>1, <1>2 DEF Replied, ShellInv, TypeOK, Lines
  <2>4. PICK p \in Askers : p = pending
    BY <2>2
  <2>5. Stages' = [Stages EXCEPT ![p] = Stage(p)']
    BY <2>2, <2>3, <2>4, OneStage DEF ShellInv, TypeOK
  <2>6. Stages[p] = "shown" /\ Stage(p)' \in {"granted", "declined"}
    BY <2>2, <2>3, <2>4 DEF Stages, Stage, ShellInv, TypeOK
  <2> QED
    BY <2>5, <2>6 DEF Permissions!Grants, Permissions!Declines, Stages
<1>3. CASE Drain /\ pending # Nobody
  <2>1. pending \in Askers /\ asker[pending] = "waiting" /\ reply[pending] = "none" /\ asker' =
     asker
    BY <1>3 DEF Drain, ShellInv, TypeOK, KeysFollowTheQuestion
  <2>2. reply' = [reply EXCEPT ![pending] = "closed"]
    BY <1>3 DEF Drain, Released
  <2>3. PICK p \in Askers : p = pending
    BY <2>1
  <2>4. Stages' = [Stages EXCEPT ![p] = Stage(p)']
    BY <2>1, <2>2, <2>3, OneStage DEF ShellInv, TypeOK
  <2>5. Stages[p] = "shown" /\ Stage(p)' = "declined"
    BY <2>1, <2>2, <2>3 DEF Stages, Stage, ShellInv, TypeOK
  <2> QED
    BY <2>4, <2>5 DEF Permissions!Declines, Stages
<1>4. ASSUME NEW a \in Askers, Accept(a)
      PROVE  Permissions!Next
  <2>1. /\ asker[a] = "asked" /\ asker' = [asker EXCEPT ![a] = "waiting"] /\ reply' = reply
        /\ loop = "select" /\ pending = Nobody /\ reply[a] = "none"
    BY <1>4 DEF Accept, Accepts, ShellInv
  <2>2. Stages' = [Stages EXCEPT ![a] = Stage(a)']
    BY <2>1, OneStage DEF ShellInv, TypeOK
  <2>3. Stages[a] = "asked" /\ Stage(a)' = "shown"
    BY <2>1 DEF Stages, Stage, ShellInv, TypeOK
  <2>4. \A b \in Askers : Stages[b] # "shown"
    BY <2>1, ShellAssumption DEF Stages, Stage, ShellInv, KeysFollowTheQuestion, TypeOK
  <2> QED
    BY <2>2, <2>3, <2>4 DEF Permissions!Shows, Stages
<1>5. ASSUME NEW a \in Askers, Ask(a)
      PROVE  Permissions!Next
  <2>1. asker[a] = "off" /\ asker' = [asker EXCEPT ![a] = "asked"] /\ reply' = reply
    BY <1>5 DEF Ask
  <2>2. Stages' = [Stages EXCEPT ![a] = Stage(a)']
    BY <2>1, OneStage DEF ShellInv, TypeOK
  <2>3. Stages[a] = "none" /\ Stage(a)' = "asked"
    BY <2>1 DEF Stages, Stage, ShellInv, TypeOK
  <2> QED
    BY <2>2, <2>3 DEF Permissions!Asks, Stages
<1>6. ASSUME NEW a \in Askers, Receive(a)
      PROVE  Permissions!Next
  <2>1. /\ asker[a] = "waiting" /\ reply[a] # "none" /\ reply' = reply
        /\ asker' = [asker EXCEPT ![a] = IF reply[a] = "y" THEN "allowed" ELSE "refused"]
    BY <1>6 DEF Receive, Verdict
  <2>2. Stages' = [Stages EXCEPT ![a] = Stage(a)']
    BY <2>1, OneStage DEF ShellInv, TypeOK
  <2>3. \/ Stages[a] = "granted" /\ Stage(a)' = "allowed"
        \/ Stages[a] = "declined" /\ Stage(a)' = "refused"
    BY <2>1 DEF Stages, Stage, ShellInv, TypeOK
  <2> QED
    BY <2>2, <2>3 DEF Permissions!Allows, Permissions!Refuses, Stages
<1>7. ASSUME NEW a \in Askers, AskClosed(a)
      PROVE  Permissions!Next
  <2>1. asker[a] \in {"asked", "waiting"} /\ asker' = [asker EXCEPT ![a] = "refused"] /\ reply'
     = reply
    BY <1>7 DEF AskClosed
  <2>2. Stages' = [Stages EXCEPT ![a] = Stage(a)']
    BY <2>1, OneStage DEF ShellInv, TypeOK
  <2>3. Stages[a] \in {"asked", "shown", "granted", "declined"} /\ Stage(a)' = "refused"
    BY <2>1 DEF Stages, Stage, ShellInv, TypeOK
  <2> QED
    BY <2>2, <2>3 DEF Permissions!Refuses, Stages
<1>8. ASSUME NEW a \in Askers, Act(a)
      PROVE  Permissions!Next
  <2>1. /\ asker[a] \in {"allowed", "refused"} /\ asker' = [asker EXCEPT ![a] = "off"]
        /\ reply' = [reply EXCEPT ![a] = "none"]
    BY <1>8 DEF Act
  <2>2. Stages' = [Stages EXCEPT ![a] = Stage(a)']
    BY <2>1, OneStage DEF ShellInv, TypeOK
  <2>3. Stages[a] \in {"allowed", "refused"} /\ Stage(a)' = "none"
    BY <2>1 DEF Stages, Stage, ShellInv, TypeOK
  <2> QED
    BY <2>2, <2>3 DEF Permissions!Forgets, Stages
<1>9. ASSUME Next
      PROVE  \/ UNCHANGED asking
             \/ Answer
             \/ Drain /\ pending # Nobody
             \/ \E a \in Askers : Accept(a) \/ Ask(a) \/ Step(a)
  <2>1. CASE Drain
    BY <2>1 DEF Drain, Released, asking
  <2>2. CASE Type \/ Erase \/ Submit \/ Unusable \/ Interrupt \/ Leave
    BY <2>2 DEF Type, Erase, Submit, Unusable, Interrupt, Leave
  <2>3. CASE EndSession \/ Result \/ DrainResult \/ DrainTimeout \/ Shutdown \/ TurnEnds
    BY <2>3 DEF EndSession, Result, DrainResult, DrainTimeout, Shutdown, TurnEnds
  <2> QED
    BY <1>9, <2>1, <2>2, <2>3 DEF Next, Keys
<1>10. CASE UNCHANGED vars
  BY <1>1, <1>10 DEF vars
<1> QED
  BY <1>1, <1>2, <1>3, <1>4, <1>5, <1>6, <1>7, <1>8, <1>9, <1>10 DEF Step

\* Whatever the shutdown, the drain and the end of a turn do to the channels, every asker
\* sees the life of a permission: asked, shown alone, granted or declined by the human or
\* refused (Ask, app.go 328-341; drain, 577-597).
THEOREM ShellKeepsPermission == Spec => PermissionIsKept
<1>1. Init => Permissions!Init
  BY DEF Init, Permissions!Init, Stage
<1>2. ASSUME ShellInv, ShellInv', [Next]_vars
      PROVE  [Permissions!Next]_[a \in Askers |-> Stage(a)]
  BY <1>2, StepRefines DEF Stages
<1> QED
  BY <1>1, <1>2, ShellInvariant, PTL DEF Spec, PermissionIsKept, Permissions!Spec
=============================================================================
