----------------------------- MODULE CallProofs -----------------------------
(***************************************************************************)
(* For any deadlines, any period of the guard and any provider: types, the *)
(* invariant of Call, and that a stall is a silence.  The invariant comes  *)
(* in two halves, who is where (Control) and when (Timing).                *)
(***************************************************************************)
EXTENDS Call, TLAPS

Control ==
  /\ ErrorIsOfItsEnding /\ NothingOutlivesTheCall
  /\ pc \notin {"closing", "returned"} => error = NoError /\ ~cut /\ cause = ended
  /\ pc = "closing" => cause # "none"
  /\ ended \in {"none", "interrupted", "stalled", "call_timeout"}
  /\ ended = "stalled" => pc \in {"stream", "closing", "returned"}
  /\ cut => ended # "none" /\ cause # "none"
  /\ watcher = "watching" => pc \in {"stream", "closing"} /\ On(clocks.idle)
  /\ pc = "stream" /\ On(clocks.idle) /\ cause = "none" => watcher = "watching"

Timing ==
  /\ StallIsNoticed /\ TotalHolds
  /\ watcher = "watching" => checked <= now /\ now - checked <= Quarter
                              /\ checked - mark < clocks.idle
  /\ mark <= now /\ heard <= now
  /\ pc = "stream" /\ fresh /\ ~inbox => mark = now
  /\ pc = "stream" /\ ~delayed => heard <= mark

LEMMA Halves == CallInv <=> Control /\ Timing
BY DEF CallInv, Control, Timing

-----------------------------------------------------------------------------
(* Triage's errors *)

\* Whatever ended it, the error of a call is one of Errors.
LEMMA ErrorsTyped ==
  ASSUME NEW w \in Endings
  PROVE  /\ BuildErrors \subseteq Errors /\ ConnectErrors(w) \subseteq Errors
         /\ StatusErrors(Statuses, Afters) \subseteq Errors /\ EventErrors \subseteq Errors
         /\ StreamErrors(w) \subseteq Errors /\ NoError \in Errors
<1>1. BuildErrors \subseteq Errors /\ ConnectErrors(w) \subseteq Errors /\ StreamErrors(w) \subseteq Errors
  BY DEF BuildErrors, ConnectErrors, StreamErrors, CallError, Errors, Endings
<1>2. StatusErrors(Statuses, Afters) \subseteq Errors
  BY CallAssumption DEF StatusErrors, CallError, Errors, Endings
<1>3. EventErrors \subseteq Errors
  BY DEF EventErrors, CallError, Errors, Endings
<1> QED
  BY <1>1, <1>2, <1>3 DEF NoError, CallError, Errors, Endings

\* The errors of a call that was not cut.
LEMMA UncutErrors ==
  /\ BuildErrors \cup ConnectErrors("none") \cup EventErrors
       \cup StatusErrors(Statuses, Afters) \cup StreamErrors("none")
       = CallErrors(Statuses, Afters, "none")
BY DEF CallErrors

\* The errors of a call that was cut, and their cause.
LEMMA CutErrors ==
  /\ \A w \in {"interrupted", "stalled", "call_timeout"} :
       \A e \in StreamErrors(w) : e \in CallErrors(Statuses, Afters, w) /\ e.cause = w
  /\ \A w \in {"interrupted", "call_timeout"} :
       \A e \in ConnectErrors(w) : e \in CallErrors(Statuses, Afters, w) /\ e.cause = w
BY DEF CallErrors, StreamErrors, ConnectErrors, CallError

-----------------------------------------------------------------------------
(* Types *)

LEMMA CancelTyped ==
  ASSUME TypeOK, NEW why \in Endings, Cancel(why)
  PROVE  cause' \in Endings /\ ended' \in Endings
BY DEF Cancel, TypeOK

\* modelCall keeps the types.
LEMMA CallTyped ==
  TypeOK /\ (BuildFails \/ Sends \/ DoFails \/ Refused \/ StatusFails \/ Opens) => TypeOK'
<1> SUFFICES ASSUME TypeOK, BuildFails \/ Sends \/ DoFails \/ Refused \/ StatusFails \/ Opens
             PROVE  TypeOK'
  OBVIOUS
<1>1. ASSUME NEW e \in Errors, NEW by \in BOOLEAN, Returns(e, by) PROVE TypeOK'
  BY <1>1 DEF Returns, TypeOK, outside, guard, Phases
<1>2. cause \in Endings
  BY DEF TypeOK
<1>3. CASE BuildFails
  BY <1>1, <1>2, <1>3, ErrorsTyped DEF BuildFails
<1>4. CASE DoFails
  BY <1>1, <1>2, <1>4, ErrorsTyped DEF DoFails
<1>5. CASE StatusFails
  BY <1>1, <1>2, <1>5, ErrorsTyped DEF StatusFails
<1>6. CASE Sends
  BY <1>6 DEF Sends, TypeOK, outside, guard, Phases
<1>7. CASE Refused
  BY <1>7 DEF Refused, TypeOK, outside, guard, Phases
<1>8. CASE Opens
  BY <1>8 DEF Opens, TypeOK, Phases
<1> QED
  BY <1>3, <1>4, <1>5, <1>6, <1>7, <1>8

\* ParseStream and the return keep the types.
LEMMA StreamTyped ==
  TypeOK /\ (ReadChunk \/ Emit \/ Completes \/ EventFails \/ StreamFails \/ Joins) => TypeOK'
<1> SUFFICES ASSUME TypeOK, ReadChunk \/ Emit \/ Completes \/ EventFails \/ StreamFails \/ Joins
             PROVE  TypeOK'
  OBVIOUS
<1>1. ASSUME NEW e \in Errors, NEW by \in BOOLEAN, Closes(e, by) PROVE TypeOK'
  <2>1. cause' \in Endings
    BY <1>1 DEF Closes, TypeOK, Endings
  <2> QED
    BY <1>1, <2>1 DEF Closes, TypeOK, outside, guard, Phases
<1>2. cause \in Endings
  BY DEF TypeOK
<1>3. CASE Completes
  BY <1>1, <1>2, <1>3, ErrorsTyped DEF Completes
<1>4. CASE EventFails
  BY <1>1, <1>2, <1>4, ErrorsTyped DEF EventFails
<1>5. CASE StreamFails
  BY <1>1, <1>2, <1>5, ErrorsTyped DEF StreamFails
<1>6. CASE ReadChunk
  BY <1>6 DEF ReadChunk, TypeOK
<1>7. CASE Emit
  BY <1>7 DEF Emit, TypeOK, outside, guard
<1>8. CASE Joins
  BY <1>8 DEF Joins, TypeOK, outside, guard, Phases
<1> QED
  BY <1>3, <1>4, <1>5, <1>6, <1>7, <1>8

\* The timers, the watcher, the server and time keep the types.
LEMMA OthersTyped ==
  TypeOK /\ (TotalFires \/ Interrupt \/ Notices \/ Passes \/ WatchEnds \/ Arrives
               \/ Hangs("eof") \/ Hangs("broken") \/ SiblingIsDone \/ Tick) => TypeOK'
<1> SUFFICES ASSUME TypeOK, TotalFires \/ Interrupt \/ Notices \/ Passes \/ WatchEnds \/ Arrives
               \/ Hangs("eof") \/ Hangs("broken") \/ SiblingIsDone \/ Tick
             PROVE  TypeOK'
  OBVIOUS
<1> {"interrupted", "stalled", "call_timeout"} \subseteq Endings
  BY DEF Endings
<1>1. CASE TotalFires
  BY <1>1, CancelTyped DEF TotalFires, TypeOK, outside, guard, call
<1>2. CASE Interrupt
  BY <1>2, CancelTyped DEF Interrupt, TypeOK, outside, guard, call
<1>3. CASE Notices
  BY <1>3, CancelTyped DEF Notices, TypeOK, outside, call
<1>4. CASE Passes
  BY <1>4 DEF Passes, TypeOK, outside, call
<1>5. CASE WatchEnds
  BY <1>5 DEF WatchEnds, TypeOK, outside, call
<1>6. CASE Arrives
  BY <1>6 DEF Arrives, TypeOK, guard, call
<1>7. CASE Hangs("eof") \/ Hangs("broken")
  BY <1>7 DEF Hangs, TypeOK, guard, call
<1>8. CASE SiblingIsDone
  BY <1>8 DEF SiblingIsDone, TypeOK, guard, call
<1>9. CASE Tick
  <2>1. /\ now' \in Nat /\ heard' \in Nat
    BY <1>9 DEF Tick, TypeOK
  <2>2. delayed' \in BOOLEAN /\ fresh' \in BOOLEAN
    BY <1>9 DEF Tick, TypeOK
  <2> QED
    BY <1>9, <2>1, <2>2 DEF Tick, TypeOK, guard, call
<1> QED
  BY <1>1, <1>2, <1>3, <1>4, <1>5, <1>6, <1>7, <1>8, <1>9

\* Types: see TypeOK.
THEOREM Typed == Spec => []TypeOK
<1>1. Init => TypeOK
  <2>1. "none" \in Endings
    BY DEF Endings
  <2>2. NoError \in Errors
    BY <2>1, ErrorsTyped
  <2>3. ASSUME Init PROVE /\ sent \in Nat /\ mark \in Nat /\ checked \in Nat /\ now \in Nat /\ heard \in Nat
    BY <2>3 DEF Init
  <2>4. ASSUME Init PROVE /\ emitting \in BOOLEAN /\ cut \in BOOLEAN /\ inbox \in BOOLEAN
                          /\ held \in BOOLEAN /\ delayed \in BOOLEAN /\ fresh \in BOOLEAN
    BY <2>4 DEF Init
  <2>5. ASSUME Init PROVE /\ clocks \in Settings /\ pc \in Phases
                          /\ watcher \in {"off", "watching", "gone"}
                          /\ server \in {"open", "eof", "broken"}
    BY <2>5 DEF Init, Phases
  <2>6. ASSUME Init PROVE cause \in Endings /\ ended \in Endings /\ error \in Errors
    BY <2>1, <2>2, <2>6 DEF Init
  <2> QED
    BY <2>3, <2>4, <2>5, <2>6 DEF TypeOK
<1>2. TypeOK /\ [Next]_vars => TypeOK'
  <2>1. CASE UNCHANGED vars
    BY <2>1 DEF vars, guard, outside, call, TypeOK
  <2> QED
    BY <2>1, CallTyped, StreamTyped, OthersTyped DEF Next, Prompt
<1> QED
  BY <1>1, <1>2, PTL DEF Spec

-----------------------------------------------------------------------------
(* Who is where *)

\* modelCall keeps it.
LEMMA CallControl ==
  TypeOK /\ Control /\ (BuildFails \/ Sends \/ DoFails \/ Refused \/ StatusFails \/ Opens)
    => Control'
<1> SUFFICES ASSUME TypeOK, Control,
                    BuildFails \/ Sends \/ DoFails \/ Refused \/ StatusFails \/ Opens
             PROVE  Control'
  OBVIOUS
<1>1. ASSUME NEW e, NEW by \in BOOLEAN, Returns(e, by), pc \in {"dialling", "waiting", "status"},
             by => e \in CallErrors(Statuses, Afters, ended) /\ e.cause = ended /\ ended # "none",
             ~by => e \in CallErrors(Statuses, Afters, "none")
      PROVE  Control'
  <2>1. /\ pc' = "returned" /\ error' = e /\ cut' = by /\ cause' = cause /\ ended' = ended
        /\ watcher' = watcher /\ clocks' = clocks
    BY <1>1 DEF Returns, guard
  <2>2. watcher # "watching" /\ cause = ended
    BY <1>1 DEF Control
  <2>3. ErrorIsOfItsEnding'
    BY <1>1, <2>1 DEF ErrorIsOfItsEnding
  <2> QED
    BY <1>1, <2>1, <2>2, <2>3 DEF Control, NothingOutlivesTheCall
<1>2. CASE BuildFails
  BY <1>1, <1>2, UncutErrors DEF BuildFails
<1>3. CASE StatusFails
  BY <1>1, <1>3, UncutErrors DEF StatusFails
<1>4. CASE DoFails
  <2> PICK e \in ConnectErrors(cause) : Returns(e, cause # "none")
    BY <1>4 DEF DoFails
  <2>1. cause = ended /\ pc \in {"dialling", "waiting", "status"}
    BY <1>4 DEF DoFails, Control
  <2>2. CASE cause = "none"
    <3>1. e \in CallErrors(Statuses, Afters, "none")
      BY <2>2, UncutErrors
    <3> QED
      BY <1>1, <2>1, <2>2, <3>1
  <2>3. CASE cause # "none"
    <3>1. ended \in {"interrupted", "call_timeout"}
      BY <1>4, <2>1, <2>3 DEF DoFails, Control
    <3>2. e \in CallErrors(Statuses, Afters, ended) /\ e.cause = ended
      BY <2>1, <3>1, CutErrors
    <3> QED
      BY <1>1, <2>1, <2>3, <3>2
  <2> QED
    BY <2>2, <2>3
<1> USE DEF Control, ErrorIsOfItsEnding, NothingOutlivesTheCall
<1>5. CASE Sends
  BY <1>5 DEF Sends, guard
<1>6. CASE Refused
  BY <1>6 DEF Refused, guard
<1>7. CASE Opens
  BY <1>7 DEF Opens
<1> QED
  BY <1>2, <1>3, <1>4, <1>5, <1>6, <1>7

\* ParseStream and the return keep it.
LEMMA StreamControl ==
  TypeOK /\ Control /\ (ReadChunk \/ Emit \/ Completes \/ EventFails \/ StreamFails \/ Joins)
    => Control'
<1> SUFFICES ASSUME TypeOK, Control,
                    ReadChunk \/ Emit \/ Completes \/ EventFails \/ StreamFails \/ Joins
             PROVE  Control'
  OBVIOUS
<1>1. ASSUME NEW e, NEW by \in BOOLEAN, Closes(e, by),
             by => e \in CallErrors(Statuses, Afters, ended) /\ e.cause = ended /\ ended # "none",
             ~by => e = NoError \/ e \in CallErrors(Statuses, Afters, "none")
      PROVE  Control'
  <2>1. /\ pc = "stream" /\ pc' = "closing" /\ error' = e /\ cut' = by /\ ended' = ended
        /\ watcher' = watcher /\ clocks' = clocks
    BY <1>1 DEF Closes, Reading, guard
  <2>2. cause' # "none"
    BY <1>1 DEF Closes
  <2>3. ErrorIsOfItsEnding'
    BY <1>1, <2>1 DEF ErrorIsOfItsEnding
  <2> QED
    BY <1>1, <2>1, <2>2, <2>3 DEF Control, NothingOutlivesTheCall
<1>2. CASE Completes
  BY <1>1, <1>2 DEF Completes
<1>3. CASE EventFails
  BY <1>1, <1>3, UncutErrors DEF EventFails
<1>4. CASE StreamFails
  <2> PICK e \in StreamErrors(cause) : Closes(e, cause # "none")
    BY <1>4 DEF StreamFails
  <2>1. cause = ended
    BY DEF Control, Closes, Reading
  <2>2. CASE cause = "none"
    <3>1. e \in CallErrors(Statuses, Afters, "none")
      BY <2>2, UncutErrors
    <3> QED
      BY <1>1, <2>1, <2>2, <3>1
  <2>3. CASE cause # "none"
    <3>1. ended \in {"interrupted", "stalled", "call_timeout"}
      BY <2>1, <2>3 DEF Control
    <3>2. e \in CallErrors(Statuses, Afters, ended) /\ e.cause = ended
      BY <2>1, <3>1, CutErrors
    <3> QED
      BY <1>1, <2>1, <2>3, <3>2
  <2> QED
    BY <2>2, <2>3
<1> USE DEF Control, ErrorIsOfItsEnding, NothingOutlivesTheCall
<1>5. CASE ReadChunk
  BY <1>5 DEF ReadChunk
<1>6. CASE Emit
  BY <1>6 DEF Emit, guard
<1>7. CASE Joins
  BY <1>7 DEF Joins, guard
<1> QED
  BY <1>2, <1>3, <1>4, <1>5, <1>6, <1>7

\* The timers, the watcher, the server and time keep it.
LEMMA OthersControl ==
  TypeOK /\ Control /\ (TotalFires \/ Interrupt \/ Notices \/ Passes \/ WatchEnds \/ Arrives
               \/ Hangs("eof") \/ Hangs("broken") \/ SiblingIsDone \/ Tick) => Control'
<1> SUFFICES ASSUME TypeOK, Control, TotalFires \/ Interrupt \/ Notices \/ Passes \/ WatchEnds
               \/ Arrives \/ Hangs("eof") \/ Hangs("broken") \/ SiblingIsDone \/ Tick
             PROVE  Control'
  OBVIOUS
<1> USE DEF Control, ErrorIsOfItsEnding, NothingOutlivesTheCall
<1>1. CASE TotalFires
  BY <1>1 DEF TotalFires, TotalDue, Cancel, guard, call
<1>2. CASE Interrupt
  BY <1>2 DEF Interrupt, Cancel, guard, call
<1>3. CASE Notices
  BY <1>3 DEF Notices, TickDue, Cancel, call
<1>4. CASE Passes
  BY <1>4 DEF Passes, call
<1>5. CASE WatchEnds
  BY <1>5 DEF WatchEnds, call
<1>6. CASE Arrives
  BY <1>6 DEF Arrives, guard, call
<1>7. CASE Hangs("eof") \/ Hangs("broken")
  BY <1>7 DEF Hangs, guard, call
<1>8. CASE SiblingIsDone
  BY <1>8 DEF SiblingIsDone, guard, call
<1>9. CASE Tick
  BY <1>9 DEF Tick, guard, call
<1> QED
  BY <1>1, <1>2, <1>3, <1>4, <1>5, <1>6, <1>7, <1>8, <1>9

-----------------------------------------------------------------------------
(* When *)

\* A step that leaves the stream ends what Timing says of it; one that leaves the
\* time, the guard and the arrivals alone changes nothing else.
LEMMA LeavingKeepsTiming ==
  ASSUME TypeOK, Timing, UNCHANGED <<clocks, guard, outside>>,
         \/ pc' = "returned"
         \/ pc' = "closing" /\ pc = "stream"
         \/ pc' = pc /\ (cause' = cause \/ cause' # "none")
  PROVE  Timing'
<1>1. /\ clocks' = clocks /\ mark' = mark /\ checked' = checked /\ watcher' = watcher /\ now' = now
      /\ heard' = heard /\ inbox' = inbox /\ fresh' = fresh /\ delayed' = delayed
  BY DEF guard, outside
<1>2. TotalHolds'
  BY <1>1 DEF Timing, TotalHolds, On
<1>3. StallIsNoticed'
  BY <1>1 DEF Timing, StallIsNoticed, On
<1> QED
  BY <1>1, <1>2, <1>3 DEF Timing

\* modelCall keeps it: a stream opens with everything stamped now.
LEMMA CallTiming ==
  TypeOK /\ Control /\ Timing
    /\ (BuildFails \/ Sends \/ DoFails \/ Refused \/ StatusFails \/ Opens)
      => Timing'
<1> SUFFICES ASSUME TypeOK, Control, Timing,
                    BuildFails \/ Sends \/ DoFails \/ Refused \/ StatusFails \/ Opens
             PROVE  Timing'
  OBVIOUS
<1>1. ASSUME NEW e, NEW by, Returns(e, by) PROVE Timing'
  BY <1>1, LeavingKeepsTiming DEF Returns
<1>2. CASE BuildFails \/ DoFails \/ StatusFails
  BY <1>1, <1>2 DEF BuildFails, DoFails, StatusFails
<1>3. CASE Sends \/ Refused
  <2>1. /\ pc' \in {"waiting", "status"} /\ pc # "returned" /\ UNCHANGED <<clocks, guard, outside>>
    BY <1>3 DEF Sends, Refused
  <2> QED
    BY <2>1 DEF Timing, StallIsNoticed, TotalHolds, guard, outside, On, TypeOK
<1>4. CASE Opens
  <2>1. /\ pc = "waiting" /\ mark' = now /\ checked' = now /\ heard' = now /\ now' = now
        /\ delayed' = delayed /\ clocks' = clocks
        /\ (watcher' = "watching" => On(clocks.idle))
    BY <1>4 DEF Opens
  <2>2. clocks.idle \in {0, 4 * Quarter}
    BY CallAssumption DEF TypeOK
  <2>3. StallIsNoticed' /\ TotalHolds'
    BY <2>1, <2>2, CallAssumption DEF Timing, StallIsNoticed, TotalHolds, On, TypeOK
  <2> QED
    BY <2>1, <2>2, <2>3, CallAssumption DEF Timing, On, TypeOK
<1> QED
  BY <1>2, <1>3, <1>4

\* ParseStream and the return keep it: a chunk that is read is stamped now.
LEMMA StreamTiming ==
  TypeOK /\ Control /\ Timing
    /\ (ReadChunk \/ Emit \/ Completes \/ EventFails \/ StreamFails \/ Joins)
      => Timing'
<1> SUFFICES ASSUME TypeOK, Control, Timing,
                    ReadChunk \/ Emit \/ Completes \/ EventFails \/ StreamFails \/ Joins
             PROVE  Timing'
  OBVIOUS
<1>1. ASSUME NEW e, NEW by, Closes(e, by) PROVE Timing'
  BY <1>1, LeavingKeepsTiming DEF Closes, Reading
<1>2. CASE Completes \/ EventFails \/ StreamFails
  BY <1>1, <1>2 DEF Completes, EventFails, StreamFails
<1>3. CASE Emit \/ Joins
  BY <1>3, LeavingKeepsTiming DEF Emit, Joins
<1>4. CASE ReadChunk
  <2>1. /\ mark' = now /\ now' = now /\ heard' = heard /\ delayed' = delayed /\ fresh' = fresh
        /\ pc' = pc /\ cause' = cause /\ clocks' = clocks /\ watcher' = watcher /\ checked' = checked
    BY <1>4 DEF ReadChunk
  <2>2. clocks.idle \in Nat
    BY CallAssumption DEF TypeOK
  <2>3. StallIsNoticed' /\ TotalHolds'
    BY <2>1, <2>2, CallAssumption DEF Timing, StallIsNoticed, TotalHolds, On, TypeOK
  <2>4. watcher' = "watching" => checked' - mark' < clocks'.idle
    BY <2>1, <2>2 DEF Timing, TypeOK
  <2> QED
    BY <2>1, <2>3, <2>4 DEF Timing, TypeOK
<1> QED
  BY <1>2, <1>3, <1>4

\* Time keeps it: it passes only when no tick is due, no clock has fired, and the
\* reader has read what has arrived or is kept in Emit.
LEMMA TickTiming == TypeOK /\ Control /\ Timing /\ Tick => Timing'
<1> SUFFICES ASSUME TypeOK, Control, Timing, Tick PROVE Timing'
  OBVIOUS
<1>1. /\ now' = now + 1 /\ mark' = mark /\ checked' = checked /\ watcher' = watcher
      /\ pc' = pc /\ cause' = cause /\ clocks' = clocks /\ inbox' = inbox
      /\ pc # "returned" /\ ~Busy
  BY DEF Tick, guard, call
<1>2. ~delayed' => ~delayed /\ ~emitting
  BY DEF Tick, TypeOK
<1>3. ~fresh' /\ heard' \in {now, heard} /\ (~fresh => heard' = heard)
  BY DEF Tick, TypeOK
<1>4. clocks.idle \in Nat /\ clocks.total \in Nat /\ Quarter \in Nat
  BY CallAssumption DEF TypeOK
<1>5. watcher = "watching" => now + 1 - checked <= Quarter
  BY <1>1, <1>4 DEF Busy, TickDue, TypeOK
<1>6. watcher' = "watching" =>
        checked' <= now' /\ now' - checked' <= Quarter /\ checked' - mark' < clocks'.idle
  BY <1>1, <1>4, <1>5 DEF Timing, TypeOK
<1>7. StallIsNoticed'
  <2>1. pc = "stream" /\ On(clocks.idle) /\ cause = "none" => watcher = "watching"
    BY DEF Control
  <2> SUFFICES ASSUME pc = "stream", On(clocks.idle), cause = "none"
               PROVE  now' - mark' < clocks'.idle + Quarter
    BY <1>1 DEF StallIsNoticed, On
  <2> QED
    BY <1>1, <1>4, <1>5, <2>1 DEF Timing, TypeOK
<1>8. TotalHolds'
  <2> SUFFICES ASSUME On(clocks.total), ~delayed' PROVE now + 1 <= clocks.total
    BY <1>1 DEF TotalHolds, On
  <2>1. ~delayed /\ ~emitting /\ now <= clocks.total
    BY <1>1, <1>2 DEF Timing, TotalHolds
  <2>2. CASE cause = "none"
    <3>1. ~(now >= clocks.total)
      BY <1>1, <2>2 DEF Busy, TotalDue
    <3> QED
      BY <1>4, <3>1 DEF TypeOK
  <2>3. CASE cause # "none"
    <3>1. pc = "stream"
      BY <1>1, <2>3 DEF Busy, TypeOK, Phases
    <3> QED
      BY <1>1, <2>1, <2>3, <3>1 DEF Busy, Reading
  <2> QED
    BY <2>2, <2>3
<1>9. pc' = "stream" /\ ~delayed' => heard' <= mark'
  <2> SUFFICES ASSUME pc = "stream", ~delayed' PROVE heard' <= mark
    BY <1>1
  <2>1. ~inbox /\ ~delayed
    BY <1>1, <1>2 DEF Busy, Reading
  <2>2. heard <= mark
    BY <2>1 DEF Timing
  <2>3. CASE fresh
    BY <1>3, <2>1, <2>2, <2>3 DEF Timing, TypeOK
  <2>4. CASE ~fresh
    BY <1>3, <2>2, <2>4
  <2> QED
    BY <2>3, <2>4
<1>10. mark' <= now' /\ heard' <= now'
  BY <1>1, <1>3 DEF Timing, TypeOK
<1> QED
  BY <1>3, <1>6, <1>7, <1>8, <1>9, <1>10 DEF Timing

\* The timers, the watcher and the server keep it.
LEMMA OthersTiming ==
  TypeOK /\ Control /\ Timing /\ (TotalFires \/ Interrupt \/ Notices \/ Passes \/ WatchEnds
      \/ Arrives \/ Hangs("eof") \/ Hangs("broken") \/ SiblingIsDone) => Timing'
<1> SUFFICES ASSUME TypeOK, Control, Timing, TotalFires \/ Interrupt \/ Notices \/ Passes
               \/ WatchEnds \/ Arrives \/ Hangs("eof") \/ Hangs("broken") \/ SiblingIsDone
             PROVE  Timing'
  OBVIOUS
<1>1. CASE TotalFires \/ Interrupt
  <2>1. /\ UNCHANGED <<clocks, guard, outside>> /\ pc' = pc
    BY <1>1 DEF TotalFires, Interrupt, call
  <2>2. cause' = cause \/ cause' # "none"
    BY <1>1 DEF TotalFires, Interrupt, Cancel
  <2> QED
    BY <2>1, <2>2, LeavingKeepsTiming
<1>2. CASE Notices
  <2>1. /\ UNCHANGED <<clocks, outside, mark, checked, pc>> /\ watcher' = "gone" /\ cause' # "none"
    BY <1>2 DEF Notices, Cancel, call
  <2> QED
    BY <2>1 DEF Timing, StallIsNoticed, TotalHolds, outside, On, TypeOK
<1>3. CASE Passes
  <2>1. /\ UNCHANGED <<clocks, outside, mark, cause, pc, watcher>> /\ checked' = now
        /\ ~(now - mark >= clocks.idle)
    BY <1>3 DEF Passes, Silent, call
  <2>2. clocks.idle \in Nat /\ Quarter \in Nat
    BY CallAssumption DEF TypeOK
  <2>3. now' = now /\ now - checked' <= Quarter /\ checked' <= now /\ checked' - mark < clocks.idle
    BY <2>1, <2>2 DEF outside, TypeOK
  <2> QED
    BY <2>1, <2>3 DEF Timing, StallIsNoticed, TotalHolds, outside, On
<1>4. CASE WatchEnds
  BY <1>4 DEF WatchEnds, Timing, StallIsNoticed, TotalHolds, outside, call, On
<1>5. CASE Arrives
  BY <1>5 DEF Arrives, Timing, StallIsNoticed, TotalHolds, guard, call, On
<1>6. CASE Hangs("eof") \/ Hangs("broken")
  BY <1>6 DEF Hangs, Timing, StallIsNoticed, TotalHolds, guard, call, On
<1>7. CASE SiblingIsDone
  BY <1>7 DEF SiblingIsDone, Timing, StallIsNoticed, TotalHolds, guard, call, On
<1> QED
  BY <1>1, <1>2, <1>3, <1>4, <1>5, <1>6, <1>7

-----------------------------------------------------------------------------
(* The theorems *)

\* A call, its guard and its watcher agree at every moment (modelCall, guardBody).
THEOREM CallInvariant == Spec => []CallInv
<1>1. Init => Control /\ Timing
  <2> SUFFICES ASSUME Init PROVE Control /\ Timing
    OBVIOUS
  <2>1. Control
    BY DEF Init, Control, ErrorIsOfItsEnding, NothingOutlivesTheCall
  <2>2. TotalHolds
    BY CallAssumption DEF Init, TotalHolds, On
  <2>3. StallIsNoticed
    BY DEF Init, StallIsNoticed
  <2> QED
    BY <2>1, <2>2, <2>3 DEF Init, Timing
<1>2. TypeOK /\ Control /\ Timing /\ [Next]_vars => Control' /\ Timing'
  <2> SUFFICES ASSUME TypeOK, Control, Timing, [Next]_vars PROVE Control' /\ Timing'
    OBVIOUS
  <2>1. CASE UNCHANGED vars
    <3>1. Control'
      BY <2>1 DEF vars, guard, call, Control, ErrorIsOfItsEnding, NothingOutlivesTheCall
    <3>2. Timing'
      BY <2>1, LeavingKeepsTiming DEF vars, call
    <3> QED
      BY <3>1, <3>2
  <2>2. CASE Next
    <3>1. Control'
      BY <2>2, CallControl, StreamControl, OthersControl DEF Next, Prompt
    <3>2. Timing'
      BY <2>2, CallTiming, StreamTiming, TickTiming, OthersTiming DEF Next, Prompt
    <3> QED
      BY <3>1, <3>2
  <2> QED
    BY <2>1, <2>2
<1>3. Control /\ Timing => CallInv
  BY Halves
<1> QED
  BY <1>1, <1>2, <1>3, Typed, PTL DEF Spec

\* A silence is noticed within a window and a quarter (guardBody's ticker).
THEOREM StallsAreNoticed == Spec => []StallIsNoticed
<1>1. CallInv => StallIsNoticed
  BY DEF CallInv
<1> QED
  BY <1>1, CallInvariant, PTL

\* The total clock ends whatever the call is doing (modelCall's outermost context).
THEOREM TotalIsATotal == Spec => []TotalHolds
<1>1. CallInv => TotalHolds
  BY DEF CallInv
<1> QED
  BY <1>1, CallInvariant, PTL

\* An error is of the ending of its call: what Retry takes calls to return.
THEOREM ErrorsAreOfTheirEnding == Spec => []ErrorIsOfItsEnding
<1>1. CallInv => ErrorIsOfItsEnding
  BY DEF CallInv
<1> QED
  BY <1>1, CallInvariant, PTL

\* No watcher outlives its call (stopGuard).
THEOREM WatchersEnd == Spec => []NothingOutlivesTheCall
<1>1. CallInv => NothingOutlivesTheCall
  BY DEF CallInv
<1> QED
  BY <1>1, CallInvariant, PTL

\* Only the watcher calls a call stalled, on a stamp that is old enough; the stamp is
\* that of the newest arrival unless the bus kept the reader.
LEMMA OnlyTheWatcherStalls ==
  ASSUME TypeOK, Control, Timing, [Next]_vars, cause = "none", cause' = "stalled"
  PROVE  delayed \/ now - heard >= clocks.idle
<1>1. Notices
  <2>1. ~UNCHANGED vars
    BY DEF vars
  <2>2. ~(BuildFails \/ DoFails \/ StatusFails)
    BY DEF BuildFails, DoFails, StatusFails, Returns
  <2>3. ~(Completes \/ EventFails \/ StreamFails)
    BY DEF Completes, EventFails, StreamFails, Closes
  <2>4. ~(Sends \/ Refused \/ Opens \/ ReadChunk \/ Emit \/ Joins)
    BY DEF Sends, Refused, Opens, ReadChunk, Emit, Joins
  <2>5. ~(TotalFires \/ Interrupt)
    BY DEF TotalFires, Interrupt, Cancel
  <2>6. ~(Passes \/ WatchEnds \/ Arrives \/ Hangs("eof") \/ Hangs("broken") \/ SiblingIsDone \/ Tick)
    BY DEF Passes, WatchEnds, Arrives, Hangs, SiblingIsDone, Tick
  <2> QED
    BY <2>1, <2>2, <2>3, <2>4, <2>5, <2>6 DEF Next, Prompt
<1>2. watcher = "watching" /\ now - mark >= clocks.idle
  BY <1>1 DEF Notices, TickDue, Silent
<1>3. pc = "stream"
  BY <1>2 DEF Control
<1>4. clocks.idle \in Nat
  BY CallAssumption DEF TypeOK
<1>5. ~delayed => heard <= mark
  BY <1>3 DEF Timing
<1> QED
  BY <1>2, <1>4, <1>5 DEF TypeOK

\* A stall is a silence (stallGuard's claim).
THEOREM StallsAreReal == Spec => StallsAreSilences
<1>1. TypeOK /\ CallInv /\ [Next]_vars
        => [cause = "none" /\ cause' = "stalled" => delayed \/ now - heard >= clocks.idle]_vars
  BY OnlyTheWatcherStalls, Halves
<1> QED
  BY <1>1, Typed, CallInvariant, PTL DEF Spec, StallsAreSilences
=============================================================================
