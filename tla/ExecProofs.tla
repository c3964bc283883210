----------------------------- MODULE ExecProofs -----------------------------
(***************************************************************************)
(* For any number of processes: types, and the invariant that says who is  *)
(* in the group, who strays, and who may still write.                      *)
(***************************************************************************)
EXTENDS Exec, TLAPS

\* A set of processes that dies leaves the types as they are.
LEMMA DieTyped ==
  ASSUME NEW dead, TypeOK, Die(dead)
  PROVE  /\ running' \subseteq Procs /\ born' \subseteq Procs /\ group' \subseteq Procs
         /\ holders' \subseteq running' /\ running' \subseteq born' /\ strays' \subseteq Others
BY DEF Die, TypeOK

\* Every step of runBash keeps the types.
LEMMA RunTyped == TypeOK /\ RunBash => TypeOK'
<1> SUFFICES ASSUME TypeOK, RunBash PROVE TypeOK'
  OBVIOUS
<1>1. CASE Start
  BY <1>1 DEF Start, TypeOK, Attached, Procs, PCs
<1>2. CASE Adopt
  BY <1>2 DEF Adopt, TypeOK, Procs, PCs
<1>3. CASE WaitReturns
  BY <1>3 DEF WaitReturns, TypeOK, tree
<1>4. CASE Done
  BY <1>4 DEF Done, TypeOK, tree, PCs
<1>5. CASE Cancelled \/ TimedOut
  BY <1>5, DieTyped DEF Cancelled, TimedOut, Stop, TypeOK, PCs
<1>6. CASE Reaped
  BY <1>6 DEF Reaped, TypeOK, tree, PCs
<1>7. CASE GivesUp
  BY <1>7, DieTyped DEF GivesUp, TypeOK, PCs
<1>8. CASE Read
  BY <1>8, DieTyped DEF Read, TypeOK, PCs
<1> QED
  BY <1>1, <1>2, <1>3, <1>4, <1>5, <1>6, <1>7, <1>8 DEF RunBash

\* Whatever the processes and the session do keeps the types.
LEMMA EnvironmentTyped == TypeOK /\ Environment => TypeOK'
<1> SUFFICES ASSUME TypeOK, Environment PROVE TypeOK'
  OBVIOUS
<1>1. CASE SessionStops
  BY <1>1 DEF SessionStops, TypeOK, tree
<1>2. ASSUME NEW p \in Procs, Setsid(p) PROVE TypeOK'
  BY <1>2 DEF Setsid, TypeOK, host, Procs
<1>3. ASSUME NEW p \in Procs, ClosesOutput(p) PROVE TypeOK'
  BY <1>3 DEF ClosesOutput, TypeOK, host
<1>4. ASSUME NEW p \in Procs, Exits(p) PROVE TypeOK'
  BY <1>4, DieTyped DEF Exits, TypeOK, host
<1>5. ASSUME NEW p \in Procs, NEW q \in Others, Fork(p, q) PROVE TypeOK'
  BY <1>5 DEF Fork, TypeOK, host, Procs
<1> QED
  BY <1>1, <1>2, <1>3, <1>4, <1>5 DEF Environment

LEMMA StartsRight == Init => TypeOK /\ ExecInv
BY DEF Init, TypeOK, ExecInv, PCs, NothingOfTheTreeSurvives, OutputIsSettled,
       JobDiesWithTheCommand, Killing

\* Types: see TypeOK.
THEOREM Typed == Spec => []TypeOK
<1>1. Init => TypeOK
  BY StartsRight
<1>2. TypeOK /\ [Next]_vars => TypeOK'
  <2>1. CASE UNCHANGED vars
    BY <2>1 DEF vars, tree, TypeOK
  <2> QED
    BY <2>1, RunTyped, EnvironmentTyped DEF Next
<1> QED
  BY <1>1, <1>2, PTL DEF Spec

\* Every step of runBash keeps the invariant; at a kill it is the last two lines
\* but one, who strays and who is in the group, that say nothing else survives.
LEMMA RunKeeps == TypeOK /\ ExecInv /\ RunBash => ExecInv'
<1> SUFFICES ASSUME TypeOK, ExecInv, RunBash PROVE ExecInv'
  OBVIOUS
<1> USE DEF ExecInv, NothingOfTheTreeSurvives, OutputIsSettled, JobDiesWithTheCommand, Killing
<1>1. CASE Start
  <2>1. ~waited' /\ ~Killing'
    BY <1>1 DEF Start, TypeOK
  <2>2. /\ NothingOfTheTreeSurvives' /\ OutputIsSettled' /\ JobDiesWithTheCommand'
        /\ group' \subseteq born' /\ (pc' \in {"start", "failed"} => born' = {} /\ ~adopted') /\ pc' # "read"
    BY <1>1, <2>1 DEF Start, TypeOK, Attached
  <2>3. platform' = "unix" => running' \subseteq group' \cup strays'
    BY <1>1 DEF Start, TypeOK, Attached
  <2>4. running' \subseteq {Shell} /\ ~adopted'
    BY <1>1 DEF Start, TypeOK
  <2> QED
    BY <2>1, <2>2, <2>3, <2>4
<1>2. CASE Adopt
  <2>1. /\ ~Killing' /\ ~waited' /\ pc' = "select" /\ platform' = platform
        /\ running' = running /\ born' = born /\ strays' = strays
    BY <1>2 DEF Adopt
  <2>2. group' \subseteq born'
    BY <1>2 DEF Adopt, TypeOK
  <2>3. CASE platform = "unix"
    BY <1>2, <2>1, <2>2, <2>3 DEF Adopt
  <2>4. CASE platform = "windows" /\ Shell \in running /\ adopted' /\ group' = group \cup {Shell}
    BY <2>1, <2>2, <2>4
  <2>5. CASE platform = "windows" /\ UNCHANGED <<adopted, group>>
    BY <2>1, <2>2, <2>5
  <2> QED
    BY <1>2, <2>3, <2>4, <2>5 DEF Adopt
<1>3. CASE WaitReturns
  BY <1>3 DEF WaitReturns, TypeOK, tree
<1>4. CASE Done
  BY <1>4 DEF Done, TypeOK, tree
<1>5. CASE Cancelled \/ TimedOut
  <2>1. /\ running' = running \ group /\ holders' = holders \ group
        /\ born' = born /\ group' = group /\ strays' = strays
        /\ platform' = platform /\ adopted' = adopted /\ waited' = waited
        /\ pc = "select" /\ pc' = "reap"
    BY <1>5 DEF Cancelled, TimedOut, Stop, Die, Killed
  <2>2. adopted => running' \subseteq strays
    BY <2>1 DEF TypeOK
  <2> QED
    BY <2>1, <2>2 DEF TypeOK
<1>6. CASE Reaped
  BY <1>6 DEF Reaped, TypeOK, tree
<1>7. CASE GivesUp
  BY <1>7 DEF GivesUp, Die, ClosedOver, TypeOK
<1>8. CASE Read
  BY <1>8 DEF Read, Die, ClosedOver, TypeOK
<1> QED
  BY <1>1, <1>2, <1>3, <1>4, <1>5, <1>6, <1>7, <1>8 DEF RunBash

\* Whatever the processes do keeps it: a child is where its parent is.
LEMMA EnvironmentKeeps == TypeOK /\ ExecInv /\ Environment => ExecInv'
<1> SUFFICES ASSUME TypeOK, ExecInv, Environment PROVE ExecInv'
  OBVIOUS
<1> USE DEF ExecInv, NothingOfTheTreeSurvives, OutputIsSettled, JobDiesWithTheCommand, Killing
<1>1. CASE SessionStops
  BY <1>1 DEF SessionStops, tree
<1>2. ASSUME NEW p \in Procs, Setsid(p) PROVE ExecInv'
  BY <1>2 DEF Setsid, host, TypeOK
<1>3. ASSUME NEW p \in Procs, ClosesOutput(p) PROVE ExecInv'
  BY <1>3 DEF ClosesOutput, host, TypeOK
<1>4. ASSUME NEW p \in Procs, Exits(p) PROVE ExecInv'
  BY <1>4 DEF Exits, Die, host, TypeOK
<1>5. ASSUME NEW p \in Procs, NEW q \in Others, Fork(p, q) PROVE ExecInv'
  BY <1>5, ExecAssumption DEF Fork, host, TypeOK, Procs
<1> QED
  BY <1>1, <1>2, <1>3, <1>4, <1>5 DEF Environment

\* The group, the strays and the writers are as runBash takes them to be.
THEOREM ExecInvariant == Spec => []ExecInv
<1>1. Init => ExecInv
  BY StartsRight
<1>2. TypeOK /\ ExecInv /\ [Next]_vars => ExecInv'
  <2>1. CASE UNCHANGED vars
    BY <2>1 DEF vars, tree, ExecInv, NothingOfTheTreeSurvives, OutputIsSettled,
                JobDiesWithTheCommand, Killing
  <2> QED
    BY <2>1, RunKeeps, EnvironmentKeeps DEF Next
<1> QED
  BY <1>1, <1>2, Typed, PTL DEF Spec

\* Nothing of the tree survives a kill (runBash's stop, procGroup.kill).
THEOREM TreeDies == Spec => []NothingOfTheTreeSurvives
<1>1. ExecInv => NothingOfTheTreeSurvives
  BY DEF ExecInv
<1> QED
  BY <1>1, ExecInvariant, PTL

\* The buffers are read when nobody writes them (runBash's unreaped).
THEOREM OutputSettles == Spec => []OutputIsSettled
<1>1. ExecInv => OutputIsSettled
  BY DEF ExecInv
<1> QED
  BY <1>1, ExecInvariant, PTL

\* The job dies with the command (the deferred Close).
THEOREM JobDies == Spec => []JobDiesWithTheCommand
<1>1. ExecInv => JobDiesWithTheCommand
  BY DEF ExecInv
<1> QED
  BY <1>1, ExecInvariant, PTL
=============================================================================
