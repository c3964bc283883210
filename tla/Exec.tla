-------------------------------- MODULE Exec --------------------------------
(***************************************************************************)
(* One command: runBash (exec.go) and the process tree it is answerable    *)
(* for, a process group on Unix (proc_unix.go), a job object on Windows    *)
(* (proc_windows.go).                                                      *)
(*                                                                         *)
(* The processes are the environment: they fork, close their output, leave *)
(* the group with setsid, exit, or do nothing for ever.  What a command    *)
(* prints and how its result is rendered are left out.                     *)
(***************************************************************************)
EXTENDS Naturals

CONSTANTS
  Shell,    \* the process runBash starts
  Others    \* the processes that may descend from it

ASSUME ExecAssumption == Shell \notin Others

Procs == {Shell} \cup Others

VARIABLES
  platform,   \* which procGroup was built
  pc,         \* where runBash is
  running,    \* the processes that run
  born,       \* the processes that have been started
  group,      \* the members of the process group, or of the job
  holders,    \* the processes that hold the write end of an output pipe
  adopted,    \* adopt returned no error
  waited,     \* cmd.Wait has returned
  ctxDone,    \* the session is stopping
  ending      \* why the select was left: "", "done", "cancelled" or "timed_out"

\* History: what runBash is not answerable for, by its own comments: what has
\* called setsid, what was born before a job could adopt its parent.
VARIABLE strays

tree == <<running, born, group, holders, strays>>
vars == <<platform, tree, pc, adopted, waited, ctxDone, ending>>

PCs == {"start", "adopt", "select", "reap", "read", "returned", "unreaped", "failed"}

-----------------------------------------------------------------------------
(* procGroup *)

\* attach: on Unix the child leads a group of its own before its first instruction.
Attached == IF platform = "unix" THEN {Shell} ELSE {}

\* Mutant of Killed: the signal goes to the shell, not to the group.
KilledAlone == group \cap {Shell}

\* kill: the whole group, or the whole job.
Killed == group

\* Close: the job kills its members with its last handle, a group knows nothing of it.
ClosedOver == IF platform = "windows" THEN group ELSE {}

Die(dead) ==
  /\ running' = running \ dead /\ holders' = holders \ dead
  /\ UNCHANGED <<born, group, strays>>

-----------------------------------------------------------------------------
(* runBash *)

Init ==
  /\ platform \in {"unix", "windows"} /\ pc = "start"
  /\ running = {} /\ born = {} /\ group = {} /\ holders = {} /\ strays = {}
  /\ adopted = FALSE /\ waited = FALSE /\ ctxDone = FALSE /\ ending = ""

Start ==
  /\ pc = "start"
  /\ \/ /\ pc' = "adopt" /\ running' = {Shell} /\ born' = {Shell} /\ holders' = {Shell}
        /\ group' = Attached
     \/ /\ pc' = "failed" /\ UNCHANGED <<running, born, holders, group>>
  /\ UNCHANGED <<platform, adopted, waited, ctxDone, ending, strays>>

\* On Unix there is only a number to remember.  On Windows a process is put in
\* the job while it runs, and its children born before that are not in it; the
\* assignment may fail, which is reported and not fatal.
Adopt ==
  /\ pc = "adopt" /\ pc' = "select"
  /\ \/ platform = "unix" /\ adopted' = TRUE /\ UNCHANGED group
     \/ /\ platform = "windows" /\ Shell \in running
        /\ adopted' = TRUE /\ group' = group \cup {Shell}
     \/ platform = "windows" /\ UNCHANGED <<adopted, group>>
  /\ UNCHANGED <<platform, running, born, holders, strays, waited, ctxDone, ending>>

\* cmd.Wait reaps the shell, then waits for the copying goroutines: for every
\* process that holds a pipe.
WaitReturns ==
  /\ pc \notin {"start", "adopt", "failed"} /\ ~waited
  /\ Shell \notin running /\ holders = {}
  /\ waited' = TRUE
  /\ UNCHANGED <<platform, tree, pc, adopted, ctxDone, ending>>

\* The select picks any of its ready cases.
Done ==
  /\ pc = "select" /\ waited /\ pc' = "read" /\ ending' = "done"
  /\ UNCHANGED <<platform, tree, adopted, waited, ctxDone>>

Stop(why) ==
  /\ pc = "select" /\ pc' = "reap" /\ ending' = why
  /\ Die(Killed)
  /\ UNCHANGED <<platform, adopted, waited, ctxDone>>

Cancelled == ctxDone /\ Stop("cancelled")

TimedOut == Stop("timed_out")

Reaped ==
  /\ pc = "reap" /\ waited /\ pc' = "read"
  /\ UNCHANGED <<platform, tree, adopted, waited, ctxDone, ending>>

\* Mutants of GivesUp: the buffers are read all the same; there is no clock.
GivesUpReading ==
  /\ pc = "reap" /\ pc' = "read"
  /\ UNCHANGED <<platform, tree, adopted, waited, ctxDone, ending>>

GivesUpNever == FALSE /\ UNCHANGED vars

\* Five seconds after the kill.  The copying goroutines may still be writing,
\* so the buffers are left alone.
GivesUp ==
  /\ pc = "reap" /\ pc' = "unreaped"
  /\ Die(ClosedOver)
  /\ UNCHANGED <<platform, adopted, waited, ctxDone, ending>>

\* The buffers are read; the deferred Close runs.
Read ==
  /\ pc = "read" /\ pc' = "returned"
  /\ Die(ClosedOver)
  /\ UNCHANGED <<platform, adopted, waited, ctxDone, ending>>

-----------------------------------------------------------------------------
(* The processes, and the session *)

host == <<platform, pc, adopted, waited, ctxDone, ending>>

\* A child inherits the group, or the job, and the pipe.
Fork(p, q) ==
  /\ p \in running /\ q \in Others \ born
  /\ running' = running \cup {q} /\ born' = born \cup {q}
  /\ group' = IF p \in group THEN group \cup {q} ELSE group
  /\ holders' = IF p \in holders THEN holders \cup {q} ELSE holders
  /\ strays' = IF p \in strays \/ (platform = "windows" /\ ~adopted) THEN strays \cup {q} ELSE strays
  /\ UNCHANGED host

\* The leader of a group cannot leave it.
Setsid(p) ==
  /\ platform = "unix" /\ p \in running \ {Shell}
  /\ group' = group \ {p} /\ strays' = strays \cup {p}
  /\ UNCHANGED <<running, born, holders, host>>

ClosesOutput(p) ==
  /\ p \in holders /\ holders' = holders \ {p}
  /\ UNCHANGED <<running, born, group, strays, host>>

Exits(p) ==
  /\ p \in running /\ Die({p})
  /\ UNCHANGED host

SessionStops ==
  /\ ~ctxDone /\ ctxDone' = TRUE
  /\ UNCHANGED <<platform, tree, pc, adopted, waited, ending>>

-----------------------------------------------------------------------------
RunBash == Start \/ Adopt \/ WaitReturns \/ Done \/ Cancelled \/ TimedOut \/ Reaped \/ GivesUp \/ Read

Environment ==
  \/ \E p \in Procs : Setsid(p) \/ ClosesOutput(p) \/ Exits(p) \/ \E q \in Others : Fork(p, q)
  \/ SessionStops

Next == RunBash \/ Environment

\* Every step of runBash is the scheduler's or a timer's; the processes owe nothing.
Fairness ==
  /\ WF_vars(Start) /\ WF_vars(Adopt) /\ WF_vars(TimedOut) /\ WF_vars(GivesUp) /\ WF_vars(Read)

Spec == Init /\ [][Next]_vars /\ Fairness

-----------------------------------------------------------------------------
(* Properties *)

\* Types: each set of processes is one, runBash is somewhere.
TypeOK ==
  /\ platform \in {"unix", "windows"} /\ pc \in PCs
  /\ running \subseteq Procs /\ born \subseteq Procs /\ group \subseteq Procs
  /\ holders \subseteq running /\ running \subseteq born /\ strays \subseteq Others
  /\ adopted \in BOOLEAN /\ waited \in BOOLEAN /\ ctxDone \in BOOLEAN
  /\ ending \in {"", "done", "cancelled", "timed_out"}

Killing == ending \in {"cancelled", "timed_out"}

\* A command that is stopped leaves nothing of its tree behind, whatever forked,
\* exited or closed its pipe meanwhile, save what left the group on purpose or
\* was born before a job could hold it (runBash's stop, procGroup.kill).
NothingOfTheTreeSurvives == Killing /\ adopted => running \subseteq strays

\* The buffers are read only when nothing can write them any more: no process
\* of the command, stray or not, holds a pipe (the early return on unreaped).
OutputIsSettled == pc = "read" => Shell \notin running /\ holders = {}

\* When runBash has returned on Windows, however the command ended, nothing that
\* was in the job runs (KILL_ON_JOB_CLOSE and the deferred Close).
JobDiesWithTheCommand ==
  platform = "windows" /\ pc \in {"returned", "unreaped"} => group \cap running = {}

\* The invariant behind the three: who is in the group, who strays and who may
\* still write.
ExecInv ==
  /\ NothingOfTheTreeSurvives /\ OutputIsSettled /\ JobDiesWithTheCommand
  /\ group \subseteq born
  /\ pc \in {"start", "failed"} => born = {} /\ ~adopted
  /\ waited => pc \notin {"start", "adopt", "failed"} /\ Shell \notin running /\ holders = {}
  /\ pc = "read" => waited
  /\ platform = "unix" => running \subseteq group \cup strays
  /\ platform = "windows" /\ adopted => running \subseteq group \cup strays
  /\ platform = "windows" /\ ~adopted => running \subseteq {Shell} \cup strays
  /\ Killing => pc \notin {"start", "adopt", "select", "failed"}

\* runBash returns, even when a process that cannot be killed holds its pipe
\* for ever: both clocks are its own (the timeout, the five seconds).
CommandReturns == <>(pc \in {"returned", "unreaped", "failed"})
=============================================================================
