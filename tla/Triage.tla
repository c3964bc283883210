------------------------------- MODULE Triage -------------------------------
(***************************************************************************)
(* One failed model call and what to do about it: CallError and its        *)
(* verdict (triage.go), the clocks that can end a call (deadline.go), and  *)
(* how modelCall records an ending in a CallError.                         *)
(*                                                                         *)
(* The provider's error.type is one of four classes: "none" (no envelope), *)
(* "model" (the name contains "model", whatever its case), "capacity" (one *)
(* of overloaded_error, api_error, rate_limit_error, timeout_error), and   *)
(* "other".  Texts and bodies are left out.                                *)
(***************************************************************************)
EXTENDS Integers

CONSTANT Types    \* the classes of error.type the provider uses

ASSUME TypesAssumption == Types \subseteq {"none", "model", "capacity", "other"}

\* What ended a call from inside this program, if anything did: the causes of
\* deadline.go, and "cancelled" for a parent context that is gone.
Endings == {"none", "interrupted", "stalled", "call_timeout", "cancelled"}

Verdicts == {"retry", "fallback", "fatal"}

TriageCause(cause) == IF cause = "stalled" THEN "retry" ELSE "fatal"

TriageStatus(status, type) ==
  CASE status \in {401, 403} -> IF type = "model" THEN "fallback" ELSE "fatal"
    [] status = 404          -> "fallback"
    [] status \in {408, 409, 429} -> "retry"
    [] status >= 500         -> "retry"
    [] OTHER                 -> "fatal"

\* The verdict on a CallError.
Verdict(e) ==
  CASE e.cause # "none"    -> TriageCause(e.cause)
    [] e.phase = "connect" -> "retry"
    [] e.phase = "stream"  -> IF e.type \in {"none", "capacity"} THEN "retry" ELSE "fatal"
    [] e.phase = "status"  -> TriageStatus(e.status, e.type)
    [] OTHER               -> "fatal"

\* The attempts a failure is worth, out of the policy's allowance.
Limit(e, attempts) ==
  IF e.phase = "status" /\ e.status >= 500 /\ e.status # 503 /\ attempts > 2
    THEN 2 ELSE attempts

CallError(phase, status, type, after, cause) ==
  [phase |-> phase, status |-> status, type |-> type, after |-> after, cause |-> cause]

Errors ==
  [phase : {"none", "build", "connect", "status", "stream"}, status : Nat,
   type : Types \cup {"none"}, after : Nat, cause : Endings]

(***************************************************************************)
(* The errors modelCall returns for a call that was ended by `ended`.  A   *)
(* response that is not a 200, and an error event inside a stream, carry   *)
(* no cause: whatever cut their body short is not recorded.                *)
(***************************************************************************)
ConnectErrors(ended) == {CallError("connect", 0, "none", 0, ended)}

StatusErrors(statuses, afters) ==
  {CallError("status", s, t, w, "none") : s \in statuses, t \in Types, w \in afters}

EventErrors == {CallError("stream", 0, t, 0, "none") : t \in Types}

StreamErrors(ended) == {CallError("stream", 0, "none", 0, ended)}

BuildErrors == {CallError("build", 0, "none", 0, "none")}

CallErrors(statuses, afters, ended) ==
  CASE ended = "none"    -> BuildErrors \cup ConnectErrors("none") \cup EventErrors
                              \cup StatusErrors(statuses, afters) \cup StreamErrors("none")
    [] ended = "stalled" -> EventErrors \cup StreamErrors("stalled")
    [] OTHER             -> ConnectErrors(ended) \cup EventErrors
                              \cup StatusErrors(statuses, afters) \cup StreamErrors(ended)
=============================================================================
