------------------------------- MODULE MCRetry -------------------------------
(***************************************************************************)
(* Instances of the retry loop.                                            *)
(***************************************************************************)
EXTENDS Retry, TLC

CONSTANTS Ann, Bob

\* Agents differ in name only; for the run that checks no liveness.
Interchangeable == Permutations(Agents)
=============================================================================
