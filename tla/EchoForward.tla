---------------------------- MODULE EchoForward ----------------------------
(***************************************************************************)
(* The cache over files that never go back to a content they had before:   *)
(* each rewrite produces something new.  It is what store's comparison of  *)
(* the digests before and after a command relies on (echo.go 364-381), and *)
(* what `git checkout` or an undo breaks.                                  *)
(***************************************************************************)
EXTENDS Echo

ASSUME ForwardOnly ==
  /\ \A v \in Contents : <<v, v>> \notin Rewrites
  /\ \A u, v, w \in Contents :
       <<u, v>> \in Rewrites /\ <<v, w>> \in Rewrites => <<u, w>> \in Rewrites

\* v is w, or w was written over v, directly or later.
Precedes(v, w) == v = w \/ <<v, w>> \in Rewrites

\* Every state the disk was in precedes the present one, path by path.
DiskMovesForward ==
  /\ file \in past
  /\ \A f \in past, p \in Paths : Precedes(f[p], file[p])
  /\ \A a \in Agents :
       /\ since[a] \subseteq past
       /\ pc[a] # "ready" => file \in since[a]

\* The agent that hashes the witnesses of an entry.  At some moment of the call the
\* disk had not yet passed those witnesses, and it held each one found unchanged;
WitnessesSeen(a) ==
  \E f \in since[a] : \A p \in Reads[cmd[a]] :
    /\ Precedes(stored[a][p], f[p])
    /\ (~changed[a] /\ p \notin todo[a]) => stored[a][p] = f[p]

\* a change that was found is there to stay;
ChangeIsReal(a) ==
  changed[a] => \E p \in Reads[cmd[a]] : <<stored[a][p], file[p]>> \in Rewrites

\* the entry is still the one copied, if nobody stored under its key.
EntryIsTheOneHashed(a) ==
  (~replaced[a] /\ Has(cache, cmd[a])) =>
    Says(cache.entries[cmd[a]].text, cmd[a], stored[a])

HashingAgrees(a) ==
  pc[a] \in {"hash", "recheck"} =>
    /\ todo[a] \subseteq Reads[cmd[a]]
    /\ pc[a] = "recheck" => (changed[a] \/ todo[a] = {})
    /\ WitnessesSeen(a)
    /\ ChangeIsReal(a)
    /\ EntryIsTheOneHashed(a)

\* The agent that takes the digests of a command about to run.
DigestsPrecede(a) ==
  pc[a] = "digest" =>
    \A p \in Reads[cmd[a]] \ todo[a] : Precedes(before[a][p], file[p])

\* The agent whose command runs, or ran: digests taken before, the disk when the
\* command began, what it read, and the digests taken after, in that order.
RunIsBracketed(a) ==
  pc[a] \in {"run", "redigest", "store"} =>
    \E f \in past : \A p \in Reads[cmd[a]] :
      /\ Precedes(before[a][p], f[p])
      /\ ~(pc[a] = "run" /\ p \in todo[a]) =>
           Precedes(f[p], text[a][p]) /\ Precedes(text[a][p], file[p])
      /\ (pc[a] = "store" \/ (pc[a] = "redigest" /\ p \notin todo[a])) =>
           Precedes(text[a][p], after[a][p]) /\ Precedes(after[a][p], file[p])

\* The inductive invariant.  What was served is kept only until the call returns.
EchoInv ==
  /\ TypeOK
  /\ DiskMovesForward
  /\ \A a \in Agents : HashingAgrees(a) /\ DigestsPrecede(a) /\ RunIsBracketed(a)
  /\ \A a \in Agents : (changed[a] => pc[a] = "recheck") /\ (hit[a] => pc[a] = "done")
  /\ EntryIsSnapshot
  /\ HitIsCurrent
=============================================================================
