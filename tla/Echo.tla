------------------------------- MODULE Echo -------------------------------
(***************************************************************************)
(* The result cache of 12-echo (echo.go) and its only caller, runCommand   *)
(* (subagent.go).  One cache is shared, by pointer, by an agent and every  *)
(* subagent it starts; each of them runs commands concurrently with the    *)
(* others and with whoever else rewrites the files of the working tree.    *)
(*                                                                         *)
(* A path's content stands for its digest: sha256 tells any two contents   *)
(* apart, and a missing path has the digest "", one more content.  What a  *)
(* command prints is the content it found in each path it was given: that  *)
(* is all the cache may depend on.  The counters of cacheStats and the     *)
(* events of runCommand are left out.                                      *)
(***************************************************************************)
EXTENDS Integers, Sequences, FiniteSets, SequencesExt

CONSTANTS
  Agents,       \* the agents that share the cache and run at the same time
  Paths,        \* the files the commands name
  Contents,     \* the contents a file can have
  Blank,        \* the content shown for a path that was not read
  Commands,     \* the keys: one per command line that differs in keyOf
  Reads,        \* Reads[c]: the paths eligible() returns, {} when it refuses c
  Rewrites,     \* the pairs <<v, w>>: a file holding v may be rewritten to w
  Width,        \* Width[v]: the bytes a content adds to a rendered result
  MaxEntries,   \* --cache-entries, 0 for no bound
  MaxBytes,     \* --cache-bytes, 0 for no bound
  Expiring,     \* whether --cache-ttl is set
  NoEntry,      \* rc.entries has no such key
  Nobody        \* rc.mu is free

Texts == [Paths -> Contents]

Entry == [text : Texts, witnesses : Texts]

ASSUME EchoAssumption ==
  /\ Blank \in Contents
  /\ Reads \in [Commands -> SUBSET Paths]
  /\ \A c \in Commands : IsFiniteSet(Reads[c])
  /\ Rewrites \subseteq Contents \X Contents
  /\ Width \in [Contents -> Nat]
  /\ MaxEntries \in Nat /\ MaxBytes \in Nat
  /\ Expiring \in BOOLEAN
  /\ Nobody \notin Agents
  /\ NoEntry \notin Entry

VARIABLES
  file,       \* file[p]: what p holds on disk
  cache,      \* rc.entries, rc.order (front first) and rc.bytes
  mu,         \* who holds rc.mu across a step
  pc,         \* where each agent is in runCommand
  cmd,        \* the command it runs
  todo,       \* the paths of the present loop over paths still to be visited
  stored,     \* e.witnesses, copied under the lock before the hashing
  changed,    \* a witness differs from the disk (changed # "")
  before,     \* look.before
  text,       \* what the command printed, or what the entry said
  after       \* store's digests

\* History, read by no guard: every state the disk was in, the ones it was in
\* since each agent's call began, whether the text came from the cache, and
\* whether somebody stored under the agent's key while it was hashing.
VARIABLES past, since, hit, replaced

local == <<cmd, todo, stored, changed, before, text, after>>
history == <<past, since, hit, replaced>>
vars == <<file, cache, mu, pc, local, history>>

Nothing == [p \in Paths |-> Blank]

Phases == {"ready", "hash", "recheck", "digest", "run", "exited",
           "redigest", "store", "done"}

(***************************************************************************)
(* The LRU list                                                            *)
(***************************************************************************)
Empty == [entries |-> [c \in Commands |-> NoEntry], order |-> <<>>, bytes |-> 0]

Has(k, c) == k.entries[c] # NoEntry

Held(k) == {c \in Commands : Has(k, c)}

Size(t, c) == SumFunction([p \in Reads[c] |-> Width[t[p]]])

SizeIn(k, c) == Size(k.entries[c].text, c)

Weight(k, cs) == SumFunction([c \in cs |-> SizeIn(k, c)])

\* The list without the element of key c (e.el).
Unlinked(k, c) == RemoveAt(k.order, CHOOSE i \in DOMAIN k.order : k.order[i] = c)

Dropped(k, c) ==
  [entries |-> [k.entries EXCEPT ![c] = NoEntry],
   order   |-> Unlinked(k, c),
   bytes   |-> k.bytes - SizeIn(k, c)]

DroppedIfHeld(k, c) == IF Has(k, c) THEN Dropped(k, c) ELSE k

Pushed(k, c, e) ==
  [entries |-> [k.entries EXCEPT ![c] = e],
   order   |-> <<c>> \o k.order,
   bytes   |-> k.bytes + Size(e.text, c)]

Touched(k, c) ==
  [entries |-> k.entries, order |-> <<c>> \o Unlinked(k, c), bytes |-> k.bytes]

\* The cache after the last Len(k.order) - n entries of the list are dropped.
KeepFirst(k, n) ==
  LET gone == {k.order[i] : i \in n + 1 .. Len(k.order)}
  IN  [entries |-> [c \in Commands |-> IF c \in gone THEN NoEntry ELSE k.entries[c]],
       order   |-> SubSeq(k.order, 1, n),
       bytes   |-> k.bytes - Weight(k, gone)]

Fits(k) ==
  /\ MaxEntries > 0 => Len(k.order) <= MaxEntries
  /\ MaxBytes > 0 => k.bytes <= MaxBytes

\* Mutant of Evicted: `if` for `for`, at most one entry leaves.
EvictedOnce(k) == IF Fits(k) THEN k ELSE KeepFirst(k, Len(k.order) - 1)

\* The loop of store: entries leave from the back, one at a time, until what is
\* left fits or nothing is left.
Evicted(k) ==
  LET fitting == {n \in 0 .. Len(k.order) : n = 0 \/ Fits(KeepFirst(k, n))}
  IN  KeepFirst(k, CHOOSE n \in fitting : \A m \in fitting : m <= n)

(***************************************************************************)
(* runCommand, as agent a goes through it                                  *)
(***************************************************************************)
Init ==
  /\ file \in [Paths -> Contents]
  /\ cache = Empty
  /\ mu = Nobody
  /\ pc = [a \in Agents |-> "ready"]
  /\ cmd \in [Agents -> Commands]
  /\ todo = [a \in Agents |-> {}]
  /\ changed = [a \in Agents |-> FALSE]
  /\ stored = [a \in Agents |-> Nothing]
  /\ before = [a \in Agents |-> Nothing]
  /\ text = [a \in Agents |-> Nothing]
  /\ after = [a \in Agents |-> Nothing]
  /\ past = {file}
  /\ since = [a \in Agents |-> {}]
  /\ hit = [a \in Agents |-> FALSE]
  /\ replaced = [a \in Agents |-> FALSE]

Go(a, from, to) == pc[a] = from /\ pc' = [pc EXCEPT ![a] = to]

\* rc.mu can be taken.  A step that takes it and gives it back leaves mu alone.
Free == mu = Nobody

Ask(a, c, to) ==
  /\ Go(a, "ready", to)
  /\ cmd' = [cmd EXCEPT ![a] = c]
  /\ since' = [since EXCEPT ![a] = {file}]
  /\ UNCHANGED <<file, mu, changed, before, text, after, past, hit, replaced>>

Visit(a, paths) == todo' = [todo EXCEPT ![a] = paths]

\* eligible() refuses the command: no key, no digests, and it runs.
LookupRefused(a, c) ==
  /\ Reads[c] = {} /\ Free
  /\ Ask(a, c, "run")
  /\ UNCHANGED <<cache, todo, stored>>

\* No entry.  The lock is given back before the digests are taken.
LookupMiss(a, c) ==
  /\ Reads[c] # {} /\ Free /\ ~Has(cache, c)
  /\ Ask(a, c, "digest")
  /\ Visit(a, Reads[c])
  /\ UNCHANGED <<cache, stored>>

\* An entry older than --cache-ttl; how much time has passed is not modelled.
LookupExpired(a, c) ==
  /\ Reads[c] # {} /\ Free /\ Has(cache, c) /\ Expiring
  /\ Ask(a, c, "digest")
  /\ cache' = Dropped(cache, c)
  /\ Visit(a, Reads[c])
  /\ UNCHANGED stored

\* An entry: its witnesses are copied and hashed without the lock.
LookupHave(a, c) ==
  /\ Reads[c] # {} /\ Free /\ Has(cache, c)
  /\ Ask(a, c, "hash")
  /\ stored' = [stored EXCEPT ![a] = cache.entries[c].witnesses]
  /\ Visit(a, Reads[c])
  /\ UNCHANGED cache

\* Mutant of HashWitness: only the first witness is compared.
HashFirstWitness(a) ==
  /\ pc[a] = "hash"
  /\ \E p \in todo[a] : changed' = [changed EXCEPT ![a] = file[p] # stored[a][p]]
  /\ Visit(a, {})
  /\ pc' = [pc EXCEPT ![a] = "recheck"]
  /\ UNCHANGED <<file, cache, mu, cmd, stored, before, text, after, history>>

\* One turn of the loop that hashes the witnesses; it stops at the first change.
HashWitness(a) ==
  /\ pc[a] = "hash"
  /\ \E p \in todo[a] :
       LET differs == file[p] # stored[a][p]
           left == IF differs THEN {} ELSE todo[a] \ {p}
       IN  /\ changed' = [changed EXCEPT ![a] = differs]
           /\ Visit(a, left)
           /\ pc' = [pc EXCEPT ![a] = IF left = {} THEN "recheck" ELSE "hash"]
  /\ UNCHANGED <<file, cache, mu, cmd, stored, before, text, after, history>>

\* The second critical section.  The entry may be gone, may be dropped as stale,
\* or may by now be another agent's entry for the same key.
Recheck(a, to) ==
  /\ Free
  /\ Go(a, "recheck", to)
  /\ stored' = [stored EXCEPT ![a] = Nothing]
  /\ changed' = [changed EXCEPT ![a] = FALSE]
  /\ UNCHANGED <<file, cmd, before, after, past, since, replaced>>

\* The digests of both these returns are taken before the deferred unlock.
RecheckGone(a) ==
  /\ ~Has(cache, cmd[a])
  /\ Recheck(a, "digest")
  /\ mu' = a
  /\ Visit(a, Reads[cmd[a]])
  /\ UNCHANGED <<cache, text, hit>>

\* Mutant of RecheckStale: an entry that is still there is dropped either way.
RecheckDrops(a) ==
  /\ Has(cache, cmd[a])
  /\ Recheck(a, "digest")
  /\ mu' = a
  /\ cache' = Dropped(cache, cmd[a])
  /\ Visit(a, Reads[cmd[a]])
  /\ UNCHANGED <<text, hit>>

RecheckStale(a) ==
  /\ Has(cache, cmd[a]) /\ changed[a]
  /\ Recheck(a, "digest")
  /\ mu' = a
  /\ cache' = Dropped(cache, cmd[a])
  /\ Visit(a, Reads[cmd[a]])
  /\ UNCHANGED <<text, hit>>

RecheckHit(a) ==
  /\ Has(cache, cmd[a]) /\ ~changed[a]
  /\ Recheck(a, "done")
  /\ cache' = Touched(cache, cmd[a])
  /\ text' = [text EXCEPT ![a] = cache.entries[cmd[a]].text]
  /\ hit' = [hit EXCEPT ![a] = TRUE]
  /\ UNCHANGED <<mu, todo>>

\* Mutant of DigestBefore: no deferred unlock.
DigestKeepsLock(a) ==
  /\ pc[a] = "digest"
  /\ \E p \in todo[a] :
       LET left == todo[a] \ {p} IN
       /\ before' = [before EXCEPT ![a][p] = file[p]]
       /\ Visit(a, IF left = {} THEN Reads[cmd[a]] ELSE left)
       /\ pc' = [pc EXCEPT ![a] = IF left = {} THEN "run" ELSE "digest"]
  /\ UNCHANGED <<file, cache, mu, cmd, stored, changed, text, after, history>>

\* digestAll(paths) of lookup; the lock, if it was kept, goes with the last one.
DigestBefore(a) ==
  /\ pc[a] = "digest"
  /\ \E p \in todo[a] :
       LET left == todo[a] \ {p} IN
       /\ before' = [before EXCEPT ![a][p] = file[p]]
       /\ Visit(a, IF left = {} THEN Reads[cmd[a]] ELSE left)
       /\ pc' = [pc EXCEPT ![a] = IF left = {} THEN "run" ELSE "digest"]
       /\ mu' = IF left = {} /\ mu = a THEN Nobody ELSE mu
  /\ UNCHANGED <<file, cache, cmd, stored, changed, text, after, history>>

\* runBash: the command reads its files one after the other.
RunRead(a) ==
  /\ pc[a] = "run"
  /\ \E p \in todo[a] :
       /\ text' = [text EXCEPT ![a][p] = file[p]]
       /\ Visit(a, todo[a] \ {p})
  /\ UNCHANGED <<file, cache, mu, pc, cmd, stored, changed, before, after, history>>

\* It succeeds, having read everything.  Without a key nothing is stored.
RunSucceeds(a) ==
  /\ todo[a] = {}
  /\ Go(a, "run", IF Reads[cmd[a]] = {} THEN "done" ELSE "redigest")
  /\ Visit(a, Reads[cmd[a]])
  /\ UNCHANGED <<file, cache, mu, cmd, stored, changed, before, text, after, history>>

\* A non-zero exit, a timeout, a cancellation or an unreaped process, at any
\* point of the reading: the result goes to the model and never to the cache.
RunFails(a) ==
  /\ Go(a, "run", "done")
  /\ Visit(a, {})
  /\ UNCHANGED <<file, cache, mu, cmd, stored, changed, before, text, after, history>>

\* store's digestAll.
DigestAfter(a) ==
  /\ pc[a] = "redigest"
  /\ \E p \in todo[a] :
       LET left == todo[a] \ {p} IN
       /\ after' = [after EXCEPT ![a][p] = file[p]]
       /\ Visit(a, left)
       /\ pc' = [pc EXCEPT ![a] = IF left = {} THEN "store" ELSE "redigest"]
  /\ UNCHANGED <<file, cache, mu, cmd, stored, changed, before, text, history>>

\* A file changed under the command: the text describes nothing.
StoreRefused(a) ==
  /\ after[a] # before[a]
  /\ Go(a, "store", "done")
  /\ UNCHANGED <<file, cache, mu, local, history>>

\* Mutant of Stored: an old entry left on the list.
StoredTwice(k, a) ==
  LET e == [text |-> text[a], witnesses |-> after[a]]
  IN  Evicted(Pushed(k, cmd[a], e))

Stored(k, a) ==
  LET e == [text |-> text[a], witnesses |-> after[a]]
  IN  Evicted(Pushed(DroppedIfHeld(k, cmd[a]), cmd[a], e))

\* Mutant of StoreKept: the two sets of digests are not compared.
StoreAlways(a) ==
  /\ Free
  /\ Go(a, "store", "done")
  /\ cache' = Stored(cache, a)
  /\ replaced' = [b \in Agents |->
       replaced[b] \/ (pc[b] \in {"hash", "recheck"} /\ cmd[b] = cmd[a])]
  /\ UNCHANGED <<file, mu, local, past, since, hit>>

StoreKept(a) ==
  /\ Free
  /\ after[a] = before[a]
  /\ Go(a, "store", "done")
  /\ cache' = Stored(cache, a)
  /\ replaced' = [b \in Agents |->
       replaced[b] \/ (pc[b] \in {"hash", "recheck"} /\ cmd[b] = cmd[a])]
  /\ UNCHANGED <<file, mu, local, past, since, hit>>

\* runCommand returns text[a]; the next command starts from nothing.
Return(a) ==
  /\ Go(a, "done", "ready")
  /\ before' = [before EXCEPT ![a] = Nothing]
  /\ text' = [text EXCEPT ![a] = Nothing]
  /\ after' = [after EXCEPT ![a] = Nothing]
  /\ since' = [since EXCEPT ![a] = {}]
  /\ hit' = [hit EXCEPT ![a] = FALSE]
  /\ replaced' = [replaced EXCEPT ![a] = FALSE]
  /\ UNCHANGED <<file, cache, mu, cmd, todo, stored, changed, past>>

\* Somebody rewrites a file: the user, an editor, a build, or a command that the
\* cache refused because it writes.
Rewrite(p) ==
  /\ \E v \in Contents :
       /\ <<file[p], v>> \in Rewrites
       /\ file' = [file EXCEPT ![p] = v]
  /\ past' = past \cup {file'}
  /\ since' = [a \in Agents |-> IF since[a] = {} THEN {} ELSE since[a] \cup {file'}]
  /\ UNCHANGED <<cache, mu, pc, local, hit, replaced>>

Lookup(a) == \E c \in Commands :
  LookupRefused(a, c) \/ LookupMiss(a, c) \/ LookupExpired(a, c) \/ LookupHave(a, c)

Unlocked(a) ==
  \/ HashWitness(a) \/ DigestBefore(a) \/ RunRead(a) \/ RunSucceeds(a)
  \/ RunFails(a) \/ DigestAfter(a) \/ StoreRefused(a) \/ Return(a)

Locking(a) == RecheckGone(a) \/ RecheckStale(a) \/ RecheckHit(a) \/ StoreKept(a)

Step(a) == Lookup(a) \/ Unlocked(a) \/ Locking(a)

Next == (\E a \in Agents : Step(a)) \/ (\E p \in Paths : Rewrite(p))

\* An agent in the middle of a call goes on: goroutines are scheduled, and a
\* sync.Mutex hands itself over to a waiter that starves.  Nobody has to ask for
\* a command or to rewrite a file.
Fairness == \A a \in Agents : WF_vars(Unlocked(a)) /\ SF_vars(Locking(a))

Spec == Init /\ [][Next]_vars /\ Fairness

(***************************************************************************)
(* Properties                                                              *)
(***************************************************************************)
TypeOK ==
  /\ file \in Texts
  /\ cache.entries \in [Commands -> Entry \cup {NoEntry}]
  /\ mu \in Agents \cup {Nobody}
  /\ pc \in [Agents -> Phases]
  /\ cmd \in [Agents -> Commands]
  /\ todo \in [Agents -> SUBSET Paths]
  /\ changed \in [Agents -> BOOLEAN]
  /\ stored \in [Agents -> Texts]
  /\ before \in [Agents -> Texts]
  /\ text \in [Agents -> Texts]
  /\ after \in [Agents -> Texts]
  /\ past \in SUBSET Texts
  /\ since \in [Agents -> SUBSET Texts]
  /\ hit \in [Agents -> BOOLEAN]
  /\ replaced \in [Agents -> BOOLEAN]

\* Does text t say what the files of command c held when the disk was in state f?
Says(t, c, f) == \A p \in Reads[c] : t[p] = f[p]

\* The map, the list and the byte count of resultCache describe the same entries
\* whatever sequence of stores, expiries, stale drops, hits and evictions led here
\* (echo.go 423-438): each key held is on the list exactly once.
LRUConsistent ==
  /\ ToSet(cache.order) = Held(cache)
  /\ Len(cache.order) = Cardinality(Held(cache))
  /\ cache.bytes = Weight(cache, Held(cache))

\* Both bounds of resultCache hold whenever the lock is free (echo.go 155-160), a
\* result larger than the whole budget included.
WithinBudget == Fits(cache)

\* A stored text is an answer: all the files it was read from held what it says,
\* and what its witnesses say, at one and the same moment.  A text torn by a
\* rewrite during the command is never kept (echo.go 368-381).
EntryIsSnapshot ==
  \A c \in Commands : Has(cache, c) =>
    \E f \in past : /\ Says(cache.entries[c].text, c, f)
                     /\ Says(cache.entries[c].witnesses, c, f)

\* What a hit hands to the model is what its files held, all at once, at a moment
\* of the call, provided nobody stored under the same key during the hashing:
\* the recheck of lookup (echo.go 310-325) looks only for a key.
HitIsCurrent ==
  \A a \in Agents : hit[a] /\ ~replaced[a] =>
    \E f \in since[a] : Says(text[a], cmd[a], f)

\* What a hit says of a path, the path held at some moment of the call, as it would
\* had the command run: "its failure mode is one wasted lookup rather than a wrong
\* answer" (echo.go 299-301).
AnswerIsRegular ==
  \A a \in Agents : hit[a] =>
    \A p \in Reads[cmd[a]] : \E f \in since[a] : text[a][p] = f[p]

\* A lookup whose key nobody stored under in the meantime drops as stale only an
\* entry that the disk really contradicts: a good entry is not thrown away.
StaleDropIsEarned ==
  [][\A a \in Agents : RecheckStale(a) /\ ~replaced[a] =>
       ~Says(cache.entries[cmd[a]].text, cmd[a], file)]_vars

\* Every runCommand comes back, whatever the others do with the lock, the cache
\* and the files.
CallReturns == \A a \in Agents : pc[a] # "ready" ~> pc[a] = "ready"
=============================================================================
