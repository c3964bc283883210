---------------------------- MODULE StreamProofs ----------------------------
(***************************************************************************)
(* Proofs about Stream, for every set of calls, every text they carry and  *)
(* every way of cutting, repeating and losing the frames.                  *)
(*                                                                         *)
(* First what mergeArgs makes of a slice of a text in each dialect, then   *)
(* types, then the invariant action by action: an action delivers one      *)
(* frame to one accumulator, so each lemma proves CallInv of that call and *)
(* OthersKept carries it for the rest.                                     *)
(***************************************************************************)
EXTENDS Stream, SequenceTheorems, FiniteSetTheorems, WellFoundedInduction, TLAPS

\* Induction on the naturals, over a set: the library states it over an operator.
LEMMA ByInduction ==
  ASSUME NEW S, 0 \in S, \A n \in Nat : n \in S => n + 1 \in S
  PROVE  Nat \subseteq S
<1> SUFFICES ASSUME Nat \ S # {} PROVE FALSE
  OBVIOUS
<1> DEFINE R == OpToRel(<, Nat)
<1>1. IsWellFoundedOn(R, Nat)
  BY NatLessThanWellFounded
<1>2. \A x, y \in Nat : x < y => <<x, y>> \in R
  BY DEF OpToRel
<1> HIDE DEF R
<1>3. PICK x \in Nat \ S : \A y \in Nat \ S : ~ (<<y, x>> \in R)
  BY <1>1, WFMin
<1>4. x # 0 /\ x - 1 \in Nat /\ x - 1 < x /\ (x - 1) + 1 = x
  OBVIOUS
<1>5. <<x - 1, x>> \in R
  BY <1>2, <1>4, Zenon
<1>6. x - 1 \in S
  BY <1>3, <1>4, <1>5, Zenon
<1> QED
  BY <1>3, <1>4, <1>6

\* A set of naturals has a least element.
LEMMA LeastOf ==
  ASSUME NEW F \in SUBSET Nat, F # {}
  PROVE  \E n \in F : \A x \in F : n <= x
<1> SUFFICES ASSUME \A n \in F : \E x \in F : ~(n <= x) PROVE FALSE
  OBVIOUS
<1> DEFINE I == {j \in Nat : \A x \in F : j <= x}
<1>1. 0 \in I
  OBVIOUS
<1>2. ASSUME NEW j \in Nat, j \in I PROVE j + 1 \in I
  <2>1. \A x \in F : j <= x /\ x # j
    BY <1>2
  <2> QED
    BY <2>1
<1> HIDE DEF I
<1>3. PICK x \in F : x \in Nat
  OBVIOUS
<1>4. x + 1 \in I
  BY <1>1, <1>2, ByInduction
<1> QED
  BY <1>3, <1>4 DEF I

LEMMA LenIs ==
  ASSUME NEW n \in Nat, NEW s, s = [k \in 1 .. n |-> s[k]]
  PROVE  Len(s) = n /\ DOMAIN s = 1 .. n
<1> DEFINE S == {s[k] : k \in 1 .. n}
<1>1. s \in [1 .. n -> S]
  OBVIOUS
<1> HIDE DEF S
<1>2. s \in Seq(S) /\ DOMAIN s = 1 .. n
  BY <1>1, SeqDef
<1> QED
  BY <1>2, LenProperties

Strings == Seq(Letters \cup {Open, Close, Raw})

\* What StreamAssumption says of a text, in the form the leaves use.
LEMMA TextFacts ==
  ASSUME NEW c \in Calls
  PROVE  /\ Text[c] \in Seq(Letters \cup {Open, Close}) /\ Text[c] \in Strings
         /\ Len(Text[c]) \in Nat /\ Len(Text[c]) >= 3
         /\ Text[c][1] = Open /\ Text[c][Len(Text[c])] = Close
         /\ \A k \in 2 .. Len(Text[c]) - 1 : Text[c][k] \notin {Open, Close}
         /\ \A k \in 1 .. Len(Text[c]) : Text[c][k] \in Letters \cup {Open, Close, Raw}
<1>1. Text[c] \in Seq(Letters \cup {Open, Close}) /\ Valid(Text[c]) /\ Len(Text[c]) >= 3
  BY StreamAssumption
<1>2. Text[c] \in Strings
  BY <1>1, SeqMonotonic, Letters \cup {Open, Close} \subseteq Letters \cup {Open, Close, Raw} DEF Strings
<1>3. Len(Text[c]) \in Nat /\ \A k \in 1 .. Len(Text[c]) : Text[c][k] \in Letters \cup {Open, Close}
  BY <1>1, LenProperties, ElementOfSeq
<1> QED
  BY <1>1, <1>2, <1>3 DEF Valid

LEMMA Slice ==
  ASSUME NEW c \in Calls, NEW m \in Nat \ {0}, NEW n \in 0 .. Len(Text[c])
  PROVE  /\ SubSeq(Text[c], m, n) \in Strings
         /\ Len(SubSeq(Text[c], m, n)) = IF m <= n THEN n - m + 1 ELSE 0
         /\ \A k \in 1 .. n - m + 1 : SubSeq(Text[c], m, n)[k] = Text[c][m + k - 1]
<1> DEFINE L == Letters \cup {Open, Close, Raw}
<1>1. \A i \in m .. n : Text[c][i] \in L
  BY TextFacts
<1>2. m \in Int /\ n \in Int
  BY TextFacts
<1> HIDE DEF L
<1>3. /\ SubSeq(Text[c], m, n) \in Seq(L)
      /\ Len(SubSeq(Text[c], m, n)) = IF m <= n THEN n - m + 1 ELSE 0
      /\ \A k \in 1 .. n - m + 1 : SubSeq(Text[c], m, n)[k] = Text[c][m + k - 1]
  BY <1>1, <1>2, SubSeqProperties
<1> QED
  BY <1>3 DEF L, Strings

\* No proper prefix of a whole value is whole: what makes Valid a terminal state.
LEMMA PrefixWhole ==
  ASSUME NEW c \in Calls, NEW n \in 0 .. Len(Text[c]), Valid(SubSeq(Text[c], 1, n))
  PROVE  n = Len(Text[c])
<1>1. Len(SubSeq(Text[c], 1, n)) = n /\ \A k \in 1 .. n : SubSeq(Text[c], 1, n)[k] = Text[c][k]
  BY Slice, TextFacts
<1>2. n >= 2 /\ Text[c][n] = Close
  BY <1>1, TextFacts DEF Valid
<1> QED
  BY <1>2, TextFacts

LEMMA MergeOfNothing ==
  ASSUME NEW frag
  PROVE  Merge(<<>>, frag) = frag
BY DEF Merge

LEMMA PrefixFacts ==
  ASSUME NEW c \in Calls, NEW m \in 1 .. Len(Text[c])
  PROVE  /\ SubSeq(Text[c], 1, m) # <<>> /\ SubSeq(Text[c], 1, m)[1] = Open
         /\ m < Len(Text[c]) => ~Valid(SubSeq(Text[c], 1, m))
<1>1. Len(SubSeq(Text[c], 1, m)) = m /\ SubSeq(Text[c], 1, m)[1] = Text[c][1]
  BY Slice, TextFacts
<1>2. m < Len(Text[c]) => ~Valid(SubSeq(Text[c], 1, m))
  BY PrefixWhole
<1> QED
  BY <1>1, <1>2, TextFacts

LEMMA Adjacent ==
  ASSUME NEW c \in Calls, NEW m \in 0 .. Len(Text[c]), NEW n \in m + 1 .. Len(Text[c])
  PROVE  SubSeq(Text[c], 1, m) \o SubSeq(Text[c], m + 1, n) = SubSeq(Text[c], 1, n)
<1>0. m \in Nat /\ n \in 1 .. Len(Text[c]) /\ m < Len(Text[c]) /\ m < n
  BY TextFacts
<1> QED
  BY <1>0, TextFacts, ConcatAdjacentSubSeq

\* The incremental dialect: the fragment after the m-th letter is appended.
LEMMA MergeIncremental ==
  ASSUME NEW c \in Calls, NEW m \in 0 .. Len(Text[c]), NEW n \in m + 1 .. Len(Text[c])
  PROVE  Merge(SubSeq(Text[c], 1, m), SubSeq(Text[c], m + 1, n)) = SubSeq(Text[c], 1, n)
<1> DEFINE have == SubSeq(Text[c], 1, m)
           frag == SubSeq(Text[c], m + 1, n)
<1>0. m \in Nat /\ n \in 1 .. Len(Text[c]) /\ m < Len(Text[c]) /\ m < n
  BY TextFacts
<1>1. CASE m = 0
  <2>1. have = <<>>
    BY <1>1, SubSeqEmpty
  <2>2. m + 1 = 1
    BY <1>1
  <2> QED
    BY <2>1, <2>2, MergeOfNothing
<1>2. CASE m # 0
  <2>1. Len(frag) = n - m /\ frag[1] = Text[c][m + 1] /\ Len(frag) >= 1
    BY <1>0, Slice
  <2>2. frag # <<>> /\ frag[1] # Open
    BY SMTT(30), <1>0, <1>2, <2>1, TextFacts DEF Open, Close
  <2>3. have # <<>> /\ have[1] = Open /\ ~Valid(have) /\ have \in Strings /\ Len(have) = m
    BY <1>0, <1>2, PrefixFacts, Slice
  <2>4. ~IsPrefix(have, frag)
    <3> SUFFICES ASSUME IsPrefix(have, frag) PROVE FALSE
      OBVIOUS
    <3>1. m <= Len(frag) /\ SubSeq(have, 1, m) = SubSeq(frag, 1, m)
      BY <2>3 DEF IsPrefix
    <3>2. SubSeq(have, 1, m)[1] = have[1] /\ SubSeq(frag, 1, m)[1] = frag[1]
      BY <1>0, <1>2, <2>3, <3>1, Slice, SMT
    <3> QED
      BY <2>2, <2>3, <3>1, <3>2
  <2>5. have \o frag = SubSeq(Text[c], 1, n)
    BY Adjacent
  <2> QED
    BY <2>2, <2>3, <2>4, <2>5 DEF Merge
<1> QED
  BY <1>1, <1>2

\* The cumulative dialect: the longer prefix replaces the shorter.
LEMMA MergeCumulative ==
  ASSUME NEW c \in Calls, NEW m \in 0 .. Len(Text[c]), NEW n \in m + 1 .. Len(Text[c])
  PROVE  Merge(SubSeq(Text[c], 1, m), SubSeq(Text[c], 1, n)) = SubSeq(Text[c], 1, n)
<1> DEFINE have == SubSeq(Text[c], 1, m)
           frag == SubSeq(Text[c], 1, n)
<1>0. m \in Nat /\ n \in 1 .. Len(Text[c]) /\ m < Len(Text[c]) /\ m < n
  BY TextFacts
<1>1. CASE m = 0
  <2>1. have = <<>>
    BY <1>1, SubSeqEmpty
  <2> QED
    BY <2>1, MergeOfNothing
<1>2. CASE m # 0
  <2>1. frag # <<>> /\ have # <<>> /\ ~Valid(have)
    BY <1>0, <1>2, PrefixFacts
  <2>2. /\ Len(have) = m /\ Len(frag) = n /\ have \in Strings /\ frag \in Strings
        /\ \A k \in 1 .. m : have[k] = Text[c][k] /\ frag[k] = Text[c][k]
    BY <1>0, Slice
  <2>3. SubSeq(have, 1, m) = have
    BY <2>2, SubSeqFull DEF Strings
  <2>4. SubSeq(frag, 1, m) = have
    BY <1>0, <1>2, TextFacts, SubSeqOfSubSeq
  <2>5. IsPrefix(have, frag)
    BY <1>0, <2>2, <2>3, <2>4 DEF IsPrefix
  <2> QED
    BY <2>1, <2>5 DEF Merge
<1> QED
  BY <1>1, <1>2

\* The re-send dialect: neither the value again nor a cut re-send changes it.
LEMMA MergeResend ==
  ASSUME NEW c \in Calls, NEW n \in 1 .. Len(Text[c])
  PROVE  Merge(Text[c], SubSeq(Text[c], 1, n)) = Text[c]
<1>1. Valid(Text[c]) /\ Text[c] # <<>> /\ SubSeq(Text[c], 1, Len(Text[c])) = Text[c]
  BY StreamAssumption, TextFacts, SubSeqFull
<1>2. SubSeq(Text[c], 1, n) # <<>>
  BY PrefixFacts
<1>3. Valid(SubSeq(Text[c], 1, n)) => n = Len(Text[c])
  BY PrefixWhole, TextFacts
<1> QED
  BY <1>1, <1>2, <1>3 DEF Merge

LEMMA MergeType ==
  ASSUME NEW have \in Strings, NEW frag \in Strings
  PROVE  Merge(have, frag) \in Strings
<1>1. have \o frag \in Strings
  BY ConcatProperties DEF Strings
<1> QED
  BY <1>1 DEF Merge

LEMMA MergeKeepsWhole ==
  ASSUME NEW have \in Strings, NEW frag \in Strings, Valid(have)
  PROVE  Valid(Merge(have, frag))
<1>1. have # <<>>
  BY DEF Valid
<1> QED
  BY <1>1 DEF Merge

-----------------------------------------------------------------------------
(* Types *)

Acc == [kind : {"absent", "text", "tool_use"}, id : Calls \cup {NoId},
        args : Strings, starts : 0 .. 1]

LEMMA ChunkType ==
  ASSUME NEW a \in Acc, NEW id \in Calls \cup {NoId}, NEW frag \in Strings
  PROVE  Chunk(a, id, frag) \in Acc
<1>1. Merge(a.args, frag) \in Strings
  BY MergeType DEF Acc
<1>2. Latched(a.id, id) \in Calls \cup {NoId}
  BY DEF Acc, Latched
<1>3. Announcements(a, Latched(a.id, id)) \in 0 .. 1
  BY DEF Acc, Announcements
<1> QED
  BY <1>1, <1>2, <1>3 DEF Acc, Chunk

LEMMA BlockStartType ==
  ASSUME NEW a \in Acc, a.starts = 0, NEW id \in Calls \cup {NoId}, NEW kind \in {"text", "tool_use"}
  PROVE  BlockStart(a, kind, id) \in Acc
<1>1. Latched(a.id, id) \in Calls \cup {NoId}
  BY DEF Acc, Latched
<1>2. a.starts + (IF kind = "tool_use" THEN 1 ELSE 0) \in 0 .. 1
  OBVIOUS
<1> QED
  BY <1>1, <1>2 DEF Acc, BlockStart

LEMMA InputDeltaType ==
  ASSUME NEW a \in Acc, NEW frag \in Strings
  PROVE  InputDelta(a, frag) \in Acc
<1>1. a.args \o frag \in Strings
  BY ConcatProperties DEF Acc, Strings
<1> QED
  BY <1>1 DEF Acc, InputDelta

LEMMA FragmentType ==
  ASSUME NEW c \in Calls, NEW m \in 0 .. Len(Text[c]), NEW n \in m .. Len(Text[c])
  PROVE  Fragment(c, m, n) \in Strings
<1>1. n \in 0 .. Len(Text[c]) /\ m + 1 \in Nat \ {0}
  BY TextFacts
<1>2. SubSeq(Text[c], 1, n) \in Strings /\ SubSeq(Text[c], m + 1, n) \in Strings
  BY <1>1, Slice
<1> QED
  BY <1>2 DEF Fragment

LEMMA DeliverType ==
  ASSUME TypeOK, NEW b \in Blocks, NEW new \in Acc, Deliver(b, new)
  PROVE  accs' \in [Blocks -> Acc] /\ rawStop' = rawStop /\ hit' \subseteq Blocks \cup {EndFrame}
BY DEF TypeOK, Deliver, Acc, Strings

\* What is said of one call, and of one block of prose.
CallInv(c) ==
  /\ accs[c].starts = (IF accs[c].id # NoId THEN 1 ELSE 0)
  /\ c \notin hit \cup cut /\ sent[c] # NoId =>
       /\ accs[c].kind = "tool_use" /\ accs[c].id = c
       /\ accs[c].args = SubSeq(Text[c], 1, sent[c])
  /\ Consistent(c)

ProseInv(b) == accs[b].kind # "tool_use" /\ accs[b].id = NoId /\ accs[b].starts = 0

LEMMA InvByBlock ==
  StreamInv <=> /\ \A c \in Calls : CallInv(c)
                /\ \A b \in Prose : ProseInv(b)
                /\ wire = "anthropic" => \A c \in Calls : dialect[c] = "incremental"
BY DEF StreamInv, CallInv, ProseInv, AnnouncedOnce, HeldAsWritten, Blocks

LEMMA Ids ==
  /\ NoId \notin Calls
  /\ \A c \in Calls : c \in Blocks /\ c \notin Prose /\ c # EndFrame
  /\ \A b \in Prose : b \in Blocks /\ b \notin Calls /\ b # EndFrame
BY StreamAssumption DEF NoId, EndFrame, Blocks

\* The parts of the state that are a call's own.
Same(c) ==
  /\ accs'[c] = accs[c] /\ sent'[c] = sent[c] /\ wire' = wire
  /\ (c \in hit' <=> c \in hit) /\ (c \in cut' <=> c \in cut) /\ (c \in resent' => c \in resent)

LEMMA SameKeeps ==
  ASSUME NEW c \in Calls, CallInv(c), Same(c)
  PROVE  CallInv(c)'
BY DEF CallInv, Consistent, Same

LEMMA InitHolds == Init => TypeOK /\ StreamInv
<1> SUFFICES ASSUME Init PROVE TypeOK /\ StreamInv
  OBVIOUS
<1>1. <<>> \in Seq(Letters \cup {Open, Close, Raw})
  BY EmptySeq
<1>2. NoBlock \in Acc
  BY <1>1 DEF NoBlock, Acc, Strings
<1>2a. accs \in [Blocks -> Acc] /\ sent \in [Calls -> Nat \cup {NoId}]
  BY <1>2 DEF Init
<1>2b. TypeOK
  BY <1>2a DEF Init, TypeOK, Acc, Strings
<1>2c. \A k \in DOMAIN <<>> : FALSE
  OBVIOUS
<1>3. \A c \in Calls : CallInv(c)
  <2> SUFFICES ASSUME NEW c \in Calls PROVE CallInv(c)
    OBVIOUS
  <2>1. accs[c] = NoBlock /\ sent[c] = NoId /\ cut = {} /\ resent = {}
    BY Ids DEF Init
  <2>2. NoBlock.id = NoId /\ NoBlock.starts = 0 /\ NoBlock.args = <<>>
    BY DEF NoBlock
  <2> QED
    BY <1>2c, <2>1, <2>2 DEF CallInv, Consistent, NoId
<1>4. \A b \in Prose : ProseInv(b)
  BY Ids DEF Init, ProseInv, NoBlock
<1> QED
  BY <1>2b, <1>3, <1>4, InvByBlock DEF Init

LEMMA Delivered ==
  ASSUME TypeOK, NEW b \in Blocks, NEW new, Deliver(b, new)
  PROVE  /\ \/ accs'[b] = new /\ (b \in hit' <=> b \in hit)
            \/ accs'[b] = accs[b] /\ b \in hit'
         /\ \A d \in Blocks \ {b} : accs'[d] = accs[d] /\ (d \in hit' <=> d \in hit)
BY DEF TypeOK, Deliver

LEMMA OthersKept ==
  ASSUME TypeOK, StreamInv, NEW b \in Blocks, NEW new, Deliver(b, new), wire' = wire, dialect' = dialect,
         \A d \in Calls \ {b} : /\ sent'[d] = sent[d] /\ (d \in cut' <=> d \in cut)
                               /\ (d \in resent' => d \in resent),
         b \in Calls => CallInv(b)', b \in Prose => ProseInv(b)'
  PROVE  StreamInv'
<1>1. /\ \A c \in Calls : CallInv(c)
      /\ \A d \in Prose : ProseInv(d)
      /\ wire = "anthropic" => \A c \in Calls : dialect[c] = "incremental"
  BY InvByBlock
<1>2. \A d \in Blocks \ {b} : accs'[d] = accs[d] /\ (d \in hit' <=> d \in hit)
  BY Delivered
<1>3. ASSUME NEW c \in Calls PROVE CallInv(c)'
  <2>1. CASE c = b
    BY <2>1
  <2>2. CASE c # b
    <3>1. Same(c)
      BY <2>2, <1>2, Ids DEF Same
    <3> QED
      BY <3>1, <1>1, SameKeeps
  <2> QED
    BY <2>1, <2>2
<1>4. ASSUME NEW d \in Prose PROVE ProseInv(d)'
  <2>1. d # b => accs'[d] = accs[d]
    BY <1>2, Ids
  <2> QED
    BY <2>1, <1>1 DEF ProseInv
<1>5. wire' = "anthropic" => \A c \in Calls : dialect'[c] = "incremental"
  BY <1>1
<1>6. (\A c \in Calls : CallInv(c)') /\ (\A d \in Prose : ProseInv(d)')
  BY <1>3, <1>4
<1> QED
  BY <1>5, <1>6 DEF StreamInv, CallInv, ProseInv, AnnouncedOnce, HeldAsWritten, Blocks

LEMMA OpenAIBeginKeeps ==
  ASSUME TypeOK, StreamInv, NEW c \in Calls, OpenAIBegin(c)
  PROVE  TypeOK' /\ StreamInv'
<1>1. PICK n \in 0 .. Len(Text[c]) :
        /\ sent' = [sent EXCEPT ![c] = n]
        /\ Deliver(c, Chunk(accs[c], c, Fragment(c, 0, n)))
  BY DEF OpenAIBegin
<1> DEFINE new == Chunk(accs[c], c, Fragment(c, 0, n))
<1>2. wire = "openai" /\ sent[c] = NoId /\ UNCHANGED <<wire, dialect, cut, resent, said, conn>>
  BY DEF OpenAIBegin
<1>3. CallInv(c) /\ accs[c] = NoBlock
  BY <1>2, InvByBlock DEF CallInv, Consistent
<1>0. n \in Nat /\ n # NoId /\ NoId # Len(Text[c])
  BY TextFacts DEF NoId
<1>4. Fragment(c, 0, n) = SubSeq(Text[c], 1, n) /\ Fragment(c, 0, n) \in Strings
  BY TextFacts, FragmentType DEF Fragment
<1>5. new = [kind |-> "tool_use", id |-> c, args |-> SubSeq(Text[c], 1, n), starts |-> 1]
  BY <1>3, <1>4, MergeOfNothing, Ids DEF Chunk, Latched, Announcements, NoBlock
<1>6. TypeOK'
  <2>1. new \in Acc
    BY <1>4, <1>5 DEF Acc
  <2>2. accs' \in [Blocks -> Acc] /\ rawStop' = rawStop /\ hit' \subseteq Blocks \cup {EndFrame}
    BY <1>1, <2>1, Ids, DeliverType
  <2>3. sent' \in [Calls -> Nat \cup {NoId}]
    BY <1>1, <1>0 DEF TypeOK
  <2> QED
    BY <1>2, <2>2, <2>3 DEF TypeOK, Acc, Strings
<1>7. CallInv(c)'
  <2>1. sent'[c] = n /\ c \notin cut /\ c \notin resent /\ n # NoId
    BY <1>0, <1>1, <1>2, <1>3 DEF TypeOK, CallInv, Consistent
  <2>2. \/ accs'[c] = new /\ (c \in hit' <=> c \in hit)
        \/ accs'[c] = accs[c] /\ c \in hit'
    BY <1>1, Ids, Delivered
  <2>3. CASE accs'[c] = new /\ (c \in hit' <=> c \in hit)
    BY <1>2, <1>5, <2>1, <2>3, Ids DEF CallInv, Consistent
  <2>4. CASE accs'[c] = accs[c] /\ c \in hit'
    BY <1>2, <1>3, <2>1, <2>4, Ids DEF CallInv, Consistent
  <2> QED
    BY <2>2, <2>3, <2>4
<1>8. \A d \in Calls \ {c} : sent'[d] = sent[d]
  BY <1>1 DEF TypeOK
<1>9. StreamInv'
  BY <1>1, <1>2, <1>7, <1>8, Ids, OthersKept
<1> QED
  BY <1>6, <1>9

LEMMA OpenAIFragmentKeeps ==
  ASSUME TypeOK, StreamInv, NEW c \in Calls, OpenAIFragment(c)
  PROVE  TypeOK' /\ StreamInv'
<1>1. PICK n \in sent[c] + 1 .. Len(Text[c]), id \in {c, NoId} :
        /\ sent' = [sent EXCEPT ![c] = n]
        /\ Deliver(c, Chunk(accs[c], id, Fragment(c, sent[c], n)))
  BY DEF OpenAIFragment
<1> DEFINE m == sent[c]
           frag == Fragment(c, m, n)
           new == Chunk(accs[c], id, frag)
<1>2. wire = "openai" /\ m # NoId /\ UNCHANGED <<wire, dialect, cut, resent, said, conn>>
  BY DEF OpenAIFragment
<1>3. CallInv(c) /\ accs[c] \in Acc
  BY InvByBlock, Ids DEF TypeOK, Acc, Strings
<1>4. m \in 0 .. Len(Text[c]) /\ n \in m + 1 .. Len(Text[c]) /\ m < Len(Text[c])
  BY <1>1, <1>2, <1>3, TextFacts DEF CallInv, Consistent
<1>5. n \in Nat /\ n # NoId /\ n \in 0 .. Len(Text[c]) /\ n \in m .. Len(Text[c])
  BY <1>4, TextFacts DEF NoId
<1>6. c \notin cut /\ c \notin resent
  BY <1>2, <1>3, <1>4 DEF CallInv, Consistent
<1>7. frag \in Strings
  BY <1>4, <1>5, FragmentType
<1>8. new \in Acc
  <2>1. id \in Calls \cup {NoId}
    OBVIOUS
  <2> QED
    BY <1>3, <1>7, <2>1, ChunkType
<1>9. TypeOK'
  <2>1. accs' \in [Blocks -> Acc] /\ rawStop' = rawStop /\ hit' \subseteq Blocks \cup {EndFrame}
    BY <1>1, <1>8, Ids, DeliverType
  <2>2. sent' \in [Calls -> Nat \cup {NoId}]
    BY <1>1, <1>5 DEF TypeOK
  <2> QED
    BY <1>2, <2>1, <2>2 DEF TypeOK, Acc, Strings
<1>10. /\ new.id \in {c, NoId} /\ (accs[c].id = c => new.id = c) /\ new.kind = "tool_use"
       /\ new.starts = (IF new.id # NoId THEN 1 ELSE 0)
  BY <1>3, Ids DEF CallInv, Consistent, Chunk, Latched, Announcements
<1>11. accs[c].args = SubSeq(Text[c], 1, m) => new.args = SubSeq(Text[c], 1, n)
  <2>1. new.args = Merge(accs[c].args, frag)
    BY DEF Chunk
  <2>2. CASE dialect[c] = "cumulative"
    BY <1>4, <2>1, <2>2, MergeCumulative DEF Fragment
  <2>3. CASE dialect[c] # "cumulative"
    BY <1>4, <2>1, <2>3, MergeIncremental DEF Fragment
  <2> QED
    BY <2>2, <2>3
<1> HIDE DEF new, frag
<1>12. CallInv(c)'
  <2>1. sent'[c] = n
    BY <1>1 DEF TypeOK
  <2>2. \/ accs'[c] = new /\ (c \in hit' <=> c \in hit)
        \/ accs'[c] = accs[c] /\ c \in hit'
    BY <1>1, Ids, Delivered DEF new, frag
  <2>3. CASE accs'[c] = new /\ (c \in hit' <=> c \in hit)
    BY <1>2, <1>3, <1>5, <1>6, <1>10, <1>11, <2>1, <2>3 DEF CallInv, Consistent
  <2>4. CASE accs'[c] = accs[c] /\ c \in hit'
    BY <1>2, <1>3, <1>5, <1>6, <2>1, <2>4 DEF CallInv, Consistent
  <2> QED
    BY <2>2, <2>3, <2>4
<1>13. \A d \in Calls \ {c} : sent'[d] = sent[d]
  BY <1>1 DEF TypeOK
<1>14. StreamInv'
  BY <1>1, <1>2, <1>12, <1>13, Ids, OthersKept
<1> QED
  BY <1>9, <1>14

LEMMA OpenAIResendKeeps ==
  ASSUME TypeOK, StreamInv, NEW c \in Calls, OpenAIResend(c)
  PROVE  TypeOK' /\ StreamInv'
<1>1. PICK n \in 1 .. Len(Text[c]) : Deliver(c, Chunk(accs[c], NoId, SubSeq(Text[c], 1, n)))
  BY DEF OpenAIResend
<1> DEFINE frag == SubSeq(Text[c], 1, n)
           new == Chunk(accs[c], NoId, frag)
<1>2. /\ dialect[c] = "resend" /\ sent[c] = Len(Text[c]) /\ resent' = resent \cup {c}
      /\ UNCHANGED <<wire, dialect, sent, cut, said, conn>>
  BY DEF OpenAIResend
<1>3. CallInv(c) /\ accs[c] \in Acc /\ wire # "anthropic"
  BY <1>2, InvByBlock, Ids DEF TypeOK, Acc, Strings
<1>4. Len(Text[c]) # NoId /\ c \notin cut /\ SubSeq(Text[c], 1, Len(Text[c])) = Text[c]
  BY <1>3, TextFacts, SubSeqFull DEF NoId, CallInv, Consistent
<1>5. frag \in Strings
  BY Slice, TextFacts
<1>6. new \in Acc
  BY <1>3, <1>5, ChunkType
<1>7. TypeOK'
  <2>1. accs' \in [Blocks -> Acc] /\ rawStop' = rawStop /\ hit' \subseteq Blocks \cup {EndFrame}
    BY <1>1, <1>6, Ids, DeliverType
  <2> QED
    BY <1>2, <2>1 DEF TypeOK, Acc, Strings
<1>8. /\ new.id = accs[c].id /\ new.kind = "tool_use"
      /\ new.starts = accs[c].starts
  BY <1>3, Ids DEF CallInv, Consistent, Chunk, Latched, Announcements
<1>9. accs[c].args = Text[c] => new.args = Text[c]
  BY MergeResend DEF Chunk
<1> HIDE DEF new, frag
<1>10. CallInv(c)'
  <2>2. \/ accs'[c] = new /\ (c \in hit' <=> c \in hit)
        \/ accs'[c] = accs[c] /\ c \in hit'
    BY <1>1, Ids, Delivered DEF new, frag
  <2>3. CASE accs'[c] = new /\ (c \in hit' <=> c \in hit)
    BY <1>2, <1>3, <1>4, <1>8, <1>9, <2>3 DEF CallInv, Consistent
  <2>4. CASE accs'[c] = accs[c] /\ c \in hit'
    BY <1>2, <1>3, <1>4, <2>4 DEF CallInv, Consistent
  <2> QED
    BY <2>2, <2>3, <2>4
<1>11. StreamInv'
  BY <1>1, <1>2, <1>10, Ids, OthersKept
<1> QED
  BY <1>7, <1>11

LEMMA AnthropicBeginKeeps ==
  ASSUME TypeOK, StreamInv, NEW c \in Calls, AnthropicBegin(c)
  PROVE  TypeOK' /\ StreamInv'
<1> DEFINE new == BlockStart(accs[c], "tool_use", c)
<1>1. /\ wire = "anthropic" /\ sent[c] = NoId /\ sent' = [sent EXCEPT ![c] = 0]
      /\ Deliver(c, new) /\ UNCHANGED <<wire, dialect, cut, resent, said, conn>>
  BY DEF AnthropicBegin
<1>2. CallInv(c) /\ accs[c] = NoBlock /\ NoId # Len(Text[c]) /\ NoId # 0
  BY <1>1, InvByBlock, TextFacts DEF CallInv, Consistent, NoId
<1>3. new = [kind |-> "tool_use", id |-> c, args |-> <<>>, starts |-> 1]
  <2>1. new = [NoBlock EXCEPT !.kind = "tool_use", !.id = Latched(@, c), !.starts = @ + 1]
    BY <1>2 DEF BlockStart
  <2>2. Latched(NoBlock.id, c) = c /\ NoBlock.starts + 1 = 1
    BY Ids DEF Latched, NoBlock
  <2> QED
    BY <2>1, <2>2 DEF NoBlock
<1>4. <<>> \in Strings /\ SubSeq(Text[c], 1, 0) = <<>> /\ \A k \in DOMAIN <<>> : FALSE
  BY EmptySeq, SubSeqEmpty DEF Strings
<1>5. TypeOK'
  <2>1. new \in Acc
    BY <1>3, <1>4 DEF Acc
  <2>2. accs' \in [Blocks -> Acc] /\ rawStop' = rawStop /\ hit' \subseteq Blocks \cup {EndFrame}
    BY <1>1, <2>1, Ids, DeliverType
  <2>3. sent' \in [Calls -> Nat \cup {NoId}]
    BY <1>1 DEF TypeOK
  <2> QED
    BY <1>1, <2>2, <2>3 DEF TypeOK, Acc, Strings
<1>6. CallInv(c)'
  <2>0. 0 # Len(Text[c]) /\ 0 \in 0 .. Len(Text[c])
    BY TextFacts
  <2>1. sent'[c] = 0 /\ 0 # Len(Text[c]) /\ 0 \in 0 .. Len(Text[c])
    BY <1>1, <2>0 DEF TypeOK
  <2>1a. c \notin cut /\ c \notin resent
    BY <1>1, <1>2 DEF CallInv, Consistent
  <2>2. \/ accs'[c] = new /\ (c \in hit' <=> c \in hit)
        \/ accs'[c] = accs[c] /\ c \in hit'
    BY <1>1, Ids, Delivered
  <2>3. CASE accs'[c] = new /\ (c \in hit' <=> c \in hit)
    <3>1. /\ accs'[c].kind = "tool_use" /\ accs'[c].id = c /\ accs'[c].args = <<>>
          /\ accs'[c].starts = 1
      BY <1>3, <2>3
    <3> QED
      BY <1>1, <1>2, <1>4, <2>1, <2>1a, <3>1, Ids DEF CallInv, Consistent
  <2>4. CASE accs'[c] = accs[c] /\ c \in hit'
    BY <1>1, <1>2, <1>4, <2>1, <2>1a, <2>4, Ids DEF CallInv, Consistent, NoBlock
  <2> QED
    BY <2>2, <2>3, <2>4
<1>7. \A d \in Calls \ {c} : sent'[d] = sent[d]
  BY <1>1 DEF TypeOK
<1>8. StreamInv'
  BY <1>1, <1>6, <1>7, Ids, OthersKept
<1> QED
  BY <1>5, <1>8

\* An argument text goes on: no letter of what follows the m-th closes it before the last.
LEMMA OpenUntilTheEnd ==
  ASSUME NEW c \in Calls, NEW m \in 0 .. Len(Text[c]), NEW n \in m + 1 .. Len(Text[c]),
         NEW have \in Strings, n < Len(Text[c]), \A k \in DOMAIN have : have[k] # Close
  PROVE  LET s == have \o SubSeq(Text[c], m + 1, n) IN \A k \in DOMAIN s : s[k] # Close
<1> DEFINE frag == SubSeq(Text[c], m + 1, n)
           s == have \o frag
<1>1. m + 1 \in Nat \ {0} /\ n \in 0 .. Len(Text[c]) /\ m \in Nat /\ n \in Nat
  BY TextFacts
<1>2. /\ frag \in Strings /\ Len(frag) = n - m
      /\ \A k \in 1 .. n - m : frag[k] = Text[c][m + k]
  <2>1. \A k \in 1 .. n - (m + 1) + 1 : frag[k] = Text[c][(m + 1) + k - 1]
    BY <1>1, Slice
  <2>2. n - (m + 1) + 1 = n - m /\ \A k \in 1 .. n - m : (m + 1) + k - 1 = m + k
    BY <1>1
  <2> QED
    BY <1>1, <2>1, <2>2, Slice
<1>3. \A k \in 1 .. n - m : frag[k] # Close
  <2> SUFFICES ASSUME NEW k \in 1 .. n - m PROVE Text[c][m + k] # Close
    BY <1>2
  <2>1. m + k \in 1 .. Len(Text[c]) - 1
    BY <1>1, TextFacts
  <2> QED
    BY SMTT(30), <2>1, TextFacts DEF Open, Close
<1>4. /\ Len(have) \in Nat /\ DOMAIN have = 1 .. Len(have) /\ DOMAIN s = 1 .. Len(s)
      /\ Len(s) = Len(have) + (n - m)
      /\ \A k \in 1 .. Len(have) + (n - m) : s[k] = IF k <= Len(have) THEN have[k] ELSE frag[k - Len(have)]
  <2>1. have \in Seq(Letters \cup {Open, Close, Raw}) /\ frag \in Seq(Letters \cup {Open, Close, Raw})
    BY <1>2 DEF Strings
  <2>2. /\ s \in Seq(Letters \cup {Open, Close, Raw}) /\ Len(s) = Len(have) + Len(frag)
        /\ \A k \in 1 .. Len(have) + Len(frag) : s[k] = IF k <= Len(have) THEN have[k] ELSE frag[k - Len(have)]
    BY <2>1, ConcatProperties
  <2> QED
    BY <1>2, <2>1, <2>2, LenProperties
<1> HIDE DEF s, frag
<1>5. ASSUME NEW k \in DOMAIN s PROVE s[k] # Close
  <2>1. CASE k <= Len(have)
    <3>1. k \in DOMAIN have /\ s[k] = have[k]
      BY <1>1, <1>4, <2>1
    <3> QED
      BY <3>1
  <2>2. CASE ~(k <= Len(have))
    <3>1. k - Len(have) \in 1 .. n - m /\ s[k] = frag[k - Len(have)]
      BY <1>1, <1>4, <2>2
    <3> QED
      BY <1>3, <3>1
  <2> QED
    BY <2>1, <2>2
<1> QED
  BY <1>5 DEF s, frag

LEMMA AnthropicFragmentKeeps ==
  ASSUME TypeOK, StreamInv, NEW c \in Calls, AnthropicFragment(c)
  PROVE  TypeOK' /\ StreamInv'
<1>1. PICK n \in sent[c] + 1 .. Len(Text[c]) :
        /\ sent' = [sent EXCEPT ![c] = n]
        /\ Deliver(c, InputDelta(accs[c], Fragment(c, sent[c], n)))
  BY DEF AnthropicFragment
<1> DEFINE m == sent[c]
           frag == Fragment(c, m, n)
           new == InputDelta(accs[c], frag)
<1>2. wire = "anthropic" /\ m # NoId /\ c \notin cut /\ UNCHANGED <<wire, dialect, cut, resent, said, conn>>
  BY DEF AnthropicFragment
<1>3. CallInv(c) /\ accs[c] \in Acc /\ frag = SubSeq(Text[c], m + 1, n)
  BY <1>2, InvByBlock, Ids DEF TypeOK, Acc, Strings, Fragment
<1>4. m \in 0 .. Len(Text[c]) /\ n \in m + 1 .. Len(Text[c]) /\ m < Len(Text[c])
  BY <1>1, <1>2, <1>3, TextFacts DEF CallInv, Consistent
<1>5. n \in Nat /\ n # NoId /\ n # 0 /\ n \in 0 .. Len(Text[c]) /\ n \in m .. Len(Text[c])
  BY <1>4, TextFacts DEF NoId
<1>6. c \notin resent
  BY <1>3, <1>4 DEF CallInv, Consistent
<1>7. new \in Acc
  BY <1>3, <1>4, <1>5, FragmentType, InputDeltaType
<1>8. TypeOK'
  <2>1. accs' \in [Blocks -> Acc] /\ rawStop' = rawStop /\ hit' \subseteq Blocks \cup {EndFrame}
    BY <1>1, <1>7, Ids, DeliverType
  <2>2. sent' \in [Calls -> Nat \cup {NoId}]
    BY <1>1, <1>5 DEF TypeOK
  <2> QED
    BY <1>2, <2>1, <2>2 DEF TypeOK, Acc, Strings
<1>9. /\ new.id = accs[c].id /\ new.starts = accs[c].starts /\ new.args = accs[c].args \o frag
      /\ accs[c].kind = "tool_use" => new.kind = "tool_use"
  BY <1>3 DEF Acc, InputDelta
<1>10. accs[c].args = SubSeq(Text[c], 1, m) => new.args = SubSeq(Text[c], 1, n)
  <2>1. SubSeq(Text[c], 1, m) \o SubSeq(Text[c], m + 1, n) = SubSeq(Text[c], 1, n)
    BY <1>4, Adjacent
  <2> QED
    BY <1>3, <1>9, <2>1
<1>11. n < Len(Text[c]) => \A k \in DOMAIN new.args : new.args[k] # Close
  <2> SUFFICES ASSUME n < Len(Text[c]) PROVE \A k \in DOMAIN new.args : new.args[k] # Close
    OBVIOUS
  <2>1. accs[c].args \in Strings /\ \A k \in DOMAIN accs[c].args : accs[c].args[k] # Close
    BY <1>2, <1>3, <1>4 DEF CallInv, Consistent, Acc
  <2> QED
    BY <1>3, <1>4, <1>9, <2>1, OpenUntilTheEnd
<1> HIDE DEF new, frag
<1>12. CallInv(c)'
  <2>1. sent'[c] = n
    BY <1>1 DEF TypeOK
  <2>2. \/ accs'[c] = new /\ (c \in hit' <=> c \in hit)
        \/ accs'[c] = accs[c] /\ c \in hit'
    BY <1>1, Ids, Delivered DEF new, frag
  <2>3. CASE accs'[c] = new /\ (c \in hit' <=> c \in hit)
    BY <1>2, <1>3, <1>5, <1>6, <1>9, <1>10, <1>11, <2>1, <2>3 DEF CallInv, Consistent
  <2>4. CASE accs'[c] = accs[c] /\ c \in hit'
    BY <1>2, <1>3, <1>4, <1>5, <1>6, <2>1, <2>4 DEF CallInv, Consistent
  <2> QED
    BY <2>2, <2>3, <2>4
<1>13. \A d \in Calls \ {c} : sent'[d] = sent[d]
  BY <1>1 DEF TypeOK
<1>14. StreamInv'
  BY <1>1, <1>2, <1>12, <1>13, Ids, OthersKept
<1> QED
  BY <1>8, <1>14

LEMMA AnthropicCutKeeps ==
  ASSUME TypeOK, StreamInv, NEW c \in Calls, AnthropicCut(c)
  PROVE  TypeOK' /\ StreamInv'
<1> DEFINE frag == <<Open, Raw, Close>>
           new == InputDelta(accs[c], frag)
<1>1. /\ wire = "anthropic" /\ sent[c] = 0 /\ c \notin cut /\ cut' = cut \cup {c}
      /\ Deliver(c, new) /\ UNCHANGED <<wire, dialect, sent, resent, said, conn>>
  BY DEF AnthropicCut
<1>2. CallInv(c) /\ accs[c] \in Acc /\ accs[c].args = <<>> /\ 0 # NoId
  <2>1. CallInv(c) /\ accs[c] \in Acc
    BY InvByBlock, Ids DEF TypeOK, Acc, Strings
  <2>2. accs[c].args = <<>>
    BY <1>1, <2>1 DEF CallInv, Consistent
  <2> QED
    BY <2>1, <2>2 DEF NoId
<1>3. frag \in Strings
  BY DEF Strings
<1>4. new \in Acc
  BY <1>2, <1>3, InputDeltaType
<1>5. TypeOK'
  <2>1. accs' \in [Blocks -> Acc] /\ rawStop' = rawStop /\ hit' \subseteq Blocks \cup {EndFrame}
    BY <1>1, <1>4, Ids, DeliverType
  <2> QED
    BY <1>1, <2>1 DEF TypeOK, Acc, Strings
<1>6. /\ new.id = accs[c].id /\ new.starts = accs[c].starts /\ new.args = frag
  <2>1. accs[c].args \o frag = frag
    BY <1>2, <1>3, ConcatEmptySeq DEF Strings
  <2> QED
    BY <1>2, <2>1 DEF Acc, InputDelta
<1> HIDE DEF new
<1>7. CallInv(c)'
  <2>2. \/ accs'[c] = new /\ (c \in hit' <=> c \in hit)
        \/ accs'[c] = accs[c] /\ c \in hit'
    BY <1>1, Ids, Delivered DEF new
  <2>3. CASE accs'[c] = new /\ (c \in hit' <=> c \in hit)
    BY <1>1, <1>2, <1>6, <2>3 DEF CallInv, Consistent
  <2>4. CASE accs'[c] = accs[c] /\ c \in hit'
    BY <1>1, <1>2, <2>4 DEF CallInv, Consistent
  <2> QED
    BY <2>2, <2>3, <2>4
<1>8. StreamInv'
  BY <1>1, <1>7, Ids, OthersKept
<1> QED
  BY <1>5, <1>8

LEMMA AnthropicProseKeeps ==
  ASSUME TypeOK, StreamInv, NEW b \in Prose, AnthropicProse(b)
  PROVE  TypeOK' /\ StreamInv'
<1> DEFINE new == BlockStart(NoBlock, "text", NoId)
<1>1. accs[b] = NoBlock /\ Deliver(b, new) /\ UNCHANGED <<server, conn>>
  BY DEF AnthropicProse
<1>2. new = [kind |-> "text", id |-> NoId, args |-> <<>>, starts |-> 0]
  <2>1. new = [NoBlock EXCEPT !.kind = "text", !.id = Latched(@, NoId), !.starts = @ + 0]
    BY DEF BlockStart
  <2>2. Latched(NoBlock.id, NoId) = NoId /\ NoBlock.starts + 0 = 0
    BY DEF Latched, NoBlock
  <2> QED
    BY <2>1, <2>2 DEF NoBlock
<1>2a. <<>> \in Strings
  BY EmptySeq DEF Strings
<1>3. new \in Acc
  BY <1>2, <1>2a DEF Acc
<1>4. TypeOK'
  <2>1. accs' \in [Blocks -> Acc] /\ rawStop' = rawStop /\ hit' \subseteq Blocks \cup {EndFrame}
    BY <1>1, <1>3, Ids, DeliverType
  <2> QED
    BY <1>1, <2>1 DEF TypeOK, Acc, Strings, server
<1>5. ProseInv(b)'
  BY <1>1, <1>2, Ids, Delivered DEF ProseInv, NoBlock
<1>6. StreamInv'
  BY <1>1, <1>5, Ids, OthersKept DEF server
<1> QED
  BY <1>4, <1>6

LEMMA RestKeeps ==
  ASSUME TypeOK, StreamInv,
         (\E stop \in Stops : Finish(stop)) \/ Trailer \/ EndOfFile \/ Break \/ UNCHANGED vars
  PROVE  TypeOK' /\ StreamInv'
<1>1. UNCHANGED <<wire, dialect, sent, cut, resent, accs>>
  BY DEF Finish, Trailer, EndOfFile, Break, vars, server
<1>2. hit' = hit \/ hit' = hit \cup {EndFrame}
  BY DEF Finish, Trailer, EndOfFile, Break, vars
<1>3. TypeOK'
  <2>1. rawStop' \in Stops \cup {""}
    BY DEF TypeOK, Finish, Trailer, EndOfFile, Break, vars, LatchedStop
  <2>2. said' \in {"talking", "finished", "trailing"} /\ conn' \in {"open", "ended", "broken"}
    BY DEF TypeOK, Finish, Trailer, EndOfFile, Break, vars, server
  <2> QED
    BY <1>1, <1>2, <2>1, <2>2 DEF TypeOK
<1>4. \A c \in Calls : CallInv(c)'
  <2> SUFFICES ASSUME NEW c \in Calls PROVE CallInv(c)'
    OBVIOUS
  <2>1. CallInv(c) /\ Same(c)
    BY <1>1, <1>2, Ids, InvByBlock DEF Same
  <2> QED
    BY <2>1, SameKeeps
<1>5. \A b \in Prose : ProseInv(b)'
  BY <1>1, InvByBlock DEF ProseInv
<1>6. StreamInv'
  BY <1>1, <1>4, <1>5 DEF StreamInv, CallInv, ProseInv, AnnouncedOnce, HeldAsWritten, Blocks
<1> QED
  BY <1>3, <1>6

LEMMA NextKeeps ==
  ASSUME TypeOK, StreamInv, [Next]_vars
  PROVE  TypeOK' /\ StreamInv'
<1>1. ASSUME NEW c \in Calls, OpenAIBegin(c) \/ OpenAIFragment(c) \/ OpenAIResend(c)
      PROVE  TypeOK' /\ StreamInv'
  BY <1>1, OpenAIBeginKeeps, OpenAIFragmentKeeps, OpenAIResendKeeps
<1>2. ASSUME NEW c \in Calls, AnthropicBegin(c) \/ AnthropicFragment(c) \/ AnthropicCut(c)
      PROVE  TypeOK' /\ StreamInv'
  BY <1>2, AnthropicBeginKeeps, AnthropicFragmentKeeps, AnthropicCutKeeps
<1> QED
  BY <1>1, <1>2, AnthropicProseKeeps, RestKeeps DEF Next

-----------------------------------------------------------------------------
(* The theorems *)

\* Every accumulator is a block's state at all times, and no call is announced twice.
THEOREM Typed == Spec => []TypeOK
<1>1. TypeOK /\ StreamInv /\ [Next]_vars => (TypeOK /\ StreamInv)'
  BY NextKeeps
<1> QED
  BY <1>1, InitHolds, PTL DEF Spec

\* The loss record, the server's progress and the accumulators agree in every
\* reachable state, for every set of calls, every text and every way of
\* cutting it into frames.
THEOREM StreamInvariant == Spec => []StreamInv
<1>1. TypeOK /\ StreamInv /\ [Next]_vars => (TypeOK /\ StreamInv)'
  BY NextKeeps
<1> QED
  BY <1>1, InitHolds, PTL DEF Spec

\* A call that lost no frame is held as far as it was written: what mergeArgs
\* and the index of the accumulators are for, in all three dialects.
THEOREM CallsAreHeld == Spec => []HeldAsWritten
<1>1. StreamInv => HeldAsWritten
  BY DEF StreamInv
<1> QED
  BY <1>1, StreamInvariant, PTL

\* One KindToolCallStart for each call that can be answered.
THEOREM CallsAreAnnouncedOnce == Spec => []AnnouncedOnce
<1>1. StreamInv => AnnouncedOnce
  BY DEF StreamInv
<1> QED
  BY <1>1, StreamInvariant, PTL

LEMMA WholeToRun ==
  ASSUME TypeOK, StreamInv, NEW b \in Blocks, Runs(b), b \notin hit
  PROVE  b \in Calls /\ accs[b].args = Text[b]
<1>1. accs[b].kind = "tool_use" /\ CheckCall(accs[b].args) = "none"
  BY DEF Runs, Reported
<1>2. b \in Calls
  BY <1>1, InvByBlock DEF ProseInv, Blocks
<1>3. CallInv(b)
  BY <1>2, InvByBlock
<1>4. Valid(accs[b].args) /\ ~\E k \in 1 .. Len(accs[b].args) : accs[b].args[k] = Raw
  BY <1>1, Zenon DEF CheckCall
<1>5. b \notin cut
  <2>1. \E k \in 1 .. Len(<<Open, Raw, Close>>) : <<Open, Raw, Close>>[k] = Raw
    <3>1. 2 \in 1 .. Len(<<Open, Raw, Close>>) /\ <<Open, Raw, Close>>[2] = Raw
      OBVIOUS
    <3> QED
      BY <3>1
  <2>2. accs[b].args # <<Open, Raw, Close>>
    BY <1>4, <2>1
  <2> QED
    BY <1>3, <2>2 DEF CallInv, Consistent
<1>6. sent[b] # NoId
  BY <1>1, <1>3 DEF CallInv, Consistent, NoBlock
<1>7. accs[b].args = SubSeq(Text[b], 1, sent[b]) /\ sent[b] \in 0 .. Len(Text[b])
  BY <1>3, <1>5, <1>6 DEF CallInv, Consistent
<1> QED
  BY <1>2, <1>4, <1>7, PrefixWhole, TextFacts, SubSeqFull

\* What runs, the model wrote to its last letter.
THEOREM WhatRunsIsWhole == Spec => []NothingPartialRuns
<1>1. TypeOK /\ StreamInv => NothingPartialRuns
  BY WholeToRun DEF NothingPartialRuns
<1> QED
  BY <1>1, Typed, StreamInvariant, PTL

LEMMA ChunkKeepsWhole ==
  ASSUME NEW a \in Acc, NEW id, NEW frag \in Strings, Valid(a.args)
  PROVE  Valid(Chunk(a, id, frag).args)
<1>1. a.args \in Strings /\ Chunk(a, id, frag).args = Merge(a.args, frag)
  BY DEF Acc, Chunk
<1> QED
  BY <1>1, MergeKeepsWhole

LEMMA NotWholeYet ==
  ASSUME TypeOK, StreamInv, NEW c \in Calls, wire = "anthropic", c \notin cut, sent[c] # Len(Text[c])
  PROVE  ~Valid(accs[c].args)
<1>1. CallInv(c) /\ accs[c] \in Acc
  BY InvByBlock, Ids DEF TypeOK, Acc, Strings
<1>2. sent[c] < Len(Text[c])
  BY <1>1, TextFacts DEF CallInv, Consistent, NoId
<1>3. \A k \in DOMAIN accs[c].args : accs[c].args[k] # Close
  BY <1>1, <1>2 DEF CallInv, Consistent
<1>4. accs[c].args \in Seq(Letters \cup {Open, Close, Raw})
  BY <1>1 DEF Acc, Strings
<1>5. Len(accs[c].args) >= 2 => Len(accs[c].args) \in DOMAIN accs[c].args
  BY <1>4, LenProperties
<1> QED
  BY <1>3, <1>5 DEF Valid

LEMMA WholeAfter ==
  ASSUME TypeOK, StreamInv, [Next]_vars, NEW b \in Blocks, Valid(accs[b].args)
  PROVE  Valid(accs'[b].args)
<1>1. ASSUME NEW d \in Blocks, NEW new, Deliver(d, new), Valid(accs[d].args) => Valid(new.args)
      PROVE  Valid(accs'[b].args)
  <2>1. CASE d = b
    BY <1>1, <2>1, Delivered
  <2>2. CASE d # b
    BY <1>1, <2>2, Delivered
  <2> QED
    BY <2>1, <2>2
<1>2. ASSUME NEW c \in Calls, OpenAIBegin(c) \/ OpenAIFragment(c) \/ OpenAIResend(c)
      PROVE  Valid(accs'[b].args)
  <2>1. PICK id \in {c, NoId}, frag \in Strings : Deliver(c, Chunk(accs[c], id, frag))
    <3>1. CASE OpenAIBegin(c)
      <4>1. PICK n \in 0 .. Len(Text[c]) : Deliver(c, Chunk(accs[c], c, Fragment(c, 0, n)))
        BY <3>1 DEF OpenAIBegin
      <4>2. Fragment(c, 0, n) \in Strings
        BY TextFacts, FragmentType
      <4> QED
        BY <4>1, <4>2
    <3>2. CASE OpenAIFragment(c)
      <4>1. PICK n \in sent[c] + 1 .. Len(Text[c]), id \in {c, NoId} :
              Deliver(c, Chunk(accs[c], id, Fragment(c, sent[c], n)))
        BY <3>2 DEF OpenAIFragment
      <4>2. sent[c] \in 0 .. Len(Text[c]) /\ n \in sent[c] .. Len(Text[c])
        <5>1. CallInv(c) /\ sent[c] # NoId
          BY <3>2, InvByBlock DEF OpenAIFragment
        <5>2. sent[c] \in 0 .. Len(Text[c])
          BY <5>1 DEF CallInv, Consistent
        <5> QED
          BY <4>1, <5>2, TextFacts
      <4>3. Fragment(c, sent[c], n) \in Strings
        BY <4>2, FragmentType
      <4> QED
        BY <4>1, <4>3
    <3>3. CASE OpenAIResend(c)
      <4>1. PICK n \in 1 .. Len(Text[c]) : Deliver(c, Chunk(accs[c], NoId, SubSeq(Text[c], 1, n)))
        BY <3>3 DEF OpenAIResend
      <4>2. SubSeq(Text[c], 1, n) \in Strings
        BY TextFacts, Slice
      <4> QED
        BY <4>1, <4>2
    <3> QED
      BY <1>2, <3>1, <3>2, <3>3
  <2>2. accs[c] \in Acc
    BY Ids DEF TypeOK, Acc, Strings
  <2>3. Valid(accs[c].args) => Valid(Chunk(accs[c], id, frag).args)
    BY <2>2, ChunkKeepsWhole
  <2> QED
    BY <1>1, <2>1, <2>3, Ids
<1>3. ASSUME NEW c \in Calls, AnthropicBegin(c) PROVE Valid(accs'[b].args)
  <2>1. Deliver(c, BlockStart(accs[c], "tool_use", c)) /\ accs[c] \in Acc
    BY <1>3, Ids DEF AnthropicBegin, TypeOK, Acc, Strings
  <2>2. BlockStart(accs[c], "tool_use", c).args = accs[c].args
    BY <2>1 DEF BlockStart, Acc
  <2> QED
    BY <1>1, <2>1, <2>2, Ids
<1>4. ASSUME NEW c \in Calls, AnthropicFragment(c) PROVE Valid(accs'[b].args)
  <2>1. PICK n \in sent[c] + 1 .. Len(Text[c]) : Deliver(c, InputDelta(accs[c], Fragment(c, sent[c], n)))
    BY <1>4 DEF AnthropicFragment
  <2>2. sent[c] \in Nat \cup {NoId} /\ sent[c] # NoId
    BY <1>4 DEF AnthropicFragment, TypeOK
  <2>3. sent[c] # Len(Text[c])
    BY <2>1, <2>2, TextFacts
  <2>4. ~Valid(accs[c].args)
    BY <1>4, <2>3, NotWholeYet DEF AnthropicFragment
  <2> QED
    BY <1>1, <2>1, <2>4, Ids
<1>5. ASSUME NEW c \in Calls, AnthropicCut(c) PROVE Valid(accs'[b].args)
  <2>1. Deliver(c, InputDelta(accs[c], <<Open, Raw, Close>>)) /\ sent[c] = 0
    BY <1>5 DEF AnthropicCut
  <2>2. ~Valid(accs[c].args)
    BY <1>5, <2>1, TextFacts, NotWholeYet DEF AnthropicCut
  <2> QED
    BY <1>1, <2>1, <2>2, Ids
<1>6. ASSUME NEW d \in Prose, AnthropicProse(d) PROVE Valid(accs'[b].args)
  <2>1. Deliver(d, BlockStart(accs[d], "text", NoId)) /\ accs[d] = NoBlock
    BY <1>6 DEF AnthropicProse
  <2>2. ~Valid(accs[d].args)
    <3>1. accs[d].args = <<>>
      BY <2>1 DEF NoBlock
    <3> QED
      BY <3>1 DEF Valid
  <2> QED
    BY <1>1, <2>1, <2>2, Ids
<1>7. ASSUME (\E stop \in Stops : Finish(stop)) \/ Trailer \/ EndOfFile \/ Break \/ UNCHANGED vars
      PROVE  Valid(accs'[b].args)
  <2>1. accs' = accs
    BY <1>7 DEF Finish, Trailer, EndOfFile, Break, vars
  <2> QED
    BY <2>1
<1> QED
  BY <1>2, <1>3, <1>4, <1>5, <1>6, <1>7 DEF Next

\* Whole arguments are a terminal state, for every loss and every dialect.
THEOREM WholeIsTerminal == Spec => WholeStaysWhole
<1>1. TypeOK /\ StreamInv /\ [Next]_vars =>
        [\A b \in Blocks : Valid(accs[b].args) => Valid(accs'[b].args)]_vars
  BY WholeAfter
<1> QED
  BY <1>1, Typed, StreamInvariant, PTL DEF Spec, WholeStaysWhole

-----------------------------------------------------------------------------
(* A call the model did not finish is diagnosed as cut *)

Nothing == [in |-> FALSE, depth |-> 0]
Inside == [in |-> TRUE, depth |-> 1]

\* f is the bracket state of raw, letter by letter, as IsOpen computes it.
Scans(f, raw) ==
  f = [i \in 0 .. Len(raw) |-> IF i = 0 THEN Nothing ELSE Bracket(f[i - 1], raw[i])]

\* An object that was opened and not closed is inside its string from the
\* first letter to the last.
LEMMA UnclosedIsOpen ==
  ASSUME NEW raw \in Strings, Len(raw) >= 1, raw[1] = Open,
         \A k \in 2 .. Len(raw) : raw[k] \notin {Open, Close}
  PROVE  IsOpen(raw)
<1> DEFINE g == [i \in 0 .. Len(raw) |-> IF i = 0 THEN Nothing ELSE Inside]
           after == CHOOSE f : Scans(f, raw)
           I == {n \in Nat : n + 1 <= Len(raw) => after[n + 1] = Inside}
<1>1. Len(raw) \in Nat
  BY LenProperties DEF Strings
<1>2. Bracket(Nothing, Open) = Inside
  <2>1. Bracket(Nothing, Open) = [in |-> ~Nothing.in, depth |-> Nothing.depth + (IF Nothing.in THEN 0 ELSE 1)]
    BY Zenon DEF Bracket, Open, Close
  <2>2. Nothing.in = FALSE /\ Nothing.depth = 0
    BY DEF Nothing
  <2>3. (~Nothing.in) = TRUE /\ Nothing.depth + (IF Nothing.in THEN 0 ELSE 1) = 1
    BY <2>2
  <2> QED
    BY <2>1, <2>3, Zenon DEF Inside
<1>3. \A l : l \notin {Open, Close} => Bracket(Inside, l) = Inside
  BY DEF Bracket
<1>4. Scans(g, raw)
  <2>1. ASSUME NEW i \in 1 .. Len(raw) PROVE Bracket(g[i - 1], raw[i]) = Inside
    <3>1. CASE i = 1
      <4>1. g[i - 1] = Nothing
        BY <3>1, <1>1
      <4> QED
        BY <3>1, <4>1, <1>2
    <3>2. CASE i # 1
      <4>1. i \in 2 .. Len(raw) /\ i - 1 \in 0 .. Len(raw) /\ i - 1 # 0
        BY <3>2, <1>1
      <4>2. g[i - 1] = Inside
        BY <4>1
      <4> QED
        BY <4>1, <4>2, <1>3
    <3> QED
      BY <3>1, <3>2
  <2>2. \A i \in 0 .. Len(raw) :
          g[i] = IF i = 0 THEN Nothing ELSE Bracket(g[i - 1], raw[i])
    <3> SUFFICES ASSUME NEW i \in 0 .. Len(raw), i # 0 PROVE g[i] = Bracket(g[i - 1], raw[i])
      OBVIOUS
    <3>1. i \in 1 .. Len(raw) /\ g[i] = Inside
      BY <1>1
    <3> QED
      BY <2>1, <3>1
  <2>3. g = [i \in 0 .. Len(raw) |-> g[i]]
    OBVIOUS
  <2> HIDE DEF g
  <2> QED
    BY <2>2, <2>3 DEF Scans
<1>5. Scans(after, raw)
  BY <1>4
<1>6. IsOpen(raw) <=> after[Len(raw)].in \/ after[Len(raw)].depth > 0
  BY DEF IsOpen, Scans, Nothing
<1> HIDE DEF after
<1>7. \A i \in 0 .. Len(raw) :
        after[i] = IF i = 0 THEN Nothing ELSE Bracket(after[i - 1], raw[i])
  BY <1>5 DEF Scans
<1>8. 0 \in I
  <2>1. 0 \in 0 .. Len(raw) /\ 1 \in 0 .. Len(raw) /\ 1 - 1 = 0 /\ 0 + 1 = 1
    BY <1>1
  <2>2. after[1] = Inside
    BY <1>2, <1>7, <2>1
  <2> QED
    BY <2>1, <2>2
<1>9. ASSUME NEW n \in Nat, n \in I PROVE n + 1 \in I
  <2> SUFFICES ASSUME (n + 1) + 1 <= Len(raw) PROVE after[(n + 1) + 1] = Inside
    BY <1>9
  <2>1. n + 2 \in 0 .. Len(raw) /\ n + 2 \in 2 .. Len(raw) /\ n + 2 # 0
        /\ (n + 2) - 1 = n + 1 /\ (n + 1) + 1 = n + 2 /\ n + 1 <= Len(raw)
    BY <1>1, <1>9
  <2>2. after[n + 1] = Inside /\ raw[n + 2] \notin {Open, Close}
    BY <1>9, <2>1
  <2>3. after[n + 2] = Bracket(Inside, raw[n + 2])
    BY <1>7, <2>1, <2>2
  <2> QED
    BY <1>3, <2>1, <2>2, <2>3
<1> HIDE DEF I
<1>10. after[Len(raw)] = Inside
  <2>1. Len(raw) - 1 \in Nat /\ (Len(raw) - 1) + 1 = Len(raw)
    BY <1>1
  <2>2. Len(raw) - 1 \in I
    BY <1>8, <1>9, <2>1, ByInduction
  <2> QED
    BY <1>1, <2>1, <2>2 DEF I
<1> QED
  BY <1>6, <1>10 DEF Inside

LEMMA UnfinishedIsCut ==
  ASSUME NEW c \in Calls, NEW n \in 1 .. Len(Text[c]) - 1
  PROVE  CheckCall(SubSeq(Text[c], 1, n)) = "cut"
<1> DEFINE raw == SubSeq(Text[c], 1, n)
<1>1. n \in 1 .. Len(Text[c]) /\ n < Len(Text[c]) /\ n \in Nat
  BY TextFacts
<1>2. raw # <<>> /\ raw[1] = Open /\ ~Valid(raw)
  BY <1>1, PrefixFacts
<1>3. raw \in Strings /\ Len(raw) = n /\ \A k \in 1 .. n : raw[k] = Text[c][k]
  BY <1>1, Slice
<1>4. \A k \in 2 .. n : raw[k] \notin {Open, Close}
  BY <1>1, <1>3, TextFacts
<1> HIDE DEF raw
<1>5. IsOpen(raw)
  BY <1>1, <1>2, <1>3, <1>4, UnclosedIsOpen
<1> QED
  BY <1>2, <1>5 DEF CheckCall, raw

LEMMA ReplacedIsCut == CheckCall(<<Open, Raw, Close>>) = "cut"
<1> DEFINE raw == <<Open, Raw, Close>>
<1>1. Len(raw) = 3 /\ raw[1] = Open /\ raw[2] = Raw /\ raw[3] = Close /\ raw # <<>>
  OBVIOUS
<1> HIDE DEF raw
<1>2. Valid(raw)
  BY <1>1 DEF Valid, Open, Close, Raw
<1>3. \E k \in 1 .. Len(raw) : raw[k] = Raw
  BY <1>1
<1> QED
  BY <1>1, <1>2, <1>3 DEF CheckCall, raw

\* A call the gateway replaced, or whose text stops short, is called cut and
\* never bad JSON, whatever is lost of the other calls (faultCut, faultNotJSON).
THEOREM CutCallsAreCalledCut == Spec => []CutIsCalledCut
<1>1. ASSUME TypeOK, StreamInv PROVE CutIsCalledCut
  <2> SUFFICES ASSUME NEW c \in Calls \ hit,
                      c \in cut \/ sent[c] \in 1 .. Len(Text[c]) - 1
               PROVE  CheckCall(accs[c].args) = "cut"
    BY DEF CutIsCalledCut
  <2>1. CallInv(c)
    BY <1>1, InvByBlock
  <2>2. CASE c \in cut
    BY <2>1, <2>2, ReplacedIsCut DEF CallInv, Consistent
  <2>3. CASE c \notin cut
    <3>1. sent[c] \in 1 .. Len(Text[c]) - 1 /\ sent[c] # NoId
      BY <2>3, TextFacts DEF NoId
    <3>2. accs[c].args = SubSeq(Text[c], 1, sent[c])
      BY <2>1, <2>3, <3>1 DEF CallInv
    <3> QED
      BY <3>1, <3>2, UnfinishedIsCut
  <2> QED
    BY <2>2, <2>3
<1> QED
  BY <1>1, Typed, StreamInvariant, PTL

-----------------------------------------------------------------------------
(* The reply *)

Increasing(s, n) == \A j, k \in 1 .. n : j < k => s[j] < s[k]

\* A finite set of indices can be put in order.
LEMMA OrderExists ==
  ASSUME NEW S \in SUBSET Nat, IsFiniteSet(S)
  PROVE  \E s \in [1 .. Cardinality(S) -> S] : Increasing(s, Cardinality(S))
<1> DEFINE I == {n \in Nat : \A R \in SUBSET Nat : IsFiniteSet(R) /\ Cardinality(R) = n =>
                               \E s \in [1 .. n -> R] : Increasing(s, n)}
<1>1. 0 \in I
  <2> SUFFICES ASSUME NEW R \in SUBSET Nat PROVE \E s \in [1 .. 0 -> R] : Increasing(s, 0)
    OBVIOUS
  <2>1. 1 .. 0 = {}
    OBVIOUS
  <2>2. [k \in 1 .. 0 |-> k] \in [1 .. 0 -> R]
    BY <2>1
  <2>3. Increasing([k \in 1 .. 0 |-> k], 0)
    BY <2>1 DEF Increasing
  <2> QED
    BY <2>2, <2>3
<1>2. ASSUME NEW n \in Nat, n \in I PROVE n + 1 \in I
  <2> SUFFICES ASSUME NEW R \in SUBSET Nat, IsFiniteSet(R), Cardinality(R) = n + 1
               PROVE  \E s \in [1 .. n + 1 -> R] : Increasing(s, n + 1)
    OBVIOUS
  <2>1. R # {}
    BY FS_EmptySet, <1>2
  <2>2. PICK x \in R : \A y \in R : x <= y
    BY <2>1, LeastOf
  <2>3. IsFiniteSet(R \ {x}) /\ Cardinality(R \ {x}) = n
    <3>1. Cardinality(R) \in Nat /\ IsFiniteSet(R \ {x}) /\ Cardinality(R \ {x}) = Cardinality(R) - 1
      BY <2>2, FS_RemoveElement, FS_CardinalityType
    <3> QED
      BY <3>1, <1>2
  <2>4. PICK t \in [1 .. n -> R \ {x}] : Increasing(t, n)
    BY <1>2, <2>3
  <2> DEFINE s == [k \in 1 .. n + 1 |-> IF k = 1 THEN x ELSE t[k - 1]]
  <2>5. \A k \in 1 .. n + 1 : k # 1 => k - 1 \in 1 .. n
    BY <1>2
  <2>6. s \in [1 .. n + 1 -> R]
    BY <2>2, <2>4, <2>5
  <2>7. ASSUME NEW j \in 1 .. n + 1, NEW k \in 1 .. n + 1, j < k PROVE s[j] < s[k]
    <3>1. k # 1 /\ k - 1 \in 1 .. n /\ s[k] = t[k - 1]
      BY <1>2, <2>7, <2>5
    <3>2. CASE j = 1
      <4>1. s[j] = x /\ s[k] \in R \ {x}
        BY <3>1, <3>2, <2>4, <1>2
      <4> HIDE DEF s
      <4>2. x <= s[k] /\ s[k] # x /\ s[k] \in Nat /\ x \in Nat
        BY <4>1, <2>2
      <4> QED
        BY <4>1, <4>2
    <3>3. CASE j # 1
      <4>1. j - 1 \in 1 .. n /\ s[j] = t[j - 1] /\ j - 1 < k - 1
        BY <3>3, <2>7, <2>5
      <4>2. t[j - 1] < t[k - 1]
        BY <3>1, <4>1, <2>4 DEF Increasing
      <4> HIDE DEF s
      <4> QED
        BY <3>1, <4>1, <4>2
    <3> QED
      BY <3>2, <3>3
  <2> HIDE DEF s
  <2>8. Increasing(s, n + 1)
    BY <2>7 DEF Increasing
  <2> QED
    BY <2>6, <2>8
<1> HIDE DEF I
<1>3. Cardinality(S) \in Nat
  BY FS_CardinalityType
<1>4. Cardinality(S) \in I
  BY <1>1, <1>2, <1>3, ByInduction
<1> QED
  BY <1>4 DEF I

\* The sort at the end of ParseStream, for any number of calls.
LEMMA OrderChosen ==
  ASSUME NEW S \in SUBSET Nat, IsFiniteSet(S)
  PROVE  /\ InOrder(S) \in [1 .. Cardinality(S) -> S]
         /\ Increasing(InOrder(S), Cardinality(S))
<1>1. PICK s \in [1 .. Cardinality(S) -> S] : Increasing(s, Cardinality(S))
  BY OrderExists
<1>2. \A t \in [1 .. Cardinality(S) -> S] :
        (\A j, k \in DOMAIN t : j < k => t[j] < t[k]) <=> Increasing(t, Cardinality(S))
  BY DEF Increasing
<1> DEFINE Up(t) == \A j, k \in DOMAIN t : j < k => t[j] < t[k]
<1>3. Up(s)
  BY <1>1, <1>2
<1>4. InOrder(S) = CHOOSE t \in [1 .. Cardinality(S) -> S] : Up(t)
  BY DEF InOrder
<1> HIDE DEF Up
<1>5. InOrder(S) \in [1 .. Cardinality(S) -> S] /\ Up(InOrder(S))
  BY <1>1, <1>3, <1>4
<1> QED
  BY <1>2, <1>5 DEF Up

LEMMA StopLatchedKept ==
  ASSUME TypeOK, StopLatched, [Next]_vars
  PROVE  StopLatched'
<1>1. ASSUME NEW b \in Blocks, NEW new, Deliver(b, new), said' = said PROVE StopLatched'
  <2>1. b # EndFrame /\ rawStop' = rawStop /\ (hit' = hit \/ hit' = hit \cup {b})
    BY <1>1, StreamAssumption DEF Deliver, Blocks, EndFrame
  <2> QED
    BY <1>1, <2>1 DEF StopLatched
<1>2. ASSUME NEW c \in Calls,
             \/ OpenAIBegin(c) \/ OpenAIFragment(c) \/ OpenAIResend(c)
             \/ AnthropicBegin(c) \/ AnthropicFragment(c) \/ AnthropicCut(c)
      PROVE  StopLatched'
  <2>1. c \in Blocks
    BY DEF Blocks
  <2>2. said' = said /\ \E new : Deliver(c, new)
    BY <1>2 DEF OpenAIBegin, OpenAIFragment, OpenAIResend, AnthropicBegin, AnthropicFragment,
                AnthropicCut
  <2> QED
    BY <1>1, <2>1, <2>2
<1>3. ASSUME NEW b \in Prose, AnthropicProse(b) PROVE StopLatched'
  BY <1>1, <1>3 DEF AnthropicProse, server, Blocks
<1>4. ASSUME NEW stop \in Stops, Finish(stop) PROVE StopLatched'
  BY <1>4 DEF Finish, LatchedStop, Stops, StopLatched
<1>5. CASE Trailer
  BY <1>5 DEF Trailer, LatchedStop, StopLatched
<1>6. CASE EndOfFile \/ Break \/ UNCHANGED vars
  BY <1>6 DEF EndOfFile, Break, vars, server, StopLatched
<1> QED
  BY <1>2, <1>3, <1>4, <1>5, <1>6 DEF Next

\* A stop reason that arrives is kept, whatever frame follows it.
THEOREM StopIsLatched == Spec => []StopLatched
<1>1. Init => StopLatched
  BY DEF Init, StopLatched
<1>2. TypeOK /\ StopLatched /\ [Next]_vars => StopLatched'
  BY StopLatchedKept
<1> QED
  BY <1>1, <1>2, Typed, PTL DEF Spec

\* With nothing lost, the blocks that are reported are the calls.
LEMMA ReportedAreCalls ==
  ASSUME StreamInv, hit = {}, cut = {}, \A c \in Calls : sent[c] = Len(Text[c])
  PROVE  /\ {b \in Blocks : Reported(b)} = Calls
         /\ \A c \in Calls : accs[c].id = c /\ accs[c].args = Text[c]
<1>1. ASSUME NEW c \in Calls
      PROVE  accs[c].kind = "tool_use" /\ accs[c].id = c /\ accs[c].args = Text[c]
  <2>1. CallInv(c) /\ sent[c] = Len(Text[c]) /\ sent[c] # NoId
    BY InvByBlock, TextFacts DEF NoId
  <2>2. SubSeq(Text[c], 1, Len(Text[c])) = Text[c]
    BY TextFacts, SubSeqFull
  <2> QED
    BY <2>1, <2>2 DEF CallInv
<1>2. \A b \in Prose : accs[b].kind # "tool_use"
  BY InvByBlock DEF ProseInv
<1> QED
  BY <1>1, <1>2 DEF Reported, Blocks

\* When the model has finished and no frame was lost, the reply is the calls it
\* made, whole, under their own ids and in block order, and nothing else.
THEOREM TheReplyIsTheModels == Spec => []ReplyIsTheModels
<1>1. ASSUME StreamInv, StopLatched PROVE ReplyIsTheModels
  <2> SUFFICES ASSUME said # "talking", hit = {}, cut = {},
                      \A c \in Calls : sent[c] = Len(Text[c])
               PROVE  /\ rawStop # ""
                      /\ Len(Reply) = Cardinality(Calls)
                      /\ \A k \in DOMAIN Reply :
                           /\ Reply[k].id \in Calls /\ Reply[k].args = Text[Reply[k].id]
                           /\ \A j \in 1 .. k - 1 : Reply[j].id < Reply[k].id
    BY DEF ReplyIsTheModels
  <2> DEFINE n == Cardinality(Calls)
             at == InOrder(Calls)
             call(k) == [id |-> accs[at[k]].id, args |-> accs[at[k]].args]
  <2>1. rawStop # ""
    BY <1>1 DEF StopLatched
  <2>2. n \in Nat /\ at \in [1 .. n -> Calls] /\ Increasing(at, n)
    BY OrderChosen, StreamAssumption, FS_CardinalityType
  <2>3. /\ {b \in Blocks : Reported(b)} = Calls
        /\ \A c \in Calls : accs[c].id = c /\ accs[c].args = Text[c]
    BY <1>1, ReportedAreCalls
  <2> HIDE DEF n, at
  <2>4. Len(at) = n
    BY <2>2, LenIs
  <2>5. Reply = [k \in 1 .. n |-> call(k)]
    BY <2>3, <2>4 DEF Reply, at
  <2>6. Len(Reply) = n /\ DOMAIN Reply = 1 .. n
    BY <2>2, <2>5, LenIs
  <2>7. \A k \in 1 .. n : at[k] \in Calls /\ Reply[k].id = at[k] /\ Reply[k].args = Text[at[k]]
    BY <2>2, <2>3, <2>5
  <2>8. \A k \in 1 .. n : \A j \in 1 .. k - 1 : j \in 1 .. n /\ j < k
    BY <2>2
  <2>9. \A k \in 1 .. n : \A j \in 1 .. k - 1 : Reply[j].id < Reply[k].id
    BY <2>2, <2>7, <2>8 DEF Increasing
  <2> QED
    BY <2>1, <2>6, <2>7, <2>9 DEF n
<1> QED
  BY <1>1, StreamInvariant, StopIsLatched, PTL
=============================================================================
