----------------------------- MODULE Permission -----------------------------
(***************************************************************************)
(* What the terminal shell promises to those who ask it for permission:    *)
(* one question at a time is put to the human, nobody is allowed anything   *)
(* the human has not granted while his own question was shown, and an      *)
(* unanswered question is a refusal.                                       *)
(***************************************************************************)
CONSTANT Askers

VARIABLE ask

Stages == {"none", "asked", "shown", "granted", "declined", "allowed", "refused"}

Init == ask = [a \in Askers |-> "none"]

Moves(a, from, to) == ask[a] \in from /\ ask' = [ask EXCEPT ![a] = to]

Asks(a) == Moves(a, {"none"}, "asked")

Shows(a) ==
  /\ \A b \in Askers : ask[b] # "shown"
  /\ Moves(a, {"asked"}, "shown")

Grants(a) == Moves(a, {"shown"}, "granted")

Declines(a) == Moves(a, {"shown"}, "declined")

Allows(a) == Moves(a, {"granted"}, "allowed")

Refuses(a) == Moves(a, {"asked", "shown", "granted", "declined"}, "refused")

Forgets(a) == Moves(a, {"allowed", "refused"}, "none")

Next ==
  \E a \in Askers :
    \/ Asks(a) \/ Shows(a) \/ Grants(a) \/ Declines(a)
    \/ Allows(a) \/ Refuses(a) \/ Forgets(a)

Spec == Init /\ [][Next]_ask
=============================================================================
