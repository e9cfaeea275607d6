---------------------------- MODULE CaseContract ----------------------------
(***************************************************************************)
(* What one bridge case promises its caller, whatever provider runs it:    *)
(* the turns of the conversation begin in order, one at a time, each at    *)
(* most once and only after the one before it was reported; a turn is      *)
(* reported only if the provider completed it; and the case ends once, as  *)
(* "ok" only if every turn was reported.                                   *)
(***************************************************************************)
EXTENDS Naturals

CONSTANT Turns

VARIABLES
  begun,     \* turns the provider began
  good,      \* turns the provider completed without an error
  reported,  \* turns the bridge counts in turns_completed
  outcome    \* what the caller gets: "none" so far, "ok", "error" or "lost"

vars == <<begun, good, reported, outcome>>

Init == begun = 0 /\ good = 0 /\ reported = 0 /\ outcome = "none"

\* At most one turn is in flight: begun, then completed, then reported.
InOrder == reported <= good /\ good <= begun /\ begun <= reported + 1

\* Turns go forward one by one; the bridge counts only while the case lasts.
Advance ==
  /\ begun' \in {begun, begun + 1} /\ begun' <= Turns
  /\ good' \in {good, good + 1}
  /\ reported' \in {reported, reported + 1}
  /\ reported' # reported => outcome = "none"
  /\ InOrder'

\* The outcome is decided once; only the death of the process can take it.
Decide ==
  \/ outcome' = outcome
  \/ outcome = "none" /\ outcome' = "error"
  \/ outcome = "none" /\ outcome' = "ok" /\ reported' = Turns
  \/ outcome' = "lost"

Next == Advance /\ Decide

Spec == Init /\ [][Next]_vars

\* What a caller may rely on when it reads the result: the turns counted were
\* completed, one more at most was begun, and "ok" means every one.
Honest == InOrder /\ begun <= Turns /\ (outcome = "ok" => reported = Turns)
=============================================================================
