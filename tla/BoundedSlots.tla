---------------------------- MODULE BoundedSlots ----------------------------
(***************************************************************************)
(* What scripts/framework/concurrency.js promises to its callers: at any   *)
(* time at most Cap of them execute, whatever happens behind the promise.  *)
(* ConcurrencyGate is shown to implement this specification, and so are    *)
(* the CLI processes of GatedCalls and the promptfoos of EvalRun.          *)
(***************************************************************************)
EXTENDS Naturals, FiniteSets

CONSTANTS
  Users,   \* the callApi invocations of one process, or its packages
  Cap      \* AD_EVALS_MAX_CONCURRENCY, or AD_EVALS_OUTER_CONCURRENCY

VARIABLE inside   \* the invocations that are executing

Init == inside = {}

Enter(c) ==
  /\ c \notin inside
  /\ Cardinality(inside) < Cap
  /\ inside' = inside \cup {c}

Leave(c) ==
  /\ c \in inside
  /\ inside' = inside \ {c}

Next == \E c \in Users : Enter(c) \/ Leave(c)

Spec == Init /\ [][Next]_inside
=============================================================================
