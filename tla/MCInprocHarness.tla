--------------------------- MODULE MCInprocHarness ---------------------------
(***************************************************************************)
(* Four cases of two provider entries, two rows each: the rows of an entry *)
(* have one case id and so one workspace name.  The codex_sdk entry's      *)
(* directory is one that an earlier run left.                              *)
(***************************************************************************)
EXTENDS InprocHarness, TLC

CONSTANTS c1, c2, c3, c4, w1, w2, opencode_sdk, codex_sdk

EntryKeys == c1 :> w1 @@ c2 :> w1 @@ c3 :> w2 @@ c4 :> w2
EntryKind == c1 :> opencode_sdk @@ c2 :> opencode_sdk
               @@ c3 :> codex_sdk @@ c4 :> codex_sdk

\* The rows of an entry are alike.
Symmetry == Permutations({c1, c2}) \cup Permutations({c3, c4})
=============================================================================
