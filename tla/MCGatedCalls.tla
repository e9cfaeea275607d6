----------------------------- MODULE MCGatedCalls -----------------------------
(***************************************************************************)
(* An instance of GatedCalls: the bridge and a sibling without capture     *)
(* share the plain command, of version 2; that sibling names another       *)
(* runner, of version 1, which a sibling with capture really runs, twice   *)
(* if the output is empty.  Two slots, one of them for siblings.           *)
(***************************************************************************)
EXTENDS GatedCalls, TLC

CONSTANTS base, sibling, capture, plain, other, plugin

Runner  == base :> Unset @@ sibling :> other @@ capture :> other
Again   == base :> 0 @@ sibling :> 0 @@ capture :> 1
Speaks  == plain :> 2 @@ other :> 1
Kind    == base :> NoKind @@ sibling :> plugin @@ capture :> plugin
Allowed == Global :> 2 @@ plugin :> 1
=============================================================================
