------------------------------- MODULE MCPull -------------------------------
(***************************************************************************)
(* Three pulls: two versions to one output, and an empty version to        *)
(* another.                                                                *)
(***************************************************************************)
EXTENDS Pull, TLC

CONSTANTS p1, p2, p3, v1, v2, v3, o1, o2

PullVersions == p1 :> v1 @@ p2 :> v2 @@ p3 :> v3
PullOutputs == p1 :> o1 @@ p2 :> o1 @@ p3 :> o2
Sizes == v1 :> 3 @@ v2 :> 1 @@ v3 :> 0
=============================================================================
