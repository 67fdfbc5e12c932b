----------------------------- MODULE MCFencing -----------------------------
(***************************************************************************)
(* Two sessions compete for one admission slot and one completion slot     *)
(* over three connections.                                                 *)
(***************************************************************************)
EXTENDS Fencing, TLC

Connections == Permutations(Txns) \cup Permutations(Sessions)
=============================================================================
