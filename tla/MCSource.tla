------------------------------ MODULE MCSource ------------------------------
(***************************************************************************)
(* Two files, one in the root and one below it, that change while they are *)
(* pushed.                                                                 *)
(***************************************************************************)
EXTENDS Source

SomeTrees == {<<<<"x", "y">>, <<"y">>>>}
=============================================================================
