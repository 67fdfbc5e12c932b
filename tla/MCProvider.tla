----------------------------- MODULE MCProvider -----------------------------
(***************************************************************************)
(* Blobs of two parts at both ends of the part sizes 2 and 4; a part of 8  *)
(* would be above MaxPart.                                                 *)
(***************************************************************************)
EXTENDS Provider

AnyRow == [offset : 0..8, size : 1..MaxPart]
AnyRows == UNION {[S -> AnyRow] : S \in SUBSET (1..(MaxParts + 1)) \ {{}}}
=============================================================================
