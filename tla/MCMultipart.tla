---------------------------- MODULE MCMultipart ----------------------------
(***************************************************************************)
(* An instance of Multipart: one blob in two parts tried over two          *)
(* generations.                                                            *)
(***************************************************************************)
EXTENDS Multipart, TLC

\* Request ids, invocations and ETags are interchangeable.
Interchangeable ==
    Permutations(ResolveKeys) \cup Permutations(AcquireKeys) \cup Permutations(AcceptKeys)
      \cup Permutations(Invocations) \cup Permutations(ETags)
=============================================================================
