----------------------------- MODULE MCRegistry -----------------------------
(***************************************************************************)
(* Two manifests that share a blob, registered in one dataset (or in two), *)
(* driven by arbitrary store callers.                                      *)
(***************************************************************************)
EXTENDS Registry, TLC

CONSTANTS m1, m2, b1, b2

\* m1 is a directory with two distinct files, m2 shares one of them.
SharedContent == m1 :> {b1, b2} @@ m2 :> {b2}

\* Keys and datasets are interchangeable; manifests and blobs are not.
Interchangeable ==
    Permutations(UploadKeys) \cup Permutations(VersionKeys) \cup Permutations(Datasets)
      \cup Permutations(DatasetKeys)

=============================================================================
