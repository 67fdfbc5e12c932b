---------------------------- MODULE MCSinglePut ----------------------------
(***************************************************************************)
(* Instances of SinglePut: two pushes of one version, and pushes of two    *)
(* versions that share a blob.                                             *)
(***************************************************************************)
EXTENDS SinglePut, TLC

CONSTANTS d1, m1, m2, b1, b2, p1, p2

SharedContent == m1 :> {b1, b2} @@ m2 :> {b2}
OneBlobContent == m1 :> {b1}
TwoBlobContent == m1 :> {b1, b2}

SameVersion == p1 :> <<d1, m1>> @@ p2 :> <<d1, m1>>
SharedBlob == p1 :> <<d1, m1>> @@ p2 :> <<d1, m2>>
OnePush == p1 :> <<d1, m1>>

\* Push keys are digests of their requests: one key per request.
PushVersionKeys == Versions
PushUploadKeys == Requests
=============================================================================
