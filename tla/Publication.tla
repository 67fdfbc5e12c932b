---------------------------- MODULE Publication ----------------------------
(***************************************************************************)
(* What RoboLake promises about publication, without sessions, keys, locks *)
(* or failures: bytes are stored, stored bytes are attested, and a version *)
(* is published once all its content is attested.  Nothing is ever         *)
(* withdrawn.                                                              *)
(***************************************************************************)
CONSTANTS Versions, Blobs, Needs    \* Needs[v] is the content of version v

VARIABLES stored, attested, published

vars == <<stored, attested, published>>

Init == stored = {} /\ attested = {} /\ published = {}

Store(b) ==
    /\ stored' = stored \cup {b}
    /\ UNCHANGED <<attested, published>>

Attest(b) ==
    /\ b \in stored
    /\ attested' = attested \cup {b}
    /\ UNCHANGED <<stored, published>>

Publish(v) ==
    /\ Needs[v] \subseteq attested
    /\ published' = published \cup {v}
    /\ UNCHANGED <<stored, attested>>

Next ==
    \/ \E b \in Blobs : Store(b) \/ Attest(b)
    \/ \E v \in Versions : Publish(v)

Spec == Init /\ [][Next]_vars

-----------------------------------------------------------------------------
\* What a reader of a published version counts on: every byte of it is stored.
PublishedIsStored ==
    /\ attested \subseteq stored
    /\ \A v \in published : Needs[v] \subseteq attested

\* ... and stays stored, attested and published.
NothingIsWithdrawn ==
    [][stored \subseteq stored' /\ attested \subseteq attested' /\ published \subseteq published']_vars
=============================================================================
