-------------------------- MODULE UploadOwnership --------------------------
(***************************************************************************)
(* Who may move a multipart session, without parts, phases, epochs or      *)
(* request keys.  A session belongs to nobody, to one client (upload       *)
(* admission) or to one runner (completion), never to two of them; clients *)
(* hand it over by accepting completion, runners by publishing, giving up  *)
(* or reopening it, and every hand-over leaves it to nobody.  How many     *)
(* owners there may be at once is module Fencing's subject.                *)
(***************************************************************************)
CONSTANT Sessions

VARIABLES stage, owner

vars == <<stage, owner>>

Init ==
    /\ stage = [s \in Sessions |-> "none"]
    /\ owner = [s \in Sessions |-> "nobody"]

Move(s, st, o) ==
    /\ stage' = [stage EXCEPT ![s] = st]
    /\ owner' = [owner EXCEPT ![s] = o]

Create(s) == stage[s] = "none" /\ Move(s, "uploading", "nobody")

Admit(s) ==
    /\ stage[s] = "uploading" /\ owner[s] = "nobody"
    /\ Move(s, "uploading", "client")

Claim(s) ==
    /\ stage[s] = "completing" /\ owner[s] = "nobody"
    /\ Move(s, "completing", "runner")

Lapse(s) == Move(s, stage[s], "nobody")

\* A client accepts completion or gives up; a runner reopens, publishes or
\* gives up.
HandOver(s) ==
    \/ /\ stage[s] = "uploading" /\ owner[s] = "client"
       /\ \E st \in {"completing", "dead"} : Move(s, st, "nobody")
    \/ /\ stage[s] = "completing" /\ owner[s] = "runner"
       /\ \E st \in {"uploading", "published", "dead"} : Move(s, st, "nobody")

Next == \E s \in Sessions : Create(s) \/ Admit(s) \/ Claim(s) \/ Lapse(s) \/ HandOver(s)

Spec == Init /\ [][Next]_vars
=============================================================================
