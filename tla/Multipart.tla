----------------------------- MODULE Multipart -----------------------------
(***************************************************************************)
(* The M2 multipart transactions of SqlAlchemyStore: generation-numbered   *)
(* sessions with a frozen part plan, upload admission leases, part         *)
(* receipts and their reconciliation with ListParts, and asynchronous      *)
(* completion under a second lease.  One action is one transaction; one    *)
(* that raises (in Python or in a row trigger of migration 0003) is rolled *)
(* back and is no step.  Callers are unconstrained: any request may be     *)
(* made at any time, with any epoch ever granted and any ListParts answer. *)
(*                                                                         *)
(* Lease times are abstracted to `live` (expires_at > clock_timestamp());  *)
(* a lease may expire between any two transactions, renewals are stutters. *)
(***************************************************************************)
EXTENDS Integers, FiniteSets, FiniteSetsExt

CONSTANTS
    Blobs,              \* referenced blobs above the single-PUT limit
    Plans,              \* part_plan_sha256 values a caller may send for a blob
    Parts,              \* part numbers of every plan
    ETags,              \* opaque ETags of uploads of a part's exact bytes
    Invocations,        \* CLI runs
    ResolveKeys,        \* request ids of scope multipart-session-resolve
    AcquireKeys,        \* ... of scope multipart-admission-acquire
    AcceptKeys,         \* ... of scope multipart-completion-accept
    AdmissionCapacity,  \* the capacity callers pass to acquire_multipart_lease
    CompletionCapacity, \* ... and to claim_completion
    MaxSessions,        \* bound on upload_sessions rows
    MaxClaims,          \* bound on the completion epochs of a session
    None

ASSUME CapacityAssumption == AdmissionCapacity \in Nat \ {0} /\ CompletionCapacity \in Nat \ {0}
ASSUME MultipartBounds == MaxSessions \in Nat \ {0} /\ MaxClaims \in Nat \ {0}
ASSUME PartsAssumption == Parts # {} /\ IsFiniteSet(Parts)
ASSUME NoneIsNoValue ==
    /\ None \notin Blobs \cup Plans \cup ETags \cup Invocations
    /\ "mismatch" \notin ETags /\ None # "mismatch"
    /\ None \notin [blob : Blobs, plan : Plans, session : 1..MaxSessions]
    /\ None \notin [session : 1..MaxSessions, invocation : Invocations, epoch : Nat]
    /\ None \notin 1..MaxSessions

VARIABLES
    bState,      \* blobs.state
    session,     \* upload_sessions rows, in creation order
    part,        \* upload_parts rows of each session
    admission,   \* multipart_admission_leases
    completion,  \* multipart_completion_leases
    nextId,      \* the next row of upload_sessions
    resolveKey, acquireKey, acceptKey    \* idempotency_records by scope

keyVars == <<resolveKey, acquireKey, acceptKey>>
mpVars == <<bState, session, part, admission, completion, nextId, keyVars>>

-----------------------------------------------------------------------------
(***************************************************************************)
(* Tables.                                                                 *)
(***************************************************************************)

SessionIds == 1..MaxSessions

\* Every grant consumes an acquire request id.
AdmissionEpochs == 1..Cardinality(AcquireKeys)
CompletionEpochs == 1..MaxClaims

UploadStates == {"CREATED", "INITIATING", "IN_PROGRESS"}
ActiveStates == UploadStates \cup {"COMPLETING"}
TerminalStates == {"COMPLETED", "FAILED"}
SessionStates == {"ABSENT"} \cup ActiveStates \cup TerminalStates
Phases == {"PENDING", "ASSEMBLING", "FINAL_PRESENT", "FINAL_VERIFICATION"}
BlobStates == {"PENDING", "UPLOADING", "AVAILABLE"}

\* What ListParts shows at a part number: nothing, bytes of another size or
\* checksum, or the exact bytes under some ETag.
Observations == ETags \cup {None, "mismatch"}

NoSession == [state |-> "ABSENT", blob |-> None, plan |-> None, generation |-> 0,
              reason |-> None, phase |-> None, attempted |-> FALSE]
PendingPart == [state |-> "PENDING", receipt |-> None, listed |-> None]
NoAdmission == [epoch |-> 0, invocation |-> None, live |-> FALSE]
NoCompletion == [epoch |-> 0, live |-> FALSE]

SessionsOf(b) == {i \in SessionIds : session[i].blob = b}
ActiveOf(b) == {i \in SessionsOf(b) : session[i].state \in ActiveStates}
Generations(b) == {session[i].generation : i \in SessionsOf(b)}
NextGeneration(b) == IF SessionsOf(b) = {} THEN 1 ELSE Max(Generations(b)) + 1

LiveAdmissions == {i \in SessionIds : admission[i].live}
LiveCompletions == {i \in SessionIds : completion[i].live}

AllVerified(i) == \A n \in Parts : part[i][n].state = "VERIFIED"

\* The fences of upload and completion transactions: the caller's epoch is the
\* lease's, and the lease has not expired.
Admitted(i, e) == admission[i].live /\ admission[i].epoch = e
Claimed(i, e) == completion[i].live /\ completion[i].epoch = e

Lapsed(lease, i) == [lease EXCEPT ![i].live = FALSE]

Init ==
    /\ bState = [b \in Blobs |-> "PENDING"]
    /\ session = [i \in SessionIds |-> NoSession]
    /\ part = [i \in SessionIds |-> [n \in Parts |-> PendingPart]]
    /\ admission = [i \in SessionIds |-> NoAdmission]
    /\ completion = [i \in SessionIds |-> NoCompletion]
    /\ nextId = 1
    /\ resolveKey = [k \in ResolveKeys |-> None]
    /\ acquireKey = [k \in AcquireKeys |-> None]
    /\ acceptKey = [k \in AcceptKeys |-> None]

-----------------------------------------------------------------------------
(***************************************************************************)
(* create_or_resolve_multipart.                                            *)
(***************************************************************************)

BindResolve(k, b, q, i) ==
    /\ resolveKey[k] = None
    /\ resolveKey' = [resolveKey EXCEPT ![k] = [blob |-> b, plan |-> q, session |-> i]]

\* An active session is joined only under the same plan.
JoinGeneration(k, b, q) ==
    /\ \E i \in ActiveOf(b) : session[i].plan = q /\ BindResolve(k, b, q, i)
    /\ UNCHANGED <<bState, session, part, admission, completion, nextId, acquireKey, acceptKey>>

\* A resolve that does not look at the blob before opening an attempt.
OpenGenerationAnyway(k, b, q) ==
    /\ ActiveOf(b) = {}
    /\ nextId <= MaxSessions
    /\ session' = [session EXCEPT ![nextId] =
                     [NoSession EXCEPT !.state = "CREATED", !.blob = b, !.plan = q,
                                       !.generation = NextGeneration(b)]]
    /\ part' = [part EXCEPT ![nextId] = [n \in Parts |-> PendingPart]]
    /\ nextId' = nextId + 1
    /\ BindResolve(k, b, q, nextId)
    /\ UNCHANGED <<bState, admission, completion, acquireKey, acceptKey>>

\* The deferred trigger on upload_sessions refuses a new attempt at an
\* AVAILABLE blob.
OpenGeneration(k, b, q) ==
    /\ ActiveOf(b) = {}
    /\ bState[b] # "AVAILABLE"
    /\ nextId <= MaxSessions
    /\ session' = [session EXCEPT ![nextId] =
                     [NoSession EXCEPT !.state = "CREATED", !.blob = b, !.plan = q,
                                       !.generation = NextGeneration(b)]]
    /\ part' = [part EXCEPT ![nextId] = [n \in Parts |-> PendingPart]]
    /\ nextId' = nextId + 1
    /\ BindResolve(k, b, q, nextId)
    /\ UNCHANGED <<bState, admission, completion, acquireKey, acceptKey>>

\* A bound request id answers with its session, whatever has become of it.
ReplayResolve(k, b, q) ==
    /\ resolveKey[k] # None
    /\ resolveKey[k].blob = b /\ resolveKey[k].plan = q
    /\ UNCHANGED mpVars

CreateOrResolve(k, b, q) ==
    ReplayResolve(k, b, q) \/ JoinGeneration(k, b, q) \/ OpenGeneration(k, b, q)

-----------------------------------------------------------------------------
(***************************************************************************)
(* acquire_multipart_lease, release_multipart_lease, expiry.               *)
(***************************************************************************)

RenewAdmission(w, i) ==
    /\ admission[i].live
    /\ admission[i].invocation = w
    /\ UNCHANGED admission

\* A takeover that revives the epoch it takes over.
GrantAdmissionSameEpoch(w, i) ==
    /\ ~admission[i].live
    /\ Cardinality(LiveAdmissions) < AdmissionCapacity
    /\ admission' = [admission EXCEPT ![i] = [epoch |-> 1, invocation |-> w, live |-> TRUE]]

\* Under the global advisory lock: a first grant, or the takeover of an
\* expired lease, by any invocation, with the next epoch.
GrantAdmission(w, i) ==
    /\ ~admission[i].live
    /\ Cardinality(LiveAdmissions) < AdmissionCapacity
    /\ admission' = [admission EXCEPT ![i] =
                       [epoch |-> @.epoch + 1, invocation |-> w, live |-> TRUE]]

\* A replay answers with the old grant, which may have lapsed.
ReplayAcquire(k, w, i) ==
    /\ acquireKey[k] # None
    /\ acquireKey[k].session = i /\ acquireKey[k].invocation = w
    /\ UNCHANGED mpVars

AcquireAdmission(k, w, i) ==
    /\ acquireKey[k] = None
    /\ session[i].state \in UploadStates
    /\ RenewAdmission(w, i) \/ GrantAdmission(w, i)
    /\ acquireKey' = [acquireKey EXCEPT ![k] =
                        [session |-> i, invocation |-> w, epoch |-> admission'[i].epoch]]
    /\ UNCHANGED <<bState, session, part, completion, nextId, resolveKey, acceptKey>>

ReleaseAdmission(i, e) ==
    /\ Admitted(i, e)
    /\ admission' = Lapsed(admission, i)
    /\ UNCHANGED <<bState, session, part, completion, nextId, keyVars>>

\* Database time passes expires_at.
AdmissionExpires(i) ==
    /\ admission[i].live
    /\ admission' = Lapsed(admission, i)
    /\ UNCHANGED <<bState, session, part, completion, nextId, keyVars>>

CompletionExpires(i) ==
    /\ completion[i].live
    /\ completion' = Lapsed(completion, i)
    /\ UNCHANGED <<bState, session, part, admission, nextId, keyVars>>

-----------------------------------------------------------------------------
(***************************************************************************)
(* Provider initiation.                                                    *)
(***************************************************************************)

BeginProviderInitiation(i, e) ==
    /\ Admitted(i, e)
    /\ session[i].state = "CREATED"
    /\ session' = [session EXCEPT ![i].state = "INITIATING"]
    /\ UNCHANGED <<bState, part, admission, completion, nextId, keyVars>>

RecordProviderUpload(i, e) ==
    /\ Admitted(i, e)
    /\ session[i].state = "INITIATING"
    /\ bState[session[i].blob] \in {"PENDING", "UPLOADING"}
    /\ session' = [session EXCEPT ![i].state = "IN_PROGRESS"]
    /\ bState' = [bState EXCEPT ![session[i].blob] = "UPLOADING"]
    /\ UNCHANGED <<part, admission, completion, nextId, keyVars>>

\* A termination that invents a state.
MarkInitiationExpired(i, e) ==
    /\ Admitted(i, e)
    /\ session[i].state = "INITIATING"
    /\ session' = [session EXCEPT ![i].state = "EXPIRED"]
    /\ admission' = Lapsed(admission, i)
    /\ UNCHANGED <<bState, part, completion, nextId, keyVars>>

MarkInitiationAmbiguous(i, e) ==
    /\ Admitted(i, e)
    /\ session[i].state = "INITIATING"
    /\ session' = [session EXCEPT ![i].state = "FAILED"]
    /\ admission' = Lapsed(admission, i)
    /\ UNCHANGED <<bState, part, completion, nextId, keyVars>>

-----------------------------------------------------------------------------
(***************************************************************************)
(* record_uploaded_part and reconcile_parts.                               *)
(***************************************************************************)

\* The transaction does not raise: no receipt is stored yet, or the same one.
CanRecordPart(i, n, t) ==
    /\ session[i].state = "IN_PROGRESS"
    /\ part[i][n].receipt \in {None, t}

\* A receipt written over the one that was stored.
RecordUploadedPartAgain(i, e, n, t) ==
    /\ Admitted(i, e)
    /\ session[i].state = "IN_PROGRESS"
    /\ part' = [part EXCEPT ![i][n] = [@ EXCEPT !.state = "UPLOADED", !.receipt = t]]
    /\ UNCHANGED <<bState, session, admission, completion, nextId, keyVars>>

\* A stored receipt is confirmed without touching the part's state.
RecordUploadedPart(i, e, n, t) ==
    /\ Admitted(i, e)
    /\ CanRecordPart(i, n, t)
    /\ part' = IF part[i][n].receipt = None
               THEN [part EXCEPT ![i][n] = [@ EXCEPT !.state = "UPLOADED", !.receipt = t]]
               ELSE part
    /\ UNCHANGED <<bState, session, admission, completion, nextId, keyVars>>

\* A listing taken for a receipt.
MatchesListing(p, o) == o \in ETags

\* _apply_provider_part_observation: size, checksum and the stored receipt.
Matches(p, o) == o \in ETags /\ p.receipt = o

Reconciled(p, o) ==
    [p EXCEPT !.listed = o, !.state = IF Matches(p, o) THEN "VERIFIED" ELSE "PENDING"]

\* Every row of the session, against one complete ListParts answer.
ReconciledParts(i, obs) == [n \in Parts |-> Reconciled(part[i][n], obs[n])]

ReconcileParts(i, e, obs) ==
    /\ Admitted(i, e)
    /\ session[i].state = "IN_PROGRESS"
    /\ part' = [part EXCEPT ![i] = ReconciledParts(i, obs)]
    /\ UNCHANGED <<bState, session, admission, completion, nextId, keyVars>>

-----------------------------------------------------------------------------
(***************************************************************************)
(* accept_completion and claim_completion.                                 *)
(***************************************************************************)

\* Before any fence: the stored 202, even if the session was reopened since.
ReplayAccept(k, i) == acceptKey[k] = i /\ UNCHANGED mpVars

\* An acceptance that leaves the upload lease to expire.
AcceptCompletionKeepingLease(k, i, e) ==
    /\ acceptKey[k] = None
    /\ Admitted(i, e)
    /\ session[i].state = "IN_PROGRESS"
    /\ AllVerified(i)
    /\ session' = [session EXCEPT ![i] = [@ EXCEPT !.state = "COMPLETING",
                                                   !.reason = "PARTS_READY",
                                                   !.phase = "PENDING"]]
    /\ acceptKey' = [acceptKey EXCEPT ![k] = i]
    /\ UNCHANGED <<bState, part, admission, completion, nextId, resolveKey, acquireKey>>

AcceptCompletion(k, i, e) ==
    /\ acceptKey[k] = None
    /\ Admitted(i, e)
    /\ session[i].state = "IN_PROGRESS"
    /\ AllVerified(i)
    /\ session' = [session EXCEPT ![i] = [@ EXCEPT !.state = "COMPLETING",
                                                   !.reason = "PARTS_READY",
                                                   !.phase = "PENDING"]]
    /\ admission' = Lapsed(admission, i)
    /\ acceptKey' = [acceptKey EXCEPT ![k] = i]
    /\ UNCHANGED <<bState, part, completion, nextId, resolveKey, acquireKey>>

\* The oldest claimable row that no other transaction has locked: any of them
\* (SKIP LOCKED).
ClaimCompletion(i) ==
    /\ session[i].state = "COMPLETING"
    /\ ~completion[i].live
    /\ completion[i].epoch < MaxClaims
    /\ Cardinality(LiveCompletions) < CompletionCapacity
    /\ completion' = [completion EXCEPT ![i] = [epoch |-> @.epoch + 1, live |-> TRUE]]
    /\ UNCHANGED <<bState, session, part, admission, nextId, keyVars>>

-----------------------------------------------------------------------------
(***************************************************************************)
(* set_completion_phase: the domain rule, then the row trigger.            *)
(***************************************************************************)

DomainPhaseEdges ==
    {<<"PENDING", "ASSEMBLING">>, <<"ASSEMBLING", "FINAL_PRESENT">>,
     <<"FINAL_PRESENT", "FINAL_VERIFICATION">>,
     <<"PENDING", "FINAL_PRESENT">>,             \* final_present_observed
     <<"ASSEMBLING", "PENDING">>,                \* retryable_reconciliation
     <<"FINAL_VERIFICATION", "FINAL_PRESENT">>}  \* transient_read_failure

TriggerAllowsPhase(i, q) ==
    LET p == session[i].phase IN
    /\ <<p, q>> = <<"PENDING", "FINAL_PRESENT">> => session[i].reason = "FINAL_PRESENT"
    /\ <<p, q>> = <<"ASSEMBLING", "PENDING">> => session[i].attempted

SetCompletionPhase(i, e, q) ==
    /\ Claimed(i, e)
    /\ session[i].state = "COMPLETING"
    /\ <<session[i].phase, q>> \in DomainPhaseEdges
    /\ TriggerAllowsPhase(i, q)
    /\ session' = [session EXCEPT ![i].phase = q]
    /\ UNCHANGED <<bState, part, admission, completion, nextId, keyVars>>

-----------------------------------------------------------------------------
(***************************************************************************)
(* recover_partial_completion and record_verified_completion.              *)
(***************************************************************************)

\* CONDITIONAL_409 or MULTIPART_SESSION_NOT_FOUND: the attempt is over.
RecoverInvalidated(i, e) ==
    /\ Claimed(i, e)
    /\ session[i].state = "COMPLETING"
    /\ session' = [session EXCEPT ![i].state = "FAILED"]
    /\ completion' = Lapsed(completion, i)
    /\ UNCHANGED <<bState, part, admission, nextId, keyVars>>

\* PARTS_READY: every planned part still matches; completion is retried.
RecoverReady(i, e, obs) ==
    /\ Claimed(i, e)
    /\ session[i].state = "COMPLETING"
    /\ \A n \in Parts : Matches(part[i][n], obs[n])
    /\ part' = [part EXCEPT ![i] = ReconciledParts(i, obs)]
    /\ UNCHANGED <<bState, session, admission, completion, nextId, keyVars>>

\* A reopening that keeps the runner's claim.
RecoverPartialKeepingClaim(i, e, obs) ==
    /\ Claimed(i, e)
    /\ session[i].state = "COMPLETING"
    /\ \E n \in Parts : ~Matches(part[i][n], obs[n])
    /\ part' = [part EXCEPT ![i] = ReconciledParts(i, obs)]
    /\ session' = [session EXCEPT ![i] = [@ EXCEPT !.state = "IN_PROGRESS",
                                                   !.reason = None, !.phase = None]]
    /\ UNCHANGED <<bState, admission, completion, nextId, keyVars>>

\* PARTS_PARTIAL: the session goes back to its uploaders.
RecoverPartial(i, e, obs) ==
    /\ Claimed(i, e)
    /\ session[i].state = "COMPLETING"
    /\ \E n \in Parts : ~Matches(part[i][n], obs[n])
    /\ part' = [part EXCEPT ![i] = ReconciledParts(i, obs)]
    /\ session' = [session EXCEPT ![i] = [@ EXCEPT !.state = "IN_PROGRESS",
                                                   !.reason = None, !.phase = None]]
    /\ completion' = Lapsed(completion, i)
    /\ UNCHANGED <<bState, admission, nextId, keyVars>>

\* The caller's evidence is a full read that equals the blob's identity.
RecordVerifiedCompletion(i, e) ==
    /\ Claimed(i, e)
    /\ session[i].state = "COMPLETING"
    /\ session[i].phase = "FINAL_VERIFICATION"
    /\ bState[session[i].blob] = "UPLOADING"
    /\ bState' = [bState EXCEPT ![session[i].blob] = "AVAILABLE"]
    /\ session' = [session EXCEPT ![i].state = "COMPLETED"]
    /\ completion' = Lapsed(completion, i)
    /\ UNCHANGED <<part, admission, nextId, keyVars>>

-----------------------------------------------------------------------------
UploadStep(i, e) ==
    \/ ReleaseAdmission(i, e)
    \/ BeginProviderInitiation(i, e)
    \/ RecordProviderUpload(i, e)
    \/ MarkInitiationAmbiguous(i, e)
    \/ \E n \in Parts, t \in ETags : RecordUploadedPart(i, e, n, t)
    \/ \E obs \in [Parts -> Observations] : ReconcileParts(i, e, obs)
    \/ \E k \in AcceptKeys : AcceptCompletion(k, i, e)

RunnerStep(i, e) ==
    \/ \E q \in Phases : SetCompletionPhase(i, e, q)
    \/ RecoverInvalidated(i, e)
    \/ \E obs \in [Parts -> Observations] : RecoverReady(i, e, obs) \/ RecoverPartial(i, e, obs)
    \/ RecordVerifiedCompletion(i, e)

MultipartNext ==
    \/ \E k \in ResolveKeys, b \in Blobs, q \in Plans : CreateOrResolve(k, b, q)
    \/ \E i \in SessionIds :
         \/ \E k \in AcquireKeys, w \in Invocations :
              ReplayAcquire(k, w, i) \/ AcquireAdmission(k, w, i)
         \/ \E k \in AcceptKeys : ReplayAccept(k, i)
         \/ \E e \in AdmissionEpochs : UploadStep(i, e)
         \/ ClaimCompletion(i)
         \/ \E e \in CompletionEpochs : RunnerStep(i, e)
         \/ AdmissionExpires(i) \/ CompletionExpires(i)

MultipartSpec == Init /\ [][MultipartNext]_mpVars
-----------------------------------------------------------------------------
(***************************************************************************)
(* Properties.                                                             *)
(***************************************************************************)

\* Type correctness of the multipart tables.
MultipartTypeOK ==
    /\ bState \in [Blobs -> BlobStates]
    /\ session \in [SessionIds -> [state : SessionStates, blob : Blobs \cup {None},
                                   plan : Plans \cup {None}, generation : Nat,
                                   reason : {None, "PARTS_READY"}, phase : Phases \cup {None},
                                   attempted : BOOLEAN]]
    /\ part \in [SessionIds -> [Parts -> [state : {"PENDING", "UPLOADED", "VERIFIED"},
                                         receipt : ETags \cup {None}, listed : Observations]]]
    /\ admission \in [SessionIds -> [epoch : Nat, invocation : Invocations \cup {None},
                                     live : BOOLEAN]]
    /\ completion \in [SessionIds -> [epoch : 0..MaxClaims, live : BOOLEAN]]
    /\ nextId \in 1..(MaxSessions + 1)
    /\ resolveKey \in [ResolveKeys ->
                        [blob : Blobs, plan : Plans, session : SessionIds] \cup {None}]
    /\ acquireKey \in [AcquireKeys ->
                        [session : SessionIds, invocation : Invocations, epoch : Nat]
                          \cup {None}]
    /\ acceptKey \in [AcceptKeys -> SessionIds \cup {None}]

\* The generations of a blob are 1, 2, ..., n, the blob is AVAILABLE exactly
\* when its newest generation is COMPLETED, and every older one is FAILED: no
\* second active attempt, no attempt after publication, no publication by a
\* superseded generation.
NewestGenerationDecides ==
    \A b \in Blobs :
      /\ Generations(b) = 1..Cardinality(SessionsOf(b))
      /\ bState[b] = "AVAILABLE" => \E i \in SessionsOf(b) : session[i].state = "COMPLETED"
      /\ \A i \in SessionsOf(b) :
           IF \E j \in SessionsOf(b) : session[j].generation > session[i].generation
           THEN session[i].state = "FAILED"
           ELSE CASE session[i].state = "COMPLETED" -> bState[b] = "AVAILABLE"
                  [] session[i].state \in {"IN_PROGRESS", "COMPLETING"} -> bState[b] = "UPLOADING"
                  [] OTHER -> bState[b] # "AVAILABLE"

\* An upload lease and a completion lease never own a session at once, and each
\* is live only in the session states its holder works in: accepting, reopening
\* and terminating a session hand its slot back in the same transaction, even
\* when a lease was taken over, renewed or expired on the way.
OwnershipFollowsState ==
    \A i \in SessionIds :
      /\ admission[i].live => session[i].state \in UploadStates
      /\ completion[i].live => session[i].state = "COMPLETING"

\* What was accepted for completion stays complete until it is reopened: every
\* part of a COMPLETING or COMPLETED session is VERIFIED, and a VERIFIED part's
\* stored UploadPart receipt is the one ListParts last showed.
AcceptedPartsStayVerified ==
    \A i \in SessionIds :
      /\ session[i].state \in {"COMPLETING", "COMPLETED"} => AllVerified(i)
      /\ \A n \in Parts : part[i][n].state = "VERIFIED" =>
           part[i][n].receipt \in ETags /\ part[i][n].listed = part[i][n].receipt

\* A fencing token belongs to one invocation: however often leases expire, are
\* taken over and requests are replayed, two acquire requests answered with the
\* same epoch of a session were made by the same invocation.
TokensAreExclusive ==
    \A k, l \in AcquireKeys :
      /\ acquireKey[k] # None /\ acquireKey[l] # None
      /\ acquireKey[k].session = acquireKey[l].session
      /\ acquireKey[k].epoch = acquireKey[l].epoch
      => acquireKey[k].invocation = acquireKey[l].invocation

\* Terminal generations are never touched again, receipts are never replaced,
\* and epochs never go back, whatever any later caller of the store does.
HistoryIsImmutable ==
    [][\A i \in SessionIds :
         /\ session[i].state \in TerminalStates =>
              /\ session'[i] = session[i]
              /\ part'[i] = part[i]
              /\ ~admission'[i].live /\ ~completion'[i].live
         /\ \A n \in Parts : part[i][n].receipt # None =>
              part'[i][n].receipt = part[i][n].receipt
         /\ admission'[i].epoch >= admission[i].epoch
         /\ completion'[i].epoch >= completion[i].epoch]_mpVars

\* The stage of a session and whose it is, in the terms of UploadOwnership.
StageOf(st) ==
    CASE st = "ABSENT" -> "none"
      [] st \in UploadStates -> "uploading"
      [] st = "COMPLETING" -> "completing"
      [] st = "COMPLETED" -> "published"
      [] OTHER -> "dead"

OwnerOf(admitted, claimed) ==
    IF admitted THEN "client" ELSE IF claimed THEN "runner" ELSE "nobody"

Stages == [i \in SessionIds |-> StageOf(session[i].state)]
Owners == [i \in SessionIds |-> OwnerOf(admission[i].live, completion[i].live)]

Ownership == INSTANCE UploadOwnership WITH
    Sessions <- SessionIds, stage <- Stages, owner <- Owners

\* The lease tables and session states implement exclusive session ownership.
ImplementsOwnership == Ownership!Spec

\* Reconciliation matrix, rows 5 and 20: a part that reconciliation reset is
\* re-uploaded and its fresh receipt is stored.
ResetPartTakesFreshReceipt ==
    \A i \in SessionIds, n \in Parts :
      session[i].state = "IN_PROGRESS" /\ part[i][n].state = "PENDING" =>
        \A t \in ETags : CanRecordPart(i, n, t)
\* No more sessions hold an upload lease, or a completion lease, than there are
\* slots, however leases expire, are taken over and are handed from one pool to
\* the other.
SlotsAreBounded ==
    /\ Cardinality(LiveAdmissions) <= AdmissionCapacity
    /\ Cardinality(LiveCompletions) <= CompletionCapacity
=============================================================================
