----------------------------- MODULE SinglePut -----------------------------
(***************************************************************************)
(* M1 publication end to end: push clients (PushWorkflow), the API's       *)
(* TransferService and the object store, over the transactions of          *)
(* Registry.  A service call is split wherever it leaves a transaction:    *)
(* what a handler read (the upload context, the HEAD answer) is kept in    *)
(* ctx and may be stale when the next step uses it.                        *)
(*                                                                         *)
(* Objects are absent, good (the bytes of their digest) or bad (written by *)
(* something other than RoboLake).  RoboLake's own PUT is create-only and  *)
(* bound to size and SHA-256, so it stores good bytes or nothing.          *)
(***************************************************************************)
EXTENDS Registry

CONSTANTS
    Pushers,    \* runs of `robolake push`, rerun by their user on failure
    Job,        \* [Pushers -> Versions]: the directory each of them pushes
    MaxFaults,  \* bound on lost answers, 409 conflicts and killed processes
    MaxPoison   \* bound on objects written by something else

ASSUME JobAssumption == Job \in [Pushers -> Versions]
ASSUME FaultsAssumption == MaxFaults \in Nat /\ MaxPoison \in Nat

\* make_idempotency_key is a digest of the request: the request itself.
ASSUME PushKeysAssumption ==
    /\ Datasets \subseteq DatasetKeys
    /\ Versions \subseteq VersionKeys
    /\ Requests \subseteq UploadKeys

VARIABLES
    object,    \* the object stored at each content-addressed key
    pc,        \* where each push is
    resolved,  \* digests each push has resolved
    ctx,       \* what the handler of each push last read
    late,      \* PUT requests whose sender gave up, still on their way
    faults, poisons

pushVars == <<object, pc, resolved, ctx, late, faults, poisons>>
vars == <<regVars, pushVars>>

-----------------------------------------------------------------------------
ObjectStates == {"absent", "good", "bad"}
Locations == {"idle", "register", "prepare", "head", "restart", "begin", "url", "start",
              "put", "complete", "verify", "done", "error"}

NoContext == [blob |-> None, id |-> 1, sState |-> "ABSENT", bState |-> "ABSENT",
              info |-> "absent"]

PutInit ==
    /\ Init
    /\ object = [b \in Blobs |-> "absent"]
    /\ pc = [p \in Pushers |-> "idle"]
    /\ resolved = [p \in Pushers |-> {}]
    /\ ctx = [p \in Pushers |-> NoContext]
    /\ late = {}
    /\ faults = 0
    /\ poisons = 0

Goto(p, l) == pc' = [pc EXCEPT ![p] = l]

\* The handler is done with what it read.
Forget(p) == ctx' = [ctx EXCEPT ![p] = NoContext]

\* push exits with an error and forgets everything.
Fail(p) ==
    /\ Goto(p, "error")
    /\ resolved' = [resolved EXCEPT ![p] = {}]
    /\ Forget(p)

\* The call raised: its transaction is rolled back.
Raise(p) ==
    /\ Fail(p)
    /\ UNCHANGED <<regVars, object, late, faults, poisons>>

\* The object store creates the object unless the key is taken (If-None-Match: *).
Stored(b) == [object EXCEPT ![b] = IF @ = "absent" THEN "good" ELSE @]

-----------------------------------------------------------------------------
(***************************************************************************)
(* PushWorkflow.run: dataset and version.  Both calls use keys derived     *)
(* from their arguments, so a rerun replays them.                          *)
(***************************************************************************)

Begin(p) ==
    /\ pc[p] \in {"idle", "error", "done"}
    /\ CreateDataset(Job[p][1], Job[p][1])
    /\ Goto(p, "register")
    /\ resolved' = [resolved EXCEPT ![p] = {}]
    /\ UNCHANGED <<object, ctx, late, faults, poisons>>

Register(p) ==
    /\ pc[p] = "register"
    /\ RegisterVersion(Job[p], Job[p])
    /\ Goto(p, IF vState[Job[p]] = "READY" THEN "done" ELSE "prepare")
    /\ UNCHANGED <<object, resolved, ctx, late, faults, poisons>>

-----------------------------------------------------------------------------
(***************************************************************************)
(* TransferService.prepare_upload.                                         *)
(***************************************************************************)

Prepare(p, b) ==
    /\ pc[p] = "prepare"
    /\ b \in BlobsOf(Job[p]) \ resolved[p]
    /\ PrepareUpload(<<Job[p], b>>, Job[p], b)
    /\ \/ /\ bState[b] = "AVAILABLE"
          /\ resolved' = [resolved EXCEPT ![p] = @ \cup {b}]
          /\ UNCHANGED <<pc, ctx>>
       \/ /\ bState[b] # "AVAILABLE"
          /\ LET i == upKey'[<<Job[p], b>>].session IN
             ctx' = [ctx EXCEPT ![p] = [blob |-> b, id |-> i, sState |-> session'[i].state,
                                        bState |-> bState[b], info |-> "absent"]]
          /\ Goto(p, "head")
          /\ UNCHANGED resolved
    /\ UNCHANGED <<object, late, faults, poisons>>

HeadAfterPrepare(p) ==
    /\ pc[p] = "head"
    /\ LET info == object[ctx[p].blob] IN
       /\ ctx' = [ctx EXCEPT ![p].info = info]
       /\ Goto(p, IF info = "absent"
                  THEN IF ctx[p].bState = "FAILED" THEN "restart" ELSE "url"
                  ELSE IF ctx[p].sState = "CREATED" THEN "begin" ELSE "verify")
    /\ UNCHANGED <<regVars, object, resolved, late, faults, poisons>>

\* The service passes restart_failed_upload the key prepare_upload has bound,
\* so the call never raises (PushBeliefsHold).
RestartFailed(p) ==
    /\ pc[p] = "restart"
    /\ LET key == <<Job[p], ctx[p].blob>> IN
       /\ RestartFailedUpload(key, Job[p], ctx[p].blob)
       /\ ctx' = [ctx EXCEPT ![p].id = upKey'[key].session]
    /\ Goto(p, "url")
    /\ UNCHANGED <<object, resolved, late, faults, poisons>>

BeginReconciliation(p) ==
    /\ pc[p] = "begin"
    /\ \/ /\ MarkUploadInProgress(ctx[p].id)
          /\ Goto(p, "verify")
          /\ UNCHANGED <<object, resolved, ctx, late, faults, poisons>>
       \/ ~CanStart(ctx[p].id) /\ Raise(p)

-----------------------------------------------------------------------------
(***************************************************************************)
(* TransferService._verify_object and the transition it decides, the tail  *)
(* of both prepare_upload and complete_upload.  The verdict comes from the *)
(* HEAD answer, or, when the provider gave no checksum, from reading the   *)
(* object again.                                                           *)
(***************************************************************************)

Verdicts(p) == {ctx[p].info, object[ctx[p].blob]}

\* The answer of mark_upload_verified names the version that opened the session.
\* A push that joined or fell back on the session of a version with another
\* manifest exits (_require_manifest), although the blob is attested.
AnsweredManifest(p) == session[ctx[p].id].version[2]

TakeAnswer(p) ==
    \/ /\ AnsweredManifest(p) = Job[p][2]
       /\ resolved' = [resolved EXCEPT ![p] = @ \cup {ctx[p].blob}]
       /\ Goto(p, "prepare")
       /\ Forget(p)
    \/ AnsweredManifest(p) # Job[p][2] /\ Fail(p)

RecordVerified(p) ==
    \/ /\ MarkUploadVerified(ctx[p].id)
       /\ TakeAnswer(p)
       /\ UNCHANGED <<object, late, faults, poisons>>
    \/ ~CanVerify(ctx[p].id) /\ Raise(p)

\* A size check alone: bytes of the right length pass.
AttestBySize(p) ==
    /\ pc[p] = "verify"
    /\ RecordVerified(p)

Attest(p) ==
    /\ pc[p] = "verify"
    /\ "good" \in Verdicts(p)
    /\ RecordVerified(p)

\* mark_upload_failed, then StoredObjectMismatchError reaches the user.
ReportMismatch(p) ==
    /\ pc[p] = "verify"
    /\ "bad" \in Verdicts(p)
    /\ \/ /\ MarkUploadFailed(ctx[p].id)
          /\ Fail(p)
          /\ UNCHANGED <<object, late, faults, poisons>>
       \/ ~CanFail(ctx[p].id) /\ Raise(p)

\* The object was removed between HEAD and the streaming read.
ReadVanished(p) ==
    /\ pc[p] = "verify"
    /\ object[ctx[p].blob] = "absent"
    /\ Raise(p)

-----------------------------------------------------------------------------
(***************************************************************************)
(* issue_upload_url, the presigned PUT, and complete_upload.               *)
(***************************************************************************)

IssueUrl(p) ==
    /\ pc[p] = "url"
    /\ Goto(p, IF session[ctx[p].id].state = "CREATED" THEN "start" ELSE "put")
    /\ UNCHANGED <<regVars, object, resolved, ctx, late, faults, poisons>>

StartUpload(p) ==
    /\ pc[p] = "start"
    /\ \/ /\ MarkUploadInProgress(ctx[p].id)
          /\ Goto(p, "put")
          /\ UNCHANGED <<object, resolved, ctx, late, faults, poisons>>
       \/ ~CanStart(ctx[p].id) /\ Raise(p)

\* 200 Created, or 412 because the key is taken: push goes on to complete.
Put(p) ==
    /\ pc[p] = "put"
    /\ object' = Stored(ctx[p].blob)
    /\ Goto(p, "complete")
    /\ UNCHANGED <<regVars, resolved, ctx, late, faults, poisons>>

\* 409: the outcome of a concurrent conditional write is not known yet.
PutConflict(p) ==
    /\ pc[p] = "put"
    /\ faults < MaxFaults
    /\ faults' = faults + 1
    /\ Goto(p, "complete")
    /\ UNCHANGED <<regVars, object, resolved, ctx, late, poisons>>

\* No answer, or a retryable status: push exits, the request may still land.
PutUnanswered(p) ==
    /\ pc[p] = "put"
    /\ faults < MaxFaults
    /\ faults' = faults + 1
    /\ late' = late \cup {ctx[p].blob}
    /\ Fail(p)
    /\ UNCHANGED <<regVars, object, poisons>>

\* complete_upload: HEAD again; nothing visible is an UploadConflictError.
HeadAfterPut(p) ==
    /\ pc[p] = "complete"
    /\ LET info == object[ctx[p].blob] IN
       \/ /\ info # "absent"
          /\ ctx' = [ctx EXCEPT ![p].info = info]
          /\ Goto(p, "verify")
          /\ UNCHANGED <<regVars, object, resolved, late, faults, poisons>>
       \/ info = "absent" /\ Raise(p)

-----------------------------------------------------------------------------
\* A push that trusts its own list of resolved digests.
FinalizeTrusting(p) ==
    /\ pc[p] = "prepare"
    /\ resolved[p] = BlobsOf(Job[p])
    /\ Goto(p, "done")
    /\ UNCHANGED <<regVars, object, resolved, ctx, late, faults, poisons>>

\* finalize_version never raises here either (PushBeliefsHold).
Finalize(p) ==
    /\ pc[p] = "prepare"
    /\ resolved[p] = BlobsOf(Job[p])
    /\ FinalizeVersion(Job[p])
    /\ Goto(p, "done")
    /\ UNCHANGED <<object, resolved, ctx, late, faults, poisons>>

\* The client, the API process or a transaction dies between two steps.
Interrupt(p) ==
    /\ pc[p] \notin {"idle", "done", "error"}
    /\ faults < MaxFaults
    /\ faults' = faults + 1
    /\ Fail(p)
    /\ UNCHANGED <<regVars, object, late, poisons>>

LatePut(b) ==
    /\ b \in late
    /\ late' = late \ {b}
    /\ object' = Stored(b)
    /\ UNCHANGED <<regVars, pc, resolved, ctx, faults, poisons>>

Poison(b) ==
    /\ object[b] = "absent"
    /\ poisons < MaxPoison
    /\ poisons' = poisons + 1
    /\ object' = [object EXCEPT ![b] = "bad"]
    /\ UNCHANGED <<regVars, pc, resolved, ctx, late, faults>>

\* ADR 0007: an operator removes a poisoned object of a non-AVAILABLE blob.
OperatorRemoves(b) ==
    /\ object[b] = "bad"
    /\ bState[b] # "AVAILABLE"
    /\ object' = [object EXCEPT ![b] = "absent"]
    /\ UNCHANGED <<regVars, pc, resolved, ctx, late, faults, poisons>>

-----------------------------------------------------------------------------
PushStep(p) ==
    \/ Begin(p) \/ Register(p)
    \/ \E b \in Blobs : Prepare(p, b)
    \/ HeadAfterPrepare(p) \/ RestartFailed(p) \/ BeginReconciliation(p)
    \/ IssueUrl(p) \/ StartUpload(p) \/ Put(p) \/ HeadAfterPut(p)
    \/ Attest(p) \/ ReportMismatch(p) \/ ReadVanished(p)
    \/ Finalize(p)

Fault(p) == PutConflict(p) \/ PutUnanswered(p) \/ Interrupt(p)

Next ==
    \/ \E p \in Pushers : PushStep(p) \/ Fault(p)
    \/ \E b \in Blobs : LatePut(b) \/ Poison(b) \/ OperatorRemoves(b)

Spec == PutInit /\ [][Next]_vars

\* Users rerun a failed push, handlers run to their end, operators act on
\* reported poison.  Faults, late requests and poison need not happen.
Fairness ==
    /\ \A p \in Pushers : WF_vars(PushStep(p))
    /\ \A b \in Blobs : WF_vars(OperatorRemoves(b))

FairSpec == Spec /\ Fairness
-----------------------------------------------------------------------------
(***************************************************************************)
(* Properties.                                                             *)
(***************************************************************************)

\* An AVAILABLE blob's object holds the bytes of its digest, although the
\* attestation is committed some time after the HEAD it rests on and other
\* pushes, late PUTs, a foreign writer and the operator act in between.
AvailableMeansStored ==
    \A b \in Blobs : bState[b] = "AVAILABLE" => object[b] = "good"

\* What a push believes is still true when it acts on it: digests it counts as
\* resolved are AVAILABLE, so finalize is not refused; the key it sends with a
\* restart is bound, so restart is not refused; a push that ended normally left
\* its version READY.
PushBeliefsHold ==
    \A p \in Pushers :
      /\ pc[p] \notin {"idle", "error"} => \A b \in resolved[p] : bState[b] = "AVAILABLE"
      /\ pc[p] = "prepare" /\ resolved[p] = BlobsOf(Job[p]) => CanFinalize(Job[p])
      /\ pc[p] = "restart" => CanRestart(<<Job[p], ctx[p].blob>>, Job[p], ctx[p].blob)
      /\ pc[p] = "done" => vState[Job[p]] = "READY"

\* Session and blob of a handler's context belong together through every
\* stale read: the mark_upload_* it ends in attests the object it looked at.
ContextsAreCoherent ==
    \A p \in Pushers :
      pc[p] \in {"head", "restart", "begin", "url", "start", "put", "complete", "verify"} =>
        /\ ctx[p].blob \in BlobsOf(Job[p])
        /\ session[ctx[p].id].blob = ctx[p].blob

\* The service over the registry implements the abstract Publication: bytes
\* are stored, then attested, then published, and nothing is withdrawn.
Abstract == INSTANCE Publication WITH
    Needs <- [v \in Versions |-> BlobsOf(v)],
    stored <- {b \in Blobs : object[b] = "good"},
    attested <- {b \in Blobs : bState[b] = "AVAILABLE"},
    published <- {v \in Versions : vState[v] = "READY"}

ImplementsPublication == Abstract!Spec

\* Unless some object is poisoned, every push, rerun after its faults, publishes
\* its version.
PushesPublish == \A p \in Pushers : <>(vState[Job[p]] = "READY" \/ poisons > 0)

\* ADR 0007: once the operator has removed the poisoned object, rerunning push
\* resumes the same version and publishes it.
RerunRepairsFailedVersion ==
    \A p \in Pushers : vState[Job[p]] = "FAILED" ~> vState[Job[p]] = "READY"

\* ADR 0007: a mismatching object at a content key is recorded on its blob
\* (unless the blob was meanwhile attested from a repaired object).
MismatchIsRecorded ==
    [][\A p \in Pushers : ReportMismatch(p) =>
         bState'[ctx[p].blob] \in {"FAILED", "AVAILABLE"}]_vars
=============================================================================
