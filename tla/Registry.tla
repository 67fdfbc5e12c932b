------------------------------ MODULE Registry ------------------------------
(***************************************************************************)
(* The M1 registry: the transactions of SqlAlchemyStore that create        *)
(* datasets, seal versions, and move blobs, versions and SINGLE_PUT upload *)
(* sessions through their lifecycles.  One action is one transaction       *)
(* (`with self._sessions.begin()`): each locks the rows its decision reads *)
(* (SELECT ... FOR UPDATE), so transactions on the same blob or version    *)
(* are serial, and a transaction that raises, loses a unique-constraint    *)
(* race or is chosen as a deadlock victim is rolled back: it is the        *)
(* absence of a step.  Callers are unconstrained here: any transaction may *)
(* be called at any time with any key.  SinglePut restricts the callers to *)
(* the API service and the push workflow.                                  *)
(*                                                                         *)
(* The transient VERIFYING values a transaction writes between two flushes *)
(* are never committed, so no state of this module has them.               *)
(***************************************************************************)
EXTENDS Integers, FiniteSets, FiniteSetsExt

CONSTANTS
    Datasets,     \* dataset names
    Manifests,    \* canonical manifests, identified by their SHA-256
    Blobs,        \* content digests
    Content,      \* [Manifests -> SUBSET Blobs]: the distinct digests of a manifest
    DatasetKeys,  \* Idempotency-Key values of scope dataset-create
    VersionKeys,  \* ... of scope version-register
    UploadKeys,   \* ... of scope upload-session-create
    MaxSessions,  \* bound on the upload_sessions rows ever inserted
    None          \* SQL NULL / no row

ASSUME ContentAssumption == Content \in [Manifests -> SUBSET Blobs]
ASSUME MaxSessionsAssumption == MaxSessions \in Nat \ {0}
ASSUME NoneAssumption ==
    /\ None \notin Datasets
    /\ None \notin Blobs
    /\ None \notin Datasets \X Manifests
    /\ None \notin [request : (Datasets \X Manifests) \X Blobs, session : 1..MaxSessions]

VARIABLES
    datasets,   \* rows of datasets
    vState,     \* dataset_versions.state by (dataset, manifest) identity
    vNumber,    \* dataset_versions.version_number, 0 while there is no row
    bState,     \* blobs.state by digest
    session,    \* upload_sessions rows in creation order
    nextId,     \* the next row of upload_sessions
    dsKey,      \* idempotency_records of scope dataset-create
    verKey,     \* idempotency_records of scope version-register
    upKey       \* idempotency_records of scope upload-session-create

regVars == <<datasets, vState, vNumber, bState, session, nextId, dsKey, verKey, upKey>>
identityVars == <<datasets, vNumber, dsKey, verKey>>

-----------------------------------------------------------------------------
(***************************************************************************)
(* Tables.                                                                 *)
(***************************************************************************)

\* Unique (dataset_id, manifest_sha256): a version is identified by the pair.
Versions == Datasets \X Manifests
BlobsOf(v) == Content[v[2]]
Requests == Versions \X Blobs

SessionIds == 1..MaxSessions

VersionStates == {"ABSENT", "DRAFT", "UPLOADING", "READY", "FAILED"}
BlobStates == {"ABSENT", "PENDING", "UPLOADING", "AVAILABLE", "FAILED"}
ActiveStates == {"CREATED", "IN_PROGRESS"}
TerminalStates == {"COMPLETED", "FAILED"}
SessionStates == {"ABSENT"} \cup ActiveStates \cup TerminalStates

NoSession == [state |-> "ABSENT", blob |-> None, version |-> None]

SessionsOf(b) == {i \in SessionIds : session[i].blob = b}
ActiveOf(b) == {i \in SessionsOf(b) : session[i].state \in ActiveStates}

\* The newest session of all, whichever its blob.
LatestOfAny(b) == nextId - 1

\* ORDER BY created_at DESC LIMIT 1: rows are numbered in creation order.
LatestOf(b) == Max(SessionsOf(b))

Registered(d) == {v \in {d} \X Manifests : vState[v] # "ABSENT"}
Numbers(d) == {vNumber[v] : v \in Registered(d)}

-----------------------------------------------------------------------------
Init ==
    /\ datasets = {}
    /\ vState = [v \in Versions |-> "ABSENT"]
    /\ vNumber = [v \in Versions |-> 0]
    /\ bState = [b \in Blobs |-> "ABSENT"]
    /\ session = [i \in SessionIds |-> NoSession]
    /\ nextId = 1
    /\ dsKey = [k \in DatasetKeys |-> None]
    /\ verKey = [k \in VersionKeys |-> None]
    /\ upKey = [k \in UploadKeys |-> None]

-----------------------------------------------------------------------------
(***************************************************************************)
(* create_dataset and register_version.                                    *)
(***************************************************************************)

\* A key already bound to the same name replays; bound to another it raises.
CreateDataset(k, d) ==
    /\ dsKey[k] \in {None, d}
    /\ datasets' = datasets \cup {d}
    /\ dsKey' = [dsKey EXCEPT ![k] = d]
    /\ UNCHANGED <<vState, vNumber, bState, session, nextId, verKey, upKey>>

\* The numbering of a registry that counted the READY versions instead.
NextNumberOfPublished(d) ==
    1 + Cardinality({v \in Registered(d) : vState[v] = "READY"})

\* coalesce(max(version_number), 0) + 1 under the dataset row lock.
NextNumber(d) == IF Numbers(d) = {} THEN 1 ELSE Max(Numbers(d)) + 1

\* Blobs upserted on registration: a shared blob's state is overwritten.
SealVersionUpsert(v) ==
    /\ vState[v] = "ABSENT"
    /\ vState' = [vState EXCEPT ![v] = "DRAFT"]
    /\ vNumber' = [vNumber EXCEPT ![v] = NextNumber(v[1])]
    /\ bState' = [b \in Blobs |-> IF b \in BlobsOf(v) THEN "PENDING" ELSE bState[b]]

\* Insert the version, its entries and the blobs nobody referenced before
\* (ON CONFLICT DO NOTHING), and seal it.
SealVersion(v) ==
    /\ vState[v] = "ABSENT"
    /\ vState' = [vState EXCEPT ![v] = "DRAFT"]
    /\ vNumber' = [vNumber EXCEPT ![v] = NextNumber(v[1])]
    /\ bState' = [b \in Blobs |->
                    IF b \in BlobsOf(v) /\ bState[b] = "ABSENT" THEN "PENDING" ELSE bState[b]]

CanRegister(k, v) == v[1] \in datasets /\ verKey[k] \in {None, v}

RegisterVersion(k, v) ==
    /\ CanRegister(k, v)
    /\ \/ SealVersion(v)
       \/ vState[v] # "ABSENT" /\ UNCHANGED <<vState, vNumber, bState>>
    /\ verKey' = [verKey EXCEPT ![k] = v]
    /\ UNCHANGED <<datasets, session, nextId, dsKey, upKey>>

-----------------------------------------------------------------------------
(***************************************************************************)
(* prepare_upload: reuse an AVAILABLE blob, replay a key, join the active  *)
(* session, open one for a PENDING blob, or fall back on the latest.       *)
(* The session handed to the caller is upKey'[k].session.                  *)
(***************************************************************************)

Bind(k, v, b, i) == upKey' = [upKey EXCEPT ![k] = [request |-> <<v, b>>, session |-> i]]

OpenSession(v, b) ==
    /\ nextId <= MaxSessions
    /\ session' = [session EXCEPT ![nextId] =
                     [state |-> "CREATED", blob |-> b, version |-> v]]
    /\ nextId' = nextId + 1

Referenced(v, b) == vState[v] # "ABSENT" /\ b \in BlobsOf(v)

Replays(k, v, b) == upKey[k] # None /\ upKey[k].request = <<v, b>>

ReuseAvailable(k, v, b) ==
    /\ bState[b] = "AVAILABLE"
    /\ UNCHANGED <<session, nextId, upKey>>

ReplayUpload(k, v, b) ==
    /\ bState[b] # "AVAILABLE"
    /\ Replays(k, v, b)
    /\ UNCHANGED <<session, nextId, upKey>>

\* A join that rebinds a key already in use.
JoinActiveRebinding(k, v, b) ==
    /\ bState[b] # "AVAILABLE"
    /\ \E i \in ActiveOf(b) : Bind(k, v, b, i)
    /\ UNCHANGED <<session, nextId>>

JoinActive(k, v, b) ==
    /\ bState[b] # "AVAILABLE"
    /\ upKey[k] = None
    /\ \E i \in ActiveOf(b) : Bind(k, v, b, i)
    /\ UNCHANGED <<session, nextId>>

\* A prepare that did not look for the active session first.
OpenAnother(k, v, b) ==
    /\ bState[b] = "PENDING"
    /\ upKey[k] = None
    /\ OpenSession(v, b)
    /\ Bind(k, v, b, nextId)

OpenFirst(k, v, b) ==
    /\ bState[b] = "PENDING"
    /\ upKey[k] = None
    /\ ActiveOf(b) = {}
    /\ OpenSession(v, b)
    /\ Bind(k, v, b, nextId)

FallBackOnLatest(k, v, b) ==
    /\ bState[b] \notin {"AVAILABLE", "PENDING"}
    /\ upKey[k] = None
    /\ ActiveOf(b) = {}
    /\ SessionsOf(b) # {}
    /\ Bind(k, v, b, LatestOf(b))
    /\ UNCHANGED <<session, nextId>>

PrepareUpload(k, v, b) ==
    /\ Referenced(v, b)
    /\ \/ ReuseAvailable(k, v, b)
       \/ ReplayUpload(k, v, b)
       \/ JoinActive(k, v, b)
       \/ OpenFirst(k, v, b)
       \/ FallBackOnLatest(k, v, b)
    /\ UNCHANGED <<identityVars, vState, bState>>

-----------------------------------------------------------------------------
(***************************************************************************)
(* mark_upload_in_progress / verified / failed.  The Can... predicates are *)
(* the conditions under which the transaction does not raise.              *)
(***************************************************************************)

CanStart(i) == session[i].state \in ActiveStates

\* A start that leaves the initiating version where it is.
MarkUploadInProgressAlone(i) ==
    /\ \/ /\ session[i].state = "CREATED"
          /\ bState' = [bState EXCEPT ![session[i].blob] = IF @ = "PENDING" THEN "UPLOADING" ELSE @]
          /\ session' = [session EXCEPT ![i].state = "IN_PROGRESS"]
       \/ session[i].state = "IN_PROGRESS" /\ UNCHANGED <<bState, session>>
    /\ UNCHANGED <<identityVars, vState, nextId, upKey>>

MarkUploadInProgress(i) ==
    /\ \/ /\ session[i].state = "CREATED"
          /\ LET b == session[i].blob
                 v == session[i].version
             IN  /\ bState' = [bState EXCEPT ![b] = IF @ = "PENDING" THEN "UPLOADING" ELSE @]
                 /\ vState' = [vState EXCEPT ![v] =
                                 IF @ \in {"DRAFT", "FAILED"} THEN "UPLOADING" ELSE @]
          /\ session' = [session EXCEPT ![i].state = "IN_PROGRESS"]
       \/ /\ session[i].state = "IN_PROGRESS"
          /\ UNCHANGED <<bState, vState, session>>
    /\ UNCHANGED <<identityVars, nextId, upKey>>

CanVerify(i) ==
    \/ session[i].state = "COMPLETED"
    \/ session[i].state = "IN_PROGRESS" /\ bState[session[i].blob] = "UPLOADING"

MarkUploadVerified(i) ==
    /\ \/ /\ session[i].state = "IN_PROGRESS"
          /\ bState[session[i].blob] = "UPLOADING"
          /\ bState' = [bState EXCEPT ![session[i].blob] = "AVAILABLE"]
          /\ session' = [session EXCEPT ![i].state = "COMPLETED"]
       \/ /\ session[i].state = "COMPLETED"
          /\ UNCHANGED <<bState, session>>
    /\ UNCHANGED <<identityVars, vState, nextId, upKey>>

CanFail(i) ==
    \/ session[i].state = "FAILED"
    \/ /\ session[i].state = "IN_PROGRESS"
       /\ bState[session[i].blob] = "UPLOADING"
       /\ vState[session[i].version] = "UPLOADING"

\* A failure whose second flush is missing: the blob is committed VERIFYING.
MarkUploadFailedHalfway(i) ==
    /\ session[i].state = "IN_PROGRESS"
    /\ bState' = [bState EXCEPT ![session[i].blob] = "VERIFYING"]
    /\ vState' = [vState EXCEPT ![session[i].version] = "FAILED"]
    /\ session' = [session EXCEPT ![i].state = "FAILED"]
    /\ UNCHANGED <<identityVars, nextId, upKey>>

\* A failure recorded on the blob and the version, the session left active.
MarkUploadFailedKeepingSession(i) ==
    /\ \/ /\ session[i].state = "IN_PROGRESS"
          /\ bState[session[i].blob] = "UPLOADING"
          /\ vState[session[i].version] = "UPLOADING"
          /\ bState' = [bState EXCEPT ![session[i].blob] = "FAILED"]
          /\ vState' = [vState EXCEPT ![session[i].version] = "FAILED"]
          /\ UNCHANGED session
       \/ /\ session[i].state = "FAILED"
          /\ UNCHANGED <<bState, vState, session>>
    /\ UNCHANGED <<identityVars, nextId, upKey>>

MarkUploadFailed(i) ==
    /\ \/ /\ session[i].state = "IN_PROGRESS"
          /\ bState[session[i].blob] = "UPLOADING"
          /\ vState[session[i].version] = "UPLOADING"
          /\ bState' = [bState EXCEPT ![session[i].blob] = "FAILED"]
          /\ vState' = [vState EXCEPT ![session[i].version] = "FAILED"]
          /\ session' = [session EXCEPT ![i].state = "FAILED"]
       \/ /\ session[i].state = "FAILED"
          /\ UNCHANGED <<bState, vState, session>>
    /\ UNCHANGED <<identityVars, nextId, upKey>>

-----------------------------------------------------------------------------
(***************************************************************************)
(* restart_failed_upload and finalize_version.                             *)
(***************************************************************************)

CanRestart(k, v, b) ==
    /\ Referenced(v, b)
    /\ \/ Replays(k, v, b)
       \/ upKey[k] = None /\ vState[v] = "FAILED" /\ bState[b] = "FAILED"

RestartFailedUpload(k, v, b) ==
    /\ Referenced(v, b)
    /\ \/ /\ Replays(k, v, b)
          /\ UNCHANGED <<vState, bState, session, nextId, upKey>>
       \/ /\ upKey[k] = None
          /\ vState[v] = "FAILED"
          /\ bState[b] = "FAILED"
          /\ vState' = [vState EXCEPT ![v] = "UPLOADING"]
          /\ bState' = [bState EXCEPT ![b] = "UPLOADING"]
          /\ OpenSession(v, b)
          /\ Bind(k, v, b, nextId)
    /\ UNCHANGED identityVars

\* A finalize that expects this version to have uploaded something itself.
CanFinalizeUploading(v) ==
    \/ vState[v] = "READY"
    \/ vState[v] = "UPLOADING" /\ \A b \in BlobsOf(v) : bState[b] = "AVAILABLE"

CanFinalize(v) ==
    \/ vState[v] = "READY"
    \/ /\ vState[v] \in {"DRAFT", "UPLOADING"}
       /\ \A b \in BlobsOf(v) : bState[b] = "AVAILABLE"

\* A finalize that counts only FAILED blobs as unavailable.
FinalizeVersionUnlessFailed(v) ==
    /\ \/ vState[v] = "READY"
       \/ /\ vState[v] \in {"DRAFT", "UPLOADING"}
          /\ \A b \in BlobsOf(v) : bState[b] # "FAILED"
    /\ vState' = [vState EXCEPT ![v] = "READY"]
    /\ UNCHANGED <<identityVars, bState, session, nextId, upKey>>

FinalizeVersion(v) ==
    /\ CanFinalize(v)
    /\ vState' = [vState EXCEPT ![v] = "READY"]
    /\ UNCHANGED <<identityVars, bState, session, nextId, upKey>>

-----------------------------------------------------------------------------
RegistryNext ==
    \/ \E k \in DatasetKeys, d \in Datasets : CreateDataset(k, d)
    \/ \E k \in VersionKeys, v \in Versions : RegisterVersion(k, v)
    \/ \E k \in UploadKeys, v \in Versions, b \in Blobs :
         PrepareUpload(k, v, b) \/ RestartFailedUpload(k, v, b)
    \/ \E i \in SessionIds :
         MarkUploadInProgress(i) \/ MarkUploadVerified(i) \/ MarkUploadFailed(i)
    \/ \E v \in Versions : FinalizeVersion(v)

RegistrySpec == Init /\ [][RegistryNext]_regVars
-----------------------------------------------------------------------------
(***************************************************************************)
(* The lifecycle rules of domain/lifecycle.py, enforced again by the row   *)
(* triggers.  A transaction may pass through VERIFYING between two flushes.*)
(***************************************************************************)

VersionEdges ==
    {<<"DRAFT", "UPLOADING">>, <<"DRAFT", "VERIFYING">>, <<"UPLOADING", "VERIFYING">>,
     <<"VERIFYING", "READY">>, <<"VERIFYING", "FAILED">>, <<"FAILED", "UPLOADING">>}
BlobEdges ==
    {<<"PENDING", "UPLOADING">>, <<"UPLOADING", "VERIFYING">>, <<"VERIFYING", "AVAILABLE">>,
     <<"VERIFYING", "FAILED">>, <<"FAILED", "UPLOADING">>}
SessionEdges ==
    {<<"CREATED", "IN_PROGRESS">>, <<"IN_PROGRESS", "COMPLETED">>, <<"IN_PROGRESS", "FAILED">>}

\* What one transaction may do to a row: nothing, insert it in its first
\* state, one edge, or two edges through VERIFYING.
Moves(edges, first, a, b) ==
    \/ a = b
    \/ a = "ABSENT" /\ b = first
    \/ <<a, b>> \in edges
    \/ <<a, "VERIFYING">> \in edges /\ <<"VERIFYING", b>> \in edges

-----------------------------------------------------------------------------
(***************************************************************************)
(* Properties.                                                             *)
(***************************************************************************)

\* Type correctness of the registry tables.
TypeOK ==
    /\ datasets \subseteq Datasets
    /\ vState \in [Versions -> VersionStates]
    /\ vNumber \in [Versions -> Nat]
    /\ bState \in [Blobs -> BlobStates]
    /\ session \in [SessionIds -> [state : SessionStates,
                                   blob : Blobs \cup {None},
                                   version : Versions \cup {None}]]
    /\ nextId \in 1..(MaxSessions + 1)
    /\ dsKey \in [DatasetKeys -> Datasets \cup {None}]
    /\ verKey \in [VersionKeys -> Versions \cup {None}]
    /\ upKey \in [UploadKeys -> [request : Requests, session : SessionIds] \cup {None}]

\* finalize_version publishes only complete versions, and stays true of them:
\* every blob a READY version references is AVAILABLE, whichever transactions
\* of other versions sharing the blob ran before or after the publication.
ReadyIsComplete ==
    \A v \in Versions : vState[v] = "READY" => \A b \in BlobsOf(v) : bState[b] = "AVAILABLE"

\* The blob states the newest session of a blob may leave it in.
AttemptExplains ==
    {<<"CREATED", "PENDING">>, <<"CREATED", "UPLOADING">>, <<"IN_PROGRESS", "UPLOADING">>,
     <<"COMPLETED", "AVAILABLE">>, <<"FAILED", "FAILED">>}

\* The newest upload session of a blob decides the blob's state, and every
\* older one is FAILED.  In particular a blob never has two active sessions
\* (index uq_upload_sessions_active_blob is never what stops the store), an
\* AVAILABLE or FAILED blob has none, and no attempt follows a completed one.
NewestAttemptDecides ==
    \A b \in Blobs :
      /\ bState[b] \in {"UPLOADING", "AVAILABLE", "FAILED"} => SessionsOf(b) # {}
      /\ \A i \in SessionsOf(b) :
           IF \E j \in SessionsOf(b) : j > i
           THEN session[i].state = "FAILED"
           ELSE <<session[i].state, bState[b]>> \in AttemptExplains

\* The state of a version agrees with the sessions it initiated: a DRAFT one
\* has none started, a READY one has none active, a FAILED one has one that
\* failed.  Each session's blob is referenced by its initiating version, so the
\* version that mark_upload_* locks is one the blob blocks.
VersionsAgreeWithSessions ==
    \A i \in SessionIds : session[i].state # "ABSENT" =>
      LET v == session[i].version IN
      /\ v \in Versions /\ Referenced(v, session[i].blob)
      /\ vState[v] = "DRAFT" => session[i].state = "CREATED"
      /\ vState[v] = "READY" => session[i].state \in TerminalStates

\* A version is FAILED only on the evidence of a session it initiated.
FailureIsExplained ==
    \A v \in Versions : vState[v] = "FAILED" =>
      \E i \in SessionIds : session[i].version = v /\ session[i].state = "FAILED"

\* The numbers of a dataset's versions are 1, 2, ..., n with no gap and no
\* repetition, in whatever order manifests are registered and published.
NumbersAreDense ==
    \A d \in Datasets :
      /\ \E n \in {0} \cup Numbers(d) : Numbers(d) = 1..n
      /\ \A v, w \in Registered(d) : vNumber[v] = vNumber[w] => v = w

\* A retried Idempotency-Key is always answered with a session of the blob its
\* request named, even when that session was opened by another version.
KeysAnswerTheirBlob ==
    \A k \in UploadKeys : upKey[k] # None =>
      session[upKey[k].session].blob = upKey[k].request[2]

\* No transaction asks a trigger for an illegal edge: READY versions, AVAILABLE
\* blobs and terminal sessions never change, every other change is an edge of
\* domain/lifecycle.py or two of them through VERIFYING.
LegalTransitions ==
    [][/\ \A v \in Versions : Moves(VersionEdges, "DRAFT", vState[v], vState'[v])
       /\ \A b \in Blobs : Moves(BlobEdges, "PENDING", bState[b], bState'[b])
       /\ \A i \in SessionIds :
            Moves(SessionEdges, "CREATED", session[i].state, session'[i].state)]_regVars

\* Identity is permanent: a version number, a session's blob and initiating
\* version, and the resource an idempotency key is bound to never change.
IdentityIsPermanent ==
    [][/\ \A v \in Versions : vState[v] # "ABSENT" => vNumber'[v] = vNumber[v]
       /\ \A i \in SessionIds : session[i].state # "ABSENT" =>
            /\ session'[i].blob = session[i].blob
            /\ session'[i].version = session[i].version
       /\ \A k \in DatasetKeys : dsKey[k] # None => dsKey'[k] = dsKey[k]
       /\ \A k \in VersionKeys : verKey[k] # None => verKey'[k] = verKey[k]
       /\ \A k \in UploadKeys : upKey[k] # None => upKey'[k] = upKey[k]]_regVars
=============================================================================
