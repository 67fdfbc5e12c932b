--------------------------- MODULE MultipartProofs ---------------------------
(***************************************************************************)
(* Proofs about Multipart, for any blobs, plans, parts, ETags, callers and *)
(* request ids, any capacities and any number of generations and claims:   *)
(* the properties of its run and the refinement of UploadOwnership.        *)
(***************************************************************************)
EXTENDS Multipart, FiniteSetTheorems, TLAPS

-----------------------------------------------------------------------------
(***************************************************************************)
(* The invariant.                                                          *)
(***************************************************************************)

SessionRows ==
    [state : SessionStates, blob : Blobs \cup {None}, plan : Plans \cup {None},
     generation : Nat, reason : {None, "PARTS_READY"}, phase : Phases \cup {None},
     attempted : BOOLEAN]

PartRows ==
    [state : {"PENDING", "UPLOADED", "VERIFIED"}, receipt : ETags \cup {None},
     listed : Observations]

\* The rows of upload_sessions are those below nextId; the others are blank.
SessionTable ==
    \A i \in SessionIds :
      /\ i >= nextId =>
           session[i] = NoSession /\ part[i] = [n \in Parts |-> PendingPart]
      /\ i < nextId => session[i].state # "ABSENT" /\ session[i].blob \in Blobs

\* What the state of a blob's newest session says of the blob.
Attests(st, bs) ==
    CASE st = "COMPLETED" -> bs = "AVAILABLE"
      [] st \in {"IN_PROGRESS", "COMPLETING"} -> bs = "UPLOADING"
      [] OTHER -> bs # "AVAILABLE"

Superseded(b, i) == \E j \in SessionsOf(b) : session[j].generation > session[i].generation

\* No generation is opened twice.
GenerationsDiffer ==
    \A b \in Blobs : \A i, j \in SessionsOf(b) :
      session[i].generation = session[j].generation => i = j

\* A token that was answered is no newer than its lease, and the newest one was
\* answered to the invocation the lease belongs to.
TokensFollowLeases ==
    \A k \in AcquireKeys : acquireKey[k] # None =>
      LET lease == admission[acquireKey[k].session] IN
      /\ acquireKey[k].epoch <= lease.epoch
      /\ acquireKey[k].epoch = lease.epoch => acquireKey[k].invocation = lease.invocation

MpInv ==
    /\ MultipartTypeOK /\ SessionTable
    /\ OwnershipFollowsState
    /\ AcceptedPartsStayVerified
    /\ TokensFollowLeases /\ TokensAreExclusive
    /\ GenerationsDiffer /\ NewestGenerationDecides

-----------------------------------------------------------------------------
(***************************************************************************)
(* Types and the session table.                                            *)
(***************************************************************************)

\* A CREATED row over a blank one.
LEMMA OpenTypes ==
  ASSUME MultipartTypeOK, SessionTable, NEW k \in ResolveKeys, NEW b \in Blobs,
         NEW q \in Plans, OpenGeneration(k, b, q), NextGeneration(b) \in Nat
  PROVE  MultipartTypeOK' /\ SessionTable'
<1> DEFINE r == [NoSession EXCEPT !.state = "CREATED", !.blob = b, !.plan = q,
                                  !.generation = NextGeneration(b)]
<1>0. nextId \in SessionIds /\ nextId' = nextId + 1 /\ nextId' \in 1..(MaxSessions + 1)
  BY MultipartBounds DEF OpenGeneration, MultipartTypeOK, SessionIds
<1>1. r \in SessionRows /\ r.state = "CREATED" /\ r.blob = b
  BY DEF NoSession, SessionRows, SessionStates, ActiveStates, UploadStates
<1>2. session' = [session EXCEPT ![nextId] = r]
  BY DEF OpenGeneration
<1> HIDE DEF r
<1>3. PendingPart \in PartRows
  BY DEF PendingPart, PartRows, Observations
<1>4. session' \in [SessionIds -> SessionRows]
  BY <1>0, <1>1, <1>2 DEF MultipartTypeOK, SessionRows
<1>5. part' = [part EXCEPT ![nextId] = [n \in Parts |-> PendingPart]]
  BY DEF OpenGeneration
<1>6. part' \in [SessionIds -> [Parts -> PartRows]]
  BY <1>0, <1>3, <1>5 DEF MultipartTypeOK, PartRows
<1>7. resolveKey' \in [ResolveKeys ->
                        [blob : Blobs, plan : Plans, session : SessionIds] \cup {None}]
  BY <1>0 DEF OpenGeneration, BindResolve, MultipartTypeOK
<1>8. MultipartTypeOK'
  <2>1. UNCHANGED <<bState, admission, completion, acquireKey, acceptKey>>
    BY DEF OpenGeneration
  <2> QED BY <1>0, <1>4, <1>6, <1>7, <2>1 DEF MultipartTypeOK, SessionRows, PartRows
<1>9. SessionTable'
  BY <1>0, <1>1, <1>2, <1>5, <1>8 DEF SessionTable, MultipartTypeOK, SessionIds
<1> QED BY <1>8, <1>9

\* A step that rewrites one row and its parts.
LEMMA RowTypes ==
  ASSUME MultipartTypeOK, SessionTable, NEW i \in SessionIds, i < nextId,
         NEW r \in SessionRows, r.blob = session[i].blob, r.state # "ABSENT",
         session' = [session EXCEPT ![i] = r], NEW s \in [Parts -> PartRows],
         part' = [part EXCEPT ![i] = s], nextId' = nextId
  PROVE  /\ session' \in [SessionIds -> SessionRows]
         /\ part' \in [SessionIds -> [Parts -> PartRows]]
         /\ SessionTable'
<1>1. session' \in [SessionIds -> SessionRows] /\ part' \in [SessionIds -> [Parts -> PartRows]]
  BY DEF MultipartTypeOK, SessionRows, PartRows
<1>2. session'[i] = r /\ \A j \in SessionIds \ {i} : session'[j] = session[j] /\ part'[j] = part[j]
  BY DEF MultipartTypeOK
<1>3. SessionTable'
  BY <1>2 DEF SessionTable, MultipartTypeOK, SessionIds
<1> QED BY <1>1, <1>3

\* A live lease belongs to a session that exists.
LEMMA LeasedExists ==
  ASSUME MultipartTypeOK, SessionTable, NEW i \in SessionIds, session[i].state # "ABSENT"
  PROVE  i < nextId /\ session[i].blob \in Blobs /\ session[i] \in SessionRows
         /\ part[i] \in [Parts -> PartRows]
BY DEF MultipartTypeOK, SessionTable, SessionIds, NoSession, SessionRows, PartRows

\* Reconciliation leaves rows of the table.
LEMMA ReconcileTypes ==
  ASSUME NEW i \in SessionIds, MultipartTypeOK, NEW obs \in [Parts -> Observations]
  PROVE  ReconciledParts(i, obs) \in [Parts -> PartRows]
<1>1. ASSUME NEW n \in Parts PROVE Reconciled(part[i][n], obs[n]) \in PartRows
  <2>1. part[i][n] \in PartRows /\ obs[n] \in Observations
    BY DEF MultipartTypeOK, PartRows
  <2> QED BY <2>1 DEF Reconciled, PartRows
<1> QED BY <1>1 DEF ReconciledParts

LEMMA LapseTypes ==
  ASSUME MultipartTypeOK, NEW i \in SessionIds
  PROVE  /\ Lapsed(admission, i) \in [SessionIds -> [epoch : Nat,
                                       invocation : Invocations \cup {None}, live : BOOLEAN]]
         /\ Lapsed(completion, i) \in [SessionIds -> [epoch : 0..MaxClaims, live : BOOLEAN]]
BY DEF MultipartTypeOK, Lapsed

\* The transactions on the session of one row.
SessionStep(i, e) ==
    \/ BeginProviderInitiation(i, e)
    \/ MarkInitiationAmbiguous(i, e)
    \/ \E k \in AcceptKeys : AcceptCompletion(k, i, e)
    \/ \E q \in Phases : SetCompletionPhase(i, e, q)
    \/ RecoverInvalidated(i, e)

LEMMA TypeStep ==
  ASSUME MultipartTypeOK, SessionTable, MultipartNext,
         \A b \in Blobs : NextGeneration(b) \in Nat
  PROVE  MultipartTypeOK' /\ SessionTable'
<1>1. ASSUME UNCHANGED mpVars PROVE MultipartTypeOK' /\ SessionTable'
  BY <1>1 DEF mpVars, keyVars, MultipartTypeOK, SessionTable
<1>2. ASSUME NEW k \in ResolveKeys, NEW b \in Blobs, NEW q \in Plans, CreateOrResolve(k, b, q)
      PROVE  MultipartTypeOK' /\ SessionTable'
  <2>1. CASE ReplayResolve(k, b, q)
    BY <1>1, <2>1 DEF ReplayResolve
  <2>2. CASE JoinGeneration(k, b, q)
    <3>1. PICK i \in ActiveOf(b) : BindResolve(k, b, q, i)
      BY <2>2 DEF JoinGeneration
    <3>2. i \in SessionIds
      BY DEF ActiveOf, SessionsOf
    <3> QED BY <2>2, <3>1, <3>2 DEF JoinGeneration, BindResolve, MultipartTypeOK, SessionTable
  <2>3. CASE OpenGeneration(k, b, q)
    BY <2>3, OpenTypes
  <2> QED BY <1>2, <2>1, <2>2, <2>3 DEF CreateOrResolve
<1>3. ASSUME NEW i \in SessionIds, NEW k \in AcquireKeys, NEW w \in Invocations,
             AcquireAdmission(k, w, i)
      PROVE  MultipartTypeOK' /\ SessionTable'
  <2>1. admission' \in [SessionIds -> [epoch : Nat, invocation : Invocations \cup {None},
                                      live : BOOLEAN]]
    <3>1. CASE RenewAdmission(w, i)
      BY <3>1 DEF RenewAdmission, MultipartTypeOK
    <3>2. CASE GrantAdmission(w, i)
      <4>1. [epoch |-> admission[i].epoch + 1, invocation |-> w, live |-> TRUE]
              \in [epoch : Nat, invocation : Invocations \cup {None}, live : BOOLEAN]
        BY DEF MultipartTypeOK
      <4> QED BY <3>2, <4>1 DEF GrantAdmission, MultipartTypeOK
    <3> QED BY <1>3, <3>1, <3>2 DEF AcquireAdmission
  <2>2. acquireKey' \in [AcquireKeys -> [session : SessionIds, invocation : Invocations,
                                        epoch : Nat] \cup {None}]
    BY <1>3, <2>1 DEF AcquireAdmission, MultipartTypeOK
  <2> QED BY <1>3, <2>1, <2>2 DEF AcquireAdmission, MultipartTypeOK, SessionTable
<1>4. ASSUME NEW i \in SessionIds, AdmissionExpires(i) \/ CompletionExpires(i)
                                  \/ \E e \in AdmissionEpochs : ReleaseAdmission(i, e)
      PROVE  MultipartTypeOK' /\ SessionTable'
  <2>1. UNCHANGED <<bState, session, part, nextId, keyVars>>
    BY <1>4 DEF AdmissionExpires, CompletionExpires, ReleaseAdmission
  <2>2. /\ admission' \in {admission, Lapsed(admission, i)}
        /\ completion' \in {completion, Lapsed(completion, i)}
    BY <1>4 DEF AdmissionExpires, CompletionExpires, ReleaseAdmission
  <2> QED BY <2>1, <2>2, LapseTypes DEF keyVars, MultipartTypeOK, SessionTable
<1>5. ASSUME NEW i \in SessionIds, ClaimCompletion(i)
      PROVE  MultipartTypeOK' /\ SessionTable'
  <2>1. completion[i].epoch + 1 \in 0..MaxClaims
    BY <1>5, MultipartBounds DEF ClaimCompletion, MultipartTypeOK
  <2>2. completion' \in [SessionIds -> [epoch : 0..MaxClaims, live : BOOLEAN]]
    BY <1>5, <2>1 DEF ClaimCompletion, MultipartTypeOK
  <2> QED BY <1>5, <2>2 DEF ClaimCompletion, keyVars, MultipartTypeOK, SessionTable
<1>6. ASSUME NEW i \in SessionIds, NEW e, SessionStep(i, e)
      PROVE  MultipartTypeOK' /\ SessionTable'
  <2>1. session[i].state # "ABSENT" /\ UNCHANGED <<bState, part, nextId, resolveKey, acquireKey>>
    BY <1>6 DEF SessionStep, BeginProviderInitiation, MarkInitiationAmbiguous, AcceptCompletion,
                SetCompletionPhase, RecoverInvalidated, keyVars
  <2>2. i < nextId /\ session[i] \in SessionRows /\ part[i] \in [Parts -> PartRows]
    BY <2>1, LeasedExists
  <2>3. PICK r \in SessionRows : /\ r.blob = session[i].blob /\ r.state # "ABSENT"
                                 /\ session' = [session EXCEPT ![i] = r]
    <3> DEFINE Fits(x) == x \in SessionRows /\ x.blob = session[i].blob /\ x.state # "ABSENT"
    <3>1. CASE BeginProviderInitiation(i, e)
      <4>1. Fits([session[i] EXCEPT !.state = "INITIATING"])
        BY <2>2 DEF SessionRows, SessionStates, ActiveStates, UploadStates
      <4> QED BY <3>1, <4>1 DEF BeginProviderInitiation, MultipartTypeOK
    <3>2. CASE MarkInitiationAmbiguous(i, e) \/ RecoverInvalidated(i, e)
      <4>1. Fits([session[i] EXCEPT !.state = "FAILED"])
        BY <2>2 DEF SessionRows, SessionStates, TerminalStates
      <4> QED BY <3>2, <4>1 DEF MarkInitiationAmbiguous, RecoverInvalidated, MultipartTypeOK
    <3>3. CASE \E k \in AcceptKeys : AcceptCompletion(k, i, e)
      <4>1. Fits([session[i] EXCEPT !.state = "COMPLETING", !.reason = "PARTS_READY",
                                    !.phase = "PENDING"])
        BY <2>2 DEF SessionRows, SessionStates, ActiveStates, Phases
      <4> QED BY <3>3, <4>1 DEF AcceptCompletion, MultipartTypeOK
    <3>4. CASE \E q \in Phases : SetCompletionPhase(i, e, q)
      <4>1. PICK q \in Phases : SetCompletionPhase(i, e, q)
        BY <3>4
      <4>2. Fits([session[i] EXCEPT !.phase = q])
        BY <2>1, <2>2 DEF SessionRows
      <4> QED BY <4>1, <4>2 DEF SetCompletionPhase, MultipartTypeOK
    <3> QED BY <1>6, <3>1, <3>2, <3>3, <3>4 DEF SessionStep
  <2>4. part' = [part EXCEPT ![i] = part[i]]
    BY <2>1 DEF MultipartTypeOK
  <2>5. session' \in [SessionIds -> SessionRows] /\ SessionTable'
    BY <2>1, <2>2, <2>3, <2>4, RowTypes
  <2>6. /\ admission' \in {admission, Lapsed(admission, i)}
        /\ completion' \in {completion, Lapsed(completion, i)}
        /\ acceptKey' \in [AcceptKeys -> SessionIds \cup {None}]
    BY <1>6 DEF SessionStep, BeginProviderInitiation, MarkInitiationAmbiguous, AcceptCompletion,
                SetCompletionPhase, RecoverInvalidated, keyVars, MultipartTypeOK
  <2> QED BY <2>1, <2>5, <2>6, LapseTypes DEF MultipartTypeOK, SessionRows
<1>7. ASSUME NEW i \in SessionIds, NEW e, RecordProviderUpload(i, e) \/ RecordVerifiedCompletion(i, e)
      PROVE  MultipartTypeOK' /\ SessionTable'
  <2>1. session[i].state # "ABSENT" /\ UNCHANGED <<part, admission, nextId, keyVars>>
    BY <1>7 DEF RecordProviderUpload, RecordVerifiedCompletion
  <2>2. /\ i < nextId /\ session[i] \in SessionRows /\ part[i] \in [Parts -> PartRows]
        /\ session[i].blob \in Blobs
    BY <2>1, LeasedExists
  <2>3. PICK st \in {"IN_PROGRESS", "COMPLETED"} : session' = [session EXCEPT ![i].state = st]
    BY <1>7 DEF RecordProviderUpload, RecordVerifiedCompletion
  <2>4. LET r == [session[i] EXCEPT !.state = st] IN
        r \in SessionRows /\ r.blob = session[i].blob /\ r.state # "ABSENT"
    BY <2>2 DEF SessionRows, SessionStates, ActiveStates, UploadStates, TerminalStates
  <2>5. session' \in [SessionIds -> SessionRows] /\ SessionTable'
    BY <2>1, <2>2, <2>3, <2>4, RowTypes DEF MultipartTypeOK
  <2>6. bState' \in [Blobs -> BlobStates]
    BY <1>7 DEF RecordProviderUpload, RecordVerifiedCompletion, MultipartTypeOK, BlobStates
  <2>7. completion' \in {completion, Lapsed(completion, i)}
    BY <1>7 DEF RecordProviderUpload, RecordVerifiedCompletion
  <2> QED BY <2>1, <2>5, <2>6, <2>7, LapseTypes DEF MultipartTypeOK, SessionRows, keyVars
<1>8. ASSUME NEW i \in SessionIds, NEW e, NEW n \in Parts, NEW t \in ETags,
             RecordUploadedPart(i, e, n, t)
      PROVE  MultipartTypeOK' /\ SessionTable'
  <2>1. session[i].state # "ABSENT" /\ UNCHANGED <<bState, session, admission, completion, nextId, keyVars>>
    BY <1>8 DEF RecordUploadedPart, CanRecordPart
  <2>2. i < nextId /\ session[i] \in SessionRows /\ part[i] \in [Parts -> PartRows]
    BY <2>1, LeasedExists
  <2>3. PICK s \in [Parts -> PartRows] : part' = [part EXCEPT ![i] = s]
    <3>1. [part[i][n] EXCEPT !.state = "UPLOADED", !.receipt = t] \in PartRows
      BY <2>2 DEF PartRows
    <3>2. [part[i] EXCEPT ![n] = [@ EXCEPT !.state = "UPLOADED", !.receipt = t]]
            \in [Parts -> PartRows]
      BY <2>2, <3>1
    <3> QED BY <1>8, <2>2, <3>2 DEF RecordUploadedPart, MultipartTypeOK
  <2>4. session' = [session EXCEPT ![i] = session[i]]
    BY <2>1 DEF MultipartTypeOK
  <2>5. part' \in [SessionIds -> [Parts -> PartRows]] /\ SessionTable'
    BY <2>1, <2>2, <2>3, <2>4, RowTypes
  <2> QED BY <2>1, <2>5 DEF MultipartTypeOK, PartRows, keyVars
<1>9. ASSUME NEW i \in SessionIds, NEW e, NEW obs \in [Parts -> Observations],
             ReconcileParts(i, e, obs) \/ RecoverReady(i, e, obs) \/ RecoverPartial(i, e, obs)
      PROVE  MultipartTypeOK' /\ SessionTable'
  <2>1. session[i].state # "ABSENT" /\ UNCHANGED <<bState, admission, nextId, keyVars>>
    BY <1>9 DEF ReconcileParts, RecoverReady, RecoverPartial
  <2>2. i < nextId /\ session[i] \in SessionRows
    BY <2>1, LeasedExists
  <2>3. PICK r \in SessionRows : /\ r.blob = session[i].blob /\ r.state # "ABSENT"
                                 /\ session' = [session EXCEPT ![i] = r]
    <3>1. CASE RecoverPartial(i, e, obs)
      <4>1. LET r == [session[i] EXCEPT !.state = "IN_PROGRESS", !.reason = None, !.phase = None]
            IN  r \in SessionRows /\ r.blob = session[i].blob /\ r.state # "ABSENT"
        BY <2>2 DEF SessionRows, SessionStates, ActiveStates, UploadStates
      <4> QED BY <3>1, <4>1 DEF RecoverPartial, MultipartTypeOK
    <3>2. CASE ReconcileParts(i, e, obs) \/ RecoverReady(i, e, obs)
      BY <2>1, <2>2, <3>2 DEF ReconcileParts, RecoverReady, MultipartTypeOK
    <3> QED BY <1>9, <3>1, <3>2
  <2>4. part' = [part EXCEPT ![i] = ReconciledParts(i, obs)]
    BY <1>9 DEF ReconcileParts, RecoverReady, RecoverPartial
  <2>5. /\ session' \in [SessionIds -> SessionRows]
        /\ part' \in [SessionIds -> [Parts -> PartRows]]
        /\ SessionTable'
    BY <2>1, <2>2, <2>3, <2>4, ReconcileTypes, RowTypes
  <2>6. completion' \in {completion, Lapsed(completion, i)}
    BY <1>9 DEF ReconcileParts, RecoverReady, RecoverPartial
  <2> QED BY <2>1, <2>5, <2>6, LapseTypes DEF MultipartTypeOK, SessionRows, PartRows, keyVars
<1> QED
  BY <1>1, <1>2, <1>3, <1>4, <1>5, <1>6, <1>7, <1>8, <1>9
     DEF MultipartNext, UploadStep, RunnerStep, SessionStep, ReplayAcquire, ReplayAccept

-----------------------------------------------------------------------------
(***************************************************************************)
(* Ownership and receipts.                                                 *)
(***************************************************************************)

\* The transactions that change leases or the state of a session, by what they
\* do to both.
LEMMA OwnershipStep ==
  ASSUME MpInv, MultipartNext, MultipartTypeOK'
  PROVE  OwnershipFollowsState'
<1> USE DEF OwnershipFollowsState, UploadStates
<1>0. MultipartTypeOK /\ SessionTable /\ OwnershipFollowsState
  BY DEF MpInv
<1>1. ASSUME UNCHANGED <<session, admission, completion>> PROVE OwnershipFollowsState'
  BY <1>0, <1>1
<1>2. ASSUME NEW k \in ResolveKeys, NEW b \in Blobs, NEW q \in Plans, OpenGeneration(k, b, q)
      PROVE  OwnershipFollowsState'
  <2>1. nextId \in SessionIds
    BY <1>0, <1>2, MultipartBounds DEF OpenGeneration, MultipartTypeOK, SessionIds
  <2>2. session[nextId].state = "ABSENT"
    BY <1>0, <2>1 DEF SessionTable, SessionIds, NoSession
  <2>3. ~completion[nextId].live
    BY <1>0, <2>1, <2>2
  <2>4. session'[nextId].state = "CREATED" /\ \A i \in SessionIds \ {nextId} : session'[i] = session[i]
    BY <1>0, <1>2, <2>1 DEF OpenGeneration, MultipartTypeOK, NoSession
  <2> QED BY <1>0, <1>2, <2>1, <2>3, <2>4 DEF OpenGeneration
<1>3. ASSUME NEW i \in SessionIds, NEW k \in AcquireKeys, NEW w \in Invocations,
             AcquireAdmission(k, w, i)
      PROVE  OwnershipFollowsState'
  BY <1>0, <1>3 DEF AcquireAdmission, RenewAdmission, GrantAdmission, MultipartTypeOK
<1>4. ASSUME NEW i \in SessionIds, ClaimCompletion(i)
      PROVE  OwnershipFollowsState'
  BY <1>0, <1>4 DEF ClaimCompletion, MultipartTypeOK
<1>5. ASSUME NEW i \in SessionIds,
             \/ AdmissionExpires(i)
             \/ CompletionExpires(i)
             \/ \E e \in AdmissionEpochs : ReleaseAdmission(i, e)
      PROVE  OwnershipFollowsState'
  BY <1>0, <1>5 DEF AdmissionExpires, CompletionExpires, ReleaseAdmission, Lapsed, MultipartTypeOK
<1>6. ASSUME NEW i \in SessionIds, NEW e, BeginProviderInitiation(i, e) \/ RecordProviderUpload(i, e)
      PROVE  OwnershipFollowsState'
  <2>1. UNCHANGED <<admission, completion>>
    BY <1>6 DEF BeginProviderInitiation, RecordProviderUpload
  <2>2. session[i].state \in UploadStates /\ session'[i].state \in UploadStates
    BY <1>0, <1>6 DEF BeginProviderInitiation, RecordProviderUpload, MultipartTypeOK
  <2>3. \A j \in SessionIds \ {i} : session'[j] = session[j]
    BY <1>0, <1>6 DEF BeginProviderInitiation, RecordProviderUpload, MultipartTypeOK
  <2> QED BY <1>0, <2>1, <2>2, <2>3
<1>7. ASSUME NEW i \in SessionIds, NEW e,
             MarkInitiationAmbiguous(i, e) \/ \E k \in AcceptKeys : AcceptCompletion(k, i, e)
      PROVE  OwnershipFollowsState'
  <2>1. admission' = Lapsed(admission, i) /\ completion' = completion
    BY <1>7 DEF MarkInitiationAmbiguous, AcceptCompletion
  <2>2. session[i].state \in UploadStates
    BY <1>7 DEF MarkInitiationAmbiguous, AcceptCompletion
  <2>3. \A j \in SessionIds \ {i} : session'[j] = session[j]
    BY <1>0, <1>7 DEF MarkInitiationAmbiguous, AcceptCompletion, MultipartTypeOK
  <2>4. ~admission'[i].live /\ \A j \in SessionIds \ {i} : admission'[j] = admission[j]
    BY <1>0, <2>1 DEF Lapsed, MultipartTypeOK
  <2> QED BY <1>0, <2>1, <2>2, <2>3, <2>4
<1>8. ASSUME NEW i \in SessionIds, NEW e,
             \/ RecoverInvalidated(i, e)
             \/ RecordVerifiedCompletion(i, e)
             \/ \E obs \in [Parts -> Observations] : RecoverPartial(i, e, obs)
      PROVE  OwnershipFollowsState'
  <2>1. completion' = Lapsed(completion, i) /\ admission' = admission
    BY <1>8 DEF RecoverInvalidated, RecordVerifiedCompletion, RecoverPartial
  <2>2. session[i].state = "COMPLETING"
    BY <1>8 DEF RecoverInvalidated, RecordVerifiedCompletion, RecoverPartial
  <2>3. \A j \in SessionIds \ {i} : session'[j] = session[j]
    BY <1>0, <1>8 DEF RecoverInvalidated, RecordVerifiedCompletion, RecoverPartial, MultipartTypeOK
  <2>4. ~completion'[i].live /\ \A j \in SessionIds \ {i} : completion'[j] = completion[j]
    BY <1>0, <2>1 DEF Lapsed, MultipartTypeOK
  <2> QED BY <1>0, <2>1, <2>2, <2>3, <2>4
<1>9. ASSUME NEW i \in SessionIds, NEW e, \E q \in Phases : SetCompletionPhase(i, e, q)
      PROVE  OwnershipFollowsState'
  BY <1>0, <1>9 DEF SetCompletionPhase, MultipartTypeOK
<1> QED
  BY <1>1, <1>2, <1>3, <1>4, <1>5, <1>6, <1>7, <1>8, <1>9
     DEF MultipartNext, CreateOrResolve, UploadStep, RunnerStep, ReplayResolve, JoinGeneration,
         ReplayAcquire, ReplayAccept, RecordUploadedPart, ReconcileParts, RecoverReady, mpVars

\* A VERIFIED part carries the receipt that the last listing showed.
Backed(p) == p.state = "VERIFIED" => p.receipt \in ETags /\ p.listed = p.receipt

LEMMA ReconciledIsBacked ==
  ASSUME NEW p \in PartRows, NEW o \in Observations
  PROVE  /\ Backed(Reconciled(p, o))
         /\ Reconciled(p, o).receipt = p.receipt
         /\ Matches(p, o) => Reconciled(p, o).state = "VERIFIED"
BY DEF PartRows, Backed, Reconciled, Matches

LEMMA PartsStep ==
  ASSUME MpInv, MultipartNext, MultipartTypeOK'
  PROVE  AcceptedPartsStayVerified'
<1> USE DEF AcceptedPartsStayVerified, AllVerified, Backed
<1>0. MultipartTypeOK /\ SessionTable /\ AcceptedPartsStayVerified
  BY DEF MpInv
<1>1. ASSUME UNCHANGED <<session, part>> PROVE AcceptedPartsStayVerified'
  BY <1>0, <1>1
<1>2. ASSUME NEW k \in ResolveKeys, NEW b \in Blobs, NEW q \in Plans, OpenGeneration(k, b, q)
      PROVE  AcceptedPartsStayVerified'
  <2>1. nextId \in SessionIds
    BY <1>0, <1>2, MultipartBounds DEF OpenGeneration, MultipartTypeOK, SessionIds
  <2>2. session'[nextId].state = "CREATED" /\ \A i \in SessionIds \ {nextId} : session'[i] = session[i]
    BY <1>0, <1>2, <2>1 DEF OpenGeneration, MultipartTypeOK, NoSession
  <2>3. /\ \A n \in Parts : part'[nextId][n].state = "PENDING"
        /\ \A i \in SessionIds \ {nextId} : part'[i] = part[i]
    BY <1>0, <1>2, <2>1 DEF OpenGeneration, MultipartTypeOK, PendingPart
  <2> QED BY <1>0, <2>1, <2>2, <2>3
<1>3. ASSUME NEW i \in SessionIds, NEW st \in {"INITIATING", "IN_PROGRESS", "FAILED"},
             session' = [session EXCEPT ![i].state = st], UNCHANGED part
      PROVE  AcceptedPartsStayVerified'
  BY <1>0, <1>3 DEF MultipartTypeOK
<1>4. ASSUME NEW i \in SessionIds, NEW e, NEW n \in Parts, NEW t \in ETags,
             RecordUploadedPart(i, e, n, t)
      PROVE  AcceptedPartsStayVerified'
  <2>1. CASE part' = part
    BY <1>4, <1>1, <2>1 DEF RecordUploadedPart
  <2>2. CASE part' = [part EXCEPT ![i][n] = [@ EXCEPT !.state = "UPLOADED", !.receipt = t]]
    BY <1>0, <1>4, <2>2 DEF RecordUploadedPart, CanRecordPart, MultipartTypeOK
  <2> QED BY <1>4, <2>1, <2>2 DEF RecordUploadedPart
<1>5. ASSUME NEW i \in SessionIds, NEW e, NEW obs \in [Parts -> Observations],
             ReconcileParts(i, e, obs) \/ RecoverReady(i, e, obs) \/ RecoverPartial(i, e, obs)
      PROVE  AcceptedPartsStayVerified'
  <2>1. part' = [part EXCEPT ![i] = ReconciledParts(i, obs)]
    BY <1>5 DEF ReconcileParts, RecoverReady, RecoverPartial
  <2>2. \A n \in Parts : part'[i][n] = Reconciled(part[i][n], obs[n])
    BY <1>0, <2>1 DEF ReconciledParts, MultipartTypeOK
  <2>3. \A n \in Parts : Backed(part'[i][n])
                       /\ (Matches(part[i][n], obs[n]) => part'[i][n].state = "VERIFIED")
    <3>1. \A n \in Parts : part[i][n] \in PartRows /\ obs[n] \in Observations
      BY <1>0 DEF MultipartTypeOK, PartRows
    <3> HIDE DEF Backed
    <3> QED BY <2>2, <3>1, ReconciledIsBacked
  <2>4. \A j \in SessionIds \ {i} : part'[j] = part[j] /\ session'[j] = session[j]
    <3>1. \A j \in SessionIds \ {i} : part'[j] = part[j]
      BY <1>0, <2>1 DEF MultipartTypeOK
    <3>2. \A j \in SessionIds \ {i} : session'[j] = session[j]
      <4>1. \/ session' = session
            \/ session' = [session EXCEPT ![i] = [@ EXCEPT !.state = "IN_PROGRESS",
                                                           !.reason = None, !.phase = None]]
        BY <1>5 DEF ReconcileParts, RecoverReady, RecoverPartial
      <4> QED BY <1>0, <4>1 DEF MultipartTypeOK
    <3> QED BY <3>1, <3>2
  <2>5. session'[i].state = "IN_PROGRESS"
        \/ \A n \in Parts : Matches(part[i][n], obs[n])
    <3>1. CASE RecoverPartial(i, e, obs)
      BY <1>0, <3>1 DEF RecoverPartial, MultipartTypeOK
    <3>2. CASE ReconcileParts(i, e, obs)
      BY <3>2 DEF ReconcileParts
    <3>3. CASE RecoverReady(i, e, obs)
      BY <3>3 DEF RecoverReady
    <3> QED BY <1>5, <3>1, <3>2, <3>3
  <2> QED BY <1>0, <2>3, <2>4, <2>5
<1>6. ASSUME NEW i \in SessionIds, NEW e,
             (\E k \in AcceptKeys : AcceptCompletion(k, i, e)) \/ RecordVerifiedCompletion(i, e)
      PROVE  AcceptedPartsStayVerified'
  <2>1. AllVerified(i) /\ UNCHANGED part
    BY <1>0, <1>6 DEF AcceptCompletion, RecordVerifiedCompletion
  <2>2. \A j \in SessionIds \ {i} : session'[j] = session[j]
    BY <1>0, <1>6 DEF AcceptCompletion, RecordVerifiedCompletion, MultipartTypeOK
  <2> QED BY <1>0, <2>1, <2>2
<1>7. ASSUME NEW i \in SessionIds, NEW e, \E q \in Phases : SetCompletionPhase(i, e, q)
      PROVE  AcceptedPartsStayVerified'
  BY <1>0, <1>7 DEF SetCompletionPhase, MultipartTypeOK
<1> QED
  <2> HIDE DEF AcceptedPartsStayVerified, AllVerified, Backed
  <2>1. ASSUME NEW i \in SessionIds, NEW e,
               \/ BeginProviderInitiation(i, e) \/ RecordProviderUpload(i, e)
               \/ MarkInitiationAmbiguous(i, e) \/ RecoverInvalidated(i, e)
        PROVE  AcceptedPartsStayVerified'
    BY <1>3, <2>1 DEF BeginProviderInitiation, RecordProviderUpload, MarkInitiationAmbiguous,
                      RecoverInvalidated
  <2> QED
    BY <1>1, <1>2, <1>4, <1>5, <1>6, <1>7, <2>1
       DEF MultipartNext, CreateOrResolve, UploadStep, RunnerStep, ReplayResolve, JoinGeneration,
           ReplayAcquire, ReplayAccept, AcquireAdmission, ReleaseAdmission, AdmissionExpires,
           CompletionExpires, ClaimCompletion, mpVars

-----------------------------------------------------------------------------
(***************************************************************************)
(* Tokens.                                                                 *)
(***************************************************************************)

LEMMA TokensStep ==
  ASSUME MpInv, MultipartNext, MultipartTypeOK'
  PROVE  TokensFollowLeases' /\ TokensAreExclusive'
<1> USE DEF TokensFollowLeases, TokensAreExclusive
<1>0. MultipartTypeOK /\ TokensFollowLeases /\ TokensAreExclusive
  BY DEF MpInv
<1>1. ASSUME acquireKey' = acquireKey,
             \A i \in SessionIds : /\ admission'[i].epoch = admission[i].epoch
                                   /\ admission'[i].invocation = admission[i].invocation
      PROVE  TokensFollowLeases' /\ TokensAreExclusive'
  BY <1>0, <1>1 DEF MultipartTypeOK
<1>2. ASSUME NEW i \in SessionIds, NEW k \in AcquireKeys, NEW w \in Invocations,
             AcquireAdmission(k, w, i)
      PROVE  TokensFollowLeases' /\ TokensAreExclusive'
  <2> DEFINE a == admission'[i]
  <2>1. /\ a.invocation = w /\ a.epoch \in Nat /\ admission[i].epoch \in Nat
        /\ \/ a.epoch = admission[i].epoch /\ a.invocation = admission[i].invocation
           \/ a.epoch = admission[i].epoch + 1
    BY <1>0, <1>2 DEF AcquireAdmission, RenewAdmission, GrantAdmission, MultipartTypeOK
  <2>2. \A j \in SessionIds \ {i} : admission'[j] = admission[j]
    BY <1>0, <1>2 DEF AcquireAdmission, RenewAdmission, GrantAdmission, MultipartTypeOK
  <2>3. /\ acquireKey[k] = None
        /\ acquireKey'[k] = [session |-> i, invocation |-> w, epoch |-> a.epoch]
        /\ \A l \in AcquireKeys \ {k} : acquireKey'[l] = acquireKey[l]
    BY <1>0, <1>2 DEF AcquireAdmission, MultipartTypeOK
  <2>4. \A l \in AcquireKeys : acquireKey[l] # None =>
          /\ acquireKey[l].session \in SessionIds
          /\ acquireKey[l].epoch \in Nat
          /\ acquireKey[l].session = i =>
               /\ acquireKey[l].epoch <= a.epoch
               /\ acquireKey[l].epoch = a.epoch => acquireKey[l].invocation = w
    <3> SUFFICES ASSUME NEW l \in AcquireKeys, acquireKey[l] # None
                 PROVE  /\ acquireKey[l].session \in SessionIds
                        /\ acquireKey[l].epoch \in Nat
                        /\ acquireKey[l].session = i =>
                             /\ acquireKey[l].epoch <= a.epoch
                             /\ acquireKey[l].epoch = a.epoch => acquireKey[l].invocation = w
      OBVIOUS
    <3>1. acquireKey[l].session \in SessionIds /\ acquireKey[l].epoch \in Nat
      BY <1>0 DEF MultipartTypeOK
    <3> QED BY <1>0, <2>1, <3>1
  <2> HIDE DEF a
  <2>5. TokensFollowLeases'
    <3> SUFFICES ASSUME NEW l \in AcquireKeys, acquireKey'[l] # None
                 PROVE  LET lease == admission'[acquireKey'[l].session] IN
                        /\ acquireKey'[l].epoch <= lease.epoch
                        /\ acquireKey'[l].epoch = lease.epoch =>
                             acquireKey'[l].invocation = lease.invocation
      OBVIOUS
    <3>1. CASE l = k
      BY <2>1, <2>3, <3>1 DEF a
    <3>2. CASE l # k /\ acquireKey[l].session = i
      BY <2>1, <2>3, <2>4, <3>2 DEF a
    <3>3. CASE l # k /\ acquireKey[l].session # i
      BY <1>0, <2>2, <2>3, <2>4, <3>3
    <3> QED BY <3>1, <3>2, <3>3
  <2>6. TokensAreExclusive'
    BY <1>0, <2>1, <2>3, <2>4
  <2> QED BY <2>5, <2>6
<1>3. ASSUME NEW i \in SessionIds, admission' = Lapsed(admission, i), acquireKey' = acquireKey
      PROVE  TokensFollowLeases' /\ TokensAreExclusive'
  BY <1>0, <1>1, <1>3 DEF Lapsed, MultipartTypeOK
<1> QED
  <2> HIDE DEF TokensFollowLeases, TokensAreExclusive
  <2>1. ASSUME UNCHANGED <<admission, acquireKey>>
        PROVE  TokensFollowLeases' /\ TokensAreExclusive'
    BY <1>1, <2>1
  <2>2. ASSUME NEW i \in SessionIds, NEW e, UploadStep(i, e)
        PROVE  TokensFollowLeases' /\ TokensAreExclusive'
    BY <1>3, <2>1, <2>2
       DEF UploadStep, ReleaseAdmission, BeginProviderInitiation, RecordProviderUpload,
           MarkInitiationAmbiguous, RecordUploadedPart, ReconcileParts, AcceptCompletion, keyVars
  <2>3. ASSUME NEW i \in SessionIds, NEW e, RunnerStep(i, e)
        PROVE  TokensFollowLeases' /\ TokensAreExclusive'
    BY <2>1, <2>3
       DEF RunnerStep, SetCompletionPhase, RecoverInvalidated, RecoverReady, RecoverPartial,
           RecordVerifiedCompletion, keyVars
  <2>4. ASSUME NEW i \in SessionIds, ClaimCompletion(i) \/ AdmissionExpires(i) \/ CompletionExpires(i)
        PROVE  TokensFollowLeases' /\ TokensAreExclusive'
    BY <1>3, <2>1, <2>4 DEF ClaimCompletion, AdmissionExpires, CompletionExpires, keyVars
  <2> QED
    BY <1>2, <2>1, <2>2, <2>3, <2>4
       DEF MultipartNext, CreateOrResolve, ReplayResolve, JoinGeneration, OpenGeneration,
           ReplayAcquire, ReplayAccept, mpVars, keyVars

-----------------------------------------------------------------------------
(***************************************************************************)
(* Generations.                                                            *)
(***************************************************************************)

LEMMA MaxOfInterval == \A n \in Nat \ {0} : Max(1..n) = n
<1> SUFFICES ASSUME NEW n \in Nat \ {0} PROVE Max(1..n) = n
  OBVIOUS
<1>1. n \in 1..n /\ \A y \in 1..n : n >= y
  OBVIOUS
<1>2. Max(1..n) \in 1..n /\ \A y \in 1..n : Max(1..n) >= y
  BY <1>1 DEF Max
<1> QED BY <1>1, <1>2

\* The next generation is one more than there are sessions.
LEMMA NextIsOneMore ==
  ASSUME NewestGenerationDecides, MultipartTypeOK, NEW b \in Blobs
  PROVE  /\ IsFiniteSet(SessionsOf(b))
         /\ Cardinality(SessionsOf(b)) \in Nat
         /\ NextGeneration(b) = Cardinality(SessionsOf(b)) + 1
<1>1. IsFiniteSet(SessionsOf(b))
  <2>1. IsFiniteSet(SessionIds)
    BY MultipartBounds, FS_Interval DEF SessionIds
  <2>2. SessionsOf(b) \in SUBSET SessionIds
    BY DEF SessionsOf
  <2> QED BY <2>1, <2>2, FS_Subset
<1>2. Cardinality(SessionsOf(b)) \in Nat
  BY <1>1, FS_CardinalityType
<1>3. CASE SessionsOf(b) = {}
  BY <1>3, FS_EmptySet DEF NextGeneration
<1>4. CASE SessionsOf(b) # {}
  <2>1. Cardinality(SessionsOf(b)) # 0
    BY <1>1, <1>4, FS_EmptySet
  <2>2. Generations(b) = 1..Cardinality(SessionsOf(b))
    BY DEF NewestGenerationDecides
  <2>3. NextGeneration(b) = Cardinality(SessionsOf(b)) + 1
    BY <1>2, <1>4, <2>1, <2>2, MaxOfInterval DEF NextGeneration
  <2> QED BY <1>1, <1>2, <2>3
<1> QED BY <1>1, <1>2, <1>3, <1>4

\* A step that keeps the identity of every row keeps the attempts at every blob.
LEMMA SameAttempts ==
  ASSUME \A i \in SessionIds : /\ session'[i].blob = session[i].blob
                               /\ session'[i].generation = session[i].generation,
         NEW b \in Blobs
  PROVE  SessionsOf(b)' = SessionsOf(b) /\ Generations(b)' = Generations(b)
BY DEF SessionsOf, Generations

\* An active session is the newest attempt at its blob, and the only one that is
\* not FAILED.
LEMMA ActiveIsNewest ==
  ASSUME MpInv, NEW i \in SessionIds, session[i].state \in ActiveStates
  PROVE  LET b == session[i].blob IN
         /\ b \in Blobs /\ i \in SessionsOf(b)
         /\ Attests(session[i].state, bState[b])
         /\ bState[b] # "AVAILABLE"
         /\ \A j \in SessionsOf(b) \ {i} :
              session[i].generation > session[j].generation /\ session[j].state = "FAILED"
<1> DEFINE b == session[i].blob
<1>0. MultipartTypeOK /\ SessionTable /\ GenerationsDiffer /\ NewestGenerationDecides
  BY DEF MpInv
<1>1. b \in Blobs /\ i \in SessionsOf(b) /\ session[i].state # "ABSENT"
  BY <1>0, LeasedExists DEF ActiveStates, UploadStates, SessionsOf
<1>2. session[i].state # "FAILED"
  BY DEF ActiveStates, UploadStates
<1>3. ~ \E j \in SessionsOf(b) : session[j].generation > session[i].generation
  BY <1>0, <1>1, <1>2 DEF NewestGenerationDecides
<1>4. \A j \in SessionsOf(b) : j \in SessionIds /\ session[j].generation \in Nat
  BY <1>0 DEF SessionsOf, MultipartTypeOK
<1>5. \A j \in SessionsOf(b) \ {i} : session[i].generation > session[j].generation
  BY <1>0, <1>1, <1>3, <1>4 DEF GenerationsDiffer
<1>6. \A j \in SessionsOf(b) \ {i} : session[j].state = "FAILED"
  BY <1>0, <1>1, <1>5 DEF NewestGenerationDecides
<1>7. Attests(session[i].state, bState[b])
  BY <1>0, <1>1, <1>3 DEF NewestGenerationDecides, Attests
<1>8. bState[b] # "AVAILABLE"
  BY <1>7 DEF Attests, ActiveStates, UploadStates
<1> QED BY <1>1, <1>5, <1>6, <1>7, <1>8

\* A step that moves one active session and sets its blob accordingly.
LEMMA AttemptMoves ==
  ASSUME MpInv, MultipartTypeOK', NEW i \in SessionIds, session[i].state \in ActiveStates,
         NEW r, session' = [session EXCEPT ![i] = r],
         r.blob = session[i].blob, r.generation = session[i].generation,
         NEW s, bState' = [bState EXCEPT ![session[i].blob] = s], Attests(r.state, s)
  PROVE  GenerationsDiffer' /\ NewestGenerationDecides'
<1> DEFINE b == session[i].blob
<1>0. MultipartTypeOK /\ SessionTable /\ GenerationsDiffer /\ NewestGenerationDecides
  BY DEF MpInv
<1>1. /\ b \in Blobs /\ i \in SessionsOf(b)
      /\ \A j \in SessionsOf(b) \ {i} :
           session[i].generation > session[j].generation /\ session[j].state = "FAILED"
  BY ActiveIsNewest
<1>2. session'[i] = r /\ \A j \in SessionIds \ {i} : session'[j] = session[j]
  BY <1>0 DEF MultipartTypeOK
<1>3. \A j \in SessionIds : /\ session'[j].blob = session[j].blob
                            /\ session'[j].generation = session[j].generation
  BY <1>2
<1>4. \A c \in Blobs : SessionsOf(c)' = SessionsOf(c) /\ Generations(c)' = Generations(c)
  BY <1>3, SameAttempts
<1>5. bState'[b] = s /\ \A c \in Blobs \ {b} : bState'[c] = bState[c]
  BY <1>0, <1>1 DEF MultipartTypeOK
<1>6. \A c \in Blobs : \A j \in SessionsOf(c) : j \in SessionIds /\ session[j].generation \in Nat
                                              /\ session[j].blob = c
  BY <1>0 DEF SessionsOf, MultipartTypeOK
<1>7. GenerationsDiffer'
  BY <1>0, <1>3, <1>4, <1>6 DEF GenerationsDiffer
<1>8. NewestGenerationDecides'
  <2> SUFFICES ASSUME NEW c \in Blobs
               PROVE  /\ Generations(c)' = 1..Cardinality(SessionsOf(c)')
                      /\ bState'[c] = "AVAILABLE" =>
                           \E j \in SessionsOf(c) : session'[j].state = "COMPLETED"
                      /\ \A j \in SessionsOf(c) :
                           IF \E l \in SessionsOf(c) : session'[l].generation > session'[j].generation
                           THEN session'[j].state = "FAILED"
                           ELSE Attests(session'[j].state, bState'[c])
    BY <1>4 DEF NewestGenerationDecides, Attests
  <2>1. Generations(c)' = 1..Cardinality(SessionsOf(c)')
    BY <1>0, <1>4 DEF NewestGenerationDecides
  <2>2. CASE c # b
    <3>1. \A j \in SessionsOf(c) : session'[j] = session[j]
      BY <1>2, <1>6, <2>2
    <3>2. bState'[c] = bState[c]
      BY <1>5, <2>2
    <3> QED BY <1>0, <2>1, <3>1, <3>2 DEF NewestGenerationDecides, Attests
  <2>3. CASE c = b
    <3>1. s = "AVAILABLE" => r.state = "COMPLETED"
      BY DEF Attests
    <3>2. \A j \in SessionsOf(c) \ {i} :
            session'[i].generation > session'[j].generation /\ session'[j].state = "FAILED"
      BY <1>1, <1>2, <1>6, <2>3
    <3>3. ~ \E l \in SessionsOf(c) : session'[l].generation > session'[i].generation
      BY <1>1, <1>3, <1>6, <2>3, <3>2
    <3> QED BY <1>1, <1>2, <1>5, <2>1, <2>3, <3>1, <3>2, <3>3
  <2> QED BY <2>2, <2>3
<1> QED BY <1>7, <1>8

\* A new attempt is the newest, and all before it have failed.
LEMMA AttemptOpens ==
  ASSUME MpInv, MultipartTypeOK', NEW k \in ResolveKeys, NEW b \in Blobs, NEW q \in Plans,
         OpenGeneration(k, b, q)
  PROVE  GenerationsDiffer' /\ NewestGenerationDecides'
<1> DEFINE n == Cardinality(SessionsOf(b))
<1>0. MultipartTypeOK /\ SessionTable /\ GenerationsDiffer /\ NewestGenerationDecides
  BY DEF MpInv
<1>1. nextId \in SessionIds /\ bState' = bState
  BY <1>0, MultipartBounds DEF OpenGeneration, MultipartTypeOK, SessionIds
<1>2. IsFiniteSet(SessionsOf(b)) /\ n \in Nat /\ NextGeneration(b) = n + 1
  BY <1>0, NextIsOneMore
<1>3. /\ session'[nextId].state = "CREATED" /\ session'[nextId].blob = b
      /\ session'[nextId].generation = n + 1
      /\ \A j \in SessionIds \ {nextId} : session'[j] = session[j]
  BY <1>0, <1>1, <1>2 DEF OpenGeneration, NoSession, MultipartTypeOK
<1>4. session[nextId].blob = None
  BY <1>0, <1>1 DEF SessionTable, SessionIds, NoSession
<1>5. \A c \in Blobs : nextId \notin SessionsOf(c)
  BY <1>4, NoneIsNoValue DEF SessionsOf
<1>6. SessionsOf(b)' = SessionsOf(b) \cup {nextId}
  BY <1>1, <1>3 DEF SessionsOf
<1>7. \A c \in Blobs \ {b} : SessionsOf(c)' = SessionsOf(c)
  BY <1>1, <1>3, <1>4, NoneIsNoValue DEF SessionsOf
<1>8. \A c \in Blobs : \A j \in SessionsOf(c) :
        j \in SessionIds /\ session[j].generation \in Nat /\ session'[j] = session[j]
  BY <1>0, <1>3, <1>5 DEF SessionsOf, MultipartTypeOK
<1>9. Generations(b) = 1..n /\ \A j \in SessionsOf(b) : session[j].generation \in 1..n
  <2>1. Generations(b) = 1..n
    BY <1>0 DEF NewestGenerationDecides
  <2>2. \A j \in SessionsOf(b) : session[j].generation \in Generations(b)
    BY DEF Generations
  <2> QED BY <2>1, <2>2
<1>10. GenerationsDiffer'
  <2> SUFFICES ASSUME NEW c \in Blobs, NEW i \in SessionsOf(c)', NEW j \in SessionsOf(c)',
                      session'[i].generation = session'[j].generation
               PROVE  i = j
    BY DEF GenerationsDiffer
  <2>1. CASE c # b
    BY <1>0, <1>7, <1>8, <2>1 DEF GenerationsDiffer
  <2>2. CASE c = b
    <3>1. CASE i # nextId /\ j # nextId
      BY <1>0, <1>6, <1>8, <2>2, <3>1 DEF GenerationsDiffer
    <3>2. CASE i = nextId \/ j = nextId
      BY <1>2, <1>3, <1>6, <1>8, <1>9, <2>2, <3>2
    <3> QED BY <3>1, <3>2
  <2> QED BY <2>1, <2>2
<1>11. \A j \in SessionsOf(b) : session[j].state = "FAILED"
  <2> SUFFICES ASSUME NEW j \in SessionsOf(b), session[j].state # "FAILED" PROVE FALSE
    OBVIOUS
  <2>1. session[j].state \notin ActiveStates /\ bState[b] # "AVAILABLE"
    BY DEF OpenGeneration, ActiveOf
  <2>2. session[j].state # "COMPLETED"
    BY <1>0, <2>1 DEF NewestGenerationDecides
  <2>3. session[j].state \in SessionStates /\ session[j].blob # None
    BY <1>0, NoneIsNoValue DEF SessionsOf, MultipartTypeOK
  <2>4. session[j].state # "ABSENT"
    BY <1>0, <1>8, <2>3 DEF SessionTable, MultipartTypeOK, SessionIds, NoSession
  <2> QED BY <2>1, <2>2, <2>3, <2>4 DEF SessionStates, TerminalStates
<1>12. NewestGenerationDecides'
  <2> SUFFICES ASSUME NEW c \in Blobs
               PROVE  /\ Generations(c)' = 1..Cardinality(SessionsOf(c)')
                      /\ bState'[c] = "AVAILABLE" =>
                           \E j \in SessionsOf(c)' : session'[j].state = "COMPLETED"
                      /\ \A j \in SessionsOf(c)' :
                           IF \E l \in SessionsOf(c)' : session'[l].generation > session'[j].generation
                           THEN session'[j].state = "FAILED"
                           ELSE Attests(session'[j].state, bState'[c])
    BY DEF NewestGenerationDecides, Attests
  <2>1. CASE c # b
    <3>1. Generations(c)' = Generations(c)
      BY <1>7, <1>8, <2>1 DEF Generations
    <3> QED BY <1>0, <1>1, <1>7, <1>8, <2>1, <3>1 DEF NewestGenerationDecides, Attests
  <2>2. CASE c = b
    <3>1. Cardinality(SessionsOf(b)') = n + 1
      BY <1>2, <1>5, <1>6, FS_AddElement
    <3>2. Generations(b)' = Generations(b) \cup {n + 1}
      BY <1>3, <1>6, <1>8 DEF Generations
    <3>3. Generations(b)' = 1..(n + 1)
      BY <1>2, <1>9, <3>2
    <3>4. bState'[b] # "AVAILABLE"
      BY <1>1 DEF OpenGeneration
    <3>5. \A j \in SessionsOf(b) : /\ session'[nextId].generation > session'[j].generation
                                 /\ session'[j].state = "FAILED"
      BY <1>2, <1>3, <1>8, <1>9, <1>11
    <3>6. ~ \E l \in SessionsOf(b)' : session'[l].generation > session'[nextId].generation
      BY <1>2, <1>3, <1>6, <1>8, <1>9
    <3>7. Attests(session'[nextId].state, bState'[b])
      BY <1>3, <3>4 DEF Attests
    <3> QED BY <1>6, <2>2, <3>1, <3>3, <3>4, <3>5, <3>6, <3>7
  <2> QED BY <2>1, <2>2
<1> QED BY <1>10, <1>12

LEMMA GenerationStep ==
  ASSUME MpInv, MultipartNext, MultipartTypeOK'
  PROVE  GenerationsDiffer' /\ NewestGenerationDecides'
<1>0. MultipartTypeOK /\ GenerationsDiffer /\ NewestGenerationDecides
  BY DEF MpInv
<1>1. ASSUME UNCHANGED <<session, bState>> PROVE GenerationsDiffer' /\ NewestGenerationDecides'
  BY <1>0, <1>1 DEF GenerationsDiffer, NewestGenerationDecides, Generations, SessionsOf
<1>2. ASSUME NEW k \in ResolveKeys, NEW b \in Blobs, NEW q \in Plans, CreateOrResolve(k, b, q)
      PROVE  GenerationsDiffer' /\ NewestGenerationDecides'
  BY <1>1, <1>2, AttemptOpens DEF CreateOrResolve, ReplayResolve, JoinGeneration, mpVars
\* A step that moves an active session and leaves its blob alone.
<1>3. ASSUME NEW i \in SessionIds, session[i].state \in ActiveStates, bState' = bState, NEW r,
             session' = [session EXCEPT ![i] = r], r.blob = session[i].blob,
             r.generation = session[i].generation,
             Attests(session[i].state, bState[session[i].blob])
               => Attests(r.state, bState[session[i].blob])
      PROVE  GenerationsDiffer' /\ NewestGenerationDecides'
  <2>1. Attests(r.state, bState[session[i].blob])
    BY <1>3, ActiveIsNewest
  <2>2. bState' = [bState EXCEPT ![session[i].blob] = bState[session[i].blob]]
    BY <1>0, <1>3 DEF MultipartTypeOK
  <2> QED BY <1>3, <2>1, <2>2, AttemptMoves
<1>4. ASSUME NEW i \in SessionIds, NEW e, SessionStep(i, e)
      PROVE  GenerationsDiffer' /\ NewestGenerationDecides'
  <2> USE DEF ActiveStates, UploadStates, Attests
  <2>0. session[i] \in SessionRows /\ bState' = bState
    BY <1>0, <1>4 DEF MultipartTypeOK, SessionRows, SessionStep, BeginProviderInitiation,
          MarkInitiationAmbiguous, AcceptCompletion, SetCompletionPhase, RecoverInvalidated
  <2>1. CASE BeginProviderInitiation(i, e)
    <3> DEFINE r == [session[i] EXCEPT !.state = "INITIATING"]
    <3>1. r.state = "INITIATING" /\ r.blob = session[i].blob /\ r.generation = session[i].generation
      BY <2>0 DEF SessionRows
    <3>2. session' = [session EXCEPT ![i] = r] /\ session[i].state = "CREATED"
      BY <2>1 DEF BeginProviderInitiation
    <3> HIDE DEF r
    <3> QED BY <1>3, <2>0, <3>1, <3>2
  <2>2. CASE MarkInitiationAmbiguous(i, e) \/ RecoverInvalidated(i, e)
    <3> DEFINE r == [session[i] EXCEPT !.state = "FAILED"]
    <3>1. r.state = "FAILED" /\ r.blob = session[i].blob /\ r.generation = session[i].generation
      BY <2>0 DEF SessionRows
    <3>2. session' = [session EXCEPT ![i] = r] /\ session[i].state \in {"INITIATING", "COMPLETING"}
      BY <2>2 DEF MarkInitiationAmbiguous, RecoverInvalidated
    <3> HIDE DEF r
    <3> QED BY <1>3, <2>0, <3>1, <3>2
  <2>3. CASE \E k \in AcceptKeys : AcceptCompletion(k, i, e)
    <3> DEFINE r == [session[i] EXCEPT !.state = "COMPLETING", !.reason = "PARTS_READY",
                                       !.phase = "PENDING"]
    <3>1. r.state = "COMPLETING" /\ r.blob = session[i].blob /\ r.generation = session[i].generation
      BY <2>0 DEF SessionRows
    <3>2. session' = [session EXCEPT ![i] = r] /\ session[i].state = "IN_PROGRESS"
      BY <2>3 DEF AcceptCompletion
    <3> HIDE DEF r
    <3> QED BY <1>3, <2>0, <3>1, <3>2
  <2>4. CASE \E q \in Phases : SetCompletionPhase(i, e, q)
    <3>0. PICK q \in Phases : SetCompletionPhase(i, e, q)
      BY <2>4
    <3> DEFINE r == [session[i] EXCEPT !.phase = q]
    <3>1. r.state = "COMPLETING" /\ r.blob = session[i].blob /\ r.generation = session[i].generation
      BY <2>0, <3>0 DEF SessionRows, SetCompletionPhase
    <3>2. session' = [session EXCEPT ![i] = r] /\ session[i].state = "COMPLETING"
      BY <3>0 DEF SetCompletionPhase
    <3> HIDE DEF r
    <3> QED BY <1>3, <2>0, <3>1, <3>2
  <2> QED BY <1>4, <2>1, <2>2, <2>3, <2>4 DEF SessionStep
<1>5. ASSUME NEW i \in SessionIds, NEW e, NEW obs \in [Parts -> Observations], RecoverPartial(i, e, obs)
      PROVE  GenerationsDiffer' /\ NewestGenerationDecides'
  <2> USE DEF ActiveStates, UploadStates, Attests
  <2> DEFINE r == [session[i] EXCEPT !.state = "IN_PROGRESS", !.reason = None, !.phase = None]
  <2>1. session[i] \in SessionRows
    BY <1>0 DEF MultipartTypeOK, SessionRows
  <2>2. r.state = "IN_PROGRESS" /\ r.blob = session[i].blob /\ r.generation = session[i].generation
    BY <2>1 DEF SessionRows
  <2>3. session' = [session EXCEPT ![i] = r] /\ session[i].state = "COMPLETING" /\ bState' = bState
    BY <1>5 DEF RecoverPartial
  <2> HIDE DEF r
  <2> QED BY <1>3, <2>2, <2>3
<1>6. ASSUME NEW i \in SessionIds, NEW e, RecordProviderUpload(i, e) \/ RecordVerifiedCompletion(i, e)
      PROVE  GenerationsDiffer' /\ NewestGenerationDecides'
  <2>1. PICK st, s : /\ <<st, s>> \in {<<"IN_PROGRESS", "UPLOADING">>, <<"COMPLETED", "AVAILABLE">>}
                     /\ session' = [session EXCEPT ![i] = [@ EXCEPT !.state = st]]
                     /\ bState' = [bState EXCEPT ![session[i].blob] = s]
    BY <1>6 DEF RecordProviderUpload, RecordVerifiedCompletion
  <2> DEFINE r == [session[i] EXCEPT !.state = st]
  <2>2. r.state = st /\ r.blob = session[i].blob /\ r.generation = session[i].generation
    BY <1>0 DEF MultipartTypeOK
  <2>3. session[i].state \in ActiveStates
    BY <1>6 DEF RecordProviderUpload, RecordVerifiedCompletion, ActiveStates, UploadStates
  <2>4. Attests(r.state, s)
    BY <2>1, <2>2 DEF Attests
  <2>5. session' = [session EXCEPT ![i] = r]
    BY <2>1
  <2> HIDE DEF r
  <2> QED BY <2>1, <2>2, <2>3, <2>4, <2>5, AttemptMoves
<1> QED
  BY <1>1, <1>2, <1>4, <1>5, <1>6
     DEF MultipartNext, UploadStep, RunnerStep, SessionStep, ReplayAcquire, ReplayAccept,
         AcquireAdmission, ReleaseAdmission, AdmissionExpires, CompletionExpires, ClaimCompletion,
         RecordUploadedPart, ReconcileParts, RecoverReady, mpVars

-----------------------------------------------------------------------------
(***************************************************************************)
(* The invariant holds.                                                    *)
(***************************************************************************)

LEMMA MpInitially == Init => MpInv
<1> SUFFICES ASSUME Init PROVE MpInv
  OBVIOUS
<1>1. NoSession \in SessionRows /\ PendingPart \in PartRows
  BY DEF NoSession, SessionRows, SessionStates, PendingPart, PartRows, Observations
<1>2. MultipartTypeOK
  <2>1. session \in [SessionIds -> SessionRows] /\ part \in [SessionIds -> [Parts -> PartRows]]
    BY <1>1 DEF Init
  <2>2. nextId \in 1..(MaxSessions + 1)
    BY MultipartBounds DEF Init
  <2>3. /\ bState \in [Blobs -> BlobStates]
        /\ resolveKey \in [ResolveKeys ->
                             [blob : Blobs, plan : Plans, session : SessionIds] \cup {None}]
        /\ acquireKey \in [AcquireKeys ->
                             [session : SessionIds, invocation : Invocations, epoch : Nat]
                               \cup {None}]
        /\ acceptKey \in [AcceptKeys -> SessionIds \cup {None}]
    BY DEF Init, BlobStates
  <2>4. /\ admission \in [SessionIds -> [epoch : Nat, invocation : Invocations \cup {None},
                                        live : BOOLEAN]]
        /\ completion \in [SessionIds -> [epoch : 0..MaxClaims, live : BOOLEAN]]
    BY MultipartBounds DEF Init, NoAdmission, NoCompletion
  <2> QED BY <2>1, <2>2, <2>3, <2>4 DEF MultipartTypeOK, SessionRows, PartRows
<1>3. SessionTable
  BY DEF Init, SessionTable, SessionIds
<1>4. OwnershipFollowsState
  BY DEF Init, OwnershipFollowsState, NoAdmission, NoCompletion
<1>5. AcceptedPartsStayVerified
  BY DEF Init, AcceptedPartsStayVerified, NoSession, PendingPart
<1>6. TokensFollowLeases /\ TokensAreExclusive
  BY DEF Init, TokensFollowLeases, TokensAreExclusive
<1>7. \A b \in Blobs : SessionsOf(b) = {}
  BY NoneIsNoValue DEF Init, SessionsOf, NoSession
<1>8. GenerationsDiffer
  BY <1>7 DEF GenerationsDiffer
<1>9. NewestGenerationDecides
  <2>1. \A b \in Blobs : Generations(b) = {}
    BY <1>7 DEF Generations
  <2>2. Cardinality({}) = 0 /\ 1..0 = {}
    BY FS_EmptySet
  <2>3. \A b \in Blobs : Cardinality(SessionsOf(b)) = 0
    BY <1>7, <2>2
  <2>4. \A b \in Blobs : bState[b] # "AVAILABLE"
    BY DEF Init
  <2> QED BY <1>7, <2>1, <2>2, <2>3, <2>4 DEF NewestGenerationDecides
<1> QED BY <1>2, <1>3, <1>4, <1>5, <1>6, <1>8, <1>9 DEF MpInv

LEMMA MpStep == MpInv /\ [MultipartNext]_mpVars => MpInv'
<1> SUFFICES ASSUME MpInv, [MultipartNext]_mpVars PROVE MpInv'
  OBVIOUS
<1>1. CASE MultipartNext
  <2>1. \A b \in Blobs : NextGeneration(b) \in Nat
    BY NextIsOneMore DEF MpInv
  <2>2. MultipartTypeOK' /\ SessionTable'
    BY <1>1, <2>1, TypeStep DEF MpInv
  <2> QED
    BY <1>1, <2>2, OwnershipStep, PartsStep, TokensStep, GenerationStep DEF MpInv
<1>2. CASE UNCHANGED mpVars
  <2> USE <1>2 DEF mpVars, keyVars
  <2>1. MultipartTypeOK' /\ SessionTable' /\ OwnershipFollowsState'
    BY DEF MpInv, MultipartTypeOK, SessionTable, OwnershipFollowsState
  <2>2. AcceptedPartsStayVerified'
    BY DEF MpInv, AcceptedPartsStayVerified, AllVerified
  <2>3. TokensFollowLeases' /\ TokensAreExclusive'
    BY DEF MpInv, TokensFollowLeases, TokensAreExclusive
  <2>4. GenerationsDiffer' /\ NewestGenerationDecides'
    BY DEF MpInv, GenerationsDiffer, NewestGenerationDecides, Generations, SessionsOf
  <2> QED BY <2>1, <2>2, <2>3, <2>4 DEF MpInv
<1> QED BY <1>1, <1>2

\* The inductive invariant of the multipart transactions.
THEOREM MultipartInvariant == MultipartSpec => []MpInv
BY MpInitially, MpStep, PTL DEF MultipartSpec

\* Type correctness of the multipart tables.
THEOREM MultipartTypes == MultipartSpec => []MultipartTypeOK
<1>1. MpInv => MultipartTypeOK
  BY DEF MpInv
<1> QED BY <1>1, MultipartInvariant, PTL

\* create_or_resolve_multipart never opens a second active attempt or one after
\* publication, and only the newest generation publishes.
THEOREM NewestAlwaysDecides == MultipartSpec => []NewestGenerationDecides
<1>1. MpInv => NewestGenerationDecides
  BY DEF MpInv
<1> QED BY <1>1, MultipartInvariant, PTL

\* Upload and completion leases are live only in the states their holders work
\* in, through acceptance, reopening, takeover and expiry.
THEOREM OwnershipAlwaysFollows == MultipartSpec => []OwnershipFollowsState
<1>1. MpInv => OwnershipFollowsState
  BY DEF MpInv
<1> QED BY <1>1, MultipartInvariant, PTL

\* What accept_completion found complete stays complete until it is reopened.
THEOREM AcceptedPartsStay == MultipartSpec => []AcceptedPartsStayVerified
<1>1. MpInv => AcceptedPartsStayVerified
  BY DEF MpInv
<1> QED BY <1>1, MultipartInvariant, PTL

\* No two invocations are ever answered with the same token of a session.
THEOREM TokensStayExclusive == MultipartSpec => []TokensAreExclusive
<1>1. MpInv => TokensAreExclusive
  BY DEF MpInv
<1> QED BY <1>1, MultipartInvariant, PTL

-----------------------------------------------------------------------------
(***************************************************************************)
(* Slots.                                                                  *)
(***************************************************************************)

LiveOf(table) == {i \in SessionIds : table[i].live}

\* What a step does to a lease table: no lease comes alive, or one does while a
\* slot is free.
TakesASlot(old, new, capacity) ==
    \/ LiveOf(new) \subseteq LiveOf(old)
    \/ /\ Cardinality(LiveOf(old)) < capacity
       /\ \E i \in SessionIds : LiveOf(new) \subseteq LiveOf(old) \cup {i}

\* One more member is one slot more.
LEMMA SlotTaken ==
  ASSUME NEW old, NEW new, NEW capacity \in Nat, TakesASlot(old, new, capacity),
         Cardinality(LiveOf(old)) <= capacity
  PROVE  Cardinality(LiveOf(new)) <= capacity
<1>1. IsFiniteSet(SessionIds)
  BY FS_Interval, MultipartBounds DEF SessionIds
<1>2. IsFiniteSet(LiveOf(old)) /\ Cardinality(LiveOf(old)) \in Nat
  BY <1>1, FS_Subset, FS_CardinalityType DEF LiveOf
<1>3. IsFiniteSet(LiveOf(new)) /\ Cardinality(LiveOf(new)) \in Nat
  BY <1>1, FS_Subset, FS_CardinalityType DEF LiveOf
<1>4. CASE LiveOf(new) \subseteq LiveOf(old)
  BY <1>2, <1>3, <1>4, FS_Subset
<1>5. ASSUME NEW i \in SessionIds, Cardinality(LiveOf(old)) < capacity,
             LiveOf(new) \subseteq LiveOf(old) \cup {i}
      PROVE  Cardinality(LiveOf(new)) <= capacity
  <2>1. /\ IsFiniteSet(LiveOf(old) \cup {i})
        /\ Cardinality(LiveOf(old) \cup {i}) \in Nat
        /\ Cardinality(LiveOf(old) \cup {i}) <= Cardinality(LiveOf(old)) + 1
    <3>1. CASE i \in LiveOf(old)
      <4>1. LiveOf(old) \cup {i} = LiveOf(old)
        BY <3>1
      <4> QED BY <1>2, <4>1
    <3>2. CASE i \notin LiveOf(old)
      BY <1>2, <3>2, FS_AddElement
    <3> QED BY <3>1, <3>2
  <2>2. Cardinality(LiveOf(new)) <= Cardinality(LiveOf(old) \cup {i})
    BY <1>5, <2>1, FS_Subset
  <2> QED BY <1>2, <1>3, <1>5, <2>1, <2>2
<1> QED BY <1>4, <1>5 DEF TakesASlot

\* Grants take a free slot, everything else keeps or frees them.
LEMMA SlotsStep ==
  ASSUME MpInv, MultipartNext
  PROVE  /\ TakesASlot(admission, admission', AdmissionCapacity)
         /\ TakesASlot(completion, completion', CompletionCapacity)
<1>0. MultipartTypeOK
  BY DEF MpInv
<1>1. ASSUME NEW i \in SessionIds
      PROVE  /\ LiveOf(Lapsed(admission, i)) \subseteq LiveOf(admission)
             /\ LiveOf(Lapsed(completion, i)) \subseteq LiveOf(completion)
  BY <1>0 DEF LiveOf, Lapsed, MultipartTypeOK
<1>2. ASSUME NEW i \in SessionIds,
             admission' \in {admission, Lapsed(admission, i)},
             completion' \in {completion, Lapsed(completion, i)}
      PROVE  /\ TakesASlot(admission, admission', AdmissionCapacity)
             /\ TakesASlot(completion, completion', CompletionCapacity)
  BY <1>1, <1>2 DEF TakesASlot
<1>3. ASSUME NEW i \in SessionIds, NEW k \in AcquireKeys, NEW w \in Invocations,
             AcquireAdmission(k, w, i)
      PROVE  /\ TakesASlot(admission, admission', AdmissionCapacity)
             /\ TakesASlot(completion, completion', CompletionCapacity)
  <2>1. UNCHANGED completion
    BY <1>3 DEF AcquireAdmission
  <2>2. CASE RenewAdmission(w, i)
    BY <2>1, <2>2, <1>2 DEF RenewAdmission
  <2>3. CASE GrantAdmission(w, i)
    <3>1. \A j \in SessionIds \ {i} : admission'[j] = admission[j]
      BY <1>0, <2>3 DEF GrantAdmission, MultipartTypeOK
    <3>2. LiveOf(admission') \subseteq LiveOf(admission) \cup {i}
      BY <3>1 DEF LiveOf
    <3>3. Cardinality(LiveOf(admission)) < AdmissionCapacity
      BY <2>3 DEF GrantAdmission, LiveAdmissions, LiveOf
    <3> QED BY <2>1, <3>2, <3>3 DEF TakesASlot
  <2> QED BY <1>3, <2>2, <2>3 DEF AcquireAdmission
<1>4. ASSUME NEW i \in SessionIds, ClaimCompletion(i)
      PROVE  /\ TakesASlot(admission, admission', AdmissionCapacity)
             /\ TakesASlot(completion, completion', CompletionCapacity)
  <2>1. \A j \in SessionIds \ {i} : completion'[j] = completion[j]
    BY <1>0, <1>4 DEF ClaimCompletion, MultipartTypeOK
  <2>2. LiveOf(completion') \subseteq LiveOf(completion) \cup {i}
    BY <2>1 DEF LiveOf
  <2>3. Cardinality(LiveOf(completion)) < CompletionCapacity /\ UNCHANGED admission
    BY <1>4 DEF ClaimCompletion, LiveCompletions, LiveOf
  <2> QED BY <2>2, <2>3 DEF TakesASlot
<1>5. ASSUME UNCHANGED <<admission, completion>>
      PROVE  /\ TakesASlot(admission, admission', AdmissionCapacity)
             /\ TakesASlot(completion, completion', CompletionCapacity)
  BY <1>5 DEF TakesASlot
<1>6. ASSUME NEW k \in ResolveKeys, NEW b \in Blobs, NEW q \in Plans, CreateOrResolve(k, b, q)
      PROVE  UNCHANGED <<admission, completion>>
  BY <1>6 DEF CreateOrResolve, ReplayResolve, JoinGeneration, OpenGeneration, mpVars
<1>7. ASSUME NEW i \in SessionIds, NEW e, UploadStep(i, e)
      PROVE  /\ admission' \in {admission, Lapsed(admission, i)}
             /\ completion' = completion
  BY <1>7 DEF UploadStep, ReleaseAdmission, BeginProviderInitiation, RecordProviderUpload,
              MarkInitiationAmbiguous, RecordUploadedPart, ReconcileParts, AcceptCompletion
<1>8. ASSUME NEW i \in SessionIds, NEW e, RunnerStep(i, e)
      PROVE  /\ completion' \in {completion, Lapsed(completion, i)}
             /\ admission' = admission
  BY <1>8 DEF RunnerStep, SetCompletionPhase, RecoverInvalidated, RecoverReady, RecoverPartial,
              RecordVerifiedCompletion
<1>9. ASSUME NEW i \in SessionIds, AdmissionExpires(i) \/ CompletionExpires(i)
      PROVE  /\ admission' \in {admission, Lapsed(admission, i)}
             /\ completion' \in {completion, Lapsed(completion, i)}
  BY <1>9 DEF AdmissionExpires, CompletionExpires
<1>10. ASSUME NEW i \in SessionIds,
              \/ \E k \in AcquireKeys, w \in Invocations : ReplayAcquire(k, w, i)
              \/ \E k \in AcceptKeys : ReplayAccept(k, i)
       PROVE  UNCHANGED <<admission, completion>>
  BY <1>10 DEF ReplayAcquire, ReplayAccept, mpVars
<1> QED
  BY <1>2, <1>3, <1>4, <1>5, <1>6, <1>7, <1>8, <1>9, <1>10 DEF MultipartNext

\* acquire_multipart_lease and claim_completion, one transaction at a time,
\* never grant more leases than the capacity they are called with.
THEOREM SlotsStayBounded == MultipartSpec => []SlotsAreBounded
<1>1. Init => SlotsAreBounded
  <2> SUFFICES ASSUME Init PROVE SlotsAreBounded
    OBVIOUS
  <2>1. LiveAdmissions = {} /\ LiveCompletions = {}
    BY DEF Init, LiveAdmissions, LiveCompletions, NoAdmission, NoCompletion
  <2> QED BY <2>1, FS_EmptySet, CapacityAssumption DEF SlotsAreBounded
<1>2. MpInv /\ SlotsAreBounded /\ [MultipartNext]_mpVars => SlotsAreBounded'
  <2> SUFFICES ASSUME MpInv, SlotsAreBounded, [MultipartNext]_mpVars PROVE SlotsAreBounded'
    OBVIOUS
  <2>1. /\ LiveOf(admission) = LiveAdmissions /\ LiveOf(admission') = LiveAdmissions'
        /\ LiveOf(completion) = LiveCompletions /\ LiveOf(completion') = LiveCompletions'
    BY DEF LiveOf, LiveAdmissions, LiveCompletions
  <2>2. /\ TakesASlot(admission, admission', AdmissionCapacity)
        /\ TakesASlot(completion, completion', CompletionCapacity)
    <3>1. CASE UNCHANGED mpVars
      BY <3>1 DEF TakesASlot, mpVars
    <3> QED BY <3>1, SlotsStep
  <2>3. /\ Cardinality(LiveOf(admission)) <= AdmissionCapacity
        /\ Cardinality(LiveOf(completion)) <= CompletionCapacity
    BY <2>1 DEF SlotsAreBounded
  <2>4. /\ Cardinality(LiveOf(admission')) <= AdmissionCapacity
        /\ Cardinality(LiveOf(completion')) <= CompletionCapacity
    BY <2>2, <2>3, SlotTaken, CapacityAssumption
  <2> QED BY <2>1, <2>4 DEF SlotsAreBounded
<1> QED BY <1>1, <1>2, MultipartInvariant, PTL DEF MultipartSpec

-----------------------------------------------------------------------------
(***************************************************************************)
(* History.                                                                *)
(***************************************************************************)

\* What no step takes back, of one session.
Kept(i) ==
    /\ session[i].state \in TerminalStates =>
         session'[i] = session[i] /\ part'[i] = part[i]
    /\ \A n \in Parts : part[i][n].receipt # None => part'[i][n].receipt = part[i][n].receipt
    /\ admission'[i].epoch >= admission[i].epoch
    /\ completion'[i].epoch >= completion[i].epoch

LEMMA LapseKeepsEpochs ==
  ASSUME MultipartTypeOK, NEW i \in SessionIds, NEW j \in SessionIds
  PROVE  /\ Lapsed(admission, i)[j].epoch = admission[j].epoch
         /\ Lapsed(completion, i)[j].epoch = completion[j].epoch
BY DEF Lapsed, MultipartTypeOK

LEMMA HistoryStep ==
  ASSUME MpInv, MultipartNext
  PROVE  \A j \in SessionIds : Kept(j)
<1> USE DEF Kept, TerminalStates
<1>0. MultipartTypeOK /\ SessionTable
  BY DEF MpInv
<1>1. ASSUME UNCHANGED <<session, part, admission, completion>>
      PROVE  \A j \in SessionIds : Kept(j)
  BY <1>0, <1>1 DEF MultipartTypeOK
<1>2. ASSUME NEW k \in ResolveKeys, NEW b \in Blobs, NEW q \in Plans, OpenGeneration(k, b, q)
      PROVE  \A j \in SessionIds : Kept(j)
  <2>1. nextId \in SessionIds /\ UNCHANGED <<admission, completion>>
    BY <1>0, <1>2, MultipartBounds DEF OpenGeneration, MultipartTypeOK, SessionIds
  <2>2. session[nextId].state = "ABSENT" /\ \A n \in Parts : part[nextId][n].receipt = None
    BY <1>0, <2>1 DEF SessionTable, SessionIds, NoSession, PendingPart
  <2>3. \A j \in SessionIds \ {nextId} : session'[j] = session[j] /\ part'[j] = part[j]
    BY <1>0, <1>2, <2>1 DEF OpenGeneration, MultipartTypeOK
  <2> QED BY <1>0, <2>1, <2>2, <2>3 DEF MultipartTypeOK
<1>3. ASSUME NEW i \in SessionIds, UNCHANGED <<session, part>>,
             \/ (\E k \in AcquireKeys, w \in Invocations : AcquireAdmission(k, w, i))
             \/ ClaimCompletion(i)
      PROVE  \A j \in SessionIds : Kept(j)
  <2>1. \A j \in SessionIds : admission[j].epoch \in Nat /\ completion[j].epoch \in Nat
    BY <1>0 DEF MultipartTypeOK
  <2>2. \/ UNCHANGED <<admission, completion>>
        \/ UNCHANGED completion /\ \E w : admission' = [admission EXCEPT ![i] =
                                            [epoch |-> @.epoch + 1, invocation |-> w, live |-> TRUE]]
        \/ UNCHANGED admission /\ completion' = [completion EXCEPT ![i] =
                                                    [epoch |-> @.epoch + 1, live |-> TRUE]]
    BY <1>3 DEF AcquireAdmission, RenewAdmission, GrantAdmission, ClaimCompletion
  <2>3. \A j \in SessionIds : /\ admission'[j].epoch >= admission[j].epoch
                              /\ completion'[j].epoch >= completion[j].epoch
    <3>1. CASE UNCHANGED <<admission, completion>>
      BY <2>1, <3>1
    <3>2. CASE UNCHANGED completion /\ \E w : admission' = [admission EXCEPT ![i] =
                                            [epoch |-> @.epoch + 1, invocation |-> w, live |-> TRUE]]
      <4>1. /\ admission'[i].epoch = admission[i].epoch + 1
            /\ \A j \in SessionIds \ {i} : admission'[j] = admission[j]
        BY <1>0, <3>2 DEF MultipartTypeOK
      <4> QED BY <2>1, <3>2, <4>1
    <3>3. CASE UNCHANGED admission /\ completion' = [completion EXCEPT ![i] =
                                                    [epoch |-> @.epoch + 1, live |-> TRUE]]
      <4>1. /\ completion'[i].epoch = completion[i].epoch + 1
            /\ \A j \in SessionIds \ {i} : completion'[j] = completion[j]
        BY <1>0, <3>3 DEF MultipartTypeOK
      <4> QED BY <2>1, <3>3, <4>1
    <3> QED BY <2>2, <3>1, <3>2, <3>3
  <2> QED BY <1>3, <2>3
\* A step that moves one session that is not terminal, and may lapse its leases.
<1>4. ASSUME NEW i \in SessionIds,
             UNCHANGED session \/ session[i].state \notin TerminalStates,
             \A j \in SessionIds \ {i} : session'[j] = session[j], part' = part,
             admission' \in {admission, Lapsed(admission, i)},
             completion' \in {completion, Lapsed(completion, i)}
      PROVE  \A j \in SessionIds : Kept(j)
  <2>1. \A j \in SessionIds : /\ admission'[j].epoch = admission[j].epoch
                              /\ completion'[j].epoch = completion[j].epoch
    BY <1>0, <1>4, LapseKeepsEpochs
  <2> QED BY <1>0, <1>4, <2>1 DEF MultipartTypeOK
<1>5. ASSUME NEW i \in SessionIds, NEW e, NEW n \in Parts, NEW t \in ETags,
             RecordUploadedPart(i, e, n, t)
      PROVE  \A j \in SessionIds : Kept(j)
  <2>1. UNCHANGED <<session, admission, completion>> /\ session[i].state = "IN_PROGRESS"
    BY <1>5 DEF RecordUploadedPart, CanRecordPart
  <2>2. CASE part' = part
    BY <1>1, <2>1, <2>2
  <2>3. CASE part[i][n].receipt = None
    <3>1. part' = [part EXCEPT ![i][n] = [@ EXCEPT !.state = "UPLOADED", !.receipt = t]]
      BY <1>5, <2>3 DEF RecordUploadedPart
    <3>2. \A j \in SessionIds \ {i} : part'[j] = part[j]
      BY <1>0, <3>1 DEF MultipartTypeOK
    <3>3. \A m \in Parts \ {n} : part'[i][m] = part[i][m]
      BY <1>0, <3>1 DEF MultipartTypeOK
    <3> QED BY <1>0, <2>1, <2>3, <3>2, <3>3 DEF MultipartTypeOK
  <2> QED BY <1>5, <2>2, <2>3 DEF RecordUploadedPart
<1>6. ASSUME NEW i \in SessionIds, NEW e, NEW obs \in [Parts -> Observations],
             ReconcileParts(i, e, obs) \/ RecoverReady(i, e, obs) \/ RecoverPartial(i, e, obs)
      PROVE  \A j \in SessionIds : Kept(j)
  <2>1. /\ part' = [part EXCEPT ![i] = ReconciledParts(i, obs)]
        /\ admission' = admission /\ completion' \in {completion, Lapsed(completion, i)}
        /\ session[i].state \notin TerminalStates
    BY <1>6 DEF ReconcileParts, RecoverReady, RecoverPartial
  <2>2. \A n \in Parts : part'[i][n].receipt = part[i][n].receipt
    <3>1. \A n \in Parts : /\ part'[i][n] = Reconciled(part[i][n], obs[n])
                           /\ part[i][n] \in PartRows /\ obs[n] \in Observations
      BY <1>0, <2>1 DEF ReconciledParts, MultipartTypeOK, PartRows
    <3> QED BY <3>1, ReconciledIsBacked
  <2>3. \A j \in SessionIds \ {i} : part'[j] = part[j]
    BY <1>0, <2>1 DEF MultipartTypeOK
  <2>4. \A j \in SessionIds \ {i} : session'[j] = session[j]
    <3>1. \/ session' = session
          \/ session' = [session EXCEPT ![i] = [@ EXCEPT !.state = "IN_PROGRESS",
                                                         !.reason = None, !.phase = None]]
      BY <1>6 DEF ReconcileParts, RecoverReady, RecoverPartial
    <3> QED BY <1>0, <3>1 DEF MultipartTypeOK
  <2>5. \A j \in SessionIds : /\ admission'[j].epoch = admission[j].epoch
                              /\ completion'[j].epoch = completion[j].epoch
    BY <1>0, <2>1, LapseKeepsEpochs
  <2> QED BY <1>0, <2>1, <2>2, <2>3, <2>4, <2>5 DEF MultipartTypeOK
<1>7. ASSUME NEW i \in SessionIds, NEW e,
             SessionStep(i, e) \/ RecordProviderUpload(i, e) \/ RecordVerifiedCompletion(i, e)
      PROVE  \A j \in SessionIds : Kept(j)
  <2>1. session[i].state \notin TerminalStates /\ UNCHANGED part
    BY <1>7 DEF SessionStep, BeginProviderInitiation, MarkInitiationAmbiguous, AcceptCompletion,
                SetCompletionPhase, RecoverInvalidated, RecordProviderUpload,
                RecordVerifiedCompletion
  <2>2. /\ admission' \in {admission, Lapsed(admission, i)}
        /\ completion' \in {completion, Lapsed(completion, i)}
    BY <1>7 DEF SessionStep, BeginProviderInitiation, MarkInitiationAmbiguous, AcceptCompletion,
                SetCompletionPhase, RecoverInvalidated, RecordProviderUpload,
                RecordVerifiedCompletion
  <2>3. \E r : session' = [session EXCEPT ![i] = r]
    BY <1>7 DEF SessionStep, BeginProviderInitiation, MarkInitiationAmbiguous, AcceptCompletion,
                SetCompletionPhase, RecoverInvalidated, RecordProviderUpload,
                RecordVerifiedCompletion
  <2>4. \A j \in SessionIds \ {i} : session'[j] = session[j]
    BY <1>0, <2>3 DEF MultipartTypeOK
  <2> QED
    <3> HIDE DEF Kept, TerminalStates
    <3> QED BY <1>4, <2>1, <2>2, <2>4
<1>8. ASSUME NEW i \in SessionIds,
             \/ AdmissionExpires(i)
             \/ CompletionExpires(i)
             \/ \E e \in AdmissionEpochs : ReleaseAdmission(i, e)
      PROVE  \A j \in SessionIds : Kept(j)
  <2> HIDE DEF Kept, TerminalStates
  <2> QED BY <1>4, <1>8 DEF AdmissionExpires, CompletionExpires, ReleaseAdmission
<1> QED
  <2> HIDE DEF Kept, TerminalStates
  <2> QED
    BY <1>1, <1>2, <1>3, <1>5, <1>6, <1>7, <1>8
       DEF MultipartNext, CreateOrResolve, ReplayResolve, JoinGeneration, UploadStep, RunnerStep,
           SessionStep, ReplayAcquire, ReplayAccept, AcquireAdmission, ClaimCompletion, mpVars

\* Terminal generations, receipts and epochs are never taken back.
THEOREM HistoryStaysImmutable == MultipartSpec => HistoryIsImmutable
<1>1. MpInv /\ MpInv' /\ [MultipartNext]_mpVars =>
        [\A i \in SessionIds :
           /\ session[i].state \in TerminalStates =>
                /\ session'[i] = session[i]
                /\ part'[i] = part[i]
                /\ ~admission'[i].live /\ ~completion'[i].live
           /\ \A n \in Parts : part[i][n].receipt # None =>
                part'[i][n].receipt = part[i][n].receipt
           /\ admission'[i].epoch >= admission[i].epoch
           /\ completion'[i].epoch >= completion[i].epoch]_mpVars
  <2> SUFFICES ASSUME MpInv, MpInv', MultipartNext, NEW i \in SessionIds
               PROVE  /\ Kept(i)
                      /\ session[i].state \in TerminalStates =>
                           ~admission'[i].live /\ ~completion'[i].live
    BY DEF Kept
  <2>1. Kept(i)
    BY HistoryStep
  <2>2. OwnershipFollowsState'
    BY DEF MpInv
  <2> QED BY <2>1, <2>2 DEF Kept, OwnershipFollowsState, TerminalStates, UploadStates
<1> QED BY <1>1, MultipartInvariant, PTL DEF MultipartSpec, HistoryIsImmutable

-----------------------------------------------------------------------------
(***************************************************************************)
(* The refinement of UploadOwnership.                                      *)
(***************************************************************************)

LEMMA StageValues ==
  /\ StageOf("ABSENT") = "none"
  /\ \A st \in UploadStates : StageOf(st) = "uploading"
  /\ StageOf("COMPLETING") = "completing"
  /\ StageOf("COMPLETED") = "published"
  /\ StageOf("FAILED") = "dead"
BY DEF StageOf, UploadStates

LEMMA OwnerValues ==
  /\ \A c : OwnerOf(TRUE, c) = "client"
  /\ OwnerOf(FALSE, TRUE) = "runner"
  /\ OwnerOf(FALSE, FALSE) = "nobody"
BY DEF OwnerOf

\* What the mapping makes of one session.
LEMMA Mapped ==
  ASSUME MultipartTypeOK, NEW i \in SessionIds
  PROVE  /\ session[i].state = "ABSENT" => Stages[i] = "none"
         /\ session[i].state \in UploadStates => Stages[i] = "uploading"
         /\ session[i].state = "COMPLETING" => Stages[i] = "completing"
         /\ admission[i].live => Owners[i] = "client"
         /\ ~admission[i].live /\ completion[i].live => Owners[i] = "runner"
         /\ ~admission[i].live /\ ~completion[i].live => Owners[i] = "nobody"
<1>1. Stages[i] = StageOf(session[i].state)
  BY DEF Stages
<1>2. Owners[i] = OwnerOf(admission[i].live, completion[i].live)
  BY DEF Owners
<1>3. admission[i].live \in BOOLEAN /\ completion[i].live \in BOOLEAN
  BY DEF MultipartTypeOK
<1>4. /\ admission[i].live => Owners[i] = "client"
      /\ ~admission[i].live /\ completion[i].live => Owners[i] = "runner"
      /\ ~admission[i].live /\ ~completion[i].live => Owners[i] = "nobody"
  BY <1>2, <1>3 DEF OwnerOf
<1> QED BY <1>1, <1>4, StageValues

\* A step that keeps every stage and every owner is no step of UploadOwnership.
LEMMA NobodyMoves ==
  ASSUME \A j \in SessionIds :
           /\ StageOf(session'[j].state) = StageOf(session[j].state)
           /\ admission'[j].live = admission[j].live
           /\ completion'[j].live = completion[j].live
  PROVE  UNCHANGED <<Stages, Owners>>
BY DEF Stages, Owners

\* A step of one session moves that session.
LEMMA OneMoves ==
  ASSUME NEW s \in SessionIds, NEW st, NEW o,
         \A j \in SessionIds \ {s} :
           /\ session'[j].state = session[j].state
           /\ admission'[j].live = admission[j].live
           /\ completion'[j].live = completion[j].live,
         StageOf(session'[s].state) = st, OwnerOf(admission'[s].live, completion'[s].live) = o
  PROVE  Ownership!Move(s, st, o)
<1>1. Stages' = [Stages EXCEPT ![s] = st]
  BY DEF Stages
<1>2. Owners' = [Owners EXCEPT ![s] = o]
  BY DEF Owners
<1> QED BY <1>1, <1>2 DEF Ownership!Move

LEMMA OwnershipNext ==
  ASSUME MpInv, MpInv', MultipartNext
  PROVE  Ownership!Next \/ UNCHANGED <<Stages, Owners>>
<1> DEFINE Goal == Ownership!Next \/ UNCHANGED <<Stages, Owners>>
<1>0. /\ MultipartTypeOK /\ SessionTable /\ OwnershipFollowsState
      /\ MultipartTypeOK' /\ OwnershipFollowsState'
  BY DEF MpInv
<1>1. ASSUME UNCHANGED <<session, admission, completion>> PROVE Goal
  BY <1>1, NobodyMoves
<1>2. ASSUME NEW k \in ResolveKeys, NEW b \in Blobs, NEW q \in Plans, OpenGeneration(k, b, q)
      PROVE  Goal
  <2>1. PICK s \in SessionIds : s = nextId
    BY <1>0, <1>2, MultipartBounds DEF OpenGeneration, MultipartTypeOK, SessionIds
  <2>2. session[s].state = "ABSENT" /\ UNCHANGED <<admission, completion>>
    BY <1>0, <1>2, <2>1 DEF SessionTable, SessionIds, NoSession, OpenGeneration
  <2>3. session'[s].state = "CREATED" /\ \A j \in SessionIds \ {s} : session'[j] = session[j]
    BY <1>0, <1>2, <2>1 DEF OpenGeneration, MultipartTypeOK, NoSession
  <2>4. ~admission[s].live /\ ~completion[s].live
    BY <1>0, <2>2 DEF OwnershipFollowsState, UploadStates
  <2>5. StageOf(session'[s].state) = "uploading" /\ OwnerOf(admission'[s].live, completion'[s].live) = "nobody"
    BY <2>2, <2>3, <2>4, StageValues DEF OwnerOf, UploadStates
  <2>6. Ownership!Move(s, "uploading", "nobody")
    BY <2>2, <2>3, <2>5, OneMoves
  <2>7. Stages[s] = "none"
    BY <1>0, <2>2, Mapped
  <2> QED BY <2>6, <2>7 DEF Ownership!Next, Ownership!Create
<1>3. ASSUME NEW i \in SessionIds, NEW k \in AcquireKeys, NEW w \in Invocations,
             AcquireAdmission(k, w, i)
      PROVE  Goal
  <2>1. CASE RenewAdmission(w, i)
    BY <1>1, <1>3, <2>1 DEF AcquireAdmission, RenewAdmission
  <2>2. CASE GrantAdmission(w, i)
    <3>1. /\ session[i].state \in UploadStates /\ ~admission[i].live
          /\ UNCHANGED <<session, completion>>
      BY <1>3, <2>2 DEF AcquireAdmission, GrantAdmission
    <3>2. admission'[i].live /\ \A j \in SessionIds \ {i} : admission'[j] = admission[j]
      BY <1>0, <2>2 DEF GrantAdmission, MultipartTypeOK
    <3>3. ~completion[i].live
      BY <1>0, <3>1 DEF OwnershipFollowsState, UploadStates
    <3>4. StageOf(session'[i].state) = "uploading" /\ OwnerOf(admission'[i].live, completion'[i].live) = "client"
      BY <3>1, <3>2, StageValues DEF OwnerOf
    <3>5. Ownership!Move(i, "uploading", "client")
      BY <3>1, <3>2, <3>4, OneMoves
    <3>6. Stages[i] = "uploading" /\ Owners[i] = "nobody"
      BY <1>0, <3>1, <3>3, Mapped
    <3> QED BY <3>5, <3>6 DEF Ownership!Next, Ownership!Admit
  <2> QED BY <1>3, <2>1, <2>2 DEF AcquireAdmission
<1>4. ASSUME NEW i \in SessionIds, ClaimCompletion(i) PROVE Goal
  <2>1. /\ session[i].state = "COMPLETING" /\ ~completion[i].live
        /\ UNCHANGED <<session, admission>>
    BY <1>4 DEF ClaimCompletion
  <2>2. completion'[i].live /\ \A j \in SessionIds \ {i} : completion'[j] = completion[j]
    BY <1>0, <1>4 DEF ClaimCompletion, MultipartTypeOK
  <2>3. ~admission[i].live
    BY <1>0, <2>1 DEF OwnershipFollowsState, UploadStates
  <2>4. StageOf(session'[i].state) = "completing" /\ OwnerOf(admission'[i].live, completion'[i].live) = "runner"
    BY <2>1, <2>2, <2>3, StageValues DEF OwnerOf
  <2>5. Ownership!Move(i, "completing", "runner")
    BY <2>1, <2>2, <2>4, OneMoves
  <2>6. Stages[i] = "completing" /\ Owners[i] = "nobody"
    BY <1>0, <2>1, <2>3, Mapped
  <2> QED BY <2>5, <2>6 DEF Ownership!Next, Ownership!Claim
<1>5. ASSUME NEW i \in SessionIds,
             \/ AdmissionExpires(i)
             \/ CompletionExpires(i)
             \/ \E e \in AdmissionEpochs : ReleaseAdmission(i, e)
      PROVE  Goal
  <2>1. /\ UNCHANGED session
        /\ \/ admission[i].live /\ admission' = Lapsed(admission, i) /\ UNCHANGED completion
           \/ completion[i].live /\ completion' = Lapsed(completion, i) /\ UNCHANGED admission
    BY <1>5 DEF AdmissionExpires, CompletionExpires, ReleaseAdmission, Admitted
  <2>2. \A j \in SessionIds \ {i} : admission'[j] = admission[j] /\ completion'[j] = completion[j]
    BY <1>0, <2>1 DEF Lapsed, MultipartTypeOK
  <2>3. ~admission'[i].live /\ ~completion'[i].live
    <3>1. ~(admission[i].live /\ completion[i].live)
      BY <1>0 DEF OwnershipFollowsState, UploadStates
    <3>2. CASE admission[i].live /\ admission' = Lapsed(admission, i) /\ UNCHANGED completion
      BY <1>0, <3>1, <3>2 DEF Lapsed, MultipartTypeOK
    <3>3. CASE completion[i].live /\ completion' = Lapsed(completion, i) /\ UNCHANGED admission
      BY <1>0, <3>1, <3>3 DEF Lapsed, MultipartTypeOK
    <3> QED BY <2>1, <3>2, <3>3
  <2>4. PICK st : st = Stages[i]
    OBVIOUS
  <2>5. StageOf(session'[i].state) = st /\ OwnerOf(admission'[i].live, completion'[i].live) = "nobody"
    BY <2>1, <2>3, <2>4 DEF Stages, OwnerOf
  <2>6. Ownership!Move(i, st, "nobody")
    BY <2>1, <2>2, <2>5, OneMoves
  <2>7. Ownership!Lapse(i)
    BY <2>4, <2>6 DEF Ownership!Lapse
  <2> QED BY <2>7 DEF Ownership!Next
<1>6. ASSUME NEW i \in SessionIds, NEW e, BeginProviderInitiation(i, e) \/ RecordProviderUpload(i, e)
      PROVE  Goal
  <2>1. UNCHANGED <<admission, completion>>
    BY <1>6 DEF BeginProviderInitiation, RecordProviderUpload
  <2>2. session[i].state \in UploadStates /\ session'[i].state \in UploadStates
    BY <1>0, <1>6 DEF BeginProviderInitiation, RecordProviderUpload, MultipartTypeOK, UploadStates
  <2>3. \A j \in SessionIds \ {i} : session'[j] = session[j]
    BY <1>0, <1>6 DEF BeginProviderInitiation, RecordProviderUpload, MultipartTypeOK
  <2>4. StageOf(session'[i].state) = StageOf(session[i].state)
    BY <2>2, StageValues
  <2>5. \A j \in SessionIds : StageOf(session'[j].state) = StageOf(session[j].state)
    BY <2>3, <2>4
  <2> QED BY <2>1, <2>5, NobodyMoves
<1>7. ASSUME NEW i \in SessionIds, NEW e,
             MarkInitiationAmbiguous(i, e) \/ \E k \in AcceptKeys : AcceptCompletion(k, i, e)
      PROVE  Goal
  <2>1. /\ admission[i].live /\ admission' = Lapsed(admission, i) /\ UNCHANGED completion
        /\ session[i].state \in UploadStates
    BY <1>7 DEF MarkInitiationAmbiguous, AcceptCompletion, Admitted, UploadStates
  <2>2. PICK st \in {"completing", "dead"} : StageOf(session'[i].state) = st
    <3>1. \/ session' = [session EXCEPT ![i].state = "FAILED"]
          \/ session' = [session EXCEPT ![i] = [@ EXCEPT !.state = "COMPLETING",
                                              !.reason = "PARTS_READY", !.phase = "PENDING"]]
      BY <1>7 DEF MarkInitiationAmbiguous, AcceptCompletion
    <3>2. session'[i].state \in {"COMPLETING", "FAILED"}
      <4>1. session \in [SessionIds -> SessionRows]
        BY <1>0 DEF MultipartTypeOK, SessionRows
      <4>2. CASE session' = [session EXCEPT ![i].state = "FAILED"]
        BY <4>1, <4>2 DEF SessionRows
      <4>3. CASE session' = [session EXCEPT ![i] = [@ EXCEPT !.state = "COMPLETING",
                                              !.reason = "PARTS_READY", !.phase = "PENDING"]]
        BY <4>1, <4>3 DEF SessionRows
      <4> QED BY <3>1, <4>2, <4>3
    <3> QED BY <3>2, StageValues
  <2>3. \A j \in SessionIds \ {i} : session'[j] = session[j]
    BY <1>0, <1>7 DEF MarkInitiationAmbiguous, AcceptCompletion, MultipartTypeOK
  <2>4. ~admission'[i].live /\ \A j \in SessionIds \ {i} : admission'[j] = admission[j]
    BY <1>0, <2>1 DEF Lapsed, MultipartTypeOK
  <2>5. ~completion[i].live
    BY <1>0, <2>1 DEF OwnershipFollowsState, UploadStates
  <2>6. OwnerOf(admission'[i].live, completion'[i].live) = "nobody"
    BY <2>1, <2>4, <2>5 DEF OwnerOf
  <2>7. Ownership!Move(i, st, "nobody")
    BY <2>1, <2>2, <2>3, <2>4, <2>6, OneMoves
  <2>8. Stages[i] = "uploading" /\ Owners[i] = "client"
    BY <1>0, <2>1, Mapped
  <2>9. Ownership!HandOver(i)
    BY <2>7, <2>8 DEF Ownership!HandOver
  <2> QED BY <2>9 DEF Ownership!Next
<1>8. ASSUME NEW i \in SessionIds, NEW e,
             \/ RecoverInvalidated(i, e)
             \/ RecordVerifiedCompletion(i, e)
             \/ \E obs \in [Parts -> Observations] : RecoverPartial(i, e, obs)
      PROVE  Goal
  <2>1. /\ completion[i].live /\ completion' = Lapsed(completion, i) /\ UNCHANGED admission
        /\ session[i].state = "COMPLETING"
    BY <1>8 DEF RecoverInvalidated, RecordVerifiedCompletion, RecoverPartial, Claimed
  <2>2. PICK st \in {"uploading", "published", "dead"} : StageOf(session'[i].state) = st
    <3>1. \/ \E x \in {"FAILED", "COMPLETED"} : session' = [session EXCEPT ![i].state = x]
          \/ session' = [session EXCEPT ![i] = [@ EXCEPT !.state = "IN_PROGRESS",
                                              !.reason = None, !.phase = None]]
      BY <1>8 DEF RecoverInvalidated, RecordVerifiedCompletion, RecoverPartial
    <3>2. session'[i].state \in {"FAILED", "COMPLETED", "IN_PROGRESS"}
      <4>1. session \in [SessionIds -> SessionRows]
        BY <1>0 DEF MultipartTypeOK, SessionRows
      <4>2. CASE \E x \in {"FAILED", "COMPLETED"} : session' = [session EXCEPT ![i].state = x]
        BY <4>1, <4>2 DEF SessionRows
      <4>3. CASE session' = [session EXCEPT ![i] = [@ EXCEPT !.state = "IN_PROGRESS",
                                              !.reason = None, !.phase = None]]
        BY <4>1, <4>3 DEF SessionRows
      <4> QED BY <3>1, <4>2, <4>3
    <3> QED BY <3>2, StageValues DEF UploadStates
  <2>3. \A j \in SessionIds \ {i} : session'[j] = session[j]
    BY <1>0, <1>8 DEF RecoverInvalidated, RecordVerifiedCompletion, RecoverPartial, MultipartTypeOK
  <2>4. ~completion'[i].live /\ \A j \in SessionIds \ {i} : completion'[j] = completion[j]
    BY <1>0, <2>1 DEF Lapsed, MultipartTypeOK
  <2>5. ~admission[i].live
    BY <1>0, <2>1 DEF OwnershipFollowsState, UploadStates
  <2>6. OwnerOf(admission'[i].live, completion'[i].live) = "nobody"
    BY <2>1, <2>4, <2>5 DEF OwnerOf
  <2>7. Ownership!Move(i, st, "nobody")
    BY <2>1, <2>2, <2>3, <2>4, <2>6, OneMoves
  <2>8. Stages[i] = "completing" /\ Owners[i] = "runner"
    BY <1>0, <2>1, <2>5, Mapped
  <2>9. Ownership!HandOver(i)
    BY <2>7, <2>8 DEF Ownership!HandOver
  <2> QED BY <2>9 DEF Ownership!Next
<1>9. ASSUME NEW i \in SessionIds, NEW e, \E q \in Phases : SetCompletionPhase(i, e, q)
      PROVE  Goal
  <2>1. UNCHANGED <<admission, completion>>
    BY <1>9 DEF SetCompletionPhase
  <2>2. \A j \in SessionIds : session'[j].state = session[j].state
    BY <1>0, <1>9 DEF SetCompletionPhase, MultipartTypeOK
  <2> QED BY <2>1, <2>2, NobodyMoves
<1> HIDE DEF Goal
<1> QED
  <2>1. Goal
    BY <1>1, <1>2, <1>3, <1>4, <1>5, <1>6, <1>7, <1>8, <1>9
       DEF MultipartNext, CreateOrResolve, UploadStep, RunnerStep, ReplayResolve, JoinGeneration,
           ReplayAcquire, ReplayAccept, RecordUploadedPart, ReconcileParts, RecoverReady, mpVars
  <2> QED BY <2>1 DEF Goal

\* The multipart transactions implement exclusive ownership: nobody works on a
\* session but the holder of its slot, and every hand-over leaves it to nobody.
THEOREM TransactionsImplementOwnership == MultipartSpec => ImplementsOwnership
<1>1. Init => Ownership!Init
  <2> SUFFICES ASSUME Init PROVE Ownership!Init
    OBVIOUS
  <2>1. \A i \in SessionIds : StageOf(session[i].state) = "none" /\ OwnerOf(admission[i].live, completion[i].live) = "nobody"
    BY StageValues, OwnerValues DEF Init, NoSession, NoAdmission, NoCompletion
  <2> QED BY <2>1 DEF Ownership!Init, Stages, Owners
<1>2. MpInv /\ MpInv' /\ [MultipartNext]_mpVars => [Ownership!Next]_(Ownership!vars)
  <2>1. ASSUME UNCHANGED mpVars PROVE UNCHANGED <<Stages, Owners>>
    BY <2>1 DEF mpVars, Stages, Owners
  <2> QED BY <2>1, OwnershipNext DEF Ownership!vars
<1> QED
  BY <1>1, <1>2, MultipartInvariant, PTL DEF MultipartSpec, ImplementsOwnership, Ownership!Spec
=============================================================================
