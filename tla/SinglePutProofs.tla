--------------------------- MODULE SinglePutProofs ---------------------------
(***************************************************************************)
(* Proofs about SinglePut, for any pushers, versions that share any blobs, *)
(* and any number of faults and poisoned objects: its service only takes   *)
(* steps of the registry, so the theorems of RegistryProofs hold of it;    *)
(* what is AVAILABLE is stored; what pushes believe is true; it implements *)
(* Publication.                                                            *)
(***************************************************************************)
EXTENDS SinglePut, RegistryProofs

-----------------------------------------------------------------------------
(***************************************************************************)
(* The invariant.                                                          *)
(***************************************************************************)

Contexts ==
    [blob : Blobs \cup {None}, id : SessionIds, sState : SessionStates,
     bState : BlobStates, info : ObjectStates]

\* The values of the service's and the clients' variables.
PutType ==
    /\ object \in [Blobs -> ObjectStates]
    /\ pc \in [Pushers -> Locations]
    /\ resolved \in [Pushers -> SUBSET Blobs]
    /\ ctx \in [Pushers -> Contexts]
    /\ late \subseteq Blobs

\* Where a handler works on the session it has in its context.
Handling == {"head", "restart", "begin", "url", "start", "put", "complete", "verify"}

\* What a handler's context says: the session is one of the blob, the key of the
\* request is bound, and bytes once seen good are good.
ContextHolds(p) ==
    LET b == ctx[p].blob IN
    /\ b \in BlobsOf(Job[p])
    /\ session[ctx[p].id].blob = b
    /\ Replays(<<Job[p], b>>, Job[p], b)
    /\ ctx[p].info = "good" => object[b] = "good"

\* What holds of a push wherever it is.
PushHolds(p) ==
    /\ pc[p] \in Handling => ContextHolds(p)
    /\ pc[p] \notin {"idle", "error", "register"} => vState[Job[p]] # "ABSENT"
    /\ pc[p] \notin {"idle", "error"} => \A b \in resolved[p] : bState[b] = "AVAILABLE"
    /\ pc[p] = "done" => vState[Job[p]] = "READY"

\* A FAILED version is blocked by a FAILED blob: no push repairs one.
FailedAreBlocked ==
    \A v \in Versions : vState[v] = "FAILED" => \E b \in BlobsOf(v) : bState[b] = "FAILED"

PutInv ==
    /\ RegInv /\ VersionsAgreeWithSessions
    /\ PutType
    /\ AvailableMeansStored
    /\ FailedAreBlocked
    /\ \A p \in Pushers : PushHolds(p)

-----------------------------------------------------------------------------
(***************************************************************************)
(* Steps of the registry.                                                  *)
(***************************************************************************)

\* A push's keys, blobs and versions are those of the registry.
LEMMA JobParts ==
    ASSUME NEW p \in Pushers
    PROVE  /\ Job[p] \in Versions /\ Job[p] \in VersionKeys
           /\ Job[p][1] \in Datasets /\ Job[p][1] \in DatasetKeys
           /\ BlobsOf(Job[p]) \subseteq Blobs
           /\ \A b \in Blobs : <<Job[p], b>> \in UploadKeys
<1>1. Job[p] \in Versions
  BY JobAssumption
<1>2. Job[p][1] \in Datasets /\ Job[p][2] \in Manifests
  BY <1>1 DEF Versions
<1>3. BlobsOf(Job[p]) \subseteq Blobs
  BY <1>2, ContentAssumption DEF BlobsOf
<1> QED
  BY <1>1, <1>2, <1>3, PushKeysAssumption DEF Requests

\* restart_failed_upload is only asked to replay: it changes nothing.
LEMMA RestartReplays ==
    ASSUME PutInv, NEW p \in Pushers, RestartFailed(p)
    PROVE  UNCHANGED regVars
<1>1. Replays(<<Job[p], ctx[p].blob>>, Job[p], ctx[p].blob)
  BY DEF PutInv, PushHolds, ContextHolds, RestartFailed, Handling
<1> QED
  BY <1>1 DEF RestartFailed, RestartFailedUpload, Replays, regVars, identityVars

\* The transactions a push makes.
LEMMA PushTransactions ==
    ASSUME PutInv, NEW p \in Pushers, PushStep(p) \/ Fault(p)
    PROVE  \/ UNCHANGED regVars
           \/ CreateDataset(Job[p][1], Job[p][1])
           \/ RegisterVersion(Job[p], Job[p])
           \/ \E b \in Blobs : PrepareUpload(<<Job[p], b>>, Job[p], b)
           \/ MarkUploadInProgress(ctx[p].id) \/ MarkUploadFailed(ctx[p].id)
           \/ Attest(p) /\ MarkUploadVerified(ctx[p].id)
           \/ Finalize(p) /\ FinalizeVersion(Job[p])
<1>1. CASE PushStep(p)
  BY <1>1, RestartReplays
     DEF PushStep, Begin, Register, Prepare, HeadAfterPrepare, BeginReconciliation, IssueUrl,
         StartUpload, Put, HeadAfterPut, Attest, RecordVerified, ReportMismatch, ReadVanished,
         Finalize, Raise
<1>2. CASE Fault(p)
  BY <1>2 DEF Fault, PutConflict, PutUnanswered, Interrupt
<1> QED
  BY <1>1, <1>2

\* Every step is a transaction of the registry or leaves it alone.
LEMMA StepsAreTransactions == PutInv /\ [Next]_vars => [RegistryNext]_regVars
<1> SUFFICES ASSUME PutInv, [Next]_vars PROVE [RegistryNext]_regVars
  OBVIOUS
<1>1. CASE UNCHANGED vars
  BY <1>1 DEF vars
<1>2. ASSUME NEW b \in Blobs, LatePut(b) \/ Poison(b) \/ OperatorRemoves(b)
      PROVE  UNCHANGED regVars
  BY <1>2 DEF LatePut, Poison, OperatorRemoves
<1>3. ASSUME NEW p \in Pushers, PushStep(p) \/ Fault(p)
      PROVE  [RegistryNext]_regVars
  <2>1. ctx[p].id \in SessionIds
    BY DEF PutInv, PutType, Contexts
  <2> QED
    BY <1>3, <2>1, JobParts, PushTransactions DEF RegistryNext
<1> QED
  BY <1>1, <1>2, <1>3 DEF Next

\* What no step undoes.
Permanent ==
    /\ \A b \in Blobs : bState[b] \in {"AVAILABLE", "FAILED"} => bState'[b] = bState[b]
    /\ \A b \in Blobs : object[b] = "good" => object'[b] = "good"
    /\ \A v \in Versions : vState[v] # "ABSENT" => vState'[v] # "ABSENT"
    /\ \A v \in Versions : vState[v] = "READY" => vState'[v] = "READY"
    /\ \A i \in SessionIds : session[i].blob \in Blobs => session'[i].blob = session[i].blob
    /\ \A k \in UploadKeys : upKey[k] # None => upKey'[k] = upKey[k]

\* What a step may bring about: nothing becomes READY, AVAILABLE or FAILED.
NothingDecided ==
    /\ \A b \in Blobs : bState'[b] \in {"AVAILABLE", "FAILED"} => bState'[b] = bState[b]
    /\ \A v \in Versions : vState'[v] \in {"READY", "FAILED"} => vState'[v] = vState[v]

\* The two blob states of interest and READY, under each transaction.
LEMMA TransactionEffects ==
    ASSUME TypeOK, SessionTable, RegistryNext
    PROVE  /\ \A i \in SessionIds : session[i].blob \in Blobs => session'[i].blob = session[i].blob
           /\ \A v \in Versions : vState[v] # "ABSENT" => vState'[v] # "ABSENT"
<1>1. ASSUME NEW i \in SessionIds, session[i].blob \in Blobs
      PROVE  session'[i].blob = session[i].blob
  <2>1. session[i] # NoSession
    BY <1>1, NoneAssumption DEF NoSession
  <2>2. i # nextId
    <3>1. CASE i = nextId
      BY <2>1, <3>1, MaxSessionsAssumption DEF SessionTable, SessionIds
    <3> QED
      BY <3>1
  <2> QED
    BY <2>2, SessionsStay
<1> QED
  BY <1>1, VersionsStay

\* Keys are bound once.
LEMMA KeysStayBound ==
    ASSUME TypeOK, NEW k \in UploadKeys, NEW v \in Versions, NEW b \in Blobs,
           PrepareUpload(k, v, b)
    PROVE  \A j \in UploadKeys : upKey[j] # None => upKey'[j] = upKey[j]
<1>1. UNCHANGED upKey \/ (upKey[k] = None /\ \E i : Bind(k, v, b, i))
  BY DEF PrepareUpload, ReuseAvailable, ReplayUpload, JoinActive, OpenFirst, FallBackOnLatest
<1> QED
  BY <1>1 DEF Bind, TypeOK

\* create_dataset, register_version and prepare_upload decide nothing.
LEMMA PreparingDecidesNothing ==
    ASSUME PutInv, NEW p \in Pushers,
           \/ CreateDataset(Job[p][1], Job[p][1])
           \/ RegisterVersion(Job[p], Job[p])
           \/ \E b \in Blobs : PrepareUpload(<<Job[p], b>>, Job[p], b)
    PROVE  /\ NothingDecided
           /\ \A b \in Blobs : bState[b] \in {"AVAILABLE", "FAILED"} => bState'[b] = bState[b]
           /\ \A v \in Versions : vState[v] = "READY" => vState'[v] = "READY"
           /\ \A k \in UploadKeys : upKey[k] # None => upKey'[k] = upKey[k]
<1>0. TypeOK
  BY DEF PutInv, RegInv
<1>1. CASE CreateDataset(Job[p][1], Job[p][1])
  BY <1>1 DEF CreateDataset, NothingDecided
<1>2. CASE RegisterVersion(Job[p], Job[p])
  BY <1>0, <1>2, JobParts DEF RegisterVersion, SealVersion, TypeOK, NothingDecided
<1>3. ASSUME NEW b \in Blobs, PrepareUpload(<<Job[p], b>>, Job[p], b)
      PROVE  /\ UNCHANGED <<vState, bState>>
             /\ \A k \in UploadKeys : upKey[k] # None => upKey'[k] = upKey[k]
  BY <1>0, <1>3, JobParts, KeysStayBound DEF PrepareUpload
<1> QED
  BY <1>1, <1>2, <1>3 DEF NothingDecided

\* mark_upload_in_progress decides nothing either.
LEMMA StartingDecidesNothing ==
    ASSUME TypeOK, NEW i \in SessionIds, MarkUploadInProgress(i)
    PROVE  /\ NothingDecided
           /\ \A b \in Blobs : bState[b] \in {"AVAILABLE", "FAILED"} => bState'[b] = bState[b]
           /\ \A v \in Versions : vState[v] = "READY" => vState'[v] = "READY"
           /\ UNCHANGED upKey
BY DEF MarkUploadInProgress, TypeOK, NothingDecided

\* mark_upload_verified makes its session's blob AVAILABLE.
LEMMA VerifyingEffect ==
    ASSUME TypeOK, SessionTable, NewestAttemptDecides, NEW i \in SessionIds, MarkUploadVerified(i)
    PROVE  LET c == session[i].blob IN
           /\ c \in Blobs /\ bState'[c] = "AVAILABLE" /\ bState[c] # "FAILED"
           /\ \A b \in Blobs \ {c} : bState'[b] = bState[b]
           /\ UNCHANGED <<vState, upKey>>
<1> DEFINE c == session[i].blob
<1>1. c \in Blobs /\ i \in SessionsOf(c)
  BY DEF MarkUploadVerified, SessionTable, NoSession, SessionsOf
<1>2. CASE session[i].state = "IN_PROGRESS"
  BY <1>1, <1>2 DEF MarkUploadVerified, TypeOK
<1>3. CASE session[i].state = "COMPLETED"
  <2>1. <<session[i].state, bState[c]>> \in AttemptExplains
    BY <1>1, <1>3 DEF NewestAttemptDecides
  <2>2. bState[c] = "AVAILABLE"
    BY <1>3, <2>1 DEF AttemptExplains
  <2> QED
    BY <1>1, <1>3, <2>2 DEF MarkUploadVerified
<1> QED
  BY <1>2, <1>3 DEF MarkUploadVerified

\* mark_upload_failed makes its session's blob FAILED with the version.
LEMMA FailingEffect ==
    ASSUME TypeOK, SessionTable, NEW i \in SessionIds, MarkUploadFailed(i)
    PROVE  /\ UNCHANGED upKey
           /\ \A b \in Blobs : bState'[b] = "AVAILABLE" <=> bState[b] = "AVAILABLE"
           /\ \A b \in Blobs : bState[b] = "FAILED" => bState'[b] = "FAILED"
           /\ \A v \in Versions : vState'[v] = "READY" <=> vState[v] = "READY"
           /\ \A v \in Versions : vState'[v] = "FAILED" =>
                \/ vState[v] = "FAILED"
                \/ v = session[i].version /\ session[i].state # "ABSENT"
                   /\ session[i].blob \in Blobs /\ bState'[session[i].blob] = "FAILED"
<1>1. session[i].blob \in Blobs
  BY DEF MarkUploadFailed, SessionTable, NoSession
<1> QED
  BY <1>1 DEF MarkUploadFailed, TypeOK

\* What happens to the objects in a step of a push.
LEMMA PushObjects ==
    ASSUME NEW p \in Pushers, PushStep(p) \/ Fault(p)
    PROVE  \/ UNCHANGED object
           \/ pc[p] = "put" /\ object' = Stored(ctx[p].blob) /\ UNCHANGED regVars
BY DEF PushStep, Fault, Begin, Register, Prepare, HeadAfterPrepare, RestartFailed,
       BeginReconciliation, IssueUrl, StartUpload, Put, HeadAfterPut, Attest, RecordVerified,
       ReportMismatch, ReadVanished, Finalize, Raise, PutConflict, PutUnanswered, Interrupt

\* Good bytes are never overwritten or removed.
LEMMA GoodBytesStay ==
    ASSUME PutType, Next, NEW b \in Blobs, object[b] = "good"
    PROVE  object'[b] = "good"
<1>1. ASSUME NEW c, object' = Stored(c) PROVE object'[b] = "good"
  BY <1>1 DEF Stored, PutType
<1>2. ASSUME NEW p \in Pushers, PushStep(p) \/ Fault(p) PROVE object'[b] = "good"
  BY <1>1, <1>2, PushObjects
<1>3. ASSUME NEW c \in Blobs, LatePut(c) \/ Poison(c) \/ OperatorRemoves(c)
      PROVE  object'[b] = "good"
  BY <1>1, <1>3 DEF LatePut, Poison, OperatorRemoves, PutType
<1> QED
  BY <1>2, <1>3 DEF Next

\* Nothing below is ever undone.
LEMMA StepsArePermanent == PutInv /\ Next => Permanent
<1> SUFFICES ASSUME PutInv, Next PROVE Permanent
  OBVIOUS
<1>0. TypeOK /\ SessionTable /\ NewestAttemptDecides /\ PutType
  BY DEF PutInv, RegInv
<1>1. \A b \in Blobs : object[b] = "good" => object'[b] = "good"
  BY <1>0, GoodBytesStay
<1>2. [RegistryNext]_regVars
  BY StepsAreTransactions
<1>3. /\ \A i \in SessionIds : session[i].blob \in Blobs => session'[i].blob = session[i].blob
      /\ \A v \in Versions : vState[v] # "ABSENT" => vState'[v] # "ABSENT"
  BY <1>0, <1>2, TransactionEffects DEF regVars
<1>4. CASE UNCHANGED regVars
  BY <1>1, <1>3, <1>4 DEF Permanent, regVars
<1>5. ASSUME NEW p \in Pushers, PushStep(p) \/ Fault(p) PROVE Permanent
  <2>0. ctx[p].id \in SessionIds
    BY <1>0 DEF PutType, Contexts
  <2>1. CASE \/ CreateDataset(Job[p][1], Job[p][1])
             \/ RegisterVersion(Job[p], Job[p])
             \/ \E b \in Blobs : PrepareUpload(<<Job[p], b>>, Job[p], b)
    BY <1>1, <1>3, <2>1, PreparingDecidesNothing DEF Permanent
  <2>2. CASE MarkUploadInProgress(ctx[p].id)
    BY <1>0, <1>1, <1>3, <2>0, <2>2, StartingDecidesNothing DEF Permanent
  <2>3. CASE MarkUploadVerified(ctx[p].id)
    BY <1>0, <1>1, <1>3, <2>0, <2>3, VerifyingEffect DEF Permanent
  <2>4. CASE MarkUploadFailed(ctx[p].id)
    BY <1>0, <1>1, <1>3, <2>0, <2>4, FailingEffect DEF Permanent
  <2>5. CASE FinalizeVersion(Job[p])
    BY <1>0, <1>1, <1>3, <2>5, JobParts DEF FinalizeVersion, Permanent, TypeOK
  <2> QED
    BY <1>4, <1>5, <2>1, <2>2, <2>3, <2>4, <2>5, PushTransactions
<1>6. ASSUME NEW b \in Blobs, LatePut(b) \/ Poison(b) \/ OperatorRemoves(b)
      PROVE  UNCHANGED regVars
  BY <1>6 DEF LatePut, Poison, OperatorRemoves
<1> QED
  BY <1>4, <1>5, <1>6 DEF Next

\* A handler attests only bytes that are good: seen good, or read again now.
LEMMA AttestedIsStored ==
    ASSUME PutInv, NEW p \in Pushers, Attest(p)
    PROVE  /\ ctx[p].id \in SessionIds /\ ctx[p].blob \in Blobs
           /\ session[ctx[p].id].blob = ctx[p].blob
           /\ object[ctx[p].blob] = "good"
<1>1. ContextHolds(p) /\ ctx[p].id \in SessionIds
  BY DEF PutInv, PushHolds, Attest, Handling, PutType, Contexts
<1> QED
  BY <1>1, JobParts DEF ContextHolds, Attest, Verdicts

\* AVAILABLE is stored after every step.
LEMMA StoredStep == PutInv /\ Next => AvailableMeansStored'
<1> SUFFICES ASSUME PutInv, Next, NEW b \in Blobs, bState'[b] = "AVAILABLE"
             PROVE  object'[b] = "good"
  BY DEF AvailableMeansStored
<1>0. TypeOK /\ SessionTable /\ NewestAttemptDecides /\ PutType /\ AvailableMeansStored
  BY DEF PutInv, RegInv
<1>1. CASE bState[b] = "AVAILABLE"
  BY <1>0, <1>1, GoodBytesStay DEF AvailableMeansStored
<1>2. CASE bState[b] # "AVAILABLE"
  <2>1. PICK p \in Pushers : PushStep(p) \/ Fault(p)
    BY <1>2 DEF Next, LatePut, Poison, OperatorRemoves, regVars
  <2>2. ctx[p].id \in SessionIds
    BY <1>0 DEF PutType, Contexts
  <2>3. Attest(p) /\ MarkUploadVerified(ctx[p].id)
    <3>1. ~ UNCHANGED bState
      BY <1>2
    <3>2. ~ NothingDecided
      BY <1>2 DEF NothingDecided
    <3>3. ~ MarkUploadFailed(ctx[p].id)
      BY <1>0, <1>2, <2>2, FailingEffect
    <3> QED
      BY <1>0, <2>1, <2>2, <3>1, <3>2, <3>3, PushTransactions, PreparingDecidesNothing,
         StartingDecidesNothing DEF regVars, FinalizeVersion
  <2>4. b = session[ctx[p].id].blob
    BY <1>0, <1>2, <2>2, <2>3, VerifyingEffect
  <2> QED
    BY <1>0, <2>3, <2>4, AttestedIsStored, GoodBytesStay
<1> QED
  BY <1>1, <1>2

\* A version that fails is blocked by a blob that stays FAILED.
LEMMA BlockedStep == PutInv /\ Next => FailedAreBlocked'
<1> SUFFICES ASSUME PutInv, Next, NEW v \in Versions, vState'[v] = "FAILED"
             PROVE  \E b \in BlobsOf(v) : bState'[b] = "FAILED"
  BY DEF FailedAreBlocked, BlobsOf
<1>0. TypeOK /\ SessionTable /\ PutType /\ FailedAreBlocked /\ BlobsOf(v) \subseteq Blobs
  BY ContentAssumption DEF PutInv, RegInv, BlobsOf, Versions
<1>1. CASE vState[v] = "FAILED"
  BY <1>0, <1>1, StepsArePermanent DEF FailedAreBlocked, Permanent
<1>2. CASE vState[v] # "FAILED"
  <2>1. PICK p \in Pushers : PushStep(p) \/ Fault(p)
    BY <1>2 DEF Next, LatePut, Poison, OperatorRemoves, regVars
  <2>2. ctx[p].id \in SessionIds
    BY <1>0 DEF PutType, Contexts
  <2>3. MarkUploadFailed(ctx[p].id)
    <3>1. ~ UNCHANGED vState /\ ~ NothingDecided
      BY <1>2 DEF NothingDecided
    <3>2. ~ MarkUploadVerified(ctx[p].id)
      BY <3>1 DEF MarkUploadVerified
    <3>3. ~ FinalizeVersion(Job[p])
      BY <1>0, <1>2 DEF FinalizeVersion, TypeOK
    <3> QED
      BY <1>0, <2>1, <2>2, <3>1, <3>2, <3>3, PushTransactions, PreparingDecidesNothing,
         StartingDecidesNothing DEF regVars
  <2>4. LET i == ctx[p].id IN
        /\ v = session[i].version /\ session[i].state # "ABSENT"
        /\ session[i].blob \in Blobs /\ bState'[session[i].blob] = "FAILED"
    BY <1>0, <1>2, <2>2, <2>3, FailingEffect
  <2> QED
    BY <2>2, <2>4 DEF PutInv, VersionsAgreeWithSessions, Referenced
<1> QED
  BY <1>1, <1>2
-----------------------------------------------------------------------------
(***************************************************************************)
(* Typing.                                                                 *)
(***************************************************************************)

\* The values of push variables in the first state.
LEMMA PutTypeInit == PutInit => PutType
<1> SUFFICES ASSUME PutInit PROVE PutType
  OBVIOUS
<1>1. NoContext \in Contexts
  BY MaxSessionsAssumption DEF NoContext, Contexts, SessionIds, SessionStates, BlobStates, ObjectStates
<1> QED
  BY <1>1 DEF PutInit, PutType, ObjectStates, Locations

\* The object store keeps its type.
LEMMA ObjectType == PutType /\ Next => object' \in [Blobs -> ObjectStates]
<1> SUFFICES ASSUME PutType, Next PROVE object' \in [Blobs -> ObjectStates]
  OBVIOUS
<1>1. ASSUME NEW c, object' = Stored(c) PROVE object' \in [Blobs -> ObjectStates]
  BY <1>1 DEF Stored, PutType, ObjectStates
<1>2. ASSUME NEW p \in Pushers, PushStep(p) \/ Fault(p) PROVE object' \in [Blobs -> ObjectStates]
  BY <1>1, <1>2, PushObjects DEF PutType
<1>3. ASSUME NEW c \in Blobs, LatePut(c) \/ Poison(c) \/ OperatorRemoves(c)
      PROVE  object' \in [Blobs -> ObjectStates]
  BY <1>1, <1>3 DEF LatePut, Poison, OperatorRemoves, PutType, ObjectStates
<1> QED
  BY <1>2, <1>3 DEF Next

\* A handler that raises, and one that goes on.
LEMMA FailType ==
    ASSUME PutType, NEW p \in Pushers, Fail(p)
    PROVE  /\ pc' \in [Pushers -> Locations] /\ resolved' \in [Pushers -> SUBSET Blobs]
           /\ ctx' \in [Pushers -> Contexts]
<1>1. NoContext \in Contexts
  BY MaxSessionsAssumption DEF NoContext, Contexts, SessionIds, SessionStates, BlobStates, ObjectStates
<1> QED
  BY <1>1 DEF Fail, Goto, Forget, PutType, Locations

\* What prepare_upload hands to a handler.
LEMMA PreparedContext ==
    ASSUME TypeOK, TypeOK', NEW p \in Pushers, NEW b \in Blobs, Prepare(p, b),
           bState[b] # "AVAILABLE"
    PROVE  LET k == <<Job[p], b>> IN
           /\ k \in UploadKeys /\ upKey'[k] # None /\ upKey'[k].request = <<Job[p], b>>
           /\ upKey'[k].session \in SessionIds
<1> DEFINE k == <<Job[p], b>>
<1>1. k \in UploadKeys
  BY JobParts
<1>2. \/ upKey' = upKey /\ Replays(k, Job[p], b)
      \/ \E i \in SessionIds : Bind(k, Job[p], b, i)
  <2>1. CASE JoinActive(k, Job[p], b)
    BY <2>1 DEF JoinActive, ActiveOf, SessionsOf
  <2>2. CASE OpenFirst(k, Job[p], b)
    BY <2>2, JobParts, OpenSessionType DEF OpenFirst
  <2>3. CASE FallBackOnLatest(k, Job[p], b)
    BY <2>3, LatestOfType DEF FallBackOnLatest, SessionsOf
  <2> QED
    BY <2>1, <2>2, <2>3 DEF Prepare, PrepareUpload, ReuseAvailable, ReplayUpload
<1>3. upKey'[k] \in [request : Requests, session : SessionIds] \cup {None}
  BY <1>1 DEF TypeOK
<1>4. upKey'[k] # None /\ upKey'[k].request = <<Job[p], b>>
  <2>1. CASE upKey' = upKey /\ Replays(k, Job[p], b)
    BY <2>1 DEF Replays
  <2>2. ASSUME NEW i \in SessionIds, Bind(k, Job[p], b, i)
        PROVE  upKey'[k] # None /\ upKey'[k].request = <<Job[p], b>>
    <3>1. upKey'[k] = [request |-> <<Job[p], b>>, session |-> i]
      BY <1>1, <2>2 DEF Bind, TypeOK
    <3>2. <<Job[p], b>> \in (Datasets \X Manifests) \X Blobs
      BY JobParts DEF Versions
    <3> QED
      BY <3>1, <3>2, NoneAssumption DEF SessionIds
  <2> QED
    BY <1>2, <2>1, <2>2
<1> QED
  BY <1>1, <1>3, <1>4

\* Every step of a push, with its faults, keeps the types.
LEMMA PutTypeStep == PutInv /\ TypeOK' /\ Next => PutType'
<1> SUFFICES ASSUME PutInv, TypeOK', Next PROVE PutType'
  OBVIOUS
<1>0. TypeOK /\ PutType
  BY DEF PutInv, RegInv
<1>1. object' \in [Blobs -> ObjectStates]
  BY <1>0, ObjectType
<1> DEFINE Typed == /\ pc' \in [Pushers -> Locations] /\ resolved' \in [Pushers -> SUBSET Blobs]
                    /\ ctx' \in [Pushers -> Contexts] /\ late' \subseteq Blobs
<1>2. ASSUME NEW b \in Blobs, LatePut(b) \/ Poison(b) \/ OperatorRemoves(b) PROVE Typed
  BY <1>0, <1>2 DEF LatePut, Poison, OperatorRemoves, PutType
<1>3. ASSUME NEW p \in Pushers, NEW l \in Locations, Goto(p, l)
      PROVE  pc' \in [Pushers -> Locations]
  BY <1>0, <1>3 DEF Goto, PutType
<1>4. ASSUME NEW p \in Pushers, NEW b \in Blobs \cup {None},
             resolved' = [resolved EXCEPT ![p] = @ \cup {b}], b # None
      PROVE  resolved' \in [Pushers -> SUBSET Blobs]
  BY <1>0, <1>4 DEF PutType
<1>5. ASSUME NEW p \in Pushers, Raise(p) PROVE Typed
  BY <1>0, <1>5, FailType DEF Raise, PutType
<1>6. ASSUME NEW p \in Pushers, Begin(p) \/ Register(p) \/ Finalize(p) PROVE Typed
  BY <1>0, <1>6 DEF Begin, Register, Finalize, Goto, PutType, Locations
<1>7. ASSUME NEW p \in Pushers, NEW b \in Blobs, Prepare(p, b) PROVE Typed
  <2>1. CASE bState[b] = "AVAILABLE"
    BY <1>0, <1>7, <2>1 DEF Prepare, PutType
  <2>2. CASE bState[b] # "AVAILABLE"
    <3> DEFINE i == upKey'[<<Job[p], b>>].session
               c == [blob |-> b, id |-> i, sState |-> session'[i].state,
                     bState |-> bState[b], info |-> "absent"]
    <3>1. i \in SessionIds
      BY <1>0, <1>7, <2>2, PreparedContext
    <3>2. session'[i].state \in SessionStates /\ bState[b] \in BlobStates
      BY <1>0, <3>1 DEF TypeOK
    <3>3. ctx' = [ctx EXCEPT ![p] = c] /\ pc' = [pc EXCEPT ![p] = "head"]
          /\ UNCHANGED <<resolved, late>>
      BY <1>7, <2>2 DEF Prepare, Goto
    <3> HIDE DEF i
    <3>4. c \in Contexts
      BY <3>1, <3>2 DEF Contexts, ObjectStates
    <3> HIDE DEF c
    <3> QED
      BY <1>0, <3>3, <3>4 DEF PutType, Locations
  <2> QED
    BY <2>1, <2>2
<1>8. ASSUME NEW p \in Pushers, HeadAfterPrepare(p) \/ HeadAfterPut(p) PROVE Typed
  <2>1. ContextHolds(p)
    BY <1>8 DEF HeadAfterPrepare, HeadAfterPut, PutInv, PushHolds, Handling
  <2>2. object[ctx[p].blob] \in ObjectStates
    BY <1>0, <2>1, JobParts DEF ContextHolds, PutType
  <2>3. ASSUME ctx' = [ctx EXCEPT ![p].info = object[ctx[p].blob]]
        PROVE  ctx' \in [Pushers -> Contexts]
    BY <1>0, <2>2, <2>3 DEF PutType, Contexts
  <2> QED
    BY <1>0, <1>5, <1>8, <2>3 DEF HeadAfterPrepare, HeadAfterPut, Goto, PutType, Locations
<1>9. ASSUME NEW p \in Pushers, RestartFailed(p) PROVE Typed
  <2>1. ContextHolds(p) /\ UNCHANGED regVars
    BY <1>9, RestartReplays DEF RestartFailed, PutInv, PushHolds, Handling
  <2>2. upKey'[<<Job[p], ctx[p].blob>>].session \in SessionIds
    BY <1>0, <2>1, JobParts DEF ContextHolds, Replays, TypeOK, regVars
  <2>3. ctx' = [ctx EXCEPT ![p].id = upKey'[<<Job[p], ctx[p].blob>>].session]
    BY <1>9 DEF RestartFailed
  <2>4. ctx' \in [Pushers -> Contexts]
    BY <1>0, <2>2, <2>3 DEF PutType, Contexts
  <2> QED
    BY <1>0, <1>9, <2>4 DEF RestartFailed, Goto, PutType, Locations
<1>10. ASSUME NEW p \in Pushers, BeginReconciliation(p) \/ StartUpload(p) PROVE Typed
  BY <1>0, <1>5, <1>10 DEF BeginReconciliation, StartUpload, Goto, PutType, Locations
<1>11. ASSUME NEW p \in Pushers, IssueUrl(p) \/ Put(p) \/ PutConflict(p) PROVE Typed
  BY <1>0, <1>11 DEF IssueUrl, Put, PutConflict, Goto, PutType, Locations
<1>12. ASSUME NEW p \in Pushers, Attest(p) PROVE Typed
  <2>1. ctx[p].blob \in Blobs
    BY <1>12, AttestedIsStored
  <2>2. NoContext \in Contexts
    BY MaxSessionsAssumption
       DEF NoContext, Contexts, SessionIds, SessionStates, BlobStates, ObjectStates
  <2> QED
    BY <1>0, <1>5, <1>12, <2>1, <2>2, FailType
       DEF Attest, RecordVerified, TakeAnswer, Goto, Forget, PutType, Locations
<1>13. ASSUME NEW p \in Pushers, ReportMismatch(p) \/ ReadVanished(p) PROVE Typed
  BY <1>0, <1>5, <1>13, FailType DEF ReportMismatch, ReadVanished, PutType
<1>14. ASSUME NEW p \in Pushers, PutUnanswered(p) \/ Interrupt(p) PROVE Typed
  <2>1. CASE Interrupt(p)
    BY <1>0, <2>1, FailType DEF Interrupt, PutType
  <2>2. CASE PutUnanswered(p)
    <3>1. ctx[p].blob \in Blobs
      BY <2>2, JobParts DEF PutUnanswered, PutInv, PushHolds, ContextHolds, Handling
    <3> QED
      BY <1>0, <2>2, <3>1, FailType DEF PutUnanswered, PutType
  <2> QED
    BY <1>14, <2>1, <2>2
<1> QED
  BY <1>1, <1>2, <1>6, <1>7, <1>8, <1>9, <1>10, <1>11, <1>12, <1>13, <1>14
     DEF Next, PushStep, Fault, PutType
-----------------------------------------------------------------------------
(***************************************************************************)
(* What holds of a push.                                                   *)
(***************************************************************************)

\* A push that others pass by keeps what holds of it, and so does one whose
\* handler goes on with the same session after at most another HEAD.
LEMMA HandlerGoesOn ==
    ASSUME PutInv, Permanent, NEW p \in Pushers, ContextHolds(p),
           ctx'[p].blob = ctx[p].blob, ctx'[p].id = ctx[p].id,
           ctx'[p].info = ctx[p].info \/ ctx'[p].info = object[ctx[p].blob]
    PROVE  ContextHolds(p)'
<1> DEFINE b == ctx[p].blob
<1>1. b \in Blobs /\ ctx[p].id \in SessionIds /\ <<Job[p], b>> \in UploadKeys
  BY JobParts DEF ContextHolds, PutInv, PutType, Contexts
<1>2. session'[ctx[p].id].blob = b
  BY <1>1 DEF ContextHolds, Permanent
<1>3. upKey'[<<Job[p], b>>] = upKey[<<Job[p], b>>]
  BY <1>1 DEF ContextHolds, Replays, Permanent
<1>4. ctx'[p].info = "good" => object'[b] = "good"
  BY <1>1 DEF ContextHolds, Permanent
<1> QED
  BY <1>2, <1>3, <1>4 DEF ContextHolds, Replays, BlobsOf

\* Any push, with the others' steps.
LEMMA BystandersStay ==
    ASSUME PutInv, Permanent, NEW p \in Pushers,
           pc'[p] = pc[p], ctx'[p] = ctx[p], resolved'[p] = resolved[p]
    PROVE  PushHolds(p)'
<1>1. PushHolds(p) /\ Job[p] \in Versions /\ resolved[p] \subseteq Blobs
  BY JobParts DEF PutInv, PutType
<1>2. pc[p] \in Handling => ContextHolds(p)'
  BY <1>1, HandlerGoesOn DEF PushHolds
<1> QED
  BY <1>1, <1>2 DEF PushHolds, Permanent

\* A push that ends with an error.
LEMMA FailedHolds ==
    ASSUME PutType, NEW p \in Pushers, Fail(p)
    PROVE  PushHolds(p)'
<1>1. pc'[p] = "error"
  BY DEF Fail, Goto, PutType
<1> QED
  BY <1>1 DEF PushHolds, Handling

\* A handler that moves on.
LEMMA HandlerMoves ==
    ASSUME PutInv, Permanent, NEW p \in Pushers,
           pc[p] \in Handling, pc'[p] \in Handling, resolved'[p] = resolved[p],
           ContextHolds(p)'
    PROVE  PushHolds(p)'
<1>1. PushHolds(p) /\ Job[p] \in Versions /\ resolved[p] \subseteq Blobs
  BY JobParts DEF PutInv, PutType
<1> QED
  BY <1>1 DEF PushHolds, Permanent, Handling

\* Each step of a push leaves it where what must hold holds.
LEMMA ActorHolds ==
    ASSUME PutInv, RegInv', Permanent, NEW p \in Pushers, PushStep(p) \/ Fault(p)
    PROVE  PushHolds(p)'
<1>0. /\ PutType /\ PushHolds(p) /\ Job[p] \in Versions /\ resolved[p] \subseteq Blobs
      /\ ctx[p] \in Contexts /\ ctx[p].id \in SessionIds
      /\ TypeOK /\ SessionTable /\ NewestAttemptDecides /\ KeysAnswerTheirBlob
      /\ TypeOK' /\ KeysAnswerTheirBlob'
  BY JobParts DEF PutInv, PutType, RegInv, Contexts
<1>1. CASE Fail(p)
  BY <1>0, <1>1, FailedHolds
<1>2. CASE Begin(p)
  <2>1. pc'[p] = "register" /\ resolved'[p] = {}
    BY <1>0, <1>2 DEF Begin, Goto, PutType
  <2> QED
    BY <2>1 DEF PushHolds, Handling
<1>3. CASE Register(p)
  <2>1. /\ pc[p] = "register" /\ resolved'[p] = resolved[p]
        /\ pc'[p] = IF vState[Job[p]] = "READY" THEN "done" ELSE "prepare"
        /\ vState'[Job[p]] # "ABSENT"
    BY <1>0, <1>3 DEF Register, RegisterVersion, SealVersion, Goto, PutType, TypeOK
  <2> QED
    BY <1>0, <2>1 DEF PushHolds, Handling, Permanent
<1>4. ASSUME NEW b \in Blobs, Prepare(p, b) PROVE PushHolds(p)'
  <2>1. pc[p] = "prepare" /\ vState[Job[p]] # "ABSENT" /\ b \in BlobsOf(Job[p])
    BY <1>0, <1>4 DEF Prepare, PushHolds
  <2>2. CASE bState[b] = "AVAILABLE"
    <3>1. pc'[p] = "prepare" /\ resolved'[p] = resolved[p] \cup {b}
      BY <1>0, <1>4, <2>1, <2>2 DEF Prepare, PutType
    <3> QED
      BY <1>0, <2>1, <2>2, <3>1 DEF PushHolds, Handling, Permanent
  <2>3. CASE bState[b] # "AVAILABLE"
    <3> DEFINE k == <<Job[p], b>>
    <3>1. /\ k \in UploadKeys /\ upKey'[k] # None /\ upKey'[k].request = <<Job[p], b>>
          /\ upKey'[k].session \in SessionIds
      BY <1>0, <1>4, <2>3, PreparedContext
    <3>2. /\ pc'[p] = "head" /\ resolved'[p] = resolved[p]
          /\ ctx'[p].blob = b /\ ctx'[p].id = upKey'[k].session /\ ctx'[p].info = "absent"
      BY <1>0, <1>4, <2>3 DEF Prepare, Goto, PutType
    <3>3. session'[upKey'[k].session].blob = b
      BY <1>0, <3>1 DEF KeysAnswerTheirBlob
    <3>4. ContextHolds(p)'
      BY <2>1, <3>1, <3>2, <3>3 DEF ContextHolds, Replays, BlobsOf
    <3> QED
      BY <1>0, <2>1, <3>2, <3>4 DEF PushHolds, Permanent
  <2> QED
    BY <2>2, <2>3
<1>5. CASE HeadAfterPrepare(p) \/ (HeadAfterPut(p) /\ ~Raise(p))
  <2>1. /\ pc[p] \in Handling /\ pc'[p] \in Handling /\ resolved'[p] = resolved[p]
        /\ ctx'[p].blob = ctx[p].blob /\ ctx'[p].id = ctx[p].id
        /\ ctx'[p].info = object[ctx[p].blob]
    BY <1>0, <1>5 DEF HeadAfterPrepare, HeadAfterPut, Goto, PutType, Handling, Contexts
  <2> QED
    BY <1>0, <2>1, HandlerGoesOn, HandlerMoves DEF PushHolds
<1>6. CASE RestartFailed(p)
  <2>1. /\ pc[p] = "restart" /\ pc'[p] = "url" /\ resolved'[p] = resolved[p]
        /\ ctx'[p].blob = ctx[p].blob /\ ctx'[p].info = ctx[p].info
        /\ ctx'[p].id = upKey'[<<Job[p], ctx[p].blob>>].session
    BY <1>0, <1>6 DEF RestartFailed, Goto, PutType, Contexts
  <2>2. ContextHolds(p) /\ UNCHANGED regVars /\ UNCHANGED object
    BY <1>0, <1>6, <2>1, RestartReplays DEF PushHolds, Handling, RestartFailed
  <2>3. session[upKey[<<Job[p], ctx[p].blob>>].session].blob = ctx[p].blob
    BY <1>0, <2>2, JobParts DEF ContextHolds, Replays, KeysAnswerTheirBlob
  <2>4. ContextHolds(p)'
    BY <2>1, <2>2, <2>3 DEF ContextHolds, Replays, BlobsOf, regVars
  <2> QED
    BY <2>1, <2>4, HandlerMoves DEF Handling
<1>7. CASE \/ (BeginReconciliation(p) \/ StartUpload(p)) /\ ~Raise(p)
           \/ IssueUrl(p) \/ Put(p) \/ PutConflict(p)
  <2>1. /\ pc[p] \in Handling /\ pc'[p] \in Handling
        /\ resolved'[p] = resolved[p] /\ ctx'[p] = ctx[p]
    BY <1>0, <1>7
       DEF BeginReconciliation, StartUpload, IssueUrl, Put, PutConflict, Goto, PutType, Handling
  <2> QED
    BY <1>0, <2>1, HandlerGoesOn, HandlerMoves DEF PushHolds
<1>8. CASE Attest(p) /\ ~Fail(p)
  <2>1. /\ pc[p] = "verify" /\ pc'[p] = "prepare" /\ MarkUploadVerified(ctx[p].id)
        /\ resolved'[p] = resolved[p] \cup {ctx[p].blob}
    BY <1>0, <1>8 DEF Attest, RecordVerified, TakeAnswer, Raise, Goto, PutType
  <2>2. bState'[ctx[p].blob] = "AVAILABLE"
    BY <1>0, <1>8, <2>1, AttestedIsStored, VerifyingEffect
  <2> QED
    BY <1>0, <2>1, <2>2 DEF PushHolds, Handling, Permanent
<1>9. CASE Finalize(p)
  <2>1. /\ pc[p] = "prepare" /\ pc'[p] = "done" /\ resolved'[p] = resolved[p]
        /\ vState'[Job[p]] = "READY"
    BY <1>0, <1>9 DEF Finalize, FinalizeVersion, Goto, PutType, TypeOK
  <2> QED
    BY <1>0, <2>1 DEF PushHolds, Handling, Permanent
<1> QED
  BY <1>1, <1>2, <1>3, <1>4, <1>5, <1>6, <1>7, <1>8, <1>9
     DEF PushStep, Fault, Raise, BeginReconciliation, StartUpload, HeadAfterPut, Attest,
         ReportMismatch, ReadVanished, PutUnanswered, Interrupt

\* A push moves itself only.
LEMMA OthersAreUntouched ==
    ASSUME PutType, NEW p \in Pushers, NEW q \in Pushers \ {p}, PushStep(q) \/ Fault(q)
    PROVE  pc'[p] = pc[p] /\ ctx'[p] = ctx[p] /\ resolved'[p] = resolved[p]
<1>1. ASSUME NEW l, Goto(q, l) PROVE pc'[p] = pc[p]
  BY <1>1 DEF Goto, PutType
<1>2. CASE Fail(q)
  BY <1>2 DEF Fail, Goto, Forget, PutType
<1>3. CASE UNCHANGED <<resolved, ctx>> /\ \E l : Goto(q, l)
  BY <1>1, <1>3
<1>4. CASE Begin(q)
  BY <1>1, <1>4 DEF Begin, PutType
<1>5. ASSUME NEW b \in Blobs, Prepare(q, b)
      PROVE  pc'[p] = pc[p] /\ ctx'[p] = ctx[p] /\ resolved'[p] = resolved[p]
  BY <1>1, <1>5 DEF Prepare, PutType
<1>6. CASE HeadAfterPrepare(q) \/ HeadAfterPut(q) \/ RestartFailed(q)
  BY <1>1, <1>2, <1>6 DEF HeadAfterPrepare, HeadAfterPut, RestartFailed, Raise, PutType
<1>7. CASE Attest(q)
  BY <1>1, <1>2, <1>7 DEF Attest, RecordVerified, TakeAnswer, Forget, Raise, PutType
<1>8. CASE \/ BeginReconciliation(q) \/ StartUpload(q) \/ IssueUrl(q) \/ Put(q)
           \/ PutConflict(q) \/ Finalize(q) \/ Register(q)
  BY <1>1, <1>2, <1>8
     DEF BeginReconciliation, StartUpload, IssueUrl, Put, PutConflict, Finalize, Register, Raise
<1>9. CASE ReportMismatch(q) \/ ReadVanished(q) \/ PutUnanswered(q) \/ Interrupt(q)
  BY <1>2, <1>9 DEF ReportMismatch, ReadVanished, PutUnanswered, Interrupt, Raise
<1> QED
  BY <1>4, <1>5, <1>6, <1>7, <1>8, <1>9 DEF PushStep, Fault

-----------------------------------------------------------------------------
(***************************************************************************)
(* The theorems.                                                           *)
(***************************************************************************)

\* The invariant holds before the first push.
LEMMA PutInvInit == PutInit => PutInv
<1> SUFFICES ASSUME PutInit PROVE PutInv
  OBVIOUS
<1>1. RegInv
  BY RegInvInit DEF PutInit
<1>2. VersionsAgreeWithSessions
  BY DEF PutInit, Init, VersionsAgreeWithSessions, NoSession
<1>3. PutType
  BY PutTypeInit
<1>4. AvailableMeansStored /\ FailedAreBlocked
  BY DEF PutInit, Init, AvailableMeansStored, FailedAreBlocked
<1>5. \A p \in Pushers : PushHolds(p)
  BY DEF PutInit, PushHolds, Handling
<1> QED
  BY <1>1, <1>2, <1>3, <1>4, <1>5 DEF PutInv

\* Every step keeps it.
LEMMA PutInvStep == PutInv /\ [Next]_vars => PutInv'
<1> SUFFICES ASSUME PutInv, [Next]_vars PROVE PutInv'
  OBVIOUS
<1>1. CASE UNCHANGED vars
  <2>1. RegInv' /\ VersionsAgreeWithSessions'
    BY <1>1, RegInvStep, AgreementStep DEF PutInv, vars
  <2>2. PutType' /\ AvailableMeansStored' /\ FailedAreBlocked'
    BY <1>1 DEF vars, pushVars, regVars, PutInv, PutType, AvailableMeansStored, FailedAreBlocked,
                BlobsOf
  <2>3. ASSUME NEW p \in Pushers PROVE PushHolds(p)'
    <3>1. PushHolds(p)
      BY DEF PutInv
    <3> QED
      BY <1>1, <3>1 DEF vars, pushVars, regVars, PushHolds, ContextHolds, Replays, BlobsOf
  <2> QED
    BY <2>1, <2>2, <2>3 DEF PutInv
<1>2. CASE Next
  <2>1. RegInv' /\ VersionsAgreeWithSessions'
    BY StepsAreTransactions, RegInvStep, AgreementStep DEF PutInv
  <2>2. PutType'
    BY <1>2, <2>1, PutTypeStep DEF RegInv
  <2>3. Permanent
    BY <1>2, StepsArePermanent
  <2>4. ASSUME NEW p \in Pushers PROVE PushHolds(p)'
    <3>1. CASE PushStep(p) \/ Fault(p)
      BY <2>1, <2>3, <3>1, ActorHolds
    <3>2. ASSUME NEW q \in Pushers \ {p}, PushStep(q) \/ Fault(q) PROVE PushHolds(p)'
      BY <2>3, <3>2, OthersAreUntouched, BystandersStay DEF PutInv
    <3>3. ASSUME NEW b \in Blobs, LatePut(b) \/ Poison(b) \/ OperatorRemoves(b)
          PROVE  PushHolds(p)'
      BY <2>3, <3>3, BystandersStay DEF LatePut, Poison, OperatorRemoves
    <3> QED
      BY <1>2, <3>1, <3>2, <3>3 DEF Next
  <2> QED
    BY <1>2, <2>1, <2>2, <2>4, StoredStep, BlockedStep DEF PutInv
<1> QED
  BY <1>1, <1>2

\* What holds of service, clients and store at every moment.
THEOREM PutInvariant == Spec => []PutInv
BY PutInvInit, PutInvStep, PTL DEF Spec

\* The service takes the registry's steps only: every theorem of Registry holds
\* of pushes.
THEOREM PushesImplementRegistry == Spec => RegistrySpec
<1>1. PutInit => Init
  BY DEF PutInit
<1> QED
  BY <1>1, StepsAreTransactions, PutInvariant, PTL DEF Spec, RegistrySpec

\* complete_upload and prepare_upload attest stored bytes only, however old the
\* HEAD is when mark_upload_verified commits.
THEOREM AvailableBlobsAreStored == Spec => []AvailableMeansStored
BY PutInvariant, PTL DEF PutInv

\* A handler never marks the session of another blob than the one it looked at.
THEOREM ContextsStayCoherent == Spec => []ContextsAreCoherent
<1>1. PutInv => ContextsAreCoherent
  BY DEF PutInv, PushHolds, ContextHolds, Handling, ContextsAreCoherent
<1> QED
  BY <1>1, PutInvariant, PTL

\* The service refuses neither the restart nor the finalize of a push, and a
\* push that ended well has published.
THEOREM PushBeliefsAreTrue == Spec => []PushBeliefsHold
<1>1. PutInv => PushBeliefsHold
  <2> SUFFICES ASSUME PutInv, NEW p \in Pushers
               PROVE  /\ pc[p] \notin {"idle", "error"} =>
                           \A b \in resolved[p] : bState[b] = "AVAILABLE"
                      /\ pc[p] = "prepare" /\ resolved[p] = BlobsOf(Job[p]) => CanFinalize(Job[p])
                      /\ pc[p] = "restart" =>
                           CanRestart(<<Job[p], ctx[p].blob>>, Job[p], ctx[p].blob)
                      /\ pc[p] = "done" => vState[Job[p]] = "READY"
    BY DEF PushBeliefsHold
  <2>1. PushHolds(p) /\ Job[p] \in Versions /\ TypeOK /\ FailedAreBlocked
    BY JobParts DEF PutInv, RegInv
  <2>2. ASSUME pc[p] = "prepare", resolved[p] = BlobsOf(Job[p]) PROVE CanFinalize(Job[p])
    <3>1. vState[Job[p]] # "ABSENT" /\ \A b \in BlobsOf(Job[p]) : bState[b] = "AVAILABLE"
      BY <2>1, <2>2 DEF PushHolds
    <3>2. vState[Job[p]] # "FAILED"
      BY <2>1, <3>1 DEF FailedAreBlocked
    <3>3. vState[Job[p]] \in VersionStates
      BY <2>1 DEF TypeOK
    <3> QED
      BY <3>1, <3>2, <3>3 DEF CanFinalize, VersionStates
  <2>3. ASSUME pc[p] = "restart"
        PROVE  CanRestart(<<Job[p], ctx[p].blob>>, Job[p], ctx[p].blob)
    BY <2>1, <2>3 DEF PushHolds, ContextHolds, Handling, CanRestart, Referenced
  <2> QED
    BY <2>1, <2>2, <2>3 DEF PushHolds
<1> QED
  BY <1>1, PutInvariant, PTL

-----------------------------------------------------------------------------
(***************************************************************************)
(* The refinement of Publication.                                          *)
(***************************************************************************)

\* What is stored, attested and published.
StoredBlobs == {b \in Blobs : object[b] = "good"}
AttestedBlobs == {b \in Blobs : bState[b] = "AVAILABLE"}
PublishedVersions == {v \in Versions : vState[v] = "READY"}

\* A step of a service that decides nothing is no step of Publication.
LEMMA DecidesNothing ==
    ASSUME PutInv, Permanent, UNCHANGED object, NothingDecided
    PROVE  UNCHANGED <<StoredBlobs, AttestedBlobs, PublishedVersions>>
BY DEF NothingDecided, Permanent, StoredBlobs, AttestedBlobs, PublishedVersions

\* Every step of the service is one of Publication, or none.
LEMMA PublicationStep == PutInv /\ [Next]_vars => [Abstract!Next]_(Abstract!vars)
<1> SUFFICES ASSUME PutInv, [Next]_vars
             PROVE  Abstract!Next \/ UNCHANGED <<StoredBlobs, AttestedBlobs, PublishedVersions>>
  BY DEF Abstract!vars, StoredBlobs, AttestedBlobs, PublishedVersions
<1>0. /\ TypeOK /\ SessionTable /\ NewestAttemptDecides /\ ReadyIsComplete
      /\ PutType /\ AvailableMeansStored
  BY DEF PutInv, RegInv
<1>1. CASE UNCHANGED vars
  BY <1>1 DEF vars, regVars, pushVars, StoredBlobs, AttestedBlobs, PublishedVersions
<1>2. ASSUME Next, NEW c \in Blobs, object' = Stored(c), UNCHANGED regVars
      PROVE  Abstract!Next \/ UNCHANGED <<StoredBlobs, AttestedBlobs, PublishedVersions>>
  <2>1. UNCHANGED <<AttestedBlobs, PublishedVersions>>
    BY <1>2 DEF regVars, AttestedBlobs, PublishedVersions
  <2>2. CASE object[c] = "absent"
    <3>1. StoredBlobs' = StoredBlobs \cup {c}
      BY <1>0, <1>2, <2>2 DEF Stored, PutType, StoredBlobs
    <3>2. Abstract!Store(c)
      BY <2>1, <3>1 DEF Abstract!Store, StoredBlobs, AttestedBlobs, PublishedVersions
    <3> QED
      BY <3>2 DEF Abstract!Next
  <2>3. CASE object[c] # "absent"
    BY <1>0, <1>2, <2>1, <2>3 DEF Stored, PutType, StoredBlobs
  <2> QED
    BY <2>2, <2>3
<1>3. ASSUME Next, NEW c \in Blobs, LatePut(c) \/ Poison(c) \/ OperatorRemoves(c)
      PROVE  Abstract!Next \/ UNCHANGED <<StoredBlobs, AttestedBlobs, PublishedVersions>>
  <2>1. CASE LatePut(c)
    BY <1>2, <1>3, <2>1 DEF LatePut
  <2>2. CASE Poison(c) \/ OperatorRemoves(c)
    BY <1>0, <2>2 DEF Poison, OperatorRemoves, PutType, regVars, StoredBlobs, AttestedBlobs,
                      PublishedVersions
  <2> QED
    BY <1>3, <2>1, <2>2
<1>4. ASSUME Next, NEW p \in Pushers, PushStep(p) \/ Fault(p)
      PROVE  Abstract!Next \/ UNCHANGED <<StoredBlobs, AttestedBlobs, PublishedVersions>>
  <2>0. ctx[p].id \in SessionIds /\ Job[p] \in Versions /\ Permanent
    BY <1>0, <1>4, JobParts, StepsArePermanent DEF PutType, Contexts
  <2>1. CASE pc[p] = "put" /\ object' = Stored(ctx[p].blob) /\ UNCHANGED regVars
    <3>1. ctx[p].blob \in Blobs
      BY <2>1, JobParts DEF PutInv, PushHolds, ContextHolds, Handling
    <3> QED
      BY <1>2, <1>4, <2>1, <3>1
  <2>2. CASE UNCHANGED object
    <3>1. CASE UNCHANGED regVars
      BY <2>2, <3>1 DEF regVars, StoredBlobs, AttestedBlobs, PublishedVersions
    <3>2. CASE NothingDecided
      BY <2>0, <2>2, <3>2, DecidesNothing
    <3>3. CASE MarkUploadFailed(ctx[p].id)
      BY <1>0, <2>0, <2>2, <3>3, FailingEffect
         DEF StoredBlobs, AttestedBlobs, PublishedVersions
    <3>4. CASE Attest(p) /\ MarkUploadVerified(ctx[p].id)
      <4>1. PICK c \in Blobs : object[c] = "good" /\ session[ctx[p].id].blob = c
        BY <3>4, AttestedIsStored
      <4>2. /\ bState'[c] = "AVAILABLE" /\ UNCHANGED vState
            /\ \A b \in Blobs \ {c} : bState'[b] = bState[b]
        BY <1>0, <2>0, <3>4, <4>1, VerifyingEffect
      <4>3. /\ AttestedBlobs' = AttestedBlobs \cup {c}
            /\ UNCHANGED <<StoredBlobs, PublishedVersions>>
        BY <2>2, <4>1, <4>2 DEF AttestedBlobs, StoredBlobs, PublishedVersions
      <4>4. Abstract!Attest(c)
        BY <4>1, <4>3 DEF Abstract!Attest, StoredBlobs, AttestedBlobs, PublishedVersions
      <4> QED
        BY <4>4 DEF Abstract!Next
    <3>5. CASE FinalizeVersion(Job[p])
      <4> DEFINE v == Job[p]
      <4>1. \A b \in BlobsOf(v) : bState[b] = "AVAILABLE"
        BY <1>0, <2>0, <3>5 DEF FinalizeVersion, CanFinalize, ReadyIsComplete
      <4>2. /\ PublishedVersions' = PublishedVersions \cup {v}
            /\ UNCHANGED <<StoredBlobs, AttestedBlobs>>
        BY <1>0, <2>0, <2>2, <3>5
           DEF FinalizeVersion, TypeOK, AttestedBlobs, StoredBlobs, PublishedVersions
      <4>3. BlobsOf(v) \subseteq AttestedBlobs
        BY <4>1, JobParts DEF AttestedBlobs
      <4>4. Abstract!Publish(v)
        BY <2>0, <4>2, <4>3 DEF Abstract!Publish, StoredBlobs, AttestedBlobs, PublishedVersions
      <4> QED
        BY <2>0, <4>4 DEF Abstract!Next
    <3> QED
      BY <1>0, <1>4, <2>0, <3>1, <3>2, <3>3, <3>4, <3>5, PushTransactions,
         PreparingDecidesNothing, StartingDecidesNothing
  <2> QED
    BY <1>4, <2>1, <2>2, PushObjects
<1> QED
  BY <1>1, <1>3, <1>4 DEF Next

\* The service over the registry implements Publication: bytes are stored, then
\* attested, then published, and nothing is withdrawn.
THEOREM PushesImplementPublication == Spec => ImplementsPublication
<1>1. PutInit => Abstract!Init
  BY DEF PutInit, Init, Abstract!Init
<1> QED
  BY <1>1, PublicationStep, PutInvariant, PTL DEF Spec, ImplementsPublication, Abstract!Spec

\* A READY version's content is stored under its digests: publication needs
\* every blob AVAILABLE, and an AVAILABLE blob has its bytes.
THEOREM PublishedVersionsAreStored == Spec => []Abstract!PublishedIsStored
<1>1. Abstract!Init => Abstract!PublishedIsStored
  BY DEF Abstract!Init, Abstract!PublishedIsStored
<1>2. Abstract!PublishedIsStored /\ [Abstract!Next]_(Abstract!vars) => Abstract!PublishedIsStored'
  <2> SUFFICES ASSUME Abstract!PublishedIsStored, [Abstract!Next]_(Abstract!vars)
               PROVE  Abstract!PublishedIsStored'
    OBVIOUS
  <2>0. /\ AttestedBlobs \subseteq StoredBlobs
        /\ \A v \in PublishedVersions : BlobsOf(v) \subseteq AttestedBlobs
    BY DEF Abstract!PublishedIsStored, StoredBlobs, AttestedBlobs, PublishedVersions
  <2> SUFFICES /\ AttestedBlobs' \subseteq StoredBlobs'
               /\ \A v \in PublishedVersions' : BlobsOf(v) \subseteq AttestedBlobs'
    BY DEF Abstract!PublishedIsStored, StoredBlobs, AttestedBlobs, PublishedVersions
  <2>1. CASE UNCHANGED <<StoredBlobs, AttestedBlobs, PublishedVersions>>
    BY <2>0, <2>1
  <2>2. ASSUME NEW b \in Blobs, Abstract!Store(b) \/ Abstract!Attest(b)
        PROVE  /\ AttestedBlobs' \subseteq StoredBlobs'
               /\ \A v \in PublishedVersions' : BlobsOf(v) \subseteq AttestedBlobs'
    <3>1. CASE Abstract!Store(b)
      <4>1. StoredBlobs' = StoredBlobs \cup {b} /\ UNCHANGED <<AttestedBlobs, PublishedVersions>>
        BY <3>1 DEF Abstract!Store, StoredBlobs, AttestedBlobs, PublishedVersions
      <4> QED BY <2>0, <4>1
    <3>2. CASE Abstract!Attest(b)
      <4>1. /\ b \in StoredBlobs /\ AttestedBlobs' = AttestedBlobs \cup {b}
            /\ UNCHANGED <<StoredBlobs, PublishedVersions>>
        BY <3>2 DEF Abstract!Attest, StoredBlobs, AttestedBlobs, PublishedVersions
      <4> QED BY <2>0, <4>1
    <3> QED BY <2>2, <3>1, <3>2
  <2>3. ASSUME NEW v \in Versions, Abstract!Publish(v)
        PROVE  /\ AttestedBlobs' \subseteq StoredBlobs'
               /\ \A w \in PublishedVersions' : BlobsOf(w) \subseteq AttestedBlobs'
    <3>1. /\ BlobsOf(v) \subseteq AttestedBlobs /\ PublishedVersions' = PublishedVersions \cup {v}
          /\ UNCHANGED <<StoredBlobs, AttestedBlobs>>
      BY <2>3 DEF Abstract!Publish, StoredBlobs, AttestedBlobs, PublishedVersions
    <3> QED BY <2>0, <3>1
  <2> QED BY <2>1, <2>2, <2>3 DEF Abstract!Next, Abstract!vars, StoredBlobs, AttestedBlobs,
                                  PublishedVersions
<1> QED BY <1>1, <1>2, PushesImplementPublication, PTL DEF ImplementsPublication, Abstract!Spec

\* No push, rerun, late PUT, foreign writer or operator takes back the bytes of
\* a digest, an attestation or a publication.
THEOREM NothingPublishedIsWithdrawn == Spec => Abstract!NothingIsWithdrawn
<1>1. [Abstract!Next]_(Abstract!vars) =>
        [/\ StoredBlobs \subseteq StoredBlobs' /\ AttestedBlobs \subseteq AttestedBlobs'
         /\ PublishedVersions \subseteq PublishedVersions']_(Abstract!vars)
  <2> SUFFICES ASSUME Abstract!Next
               PROVE  /\ StoredBlobs \subseteq StoredBlobs' /\ AttestedBlobs \subseteq AttestedBlobs'
                      /\ PublishedVersions \subseteq PublishedVersions'
    OBVIOUS
  <2>1. ASSUME NEW b \in Blobs, Abstract!Store(b) \/ Abstract!Attest(b)
        PROVE  /\ StoredBlobs \subseteq StoredBlobs' /\ AttestedBlobs \subseteq AttestedBlobs'
               /\ PublishedVersions \subseteq PublishedVersions'
    <3>1. /\ StoredBlobs' = StoredBlobs \cup {b} \/ StoredBlobs' = StoredBlobs
          /\ AttestedBlobs' = AttestedBlobs \cup {b} \/ AttestedBlobs' = AttestedBlobs
          /\ PublishedVersions' = PublishedVersions
      BY <2>1 DEF Abstract!Store, Abstract!Attest, StoredBlobs, AttestedBlobs, PublishedVersions
    <3> QED BY <3>1
  <2>2. ASSUME NEW v \in Versions, Abstract!Publish(v)
        PROVE  /\ StoredBlobs \subseteq StoredBlobs' /\ AttestedBlobs \subseteq AttestedBlobs'
               /\ PublishedVersions \subseteq PublishedVersions'
    <3>1. /\ PublishedVersions' = PublishedVersions \cup {v}
          /\ UNCHANGED <<StoredBlobs, AttestedBlobs>>
      BY <2>2 DEF Abstract!Publish, StoredBlobs, AttestedBlobs, PublishedVersions
    <3> QED BY <3>1
  <2> QED BY <2>1, <2>2 DEF Abstract!Next
<1> QED BY <1>1, PushesImplementPublication, PTL
        DEF ImplementsPublication, Abstract!Spec, Abstract!NothingIsWithdrawn, StoredBlobs,
            AttestedBlobs, PublishedVersions
=============================================================================
