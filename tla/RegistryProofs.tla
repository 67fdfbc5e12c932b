--------------------------- MODULE RegistryProofs ---------------------------
(***************************************************************************)
(* Proofs about Registry, for any datasets, manifests, keys and number of  *)
(* sessions.                                                               *)
(***************************************************************************)
EXTENDS Registry, WellFoundedInduction, TLAPS

-----------------------------------------------------------------------------
(***************************************************************************)
(* A non-empty set of session ids has a greatest element, the one Max      *)
(* picks.                                                                  *)
(***************************************************************************)

Less == {t \in Nat \X Nat : t[1] < t[2]}

\* The order of the natural numbers, as a set of pairs, is well founded.
LEMMA LessWellFounded == IsWellFoundedOn(Less, Nat)
<1>1. OpToRel(<, Nat) = Less
  BY Zenon DEF OpToRel, Less
<1>2. IsWellFoundedOn(OpToRel(<, Nat), Nat)
  BY Zenon, NatLessThanWellFounded
<1> QED
  BY Zenon, <1>1, <1>2

\* Max of a non-empty set of numbers bounded by n is its greatest element:
\* what LatestOf relies on when it orders a blob's sessions by creation.
LEMMA MaxOfBounded ==
    ASSUME NEW n \in Nat, NEW S, S \subseteq 1..n, S # {}
    PROVE  Max(S) \in S /\ \A x \in S : x <= Max(S)
<1> DEFINE T == {n - x : x \in S}
<1>1. T \subseteq Nat /\ T # {}
  <2>1. \A x \in S : x \in Nat /\ x <= n
    OBVIOUS
  <2>2. \A x \in S : n - x \in Nat
    BY <2>1
  <2>3. PICK x \in S : TRUE
    OBVIOUS
  <2>4. n - x \in T
    OBVIOUS
  <2> QED
    BY <2>2, <2>4
<1>2. PICK t \in T : \A u \in T : ~ (<<u, t>> \in Less)
  BY <1>1, LessWellFounded, WFMin
<1>3. \A u \in T : t <= u
  <2> SUFFICES ASSUME NEW u \in T PROVE t <= u
    OBVIOUS
  <2>1. t \in Nat /\ u \in Nat
    BY <1>1
  <2>2. ~ (<<u, t>> \in Less)
    BY <1>2
  <2> HIDE DEF T
  <2> QED
    BY <2>1, <2>2 DEF Less
<1>4. PICK x \in S : t = n - x
  OBVIOUS
<1>5. \A y \in S : x >= y
  <2> SUFFICES ASSUME NEW y \in S PROVE x >= y
    OBVIOUS
  <2>1. n - y \in T
    OBVIOUS
  <2> QED
    BY <1>3, <1>4, <2>1
<1> QED
  BY <1>5 DEF Max

-----------------------------------------------------------------------------
(***************************************************************************)
(* Type correctness.                                                       *)
(***************************************************************************)

\* Max of a non-empty set of numbers 1..n is n: how NextNumber finds the last
\* number of a dataset.
LEMMA MaxOfInterval ==
    ASSUME NEW n \in Nat, n # 0
    PROVE  Max(1..n) = n
BY DEF Max

\* The newest session of a blob that has one is a session of that blob, and no
\* session of the blob is newer.
LEMMA LatestOfType ==
    ASSUME NEW b \in Blobs, SessionsOf(b) # {}
    PROVE  LatestOf(b) \in SessionsOf(b) /\ \A i \in SessionsOf(b) : i <= LatestOf(b)
BY MaxOfBounded, MaxSessionsAssumption DEF LatestOf, SessionsOf, SessionIds

\* A version of the dataset part and the manifest part.
LEMMA VersionParts ==
    ASSUME NEW v \in Versions
    PROVE  v[1] \in Datasets /\ v[2] \in Manifests /\ BlobsOf(v) \subseteq Blobs
BY ContentAssumption DEF Versions, BlobsOf

\* The initial tables are well typed.
LEMMA InitTypeOK == Init => TypeOK
BY MaxSessionsAssumption DEF Init, TypeOK, NoSession, VersionStates, BlobStates, SessionStates, SessionIds

\* prepare_upload and restart_failed_upload keep the sessions well typed.
LEMMA OpenSessionType ==
    ASSUME TypeOK, NEW v \in Versions, NEW b \in Blobs, OpenSession(v, b)
    PROVE  /\ session' \in [SessionIds -> [state : SessionStates,
                                           blob : Blobs \cup {None},
                                           version : Versions \cup {None}]]
           /\ nextId' \in 1..(MaxSessions + 1)
           /\ nextId \in SessionIds
BY MaxSessionsAssumption DEF OpenSession, TypeOK, SessionStates, ActiveStates, SessionIds

\* Binding a key to a session keeps the idempotency records well typed.
LEMMA BindType ==
    ASSUME TypeOK, NEW k \in UploadKeys, NEW v \in Versions, NEW b \in Blobs,
           NEW i \in SessionIds, Bind(k, v, b, i)
    PROVE  upKey' \in [UploadKeys -> [request : Requests, session : SessionIds] \cup {None}]
BY DEF Bind, TypeOK, Requests

\* prepare_upload, in each of its five outcomes, keeps the tables well typed.
LEMMA PrepareType ==
    ASSUME TypeOK, NEW k \in UploadKeys, NEW v \in Versions, NEW b \in Blobs,
           PrepareUpload(k, v, b)
    PROVE  TypeOK'
<1>1. CASE ReuseAvailable(k, v, b)
  BY <1>1 DEF ReuseAvailable, PrepareUpload, TypeOK, identityVars
<1>2. CASE ReplayUpload(k, v, b)
  BY <1>2 DEF ReplayUpload, PrepareUpload, TypeOK, identityVars
<1>3. CASE JoinActive(k, v, b)
  BY <1>3, BindType DEF JoinActive, PrepareUpload, TypeOK, identityVars, ActiveOf, SessionsOf
<1>4. CASE OpenFirst(k, v, b)
  BY <1>4, OpenSessionType, BindType DEF OpenFirst, PrepareUpload, TypeOK, identityVars
<1>5. CASE FallBackOnLatest(k, v, b)
  <2>1. LatestOf(b) \in SessionIds
    BY <1>5, LatestOfType DEF FallBackOnLatest, SessionsOf
  <2> QED
    BY <1>5, <2>1, BindType DEF FallBackOnLatest, PrepareUpload, TypeOK, identityVars
<1> QED
  BY <1>1, <1>2, <1>3, <1>4, <1>5 DEF PrepareUpload

\* With dense numbers, the next number of a dataset is one more than the count
\* of its versions.
LEMMA NextNumberValue ==
    ASSUME TypeOK, NumbersAreDense, NEW d \in Datasets
    PROVE  \E n \in Nat : Numbers(d) = 1..n /\ NextNumber(d) = n + 1
<1>1. Numbers(d) \subseteq Nat
  BY DEF Numbers, Registered, TypeOK, Versions
<1>2. PICK n \in {0} \cup Numbers(d) : Numbers(d) = 1..n
  BY DEF NumbersAreDense
<1>3. n \in Nat
  BY <1>1, <1>2
<1>4. NextNumber(d) = n + 1
  <2>1. CASE n = 0
    BY <1>2, <2>1 DEF NextNumber
  <2>2. CASE n # 0
    BY <1>2, <1>3, <2>2, MaxOfInterval DEF NextNumber
  <2> QED
    BY <2>1, <2>2
<1> QED
  BY <1>2, <1>3, <1>4

\* A step that leaves version numbers and registrations alone keeps them dense.
LEMMA NumbersUntouched ==
    ASSUME NumbersAreDense, UNCHANGED vNumber,
           \A v \in Versions : vState'[v] = "ABSENT" <=> vState[v] = "ABSENT"
    PROVE  NumbersAreDense'
<1>1. \A d \in Datasets : Registered(d)' = Registered(d)
  BY DEF Registered, Versions
<1>2. \A d \in Datasets : Numbers(d)' = Numbers(d)
  BY <1>1 DEF Numbers
<1> QED
  BY <1>1, <1>2 DEF NumbersAreDense

\* register_version gives a new version the next number of its dataset.
LEMMA SealVersionNumbers ==
    ASSUME TypeOK, NumbersAreDense, NEW v \in Versions, SealVersion(v)
    PROVE  NumbersAreDense' /\ vNumber' \in [Versions -> Nat]
<1> DEFINE d == v[1]
<1>0. d \in Datasets /\ v \in {d} \X Manifests
  BY DEF Versions
<1>1. PICK n \in Nat : Numbers(d) = 1..n /\ NextNumber(d) = n + 1
  BY <1>0, NextNumberValue
<1>2. /\ vNumber' = [vNumber EXCEPT ![v] = n + 1]
      /\ vState' = [vState EXCEPT ![v] = "DRAFT"]
      /\ vState[v] = "ABSENT"
  BY <1>1 DEF SealVersion
<1>3. vNumber' \in [Versions -> Nat]
  BY <1>2 DEF TypeOK
<1>4. Registered(d)' = Registered(d) \cup {v} /\ v \notin Registered(d)
  BY <1>0, <1>2 DEF Registered, TypeOK, Versions
<1>5. \A w \in Registered(d) : vNumber'[w] = vNumber[w]
  BY <1>2, <1>4 DEF Registered, TypeOK, Versions
<1>6. vNumber'[v] = n + 1
  BY <1>2 DEF TypeOK
<1>7. Numbers(d)' = 1..(n + 1)
  <2>1. Numbers(d)' = {vNumber'[w] : w \in Registered(d) \cup {v}}
    BY <1>4 DEF Numbers
  <2>2. Numbers(d)' = Numbers(d) \cup {n + 1}
    BY <2>1, <1>5, <1>6 DEF Numbers
  <2> QED
    BY <2>2, <1>1
<1>8. \A w \in Registered(d) : vNumber[w] \in 1..n
  BY <1>1 DEF Numbers
<1>9. \A x, w \in Registered(d)' : vNumber'[x] = vNumber'[w] => x = w
  <2> SUFFICES ASSUME NEW x \in Registered(d) \cup {v}, NEW w \in Registered(d) \cup {v},
                      vNumber'[x] = vNumber'[w]
               PROVE  x = w
    BY <1>4
  <2> QED
    BY <1>0, <1>5, <1>6, <1>8 DEF NumbersAreDense
<1>10. ASSUME NEW e \in Datasets, e # d
       PROVE  Registered(e)' = Registered(e) /\ \A w \in Registered(e) : vNumber'[w] = vNumber[w]
  BY <1>0, <1>2, <1>10 DEF Registered, TypeOK, Versions
<1>11. ASSUME NEW e \in Datasets, e # d
       PROVE  Numbers(e)' = Numbers(e)
  BY <1>10, <1>11 DEF Numbers
<1> QED
  <2> SUFFICES ASSUME NEW e \in Datasets
               PROVE  /\ \E m \in {0} \cup Numbers(e)' : Numbers(e)' = 1..m
                      /\ \A x, w \in Registered(e)' : vNumber'[x] = vNumber'[w] => x = w
    BY <1>3 DEF NumbersAreDense
  <2>1. CASE e = d
    BY <1>7, <1>9, <2>1
  <2>2. CASE e # d
    BY <1>10, <1>11, <2>2 DEF NumbersAreDense
  <2> QED
    BY <2>1, <2>2

\* Every transaction keeps the tables well typed and the numbers dense.
LEMMA TypeStep == TypeOK /\ NumbersAreDense /\ [RegistryNext]_regVars => TypeOK' /\ NumbersAreDense'
<1> SUFFICES ASSUME TypeOK, NumbersAreDense, [RegistryNext]_regVars
             PROVE  TypeOK' /\ NumbersAreDense'
  OBVIOUS
<1>1. ASSUME NEW k \in DatasetKeys, NEW d \in Datasets, CreateDataset(k, d)
      PROVE  TypeOK' /\ NumbersAreDense'
  BY <1>1, NumbersUntouched DEF CreateDataset, TypeOK
<1>2. ASSUME NEW k \in VersionKeys, NEW v \in Versions, RegisterVersion(k, v)
      PROVE  TypeOK' /\ NumbersAreDense'
  <2>1. verKey' \in [VersionKeys -> Versions \cup {None}]
    BY <1>2 DEF RegisterVersion, TypeOK
  <2>2. CASE SealVersion(v)
    <3>1. NumbersAreDense' /\ vNumber' \in [Versions -> Nat]
      BY <2>2, SealVersionNumbers
    <3>2. vState' \in [Versions -> VersionStates] /\ bState' \in [Blobs -> BlobStates]
      BY <2>2 DEF SealVersion, TypeOK, VersionStates, BlobStates
    <3> QED
      BY <1>2, <2>1, <3>1, <3>2 DEF RegisterVersion, TypeOK
  <2>3. CASE UNCHANGED <<vState, vNumber, bState>>
    BY <1>2, <2>1, <2>3, NumbersUntouched DEF RegisterVersion, TypeOK
  <2> QED
    BY <1>2, <2>2, <2>3 DEF RegisterVersion
<1>3. ASSUME NEW k \in UploadKeys, NEW v \in Versions, NEW b \in Blobs, PrepareUpload(k, v, b)
      PROVE  TypeOK' /\ NumbersAreDense'
  BY <1>3, PrepareType, NumbersUntouched DEF PrepareUpload, identityVars
<1>4. ASSUME NEW k \in UploadKeys, NEW v \in Versions, NEW b \in Blobs,
             RestartFailedUpload(k, v, b)
      PROVE  TypeOK' /\ NumbersAreDense'
  <2>1. CASE UNCHANGED <<vState, bState, session, nextId, upKey>>
    BY <1>4, <2>1, NumbersUntouched DEF RestartFailedUpload, TypeOK, identityVars
  <2>2. CASE /\ vState[v] = "FAILED"
             /\ vState' = [vState EXCEPT ![v] = "UPLOADING"]
             /\ bState' = [bState EXCEPT ![b] = "UPLOADING"]
             /\ OpenSession(v, b)
             /\ Bind(k, v, b, nextId)
    <3>1. \A w \in Versions : vState'[w] = "ABSENT" <=> vState[w] = "ABSENT"
      BY <2>2 DEF TypeOK
    <3>2. NumbersAreDense'
      BY <1>4, <3>1, NumbersUntouched DEF RestartFailedUpload, identityVars
    <3>3. vState' \in [Versions -> VersionStates] /\ bState' \in [Blobs -> BlobStates]
      BY <2>2 DEF TypeOK, VersionStates, BlobStates
    <3> QED
      BY <1>4, <2>2, <3>2, <3>3, OpenSessionType, BindType
         DEF RestartFailedUpload, TypeOK, identityVars
  <2> QED
    BY <1>4, <2>1, <2>2 DEF RestartFailedUpload
<1>5. ASSUME NEW i \in SessionIds, MarkUploadInProgress(i)
      PROVE  TypeOK' /\ NumbersAreDense'
  <2>1. /\ vState' \in [Versions -> VersionStates]
        /\ bState' \in [Blobs -> BlobStates]
        /\ session' \in [SessionIds -> [state : SessionStates, blob : Blobs \cup {None},
                                        version : Versions \cup {None}]]
    BY <1>5 DEF MarkUploadInProgress, TypeOK, VersionStates, BlobStates, SessionStates, ActiveStates
  <2>2. \A w \in Versions : vState'[w] = "ABSENT" <=> vState[w] = "ABSENT"
    BY <1>5 DEF MarkUploadInProgress, TypeOK
  <2> QED
    BY <1>5, <2>1, <2>2, NumbersUntouched DEF MarkUploadInProgress, TypeOK, identityVars
<1>6. ASSUME NEW i \in SessionIds, MarkUploadVerified(i)
      PROVE  TypeOK' /\ NumbersAreDense'
  <2>1. /\ bState' \in [Blobs -> BlobStates]
        /\ session' \in [SessionIds -> [state : SessionStates, blob : Blobs \cup {None},
                                        version : Versions \cup {None}]]
    BY <1>6 DEF MarkUploadVerified, TypeOK, BlobStates, SessionStates, TerminalStates
  <2> QED
    BY <1>6, <2>1, NumbersUntouched DEF MarkUploadVerified, TypeOK, identityVars
<1>7. ASSUME NEW i \in SessionIds, MarkUploadFailed(i)
      PROVE  TypeOK' /\ NumbersAreDense'
  <2>1. /\ vState' \in [Versions -> VersionStates]
        /\ bState' \in [Blobs -> BlobStates]
        /\ session' \in [SessionIds -> [state : SessionStates, blob : Blobs \cup {None},
                                        version : Versions \cup {None}]]
    <3>1. CASE session[i].state = "FAILED"
      BY <1>7, <3>1 DEF MarkUploadFailed, TypeOK
    <3>2. CASE session[i].state # "FAILED"
      <4>1. /\ bState' = [bState EXCEPT ![session[i].blob] = "FAILED"]
            /\ vState' = [vState EXCEPT ![session[i].version] = "FAILED"]
            /\ session' = [session EXCEPT ![i].state = "FAILED"]
        BY <1>7, <3>2 DEF MarkUploadFailed
      <4> QED
        BY <4>1 DEF TypeOK, VersionStates, BlobStates, SessionStates, TerminalStates
    <3> QED
      BY <3>1, <3>2
  <2>2. \A w \in Versions : vState'[w] = "ABSENT" <=> vState[w] = "ABSENT"
    BY <1>7 DEF MarkUploadFailed, TypeOK
  <2> QED
    BY <1>7, <2>1, <2>2, NumbersUntouched DEF MarkUploadFailed, TypeOK, identityVars
<1>8. ASSUME NEW v \in Versions, FinalizeVersion(v)
      PROVE  TypeOK' /\ NumbersAreDense'
  <2>1. vState' \in [Versions -> VersionStates]
    BY <1>8 DEF FinalizeVersion, TypeOK, VersionStates
  <2>2. \A w \in Versions : vState'[w] = "ABSENT" <=> vState[w] = "ABSENT"
    BY <1>8 DEF FinalizeVersion, CanFinalize, TypeOK
  <2> QED
    BY <1>8, <2>1, <2>2, NumbersUntouched DEF FinalizeVersion, TypeOK, identityVars
<1>9. CASE UNCHANGED regVars
  BY <1>9, NumbersUntouched DEF regVars, TypeOK
<1> QED
  BY <1>1, <1>2, <1>3, <1>4, <1>5, <1>6, <1>7, <1>8, <1>9 DEF RegistryNext

-----------------------------------------------------------------------------
(***************************************************************************)
(* The inductive invariant.                                                *)
(***************************************************************************)

\* Rows of upload_sessions are inserted in order and never deleted: the table
\* is exactly the ids below nextId.
SessionTable ==
    \A i \in SessionIds :
      IF i < nextId
      THEN session[i].state # "ABSENT" /\ session[i].blob \in Blobs /\ session[i].version \in Versions
      ELSE session[i] = NoSession

RegInv ==
    /\ TypeOK
    /\ NumbersAreDense
    /\ SessionTable
    /\ ReadyIsComplete
    /\ NewestAttemptDecides
    /\ KeysAnswerTheirBlob

\* Sessions of a blob are rows of the table.
LEMMA SessionsAreRows ==
    ASSUME TypeOK, SessionTable, NEW b \in Blobs, NEW i \in SessionsOf(b)
    PROVE  i \in SessionIds /\ i < nextId /\ session[i].state # "ABSENT"
BY NoneAssumption DEF SessionsOf, SessionTable, NoSession

\* A new session takes a free row and leaves the others alone.
LEMMA OpenSessionRow ==
    ASSUME TypeOK, SessionTable, NEW v \in Versions, NEW b \in Blobs, OpenSession(v, b)
    PROVE  /\ nextId \in SessionIds
           /\ session[nextId] = NoSession
           /\ session'[nextId] = [state |-> "CREATED", blob |-> b, version |-> v]
           /\ \A i \in SessionIds : i # nextId => session'[i] = session[i]
           /\ nextId' = nextId + 1
BY MaxSessionsAssumption DEF OpenSession, TypeOK, SessionTable, SessionIds

\* mark_upload_* change nothing of a session but its state.
LEMMA SessionTableUpdate ==
    ASSUME TypeOK, SessionTable, NEW i \in SessionIds, session[i].state # "ABSENT",
           NEW s \in SessionStates \ {"ABSENT"}, UNCHANGED nextId,
           session' = [session EXCEPT ![i].state = s]
    PROVE  SessionTable'
BY DEF TypeOK, SessionTable, NoSession

\* Every transaction keeps the session table in order.
LEMMA SessionTableStep == TypeOK /\ SessionTable /\ [RegistryNext]_regVars => SessionTable'
<1> SUFFICES ASSUME TypeOK, SessionTable, [RegistryNext]_regVars
             PROVE  SessionTable'
  OBVIOUS
<1>1. CASE UNCHANGED <<session, nextId>>
  BY <1>1 DEF SessionTable
<1>2. ASSUME NEW v \in Versions, NEW b \in Blobs, OpenSession(v, b)
      PROVE  SessionTable'
  <2>1. SUFFICES ASSUME NEW i \in SessionIds
                 PROVE  IF i < nextId'
                        THEN /\ session'[i].state # "ABSENT" 
                             /\ session'[i].blob \in Blobs 
                             /\ session'[i].version \in Versions
                        ELSE session'[i] = NoSession
    BY DEF SessionTable
  <2>a. /\ session'[nextId] = [state |-> "CREATED", blob |-> b, version |-> v]
        /\ \A j \in SessionIds : j # nextId => session'[j] = session[j]
        /\ nextId' = nextId + 1
    BY <1>2, OpenSessionRow
  <2>b. nextId \in Nat /\ i \in Nat
    BY MaxSessionsAssumption DEF TypeOK, SessionIds
  <2>2. CASE i = nextId
    BY <2>2, <2>a, <2>b
  <2>3. CASE i # nextId
    <3>1. i < nextId' <=> i < nextId
      BY <2>3, <2>a, <2>b
    <3> QED
      BY <2>3, <2>a, <3>1 DEF SessionTable
  <2> QED
    BY <2>2, <2>3
<1>3. ASSUME NEW k \in UploadKeys, NEW v \in Versions, NEW b \in Blobs, PrepareUpload(k, v, b)
      PROVE  SessionTable'
  BY <1>1, <1>2, <1>3
     DEF PrepareUpload, ReuseAvailable, ReplayUpload, JoinActive, OpenFirst, FallBackOnLatest
<1>4. ASSUME NEW k \in UploadKeys, NEW v \in Versions, NEW b \in Blobs,
             RestartFailedUpload(k, v, b)
      PROVE  SessionTable'
  BY <1>1, <1>2, <1>4 DEF RestartFailedUpload
<1>5. ASSUME NEW i \in SessionIds, 
             MarkUploadInProgress(i) \/ MarkUploadVerified(i) \/ MarkUploadFailed(i)
      PROVE  SessionTable'
  <2>1. CASE MarkUploadInProgress(i)
    BY <1>1, <2>1, SessionTableUpdate
       DEF MarkUploadInProgress, SessionStates, ActiveStates
  <2>2. CASE MarkUploadVerified(i)
    BY <1>1, <2>2, SessionTableUpdate
       DEF MarkUploadVerified, SessionStates, TerminalStates
  <2>3. CASE MarkUploadFailed(i)
    BY <1>1, <2>3, SessionTableUpdate
       DEF MarkUploadFailed, SessionStates, TerminalStates
  <2> QED
    BY <1>5, <2>1, <2>2, <2>3
<1>6. CASE UNCHANGED regVars
  BY <1>1, <1>6 DEF regVars
<1> QED
  BY <1>1, <1>3, <1>4, <1>5, <1>6
     DEF RegistryNext, CreateDataset, RegisterVersion, FinalizeVersion

\* An AVAILABLE blob stays AVAILABLE, and only finalize_version makes a version
\* READY, when all its blobs are: the two halves of ReadyIsComplete.
LEMMA ReadyStep == TypeOK /\ ReadyIsComplete /\ [RegistryNext]_regVars => ReadyIsComplete'
<1> SUFFICES ASSUME TypeOK, ReadyIsComplete, [RegistryNext]_regVars
             PROVE  ReadyIsComplete'
  OBVIOUS
<1>0. ASSUME \A b \in Blobs : bState[b] = "AVAILABLE" => bState'[b] = "AVAILABLE",
             \A v \in Versions : vState'[v] = "READY" =>
                \/ vState[v] = "READY"
                \/ \A b \in BlobsOf(v) : bState[b] = "AVAILABLE"
      PROVE  ReadyIsComplete'
  <2> SUFFICES ASSUME NEW v \in Versions, vState'[v] = "READY", NEW b \in BlobsOf(v)
               PROVE  bState'[b] = "AVAILABLE"
    BY DEF ReadyIsComplete, BlobsOf
  <2>1. b \in Blobs
    BY VersionParts
  <2> QED
    BY <1>0, <2>1 DEF ReadyIsComplete
<1>1. ASSUME NEW k \in DatasetKeys, NEW d \in Datasets, CreateDataset(k, d)
      PROVE  ReadyIsComplete'
  BY <1>0, <1>1 DEF CreateDataset
<1>2. ASSUME NEW k \in VersionKeys, NEW v \in Versions, RegisterVersion(k, v)
      PROVE  ReadyIsComplete'
  BY <1>0, <1>2 DEF RegisterVersion, SealVersion, TypeOK
<1>3. ASSUME NEW k \in UploadKeys, NEW v \in Versions, NEW b \in Blobs, PrepareUpload(k, v, b)
      PROVE  ReadyIsComplete'
  BY <1>0, <1>3 DEF PrepareUpload
<1>4. ASSUME NEW k \in UploadKeys, NEW v \in Versions, NEW b \in Blobs,
             RestartFailedUpload(k, v, b)
      PROVE  ReadyIsComplete'
  BY <1>0, <1>4 DEF RestartFailedUpload, TypeOK
<1>5. ASSUME NEW i \in SessionIds, MarkUploadInProgress(i)
      PROVE  ReadyIsComplete'
  BY <1>0, <1>5 DEF MarkUploadInProgress, TypeOK
<1>6. ASSUME NEW i \in SessionIds, MarkUploadVerified(i)
      PROVE  ReadyIsComplete'
  BY <1>0, <1>6 DEF MarkUploadVerified, TypeOK
<1>7. ASSUME NEW i \in SessionIds, MarkUploadFailed(i)
      PROVE  ReadyIsComplete'
  BY <1>0, <1>7 DEF MarkUploadFailed, TypeOK
<1>8. ASSUME NEW v \in Versions, FinalizeVersion(v)
      PROVE  ReadyIsComplete'
  BY <1>0, <1>8 DEF FinalizeVersion, CanFinalize, TypeOK
<1>9. CASE UNCHANGED regVars
  BY <1>0, <1>9 DEF regVars
<1> QED
  BY <1>1, <1>2, <1>3, <1>4, <1>5, <1>6, <1>7, <1>8, <1>9 DEF RegistryNext

\* A blob without a row, or PENDING without an active session, has no session;
\* all the sessions of a FAILED blob are FAILED.
LEMMA NewestAttemptFacts ==
    ASSUME TypeOK, SessionTable, NewestAttemptDecides, NEW b \in Blobs
    PROVE  /\ bState[b] = "ABSENT" => SessionsOf(b) = {}
           /\ bState[b] = "PENDING" /\ ActiveOf(b) = {} => SessionsOf(b) = {}
           /\ bState[b] = "FAILED" => \A i \in SessionsOf(b) : session[i].state = "FAILED"
<1>1. ASSUME SessionsOf(b) # {}
      PROVE  <<session[LatestOf(b)].state, bState[b]>> \in AttemptExplains
  <2>1. LatestOf(b) \in SessionsOf(b) /\ \A i \in SessionsOf(b) : i <= LatestOf(b)
    BY <1>1, LatestOfType
  <2>2. ~ \E j \in SessionsOf(b) : j > LatestOf(b)
    BY <2>1 DEF SessionsOf, SessionIds
  <2> QED
    BY <2>1, <2>2 DEF NewestAttemptDecides
<1>2. bState[b] = "ABSENT" => SessionsOf(b) = {}
  BY <1>1 DEF AttemptExplains
<1>3. bState[b] = "PENDING" /\ ActiveOf(b) = {} => SessionsOf(b) = {}
  BY <1>1, LatestOfType DEF AttemptExplains, ActiveOf, ActiveStates
<1>4. bState[b] = "FAILED" => \A i \in SessionsOf(b) : session[i].state = "FAILED"
  BY DEF NewestAttemptDecides, AttemptExplains
<1> QED
  BY <1>2, <1>3, <1>4

\* What NewestAttemptDecides says of the sessions of one blob.
NewestOf(b) ==
    /\ bState[b] \in {"UPLOADING", "AVAILABLE", "FAILED"} => SessionsOf(b) # {}
    /\ \A i \in SessionsOf(b) :
         IF \E j \in SessionsOf(b) : j > i
         THEN session[i].state = "FAILED"
         ELSE <<session[i].state, bState[b]>> \in AttemptExplains

\* A transaction that opens a session for blob c, all of whose earlier sessions
\* are FAILED, keeps the newest attempt of every blob decisive.
LEMMA NewestAfterOpen ==
    ASSUME TypeOK, SessionTable, NewestAttemptDecides, NEW v \in Versions, NEW c \in Blobs,
           OpenSession(v, c),
           \A i \in SessionsOf(c) : session[i].state = "FAILED",
           bState'[c] \in {"PENDING", "UPLOADING"},
           \A b \in Blobs \ {c} : bState'[b] = bState[b]
    PROVE  NewestAttemptDecides'
<1>1. /\ nextId \in SessionIds
      /\ session[nextId] = NoSession
      /\ session'[nextId] = [state |-> "CREATED", blob |-> c, version |-> v]
      /\ \A i \in SessionIds : i # nextId => session'[i] = session[i]
  BY OpenSessionRow
<1>2. SessionsOf(c)' = SessionsOf(c) \cup {nextId}
  BY <1>1 DEF SessionsOf
<1>3. \A b \in Blobs \ {c} : SessionsOf(b)' = SessionsOf(b) /\ nextId \notin SessionsOf(b)
  BY <1>1, NoneAssumption DEF SessionsOf, NoSession
<1>4. \A i \in SessionsOf(c) : i \in SessionIds /\ i < nextId
  BY SessionsAreRows
<1>5. ASSUME NEW b \in Blobs, b # c PROVE NewestOf(b)'
  <2>1. NewestOf(b)
    BY DEF NewestAttemptDecides, NewestOf
  <2>2. \A i \in SessionsOf(b) : session'[i] = session[i]
    BY <1>1, <1>3, <1>5 DEF SessionsOf
  <2> QED
    BY <1>3, <1>5, <2>1, <2>2 DEF NewestOf
<1>6. NewestOf(c)'
  <2>1. \A i \in SessionsOf(c) : session'[i].state = "FAILED" /\ nextId > i
    BY <1>1, <1>4 DEF SessionIds, TypeOK
  <2>2. ~ \E j \in SessionsOf(c) \cup {nextId} : j > nextId
    BY <1>4 DEF SessionIds, TypeOK
  <2> QED
    BY <1>1, <1>2, <2>1, <2>2 DEF NewestOf, AttemptExplains
<1> QED
  BY <1>5, <1>6 DEF NewestAttemptDecides, NewestOf

\* A mark_upload_* transaction moves one active session i, the newest of its
\* blob, from s to t and its blob to a state t explains.
LEMMA NewestAfterMove ==
    ASSUME TypeOK, SessionTable, NewestAttemptDecides,
           NEW i \in SessionIds, session[i].state \in ActiveStates,
           NEW t \in SessionStates, NEW c \in Blobs, session[i].blob = c,
           session' = [session EXCEPT ![i].state = t],
           <<t, bState'[c]>> \in AttemptExplains,
           \A b \in Blobs \ {c} : bState'[b] = bState[b]
    PROVE  NewestAttemptDecides'
<1>1. \A b \in Blobs : SessionsOf(b)' = SessionsOf(b)
  BY DEF SessionsOf, TypeOK
<1>2. \A j \in SessionIds \ {i} : session'[j] = session[j]
  BY DEF TypeOK
<1>3. session'[i].state = t /\ i \in SessionsOf(c)
  BY DEF TypeOK, SessionsOf
<1>4. ASSUME NEW b \in Blobs, b # c PROVE NewestOf(b)'
  <2>1. NewestOf(b) /\ i \notin SessionsOf(b)
    BY <1>4 DEF NewestAttemptDecides, NewestOf, SessionsOf
  <2>2. \A j \in SessionsOf(b) : session'[j] = session[j]
    BY <1>2, <2>1 DEF SessionsOf
  <2> QED
    BY <1>1, <1>4, <2>1, <2>2 DEF NewestOf
<1>5. NewestOf(c)'
  <2>1. ~ \E j \in SessionsOf(c) : j > i
    BY <1>3 DEF NewestAttemptDecides, ActiveStates
  <2>2. ASSUME NEW j \in SessionsOf(c), j # i
        PROVE  session'[j].state = "FAILED" /\ \E k \in SessionsOf(c) : k > j
    <3>1. i > j
      BY <1>3, <2>1, <2>2 DEF SessionsOf, SessionIds
    <3>2. session[j].state = "FAILED"
      BY <1>3, <3>1 DEF NewestAttemptDecides
    <3> QED
      BY <1>2, <1>3, <2>2, <3>1, <3>2 DEF SessionsOf
  <2> QED
    BY <1>1, <1>3, <2>1, <2>2 DEF NewestOf
<1> QED
  BY <1>4, <1>5 DEF NewestAttemptDecides, NewestOf

\* Every transaction keeps the newest attempt of every blob decisive.
LEMMA NewestStep ==
    TypeOK /\ SessionTable /\ NewestAttemptDecides /\ [RegistryNext]_regVars => NewestAttemptDecides'
<1> SUFFICES ASSUME TypeOK, SessionTable, NewestAttemptDecides, [RegistryNext]_regVars
             PROVE  NewestAttemptDecides'
  OBVIOUS
<1>0. CASE UNCHANGED <<session, bState>>
  BY <1>0 DEF NewestAttemptDecides, SessionsOf
<1>1. ASSUME NEW k \in VersionKeys, NEW v \in Versions, RegisterVersion(k, v), SealVersion(v)
      PROVE  NewestAttemptDecides'
  <2>1. UNCHANGED session /\ \A b \in Blobs : bState'[b] = bState[b] \/ 
                                (bState[b] = "ABSENT" /\ bState'[b] = "PENDING")
    BY <1>1 DEF RegisterVersion, SealVersion
  <2>2. \A b \in Blobs : SessionsOf(b)' = SessionsOf(b)
    BY <2>1 DEF SessionsOf
  <2>3. ASSUME NEW b \in Blobs PROVE NewestOf(b)'
    <3>1. NewestOf(b)
      BY DEF NewestAttemptDecides, NewestOf
    <3>2. bState[b] = "ABSENT" => SessionsOf(b) = {}
      BY NewestAttemptFacts
    <3> QED
      BY <2>1, <2>2, <3>1, <3>2 DEF NewestOf
  <2> QED
    BY <2>3 DEF NewestAttemptDecides, NewestOf
<1>2. ASSUME NEW k \in UploadKeys, NEW v \in Versions, NEW b \in Blobs, PrepareUpload(k, v, b)
      PROVE  NewestAttemptDecides'
  <2>1. CASE OpenFirst(k, v, b)
    <3>1. SessionsOf(b) = {}
      BY <2>1, NewestAttemptFacts DEF OpenFirst
    <3> QED
      BY <1>2, <2>1, <3>1, NewestAfterOpen DEF OpenFirst, PrepareUpload
  <2>2. CASE ~ OpenFirst(k, v, b)
    BY <1>0, <1>2, <2>2
       DEF PrepareUpload, ReuseAvailable, ReplayUpload, JoinActive, FallBackOnLatest
  <2> QED
    BY <2>1, <2>2
<1>3. ASSUME NEW k \in UploadKeys, NEW v \in Versions, NEW b \in Blobs,
             RestartFailedUpload(k, v, b)
      PROVE  NewestAttemptDecides'
  <2>1. CASE OpenSession(v, b) /\ bState[b] = "FAILED"
                /\ bState' = [bState EXCEPT ![b] = "UPLOADING"]
    <3>1. \A i \in SessionsOf(b) : session[i].state = "FAILED"
      BY <2>1, NewestAttemptFacts
    <3>2. bState'[b] = "UPLOADING" /\ \A c \in Blobs \ {b} : bState'[c] = bState[c]
      BY <2>1 DEF TypeOK
    <3> QED
      BY <2>1, <3>1, <3>2, NewestAfterOpen
  <2> QED
    BY <1>0, <1>3, <2>1 DEF RestartFailedUpload
<1>4. ASSUME NEW i \in SessionIds, MarkUploadInProgress(i)
      PROVE  NewestAttemptDecides'
  <2>1. CASE session[i].state = "CREATED"
    <3> DEFINE c == session[i].blob
    <3>1. /\ bState' = [bState EXCEPT ![c] = IF @ = "PENDING" THEN "UPLOADING" ELSE @]
          /\ session' = [session EXCEPT ![i].state = "IN_PROGRESS"]
      BY <1>4, <2>1 DEF MarkUploadInProgress
    <3>2. c \in Blobs /\ i \in SessionsOf(c)
      BY <2>1 DEF SessionTable, NoSession, SessionsOf
    <3>3. bState[c] \in {"PENDING", "UPLOADING"}
      BY <2>1, <3>2 DEF NewestAttemptDecides, AttemptExplains
    <3>4. bState'[c] = "UPLOADING" /\ \A b \in Blobs \ {c} : bState'[b] = bState[b]
      BY <3>1, <3>2, <3>3 DEF TypeOK
    <3>5. session[i].state \in ActiveStates /\ "IN_PROGRESS" \in SessionStates
          /\ <<"IN_PROGRESS", bState'[c]>> \in AttemptExplains
      BY <2>1, <3>4 DEF ActiveStates, SessionStates, AttemptExplains
    <3> QED
      BY <3>1, <3>2, <3>4, <3>5, NewestAfterMove
  <2> QED
    BY <1>0, <1>4, <2>1 DEF MarkUploadInProgress
<1>5. ASSUME NEW i \in SessionIds, MarkUploadVerified(i)
      PROVE  NewestAttemptDecides'
  <2>1. CASE session[i].state = "IN_PROGRESS"
    <3> DEFINE c == session[i].blob
    <3>1. /\ bState' = [bState EXCEPT ![c] = "AVAILABLE"]
          /\ session' = [session EXCEPT ![i].state = "COMPLETED"]
      BY <1>5, <2>1 DEF MarkUploadVerified
    <3>2. c \in Blobs
      BY <2>1 DEF SessionTable, NoSession
    <3>3. bState'[c] = "AVAILABLE" /\ \A b \in Blobs \ {c} : bState'[b] = bState[b]
      BY <3>1, <3>2 DEF TypeOK
    <3>4. session[i].state \in ActiveStates /\ "COMPLETED" \in SessionStates
          /\ <<"COMPLETED", bState'[c]>> \in AttemptExplains
      BY <2>1, <3>3 DEF ActiveStates, TerminalStates, SessionStates, AttemptExplains
    <3> QED
      BY <3>1, <3>2, <3>3, <3>4, NewestAfterMove
  <2> QED
    BY <1>0, <1>5, <2>1 DEF MarkUploadVerified
<1>6. ASSUME NEW i \in SessionIds, MarkUploadFailed(i)
      PROVE  NewestAttemptDecides'
  <2>1. CASE session[i].state = "IN_PROGRESS"
    <3> DEFINE c == session[i].blob
    <3>1. /\ bState' = [bState EXCEPT ![c] = "FAILED"]
          /\ session' = [session EXCEPT ![i].state = "FAILED"]
      BY <1>6, <2>1 DEF MarkUploadFailed
    <3>2. c \in Blobs
      BY <2>1 DEF SessionTable, NoSession
    <3>3. bState'[c] = "FAILED" /\ \A b \in Blobs \ {c} : bState'[b] = bState[b]
      BY <3>1, <3>2 DEF TypeOK
    <3>4. session[i].state \in ActiveStates /\ "FAILED" \in SessionStates
          /\ <<"FAILED", bState'[c]>> \in AttemptExplains
      BY <2>1, <3>3 DEF ActiveStates, TerminalStates, SessionStates, AttemptExplains
    <3> QED
      BY <3>1, <3>2, <3>3, <3>4, NewestAfterMove
  <2> QED
    BY <1>0, <1>6, <2>1 DEF MarkUploadFailed
<1> QED
  BY <1>0, <1>1, <1>2, <1>3, <1>4, <1>5, <1>6
     DEF RegistryNext, CreateDataset, RegisterVersion, FinalizeVersion, identityVars, regVars

\* The blob of a session that exists never changes, and a key is bound only to
\* a session of the blob its request names.
LEMMA KeysStep ==
    TypeOK /\ SessionTable /\ KeysAnswerTheirBlob /\ [RegistryNext]_regVars => KeysAnswerTheirBlob'
<1> SUFFICES ASSUME TypeOK, SessionTable, KeysAnswerTheirBlob, [RegistryNext]_regVars
             PROVE  KeysAnswerTheirBlob'
  OBVIOUS
<1>0. ASSUME NEW k \in UploadKeys, upKey[k] # None
      PROVE  /\ upKey[k] \in [request : Requests, session : SessionIds]
             /\ session[upKey[k].session].state # "ABSENT"
  <2>1. upKey[k] \in [request : Requests, session : SessionIds]
    BY <1>0 DEF TypeOK
  <2>2. session[upKey[k].session].blob \in Blobs
    BY <1>0, <2>1 DEF KeysAnswerTheirBlob, Requests
  <2> QED
    BY <2>1, <2>2, NoneAssumption DEF SessionTable, NoSession
<1>1. ASSUME \A i \in SessionIds : session[i].state # "ABSENT" => session'[i].blob = session[i].blob,
             UNCHANGED upKey
      PROVE  KeysAnswerTheirBlob'
  BY <1>0, <1>1 DEF KeysAnswerTheirBlob
<1>2. ASSUME \A i \in SessionIds : session[i].state # "ABSENT" => session'[i].blob = session[i].blob,
             NEW k \in UploadKeys, NEW v \in Versions, NEW b \in Blobs, NEW i \in SessionIds,
             Bind(k, v, b, i), session'[i].blob = b
      PROVE  KeysAnswerTheirBlob'
  BY <1>0, <1>2 DEF KeysAnswerTheirBlob, Bind, TypeOK
<1>3. CASE UNCHANGED <<session, upKey>>
  BY <1>1, <1>3
<1>4. ASSUME NEW k \in UploadKeys, NEW v \in Versions, NEW b \in Blobs,
             OpenSession(v, b), Bind(k, v, b, nextId)
      PROVE  KeysAnswerTheirBlob'
  <2>1. /\ nextId \in SessionIds
        /\ session[nextId].state = "ABSENT"
        /\ session'[nextId].blob = b
        /\ \A i \in SessionIds : i # nextId => session'[i] = session[i]
    <3>1. /\ nextId \in SessionIds
          /\ session[nextId] = NoSession
          /\ session'[nextId] = [state |-> "CREATED", blob |-> b, version |-> v]
          /\ \A i \in SessionIds : i # nextId => session'[i] = session[i]
      BY <1>4, OpenSessionRow
    <3> QED
      BY <3>1 DEF NoSession
  <2> QED
    BY <1>2, <1>4, <2>1
<1>5. ASSUME NEW k \in UploadKeys, NEW v \in Versions, NEW b \in Blobs, PrepareUpload(k, v, b)
      PROVE  KeysAnswerTheirBlob'
  <2>1. CASE JoinActive(k, v, b)
    BY <1>2, <2>1 DEF JoinActive, ActiveOf, SessionsOf
  <2>2. CASE FallBackOnLatest(k, v, b)
    <3>1. LatestOf(b) \in SessionIds /\ session[LatestOf(b)].blob = b
      BY <2>2, LatestOfType DEF FallBackOnLatest, SessionsOf
    <3> QED
      BY <1>2, <2>2, <3>1 DEF FallBackOnLatest
  <2> QED
    BY <1>3, <1>4, <1>5, <2>1, <2>2 DEF PrepareUpload, ReuseAvailable, ReplayUpload, OpenFirst
<1>6. ASSUME NEW k \in UploadKeys, NEW v \in Versions, NEW b \in Blobs,
             RestartFailedUpload(k, v, b)
      PROVE  KeysAnswerTheirBlob'
  BY <1>3, <1>4, <1>6 DEF RestartFailedUpload
<1>7. ASSUME NEW i \in SessionIds,
             MarkUploadInProgress(i) \/ MarkUploadVerified(i) \/ MarkUploadFailed(i)
      PROVE  KeysAnswerTheirBlob'
  <2>1. UNCHANGED upKey
    BY <1>7 DEF MarkUploadInProgress, MarkUploadVerified, MarkUploadFailed
  <2>2. \A j \in SessionIds : session'[j].blob = session[j].blob
    BY <1>7 DEF MarkUploadInProgress, MarkUploadVerified, MarkUploadFailed, TypeOK
  <2> QED
    BY <1>1, <2>1, <2>2
<1> QED
  BY <1>3, <1>5, <1>6, <1>7
     DEF RegistryNext, CreateDataset, RegisterVersion, FinalizeVersion, identityVars, regVars

-----------------------------------------------------------------------------
(***************************************************************************)
(* The theorems.                                                           *)
(***************************************************************************)

\* What a step may not do to versions: forget one, or make one DRAFT or READY
\* that has sessions not fit for it.
LEMMA VersionsStay ==
    ASSUME TypeOK, RegistryNext, NEW v \in Versions, vState[v] # "ABSENT"
    PROVE  /\ vState'[v] # "ABSENT"
           /\ vState'[v] = "DRAFT" => vState[v] = "DRAFT"
           /\ vState'[v] = "READY" => vState[v] = "READY" \/ FinalizeVersion(v)
<1>1. CASE UNCHANGED vState
  BY <1>1
<1>2. ASSUME NEW k \in VersionKeys, NEW w \in Versions, RegisterVersion(k, w)
      PROVE  vState'[v] = vState[v]
  BY <1>2 DEF RegisterVersion, SealVersion, TypeOK
<1>3. ASSUME NEW k \in UploadKeys, NEW w \in Versions, NEW b \in Blobs,
             RestartFailedUpload(k, w, b)
      PROVE  vState'[v] \in {vState[v], "UPLOADING"}
  BY <1>3 DEF RestartFailedUpload, TypeOK
<1>4. ASSUME NEW i \in SessionIds, MarkUploadInProgress(i) \/ MarkUploadFailed(i)
      PROVE  vState'[v] \in {vState[v], "UPLOADING", "FAILED"}
  BY <1>4 DEF MarkUploadInProgress, MarkUploadFailed, TypeOK
<1>5. ASSUME NEW w \in Versions, FinalizeVersion(w)
      PROVE  vState'[v] = vState[v] \/ (v = w /\ vState'[v] = "READY")
  BY <1>5 DEF FinalizeVersion, TypeOK
<1> QED
  BY <1>1, <1>2, <1>3, <1>4, <1>5
     DEF RegistryNext, CreateDataset, PrepareUpload, MarkUploadVerified

\* An active session's blob is not AVAILABLE.
LEMMA ActiveBlobsAreNotAvailable ==
    ASSUME SessionTable, NewestAttemptDecides, NEW i \in SessionIds,
           session[i].state \in ActiveStates
    PROVE  session[i].blob \in Blobs /\ bState[session[i].blob] # "AVAILABLE"
<1>1. session[i].blob \in Blobs /\ i \in SessionsOf(session[i].blob)
  BY DEF SessionTable, NoSession, ActiveStates, SessionsOf
<1>2. session[i].state # "FAILED"
  BY DEF ActiveStates
<1>3. <<session[i].state, bState[session[i].blob]>> \in AttemptExplains
  BY <1>1, <1>2 DEF NewestAttemptDecides
<1> QED
  BY <1>1, <1>3 DEF AttemptExplains, ActiveStates, TerminalStates

\* A session that exists keeps its blob and version; a row that is new was
\* opened by prepare_upload or restart_failed_upload.
LEMMA SessionsStay ==
    ASSUME TypeOK, SessionTable, RegistryNext, NEW i \in SessionIds
    PROVE  \/ session[i].state # "ABSENT" /\ session'[i].blob = session[i].blob
              /\ session'[i].version = session[i].version
           \/ session'[i] = session[i]
           \/ \E k \in UploadKeys, v \in Versions, b \in Blobs :
                /\ session'[i] = [state |-> "CREATED", blob |-> b, version |-> v]
                /\ Referenced(v, b) /\ i = nextId
                /\ \/ OpenFirst(k, v, b) /\ UNCHANGED vState
                   \/ RestartFailedUpload(k, v, b) /\ vState'[v] = "UPLOADING"
<1>1. CASE UNCHANGED session
  BY <1>1
<1>2. ASSUME NEW k \in UploadKeys, NEW v \in Versions, NEW b \in Blobs,
             OpenFirst(k, v, b), Referenced(v, b), UNCHANGED vState
      PROVE  \/ session'[i] = session[i]
             \/ session'[i] = [state |-> "CREATED", blob |-> b, version |-> v] /\ i = nextId
  BY <1>2, OpenSessionRow DEF OpenFirst
<1>3. ASSUME NEW k \in UploadKeys, NEW v \in Versions, NEW b \in Blobs,
             RestartFailedUpload(k, v, b)
      PROVE  \/ session'[i] = session[i]
             \/ /\ session'[i] = [state |-> "CREATED", blob |-> b, version |-> v] /\ i = nextId
                /\ Referenced(v, b) /\ vState'[v] = "UPLOADING"
  BY <1>3, OpenSessionRow DEF RestartFailedUpload, TypeOK
<1>4. ASSUME NEW j \in SessionIds,
             MarkUploadInProgress(j) \/ MarkUploadVerified(j) \/ MarkUploadFailed(j)
      PROVE  \/ session'[i] = session[i]
             \/ session[i].state # "ABSENT" /\ session'[i].blob = session[i].blob
                /\ session'[i].version = session[i].version
  BY <1>4 DEF MarkUploadInProgress, MarkUploadVerified, MarkUploadFailed, TypeOK
<1>5. ASSUME NEW k \in UploadKeys, NEW v \in Versions, NEW b \in Blobs, PrepareUpload(k, v, b),
             session' # session
      PROVE  OpenFirst(k, v, b) /\ Referenced(v, b) /\ UNCHANGED vState
  BY <1>5 DEF PrepareUpload, ReuseAvailable, ReplayUpload, JoinActive, FallBackOnLatest
<1> QED
  BY <1>1, <1>2, <1>3, <1>4, <1>5
     DEF RegistryNext, CreateDataset, RegisterVersion, FinalizeVersion, identityVars

\* Only mark_upload_* move a session that exists, each from one state.
LEMMA SessionMoves ==
    ASSUME TypeOK, SessionTable, RegistryNext, NEW i \in SessionIds,
           session[i].state # "ABSENT", session'[i].state # session[i].state
    PROVE  \/ /\ session[i].state = "CREATED" /\ MarkUploadInProgress(i)
              /\ session[i].version \in Versions => vState'[session[i].version] # "DRAFT"
           \/ session[i].state = "IN_PROGRESS" /\ session'[i].state \in TerminalStates
<1>1. ASSUME NEW v \in Versions, NEW b \in Blobs, OpenSession(v, b) PROVE FALSE
  <2>1. /\ session[nextId] = NoSession
        /\ \A j \in SessionIds : j # nextId => session'[j] = session[j]
    BY <1>1, OpenSessionRow
  <2>2. i # nextId
    BY <2>1 DEF NoSession
  <2> QED
    BY <2>1, <2>2
<1>2. PICK j \in SessionIds :
        MarkUploadInProgress(j) \/ MarkUploadVerified(j) \/ MarkUploadFailed(j)
  BY <1>1 DEF RegistryNext, CreateDataset, RegisterVersion, FinalizeVersion, PrepareUpload,
              RestartFailedUpload, ReuseAvailable, ReplayUpload, JoinActive, OpenFirst,
              FallBackOnLatest, identityVars
<1>3. CASE MarkUploadInProgress(j)
  BY <1>3 DEF MarkUploadInProgress, TypeOK
<1>4. CASE MarkUploadVerified(j)
  BY <1>4 DEF MarkUploadVerified, TypeOK, TerminalStates
<1>5. CASE MarkUploadFailed(j)
  BY <1>5 DEF MarkUploadFailed, TypeOK, TerminalStates
<1> QED
  BY <1>2, <1>3, <1>4, <1>5

\* Versions agree with the sessions they initiated after every transaction.
LEMMA AgreementStep ==
    RegInv /\ VersionsAgreeWithSessions /\ [RegistryNext]_regVars => VersionsAgreeWithSessions'
<1> SUFFICES ASSUME RegInv, VersionsAgreeWithSessions, [RegistryNext]_regVars
             PROVE  VersionsAgreeWithSessions'
  OBVIOUS
<1>1. CASE UNCHANGED regVars
  BY <1>1 DEF regVars, VersionsAgreeWithSessions, Referenced
<1>2. ASSUME RegistryNext, NEW i \in SessionIds, session'[i].state # "ABSENT"
      PROVE  LET v == session'[i].version IN
             /\ v \in Versions /\ vState'[v] # "ABSENT" /\ session'[i].blob \in BlobsOf(v)
             /\ vState'[v] = "DRAFT" => session'[i].state = "CREATED"
             /\ vState'[v] = "READY" => session'[i].state \in TerminalStates
  <2>0. TypeOK /\ SessionTable /\ ReadyIsComplete /\ NewestAttemptDecides
    BY DEF RegInv
  <2>1. CASE session[i].state # "ABSENT"
    <3> DEFINE v == session[i].version
    <3>1. /\ v \in Versions /\ Referenced(v, session[i].blob)
          /\ vState[v] = "DRAFT" => session[i].state = "CREATED"
          /\ vState[v] = "READY" => session[i].state \in TerminalStates
      BY <2>1 DEF VersionsAgreeWithSessions
    <3>2. session'[i].blob = session[i].blob /\ session'[i].version = v
      <4>1. CASE i = nextId
        <5>1. nextId \in Nat
          BY <2>0, <4>1, MaxSessionsAssumption DEF SessionIds
        <5> QED
          BY <2>0, <2>1, <4>1, <5>1 DEF SessionTable, NoSession
      <4> QED
        BY <1>2, <2>0, <4>1, SessionsStay
    <3>3. /\ vState'[v] # "ABSENT"
          /\ vState'[v] = "DRAFT" => vState[v] = "DRAFT"
          /\ vState'[v] = "READY" => vState[v] = "READY" \/ FinalizeVersion(v)
      BY <1>2, <2>0, <3>1, VersionsStay DEF Referenced
    <3>4. \/ session'[i].state = session[i].state
          \/ session[i].state = "CREATED" /\ MarkUploadInProgress(i) /\ vState'[v] # "DRAFT"
          \/ session[i].state = "IN_PROGRESS" /\ session'[i].state \in TerminalStates
      BY <1>2, <2>0, <2>1, <3>1, SessionMoves
    <3>5. session[i].blob \in BlobsOf(v)
      BY <3>1 DEF Referenced
    <3>6. vState'[v] = "DRAFT" => session'[i].state = "CREATED"
      BY <3>1, <3>3, <3>4
    <3>7. ASSUME vState'[v] = "READY" PROVE session'[i].state \in TerminalStates
      <4>1. CASE vState[v] = "READY"
        BY <3>1, <3>4, <4>1 DEF TerminalStates
      <4>2. CASE FinalizeVersion(v)
        <5>1. \A b \in BlobsOf(v) : bState[b] = "AVAILABLE"
          BY <2>0, <3>1, <4>2 DEF FinalizeVersion, CanFinalize, ReadyIsComplete
        <5>2. session[i].state \notin ActiveStates
          BY <2>0, <3>1, <5>1, ActiveBlobsAreNotAvailable DEF Referenced
        <5>3. session[i].state \in TerminalStates
          BY <2>0, <2>1, <5>2 DEF TypeOK, SessionStates
        <5> QED
          BY <4>2, <5>3 DEF FinalizeVersion
      <4> QED
        BY <3>3, <3>7, <4>1, <4>2
    <3> QED
      BY <3>1, <3>2, <3>3, <3>5, <3>6, <3>7
  <2>2. CASE session[i].state = "ABSENT"
    <3>1. PICK k \in UploadKeys, v \in Versions, b \in Blobs :
            /\ session'[i] = [state |-> "CREATED", blob |-> b, version |-> v]
            /\ Referenced(v, b)
            /\ \/ OpenFirst(k, v, b) /\ UNCHANGED vState
               \/ RestartFailedUpload(k, v, b) /\ vState'[v] = "UPLOADING"
      BY <1>2, <2>0, <2>2, SessionsStay
    <3>2. vState'[v] # "READY"
      BY <2>0, <3>1 DEF OpenFirst, ReadyIsComplete, Referenced
    <3>3. vState'[v] # "ABSENT" /\ b \in BlobsOf(v)
      BY <3>1 DEF Referenced
    <3> QED
      BY <3>1, <3>2, <3>3
  <2> QED
    BY <2>1, <2>2
<1> QED
  BY <1>1, <1>2 DEF VersionsAgreeWithSessions, Referenced, BlobsOf

\* A version becomes FAILED with a session of its own, which stays FAILED.
LEMMA FailureStep ==
    RegInv /\ FailureIsExplained /\ [RegistryNext]_regVars => FailureIsExplained'
<1> SUFFICES ASSUME RegInv, FailureIsExplained, [RegistryNext]_regVars
             PROVE  FailureIsExplained'
  OBVIOUS
<1>0. TypeOK /\ SessionTable
  BY DEF RegInv
<1>1. CASE UNCHANGED regVars
  BY <1>1 DEF regVars, FailureIsExplained
<1>2. ASSUME RegistryNext, NEW v \in Versions, vState'[v] = "FAILED"
      PROVE  \E i \in SessionIds : session'[i].version = v /\ session'[i].state = "FAILED"
  <2>1. CASE vState[v] = "FAILED"
    <3>1. PICK i \in SessionIds : session[i].version = v /\ session[i].state = "FAILED"
      BY <2>1 DEF FailureIsExplained
    <3>2. session'[i].state = "FAILED"
      BY <1>0, <1>2, <3>1, SessionMoves
    <3>3. session'[i].version = v
      <4>1. CASE i = nextId
        BY <1>0, <3>1, <4>1, MaxSessionsAssumption DEF SessionTable, NoSession, SessionIds
      <4> QED
        BY <1>0, <1>2, <3>1, <4>1, SessionsStay
    <3> QED
      BY <3>2, <3>3
  <2>2. CASE vState[v] # "FAILED"
    <3>1. PICK i \in SessionIds : MarkUploadFailed(i) /\ session'[i].state = "FAILED"
                                  /\ session[i].version = v
      <4>1. ASSUME NEW k \in VersionKeys, NEW w \in Versions, RegisterVersion(k, w)
            PROVE  vState'[v] \in {vState[v], "DRAFT"}
        BY <4>1 DEF RegisterVersion, SealVersion, TypeOK, RegInv
      <4>2. ASSUME NEW k \in UploadKeys, NEW w \in Versions, NEW b \in Blobs,
                   RestartFailedUpload(k, w, b)
            PROVE  vState'[v] \in {vState[v], "UPLOADING"}
        BY <4>2, <1>0 DEF RestartFailedUpload, TypeOK
      <4>3. ASSUME NEW i \in SessionIds, MarkUploadInProgress(i)
            PROVE  vState'[v] \in {vState[v], "UPLOADING"}
        BY <4>3, <1>0 DEF MarkUploadInProgress, TypeOK
      <4>4. ASSUME NEW w \in Versions, FinalizeVersion(w)
            PROVE  vState'[v] \in {vState[v], "READY"}
        BY <4>4, <1>0 DEF FinalizeVersion, TypeOK
      <4>5. PICK i \in SessionIds : MarkUploadFailed(i)
        BY <1>2, <2>2, <4>1, <4>2, <4>3, <4>4
           DEF RegistryNext, CreateDataset, PrepareUpload, MarkUploadVerified
      <4> QED
        BY <1>0, <1>2, <2>2, <4>5 DEF MarkUploadFailed, TypeOK
    <3>2. session'[i].version = v
      BY <1>0, <3>1 DEF MarkUploadFailed, TypeOK
    <3> QED
      BY <3>1, <3>2
  <2> QED
    BY <2>1, <2>2
<1> QED
  BY <1>1, <1>2 DEF FailureIsExplained

\* The inductive invariant holds of the empty registry.
LEMMA RegInvInit == Init => RegInv
<1> SUFFICES ASSUME Init PROVE RegInv
  OBVIOUS
<1>1. TypeOK
  BY InitTypeOK
<1>2. NumbersAreDense
  <2>1. \A d \in Datasets : Registered(d) = {}
    BY DEF Init, Registered, Versions
  <2>2. \A d \in Datasets : Numbers(d) = {}
    BY <2>1 DEF Numbers
  <2>3. {} = 1..0
    OBVIOUS
  <2> QED
    BY <2>1, <2>2, <2>3 DEF NumbersAreDense
<1>3. SessionTable
  BY DEF Init, SessionTable, SessionIds
<1>4. ReadyIsComplete
  BY DEF Init, ReadyIsComplete
<1>5. \A b \in Blobs : SessionsOf(b) = {}
  BY NoneAssumption DEF Init, SessionsOf, NoSession
<1>6. NewestAttemptDecides
  BY <1>5 DEF Init, NewestAttemptDecides
<1>7. KeysAnswerTheirBlob
  BY DEF Init, KeysAnswerTheirBlob
<1> QED
  BY <1>1, <1>2, <1>3, <1>4, <1>6, <1>7 DEF RegInv

\* Every transaction preserves the inductive invariant.
LEMMA RegInvStep == RegInv /\ [RegistryNext]_regVars => RegInv'
BY TypeStep, SessionTableStep, ReadyStep, NewestStep, KeysStep DEF RegInv

\* The inductive invariant holds in every reachable state of the registry.
THEOREM RegistryInvariant == RegistrySpec => []RegInv
BY RegInvInit, RegInvStep, PTL DEF RegistrySpec

\* The registry's tables stay well typed whatever its callers do.
THEOREM RegistryTyping == RegistrySpec => []TypeOK
BY RegistryInvariant, PTL DEF RegInv

\* finalize_version never publishes an incomplete version, and no later
\* transaction makes a published version incomplete.
THEOREM PublishedVersionsAreComplete == RegistrySpec => []ReadyIsComplete
BY RegistryInvariant, PTL DEF RegInv

\* The newest attempt decides its blob's state, so no blob ever has two active
\* upload sessions: the unique index is never what stops prepare_upload.
THEOREM NewestAttemptIsDecisive == RegistrySpec => []NewestAttemptDecides
BY RegistryInvariant, PTL DEF RegInv

\* register_version numbers each dataset's versions 1, 2, ..., n.
THEOREM VersionNumbersAreDense == RegistrySpec => []NumbersAreDense
BY RegistryInvariant, PTL DEF RegInv

\* A retried Idempotency-Key is answered with a session of the blob its request
\* names, whichever version opened that session.
THEOREM KeysAlwaysAnswerTheirBlob == RegistrySpec => []KeysAnswerTheirBlob
BY RegistryInvariant, PTL DEF RegInv

\* The version a session locks is one that its blob blocks; a DRAFT version has
\* started nothing and a READY one has nothing under way.
THEOREM VersionsAlwaysAgree == RegistrySpec => []VersionsAgreeWithSessions
<1>1. Init => VersionsAgreeWithSessions
  BY DEF Init, VersionsAgreeWithSessions, NoSession
<1> QED
  BY <1>1, AgreementStep, RegistryInvariant, PTL DEF RegistrySpec

\* A FAILED version has a FAILED session that it initiated.
THEOREM FailuresAreExplained == RegistrySpec => []FailureIsExplained
<1>1. Init => FailureIsExplained
  BY DEF Init, FailureIsExplained
<1> QED
  BY <1>1, FailureStep, RegistryInvariant, PTL DEF RegistrySpec

\* No transaction leaves READY, AVAILABLE, COMPLETED or FAILED-session states,
\* and none asks a trigger for an edge domain/lifecycle.py does not have.
THEOREM TransitionsAreLegal == RegistrySpec => LegalTransitions
<1> DEFINE Legal == /\ \A v \in Versions : Moves(VersionEdges, "DRAFT", vState[v], vState'[v])
                    /\ \A b \in Blobs : Moves(BlobEdges, "PENDING", bState[b], bState'[b])
                    /\ \A i \in SessionIds :
                         Moves(SessionEdges, "CREATED", session[i].state, session'[i].state)
<1>1. RegInv /\ [RegistryNext]_regVars => [Legal]_regVars
  <2> SUFFICES ASSUME TypeOK, SessionTable, NewestAttemptDecides, RegistryNext
               PROVE  Legal
    BY DEF RegInv
  <2>0. \A e, f, a : Moves(e, f, a, a)
    BY DEF Moves
  <2>1. CASE UNCHANGED <<vState, bState, session>>
    BY <2>0, <2>1
  <2>2. ASSUME NEW k \in VersionKeys, NEW v \in Versions, RegisterVersion(k, v)
        PROVE  Legal
    BY <2>0, <2>2 DEF RegisterVersion, SealVersion, TypeOK, Moves
  <2>3. ASSUME NEW v \in Versions, NEW b \in Blobs, OpenSession(v, b)
        PROVE  \A i \in SessionIds :
                 Moves(SessionEdges, "CREATED", session[i].state, session'[i].state)
    <3>1. /\ session[nextId] = NoSession
          /\ session'[nextId] = [state |-> "CREATED", blob |-> b, version |-> v]
          /\ \A i \in SessionIds : i # nextId => session'[i] = session[i]
      BY <2>3, OpenSessionRow
    <3>2. Moves(SessionEdges, "CREATED", session[nextId].state, session'[nextId].state)
      BY <3>1 DEF Moves, NoSession
    <3> QED
      BY <2>0, <3>1, <3>2
  <2>4. ASSUME NEW k \in UploadKeys, NEW v \in Versions, NEW b \in Blobs, PrepareUpload(k, v, b)
        PROVE  Legal
    BY <2>0, <2>3, <2>4
       DEF PrepareUpload, ReuseAvailable, ReplayUpload, JoinActive, OpenFirst, FallBackOnLatest
  <2>5. ASSUME NEW k \in UploadKeys, NEW v \in Versions, NEW b \in Blobs,
               RestartFailedUpload(k, v, b)
        PROVE  Legal
    <3>1. CASE UNCHANGED <<vState, bState, session>>
      BY <2>1, <3>1
    <3>2. CASE /\ vState[v] = "FAILED" /\ vState' = [vState EXCEPT ![v] = "UPLOADING"]
               /\ bState[b] = "FAILED" /\ bState' = [bState EXCEPT ![b] = "UPLOADING"]
               /\ OpenSession(v, b)
      BY <2>0, <2>3, <3>2 DEF TypeOK, Moves, VersionEdges, BlobEdges
    <3> QED
      BY <2>5, <3>1, <3>2 DEF RestartFailedUpload
  <2>6. ASSUME NEW i \in SessionIds, MarkUploadInProgress(i)
        PROVE  Legal
    BY <2>0, <2>6 DEF MarkUploadInProgress, TypeOK, Moves, VersionEdges, BlobEdges, SessionEdges
  <2>7. ASSUME NEW i \in SessionIds, MarkUploadVerified(i)
        PROVE  Legal
    BY <2>0, <2>7 DEF MarkUploadVerified, TypeOK, Moves, BlobEdges, SessionEdges
  <2>8. ASSUME NEW i \in SessionIds, MarkUploadFailed(i)
        PROVE  Legal
    BY <2>0, <2>8 DEF MarkUploadFailed, TypeOK, Moves, VersionEdges, BlobEdges, SessionEdges
  <2>9. ASSUME NEW v \in Versions, FinalizeVersion(v)
        PROVE  Legal
    BY <2>0, <2>9 DEF FinalizeVersion, CanFinalize, TypeOK, Moves, VersionEdges
  <2> QED
    BY <2>1, <2>2, <2>4, <2>5, <2>6, <2>7, <2>8, <2>9 DEF RegistryNext, CreateDataset
<1>2. RegistrySpec => []RegInv
  BY RegistryInvariant
<1> QED
  BY <1>1, <1>2, PTL DEF RegistrySpec, LegalTransitions

\* A version's number, a session's blob and initiating version and what an
\* idempotency key is bound to never change once they are there.
THEOREM IdentitiesArePermanent == RegistrySpec => IdentityIsPermanent
<1> DEFINE NumbersStay == \A v \in Versions : vState[v] # "ABSENT" => vNumber'[v] = vNumber[v]
           RowsStay == \A i \in SessionIds : session[i].state # "ABSENT" =>
                         /\ session'[i].blob = session[i].blob
                         /\ session'[i].version = session[i].version
           DsKeysStay == \A k \in DatasetKeys : dsKey[k] # None => dsKey'[k] = dsKey[k]
           VerKeysStay == \A k \in VersionKeys : verKey[k] # None => verKey'[k] = verKey[k]
           UpKeysStay == \A k \in UploadKeys : upKey[k] # None => upKey'[k] = upKey[k]
           Permanent == NumbersStay /\ RowsStay /\ DsKeysStay /\ VerKeysStay /\ UpKeysStay
<1>1. RegInv /\ [RegistryNext]_regVars => [Permanent]_regVars
  <2> SUFFICES ASSUME TypeOK, SessionTable, RegistryNext PROVE Permanent
    BY DEF RegInv
  <2>1. RowsStay
    <3> SUFFICES ASSUME NEW i \in SessionIds, session[i].state # "ABSENT"
                 PROVE  session'[i].blob = session[i].blob /\ session'[i].version = session[i].version
      OBVIOUS
    <3>1. i # nextId
      <4>1. CASE i = nextId
        BY <4>1, MaxSessionsAssumption DEF SessionTable, NoSession, SessionIds
      <4> QED
        BY <4>1
    <3> QED
      BY <3>1, SessionsStay
  <2>2. UNCHANGED identityVars => NumbersStay /\ DsKeysStay /\ VerKeysStay
    BY DEF identityVars
  <2>3. UNCHANGED upKey => UpKeysStay
    OBVIOUS
  <2>4. ASSUME NEW k \in UploadKeys, NEW v \in Versions, NEW b \in Blobs, NEW i,
               upKey[k] = None, Bind(k, v, b, i)
        PROVE  UpKeysStay
    BY <2>4 DEF Bind, TypeOK
  <2>5. ASSUME NEW k \in DatasetKeys, NEW d \in Datasets, CreateDataset(k, d)
        PROVE  NumbersStay /\ DsKeysStay /\ VerKeysStay /\ UpKeysStay
    BY <2>5 DEF CreateDataset, TypeOK
  <2>6. ASSUME NEW k \in VersionKeys, NEW v \in Versions, RegisterVersion(k, v)
        PROVE  NumbersStay /\ DsKeysStay /\ VerKeysStay /\ UpKeysStay
    <3>1. NumbersStay
      BY <2>6 DEF RegisterVersion, SealVersion, TypeOK
    <3>2. VerKeysStay
      BY <2>6 DEF RegisterVersion, CanRegister, TypeOK
    <3> QED
      BY <2>3, <2>6, <3>1, <3>2 DEF RegisterVersion
  <2>7. ASSUME NEW k \in UploadKeys, NEW v \in Versions, NEW b \in Blobs,
               PrepareUpload(k, v, b) \/ RestartFailedUpload(k, v, b)
        PROVE  UNCHANGED identityVars /\ UpKeysStay
    <3>1. UNCHANGED identityVars
      BY <2>7 DEF PrepareUpload, RestartFailedUpload
    <3>2. UNCHANGED upKey \/ (upKey[k] = None /\ \E i : Bind(k, v, b, i))
      BY <2>7 DEF PrepareUpload, RestartFailedUpload, ReuseAvailable, ReplayUpload, JoinActive,
                  OpenFirst, FallBackOnLatest
    <3> QED
      BY <2>3, <2>4, <3>1, <3>2
  <2>8. ASSUME NEW i \in SessionIds,
               MarkUploadInProgress(i) \/ MarkUploadVerified(i) \/ MarkUploadFailed(i)
        PROVE  UNCHANGED <<identityVars, upKey>>
    BY <2>8 DEF MarkUploadInProgress, MarkUploadVerified, MarkUploadFailed
  <2>9. ASSUME NEW v \in Versions, FinalizeVersion(v)
        PROVE  UNCHANGED <<identityVars, upKey>>
    BY <2>9 DEF FinalizeVersion
  <2> QED
    BY <2>1, <2>2, <2>3, <2>5, <2>6, <2>7, <2>8, <2>9 DEF RegistryNext
<1>2. RegistrySpec => []RegInv
  BY RegistryInvariant
<1> QED
  BY <1>1, <1>2, PTL DEF RegistrySpec, IdentityIsPermanent
=============================================================================
