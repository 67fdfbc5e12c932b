------------------------------ MODULE Fencing ------------------------------
(***************************************************************************)
(* The lease fences of the multipart transactions, one SQL statement or    *)
(* lock wait at a time, under PostgreSQL's READ COMMITTED.  Multipart      *)
(* treats a transaction as one step; here a transaction reads committed    *)
(* rows as each of its statements starts, waits for row and advisory       *)
(* locks, and publishes its writes when it commits.                        *)
(*                                                                         *)
(* A session row is locked by a transaction that is "locked" or "written", *)
(* a completion lease row by one that has written it.  An UPDATE evaluates *)
(* its WHERE before it waits for the row, and again only if the row it     *)
(* waited for was changed meanwhile, then with the lease it saw first and  *)
(* the clock of now.  FOR UPDATE alone does not change a row.              *)
(*                                                                         *)
(* A lease is kept as the ticks left of it, its expires_at less the clock. *)
(* Every grant makes a new owner id, so an epoch names its owner; any      *)
(* epoch ever granted may be presented again.                              *)
(***************************************************************************)
EXTENDS Integers, FiniteSets

CONSTANTS
    Sessions,            \* multipart upload_sessions rows
    Txns,                \* database connections, one transaction at a time each
    AdmissionCapacity,   \* the capacity given to acquire_multipart_lease
    CompletionCapacity,  \* ... and to claim_completion
    Ttl,                 \* the lease time of both leases, in clock ticks
    MaxEpoch,            \* bound on the epochs of a lease
    None

ASSUME FencingCapacity == AdmissionCapacity \in Nat \ {0} /\ CompletionCapacity \in Nat \ {0}
ASSUME FencingBounds == Ttl \in Nat \ {0} /\ MaxEpoch \in Nat \ {0}
ASSUME FencingSessions == IsFiniteSet(Sessions) /\ None \notin Sessions

VARIABLES
    state,       \* upload_sessions.state, committed
    admission,   \* multipart_admission_leases, committed; epoch 0: no row
    completion,  \* multipart_completion_leases, committed; epoch 0: no row
    txn          \* the transaction of each connection

fVars == <<state, admission, completion, txn>>

\* UPLOAD: CREATED, INITIATING or IN_PROGRESS.  TERMINAL: COMPLETED or FAILED.
States == {"UPLOAD", "COMPLETING", "TERMINAL"}
Leases == [epoch : 0..MaxEpoch, left : 0..Ttl]
Ops == {"upload", "ambiguous", "acquire", "accept", "claim", "renew", "phase", "settle"}

\* `left`: what remains of the lease the transaction will write, from its own
\* clock_timestamp() on, or of the lease that the fence of a waiting UPDATE
\* saw; `changed`: the row it waits for was changed; `into`: the state it writes.
Idle == [op |-> "none", at |-> "idle", s |-> None, epoch |-> 0, left |-> 0,
         changed |-> FALSE, into |-> "UPLOAD"]
Transactions ==
    [op : Ops, at : {"queued", "waiting", "locked", "written"}, s : Sessions \cup {None},
     epoch : 0..MaxEpoch, left : 0..Ttl, changed : BOOLEAN, into : States]

\* expires_at > clock_timestamp().
Live(lease) == lease.left > 0
Fenced(lease, e) == Live(lease) /\ lease.epoch = e
Aged(r) == [r EXCEPT !.left = IF @ > 0 THEN @ - 1 ELSE 0]
LiveAdmissions == {s \in Sessions : Live(admission[s])}
LiveCompletions == {s \in Sessions : Live(completion[s])}

HoldsSession(t, s) ==
    txn[t].s = s /\ txn[t].op # "renew" /\ txn[t].at \in {"locked", "written"}
SessionFree(s) == \A t \in Txns : ~HoldsSession(t, s)
CompletionFree(s) ==
    \A t \in Txns : ~(txn[t].s = s /\ txn[t].at = "written"
                      /\ txn[t].op \in {"claim", "renew", "settle"})
\* pg_advisory_xact_lock, held from the first statement to the commit.
AdvisoryFree(op) == \A t \in Txns : txn[t].op # op

Starts(t, op, at, s) ==
    /\ txn[t] = Idle
    /\ txn' = [txn EXCEPT ![t] = [Idle EXCEPT !.op = op, !.at = at, !.s = s]]
    /\ UNCHANGED <<state, admission, completion>>

\* A commit that changed row s of upload_sessions: the UPDATEs waiting for that
\* row will evaluate their WHERE again.
CommitsSession(t, s) ==
    txn' = [u \in Txns |-> IF u = t THEN Idle
                           ELSE IF txn[u].at = "waiting" /\ txn[u].s = s
                                THEN [txn[u] EXCEPT !.changed = TRUE] ELSE txn[u]]
\* A commit that only locked it.
CommitsLease(t) == txn' = [txn EXCEPT ![t] = Idle]

Init ==
    /\ state = [s \in Sessions |-> "UPLOAD"]
    /\ admission = [s \in Sessions |-> [epoch |-> 0, left |-> 0]]
    /\ completion = [s \in Sessions |-> [epoch |-> 0, left |-> 0]]
    /\ txn = [t \in Txns |-> Idle]

-----------------------------------------------------------------------------
(***************************************************************************)
(* The upload writes: one UPDATE upload_sessions ... WHERE state AND       *)
(* EXISTS (current lease).  mark_multipart_initiation_ambiguous goes on to *)
(* end the lease by owner and epoch, and raises if that changes no row.    *)
(***************************************************************************)

EvaluateFence(t, op, s, e) ==
    /\ txn[t] = Idle
    /\ state[s] = "UPLOAD"
    /\ Fenced(admission[s], e)
    /\ txn' = [txn EXCEPT ![t] = [Idle EXCEPT !.op = op, !.at = "waiting", !.s = s,
                                              !.epoch = e, !.left = admission[s].left]]
    /\ UNCHANGED <<state, admission, completion>>

\* A WHERE without the state.
FenceIgnoresState(t) == txn[t].changed => txn[t].left > 0

\* The WHERE of the waiting UPDATE once it has the row.
FenceStillHolds(t) ==
    txn[t].changed => state[txn[t].s] = "UPLOAD" /\ txn[t].left > 0

UploadWrites(t) ==
    /\ txn[t].op \in {"upload", "ambiguous"} /\ txn[t].at = "waiting"
    /\ SessionFree(txn[t].s)
    /\ FenceStillHolds(t)
    /\ txn[t].op = "ambiguous" => admission[txn[t].s].epoch = txn[t].epoch
    /\ txn' = [txn EXCEPT ![t] = [@ EXCEPT !.at = "written", !.left = 0, !.changed = FALSE,
                                 !.into = IF txn[t].op = "upload" THEN "UPLOAD" ELSE "TERMINAL"]]
    /\ UNCHANGED <<state, admission, completion>>

CommitUpload(t) ==
    LET s == txn[t].s IN
    /\ txn[t].op \in {"upload", "ambiguous"} /\ txn[t].at = "written"
    /\ state' = [state EXCEPT ![s] = txn[t].into]
    /\ admission' = IF txn[t].op = "ambiguous"
                    THEN [admission EXCEPT ![s].left = 0] ELSE admission
    /\ CommitsSession(t, s)
    /\ UNCHANGED completion

-----------------------------------------------------------------------------
(***************************************************************************)
(* acquire_multipart_lease: advisory lock, session row, clock, lease row.  *)
(* Whether the caller's invocation is the lease's is a choice.             *)
(***************************************************************************)

\* Without pg_advisory_xact_lock.
StartAcquireUnserialized(t, s) == Starts(t, "acquire", "queued", s)

StartAcquire(t, s) == AdvisoryFree("acquire") /\ Starts(t, "acquire", "queued", s)

LockForAcquire(t) ==
    /\ txn[t].op = "acquire" /\ txn[t].at = "queued"
    /\ SessionFree(txn[t].s)
    /\ state[txn[t].s] = "UPLOAD"
    /\ txn' = [txn EXCEPT ![t].at = "locked"]
    /\ UNCHANGED <<state, admission, completion>>

\* Renews its own live lease, or takes over an expired one if the pool has room.
GrantAdmission(t) ==
    LET lease == admission[txn[t].s] IN
    /\ txn[t].op = "acquire" /\ txn[t].at = "locked"
    /\ \/ Live(lease) /\ txn' = [txn EXCEPT ![t] = [@ EXCEPT !.at = "written",
                                                      !.epoch = lease.epoch, !.left = Ttl]]
       \/ /\ ~Live(lease)
          /\ Cardinality(LiveAdmissions) < AdmissionCapacity
          /\ lease.epoch < MaxEpoch
          /\ txn' = [txn EXCEPT ![t] = [@ EXCEPT !.at = "written",
                                                 !.epoch = lease.epoch + 1, !.left = Ttl]]
    /\ UNCHANGED <<state, admission, completion>>

CommitAcquire(t) ==
    /\ txn[t].op = "acquire" /\ txn[t].at = "written"
    /\ admission' = [admission EXCEPT ![txn[t].s] =
                       [epoch |-> txn[t].epoch, left |-> txn[t].left]]
    /\ CommitsLease(t)
    /\ UNCHANGED <<state, completion>>

\* release_multipart_lease: one UPDATE of the lease row, which evaluates owner,
\* epoch and expiry on the row it finally locks.
ReleaseAdmission(s, e) ==
    /\ Fenced(admission[s], e)
    /\ \A t \in Txns : ~(txn[t].s = s /\ txn[t].at = "written"
                         /\ txn[t].op \in {"acquire", "accept", "ambiguous"})
    /\ admission' = [admission EXCEPT ![s].left = 0]
    /\ UNCHANGED <<state, completion, txn>>

-----------------------------------------------------------------------------
(***************************************************************************)
(* accept_completion: the session row first, then the lease, read by a     *)
(* statement that starts with the row already locked.                      *)
(***************************************************************************)

LockForAccept(t, s, e) ==
    /\ txn[t] = Idle
    /\ SessionFree(s)
    /\ txn' = [txn EXCEPT ![t] = [Idle EXCEPT !.op = "accept", !.at = "locked", !.s = s,
                                              !.epoch = e]]
    /\ UNCHANGED <<state, admission, completion>>

AcceptWrites(t) ==
    /\ txn[t].op = "accept" /\ txn[t].at = "locked"
    /\ state[txn[t].s] = "UPLOAD"
    /\ Fenced(admission[txn[t].s], txn[t].epoch)
    /\ txn' = [txn EXCEPT ![t].at = "written"]
    /\ UNCHANGED <<state, admission, completion>>

CommitAccept(t) ==
    LET s == txn[t].s IN
    /\ txn[t].op = "accept" /\ txn[t].at = "written"
    /\ state' = [state EXCEPT ![s] = "COMPLETING"]
    /\ admission' = [admission EXCEPT ![s].left = 0]
    /\ CommitsSession(t, s)
    /\ UNCHANGED completion

-----------------------------------------------------------------------------
(***************************************************************************)
(* claim_completion and renew_completion_lease.                            *)
(***************************************************************************)

StartClaim(t) == AdvisoryFree("claim") /\ Starts(t, "claim", "queued", None)

\* FOR UPDATE SKIP LOCKED: a free session whose committed lease is missing or
\* expired at the transaction's clock, if the committed leases leave room.
SelectClaim(t, s) ==
    /\ txn[t].op = "claim" /\ txn[t].at = "queued"
    /\ Cardinality(LiveCompletions) < CompletionCapacity
    /\ state[s] = "COMPLETING"
    /\ ~Live(completion[s])
    /\ SessionFree(s)
    /\ txn' = [txn EXCEPT ![t] = [@ EXCEPT !.at = "locked", !.s = s, !.left = Ttl]]
    /\ UNCHANGED <<state, admission, completion>>

\* A claim without the trigger of the lease table.
ClaimWritesUnguarded(t) ==
    LET lease == completion[txn[t].s] IN
    /\ txn[t].op = "claim" /\ txn[t].at = "locked"
    /\ CompletionFree(txn[t].s)
    /\ lease.epoch < MaxEpoch
    /\ txn' = [txn EXCEPT ![t] = [@ EXCEPT !.at = "written", !.epoch = lease.epoch + 1]]
    /\ UNCHANGED <<state, admission, completion>>

\* The lease row may have been renewed since it was counted as expired: the
\* trigger robolake_guard_completion_lease refuses to take over a live lease.
ClaimWrites(t) ==
    LET lease == completion[txn[t].s] IN
    /\ txn[t].op = "claim" /\ txn[t].at = "locked"
    /\ CompletionFree(txn[t].s)
    /\ ~Live(lease)
    /\ lease.epoch < MaxEpoch
    /\ txn' = [txn EXCEPT ![t] = [@ EXCEPT !.at = "written", !.epoch = lease.epoch + 1]]
    /\ UNCHANGED <<state, admission, completion>>

CommitClaim(t) ==
    /\ txn[t].op = "claim" /\ txn[t].at = "written"
    /\ completion' = [completion EXCEPT ![txn[t].s] =
                        [epoch |-> txn[t].epoch, left |-> txn[t].left]]
    /\ CommitsLease(t)
    /\ UNCHANGED <<state, admission>>

\* One UPDATE of the lease row under neither the advisory nor the session lock.
RenewWrites(t, s, e) ==
    /\ txn[t] = Idle
    /\ Fenced(completion[s], e)
    /\ CompletionFree(s)
    /\ txn' = [txn EXCEPT ![t] = [Idle EXCEPT !.op = "renew", !.at = "written", !.s = s,
                                              !.epoch = e, !.left = Ttl]]
    /\ UNCHANGED <<state, admission, completion>>

\* A renewal that extends the old expiry.
CommitRenewFromExpiry(t) ==
    /\ txn[t].op = "renew" /\ txn[t].at = "written"
    /\ completion' = [completion EXCEPT ![txn[t].s].left = @ + txn[t].left]
    /\ CommitsLease(t)
    /\ UNCHANGED <<state, admission>>

CommitRenew(t) ==
    /\ txn[t].op = "renew" /\ txn[t].at = "written"
    /\ completion' = [completion EXCEPT ![txn[t].s].left = txn[t].left]
    /\ CommitsLease(t)
    /\ UNCHANGED <<state, admission>>

-----------------------------------------------------------------------------
(***************************************************************************)
(* The completion writes lock the session row first.  set_completion_phase *)
(* then fences its UPDATE; recover_partial_completion and                  *)
(* record_verified_completion lock and check the lease row, and end the    *)
(* lease when they leave COMPLETING.                                       *)
(***************************************************************************)

LockForCompletion(t, op, s, e) ==
    /\ txn[t] = Idle
    /\ state[s] = "COMPLETING"
    /\ SessionFree(s)
    /\ txn' = [txn EXCEPT ![t] = [Idle EXCEPT !.op = op, !.at = "locked", !.s = s,
                                              !.epoch = e]]
    /\ UNCHANGED <<state, admission, completion>>

CompletionWrites(t, into) ==
    LET s == txn[t].s IN
    /\ txn[t].op \in {"phase", "settle"} /\ txn[t].at = "locked"
    /\ txn[t].op = "phase" => into = "COMPLETING"
    /\ txn[t].op = "settle" => CompletionFree(s)
    /\ Fenced(completion[s], txn[t].epoch)
    /\ txn' = [txn EXCEPT ![t] = [@ EXCEPT !.at = "written", !.into = into]]
    /\ UNCHANGED <<state, admission, completion>>

CommitCompletion(t) ==
    LET s == txn[t].s IN
    /\ txn[t].op \in {"phase", "settle"} /\ txn[t].at = "written"
    /\ state' = [state EXCEPT ![s] = txn[t].into]
    /\ completion' = IF txn[t].into = "COMPLETING" THEN completion
                     ELSE [completion EXCEPT ![s].left = 0]
    /\ CommitsSession(t, s)
    /\ UNCHANGED admission

-----------------------------------------------------------------------------
\* An exception, a refused fence, a lost connection or a dead process.
Rollback(t) ==
    /\ txn[t] # Idle
    /\ txn' = [txn EXCEPT ![t] = Idle]
    /\ UNCHANGED <<state, admission, completion>>

\* Time passes for every lease, written or about to be.
Tick ==
    /\ admission' = [s \in Sessions |-> Aged(admission[s])]
    /\ completion' = [s \in Sessions |-> Aged(completion[s])]
    /\ txn' = [t \in Txns |-> Aged(txn[t])]
    /\ UNCHANGED state

Begin(t) ==
    /\ txn[t] = Idle
    /\ \/ StartClaim(t)
       \/ \E s \in Sessions :
           \/ StartAcquire(t, s)
           \/ \E e \in 1..admission[s].epoch :
               \/ EvaluateFence(t, "upload", s, e)
               \/ EvaluateFence(t, "ambiguous", s, e)
               \/ LockForAccept(t, s, e)
           \/ \E e \in 1..completion[s].epoch :
               \/ RenewWrites(t, s, e)
               \/ LockForCompletion(t, "phase", s, e)
               \/ LockForCompletion(t, "settle", s, e)

Proceed(t) ==
    \/ UploadWrites(t)
    \/ LockForAcquire(t)
    \/ GrantAdmission(t)
    \/ AcceptWrites(t)
    \/ \E s \in Sessions : SelectClaim(t, s)
    \/ ClaimWrites(t)
    \/ \E into \in States : CompletionWrites(t, into)

Commit(t) ==
    \/ CommitUpload(t)
    \/ CommitAcquire(t)
    \/ CommitAccept(t)
    \/ CommitClaim(t)
    \/ CommitRenew(t)
    \/ CommitCompletion(t)

Next ==
    \/ \E t \in Txns : Begin(t) \/ Proceed(t) \/ Commit(t) \/ Rollback(t)
    \/ \E s \in Sessions : \E e \in 1..admission[s].epoch : ReleaseAdmission(s, e)
    \/ Tick

Spec == Init /\ [][Next]_fVars

-----------------------------------------------------------------------------
(***************************************************************************)
(* Properties.                                                             *)
(***************************************************************************)

\* No lease outlives its ttl, and only waiting statements see changed rows.
FencingTypeOK ==
    /\ state \in [Sessions -> States]
    /\ admission \in [Sessions -> Leases]
    /\ completion \in [Sessions -> Leases]
    /\ txn \in [Txns -> Transactions \cup {Idle}]
    /\ \A t \in Txns : txn[t].changed => txn[t].at = "waiting"

Wrote(t, ops) == txn[t].op \in ops /\ txn[t].at = "written"

\* What a write that waited for its session row finds there is checked before it
\* takes effect: a transaction that ends a session's upload phase or moves its
\* completion writes only under its lease's epoch, which nobody can take over
\* until it commits, and an upload write never lands on a session that an
\* acceptance or a terminal transaction left behind.
WritesMeetTheirSession ==
    \A t \in Txns :
        /\ Wrote(t, {"accept", "ambiguous"}) => admission[txn[t].s].epoch = txn[t].epoch
        /\ Wrote(t, {"phase", "settle"}) => completion[txn[t].s].epoch = txn[t].epoch
        /\ Wrote(t, {"upload", "ambiguous"}) => state[txn[t].s] = "UPLOAD"

\* Unexpired admission leases never exceed the capacity, however acquisitions,
\* takeovers and renewals of different sessions interleave: every extension
\* happens under the advisory lock that the count is taken under.
AdmissionPoolIsBounded == Cardinality(LiveAdmissions) <= AdmissionCapacity

\* Statement by statement, the transactions do to a lease what LeaseTokens
\* allows: no live lease is taken over, even by a claim that read it as expired
\* while its renewal was committing; a lease is granted, renewed and handed over
\* in the stage it serves only; and a hand-over ends it.
Table(k) == IF k = "admission" THEN admission ELSE completion
LeaseKeys == {"admission", "completion"} \X Sessions
LeaseEpochs == [l \in LeaseKeys |-> Table(l[1])[l[2]].epoch]
LiveLeases == {l \in LeaseKeys : Live(Table(l[1])[l[2]])}

Tokens == INSTANCE LeaseTokens WITH stage <- state, token <- LeaseEpochs, live <- LiveLeases

ImplementsLeaseTokens == Tokens!Spec

-----------------------------------------------------------------------------
(***************************************************************************)
(* What the documents say and the code does not keep.                      *)
(***************************************************************************)

\* "Stale upload owner mutates after takeover | Atomic repository predicate
\* affects zero rows": an upload write belongs to the current epoch.
UploadWritesAreFenced ==
    \A t \in Txns : Wrote(t, {"upload"}) => admission[txn[t].s].epoch = txn[t].epoch

\* "Only unexpired completion leases count against the separate completion
\* cap": no more of them are live than the cap.
CompletionPoolIsBounded == Cardinality(LiveCompletions) <= CompletionCapacity

\* How far it is exceeded: by at most one lease for each other connection, which
\* may be renewing a lease that the claim counted as expired.
CompletionOverrunIsBounded ==
    Cardinality(LiveCompletions) <= CompletionCapacity + Cardinality(Txns) - 1
=============================================================================
