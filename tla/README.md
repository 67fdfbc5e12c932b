# RoboLake in TLA+

RoboLake stores immutable, numbered versions of robotics datasets. A client scans a
directory into a canonical manifest, registers it as a version of a dataset, uploads the
content it references to a content-addressed object store, and asks the service to publish
the version (`READY`). Other clients pull a version back as a complete directory. State
lives in PostgreSQL (rows guarded by transactions, row locks and triggers) and in an
S3-like store (objects under keys derived from SHA-256); the API is stateless.

This directory holds a TLA+ model of that program, the TLC configurations that check it on
small instances, and proofs checked by TLAPS. Paths below are relative to the repository.

## Inventory

| Part | State it keeps | Operations | Hard behaviour | What makes it correct |
| --- | --- | --- | --- | --- |
| Registry store, M1 (`robolake/infrastructure/store.py:103-690`, migration 0002, `domain/lifecycle.py`) | datasets, versions, blobs, SINGLE_PUT upload sessions, idempotency records | create_dataset, register_version, prepare_upload, mark_upload_in_progress / verified / failed, restart_failed_upload, finalize_version | versions share blobs, so transactions of one version move what another depends on; keys are retried | READY versions are complete, one decisive attempt per blob, dense version numbers, keys that always answer the same, only legal lifecycle edges |
| Transfer service and push (`application/transfers.py`, `application/push.py`, `infrastructure/http_transfer.py`, `infrastructure/object_storage.py`) | a handler's or client's local variables; objects | prepare_upload, issue_upload_url, PUT, complete_upload, finalize | HEAD outside transactions, lost answers, late PUTs, killed processes, foreign objects and their repair | AVAILABLE means the right bytes are stored; pushes that are rerun publish |
| Multipart store, M2 (`store.py:691-1640`, migration 0003, `domain/multipart.py`, `domain/records.py`) | generation-numbered sessions, part receipts, admission leases, completion leases, idempotency records | resolve, acquire / release, initiation, record part, reconcile, accept, claim, phases, recover, verify | lease expiry and takeover, stale epochs, replays before fences, reopening, capacity pools | one owner per session, exclusive tokens, accepted parts stay verified, one decisive generation |
| Pull (`application/pull.py`, `infrastructure/atomic_tree.py`, `infrastructure/atomic_publish.py`, `transfers.py:181-255`) | a staging tree, an output path, a cursor | resolve, begin, prepare, plan, download, place, commit, abort | interrupts between any two steps, of `begin` and `abort` too, races for the output path, corrupt answers | outputs are complete trees, nothing is replaced, staging goes unless the cleanup itself is hit |
| Row locks and lease fences (the statements inside `store.py:814-1325`) | session rows, admission and completion leases, row and advisory locks | a transaction of READ COMMITTED, statement by statement | statements evaluated before a wait and executed after it, renewals beside counts | writes belong to the session they met, pools keep their capacity, tokens are granted one by one and never beside a live lease |
| Part planning (`domain/multipart.py:88-350`, SQL functions of migration 0003) | none | plan_multipart and its validation, the SQL validation of stored rows | provider limits, boundaries, two implementations | both accept exactly one plan; its parts tile the blob |
| Provider adapter (`infrastructure/multipart_storage.py`) | the loop variables of one call | create, presign, list (paged), complete, abort, inspect | lost answers, repeated requests, an upload that changes between two pages, wrong pages | a definite outcome is true; a listing is complete and ends |
| Scanner and verified re-read (`infrastructure/scanner.py`, `infrastructure/http_transfer.py:68-150`) | open files, digests under way | scan, put, rerun | files rewritten, cut or replaced at any moment, also within one tick of their mtime; PUTs that land late | entries are snapshots; no bytes under another digest; pushes that go on settle |
| Identifiers, manifests, HTTP routes and client, CLI, settings, probes, benchmark | none that outlives a call | | | |

Interactions: push and pull call the API over HTTP; the API's services call the store
(one transaction per call) and the object store (HEAD, GET, presigned URLs); the bytes go
directly between client and object store. M1 and M2 sessions share tables but never a
blob: the scanner refuses files above 5,000,000,000 bytes, and the trigger of migration
0003 requires more than that of a multipart blob. So the two are separate modules. No
service, route or runner calls the multipart transactions yet.

`PROJECT.json` lists every part, and under "hazards" what is hard to test in it.

## Modules

```
Registry ----------- RegistryProofs        PartPlan
   ^                      ^                   ^
SinglePut ---------- SinglePutProofs       Provider ---------- ProviderProofs
   ==> Publication
                                           Pull -------------- PullProofs
Multipart ---------- MultipartProofs
   ==> UploadOwnership                     Source ------------ SourceProofs

Fencing ------------ FencingProofs
   ==> LeaseTokens

              (^ and - EXTENDS, ==> implements, by refinement mapping)
```

Each of Registry, SinglePut, Multipart, Fencing, Provider, Pull and Source has an MC module.

**Registry.** One action per store transaction: `with self._sessions.begin()` is one step,
because each locks the rows its decision reads; a transaction that raises is rolled back
and is the absence of a step. `vState`, `vNumber`, `bState` and `session` are the tables,
`dsKey`, `verKey`, `upKey` the idempotency records by scope. A version is identified by
(dataset, manifest), which is the unique constraint of its table; a manifest by its digest;
a blob by its digest. `PrepareUpload` is the disjunction of the branches of
`prepare_upload` in the order of its early returns: reuse, replay of a key, join the active
session, open one for a PENDING blob, fall back on the newest. The `VERIFYING` values
written between two flushes of one transaction are never committed, so they appear only in
the edges `LegalTransitions` composes. Callers are unconstrained here.

**SinglePut** extends Registry with pushers, service handlers and the object store, and
restricts the callers to them. A service call is split wherever it leaves a transaction;
what it read before is kept in `ctx` and may be stale in the next step. A push key is a
digest of its request, modelled as the request itself. Objects are absent, good or bad;
RoboLake's PUT is create-only and bound to size and checksum, hence stores good bytes or
nothing. Faults: a PUT without answer whose request may still land (`late`), a 409, a
killed client or handler, a foreign object, an operator who removes it. One error needs no
fault: `mark_upload_verified` answers with the version that opened the session, and a push
that joined another version's session exits on it (`TakeAnswer`).
**Publication** is its abstract specification: bytes are stored, then attested, then
versions published, and nothing is ever withdrawn.

**Multipart** has one action per multipart transaction, with the conditions of the Python
code and of the row triggers. Lease time is abstracted to `live`; a lease may lapse between
any two transactions, a renewal changes nothing else. Tokens are epochs (the code also
compares an owner UUID that is drawn anew with each epoch). Callers are unconstrained: any
epoch ever granted, any ListParts answer (each part absent, mismatching, or right under
some ETag). Replays are steps that leave every variable alone. `attempted` is
`completion_attempted_at`, which no code writes.
**UploadOwnership** is its abstract specification: who may move a session.

**Fencing** is the level below Multipart: the same transactions, over two sessions and
three connections, split where PostgreSQL may run another one. A transaction holds row
locks and the advisory lock until it ends, and a statement that meets a lock waits.
`EvaluateFence` is the `EXISTS` of a fenced UPDATE, decided on the snapshot its statement
began with; `FenceStillHolds` is what PostgreSQL evaluates again once the wait is over, and
only if the session row itself was changed meanwhile. Time is a countdown per lease
(`Aged`), since what matters is how a renewal's `clock_timestamp()` relates to expiry and to
a concurrent count. Everything a transaction does not hold across a wait is one step.
**LeaseTokens** is its abstract specification: what is left of UploadOwnership when
statements interleave. A grant is a new token and never beside a live lease; a lease is live
only in the stage it serves; a session leaves a stage only by a hand-over that ends the
lease. It differs from UploadOwnership in that a lease may lapse between the statement that
checks it and the commit. Neither of the two counts slots; how many leases are live is the
subject of `AdmissionPoolIsBounded`, `SlotsAreBounded` and the finding `pool_overrun`.

**Source** is the client between a file and its key: `scan` (open, fstat, read, fstat) and
the re-read of `put`, which hashes the bytes as it streams them. A file is a content of one
or two chunks, an inode and an mtime; a program changes it at any step and the mtime may
stay in its tick. A read takes what is there in one step or in two with changes between. The
store enforces the signed checksum or not (`Takes`). `sizes` is `size_bytes` of the blob
rows, with which a registration must agree.

**PartPlan** has the arithmetic: `SelectPartSize`, the ranges, the client's validation and
the SQL validation of stored rows, each as its own definition with the limits as constants.
The loop that doubles the part size is the same in Python and in SQL and is one definition
here, so the two agree on the part size by construction; what `PlansAgree` compares is the
ranges and what either validation accepts.
**Provider** extends it with one adapter call at a time, as requests, answers and outcomes,
against a provider (external) that others use at the same time. A request that gets no
answer is sent again, executed or not. `since` is an observer: what the upload held all
along, and at some time, during a listing. `misled` marks a listing to which the provider
gave a page of its own invention.

**Pull** has pullers that stage, plan, stream, place and commit; outputs may be created and
removed by other programs. `begin` is two steps, since the directory exists (`MakeStaging`)
before `abort` can find it (`RecordStaging`). An interrupt or error runs `abort`, which
removes the staging tree or is itself cut short, by a path it refuses, an entry it cannot
remove, a second interrupt or a kill, and then leaves any part of it (`AbortCut`). Before the
directory is recorded `abort` returns at once (`InterruptUnrecorded`); a kill runs nothing.
`cut` is an observer of these three cases. A rerun stages under a name of its own, so what
an earlier run left is forgotten when the next begins.

**The MC modules** define the values of constants and the
symmetry sets of the configurations. Operators named after a bug (`FinalizeTrusting`,
`GrantAdmissionSameEpoch`, ...) are mutated forms of the operator that follows them; they
are used by nothing and show that each property can fail.

## Runs

| Run | Shows | Bounds |
| --- | --- | --- |
| `registry` | lifecycle, numbering, key and attempt invariants of the transactions in every order (34,540 states) | 2 datasets, 2 manifests sharing a blob, 3 upload keys, 3 sessions |
| `singleput` | stored bytes behind every AVAILABLE blob, truth of what clients believe, refinement of Publication; every push publishes when rerun (891,460 states) | 2 pushers of versions sharing a blob, 1 fault, 2 poisoned objects |
| `multipart` | generations, ownership, receipts, token exclusivity, immutability, refinement of UploadOwnership (146,125 states) | 1 blob, 2 parts, 2 generations, 2 upload grants, 2 claims, 2 ETags |
| `fencing` | writes of a fenced transaction meet the session they belong to; admission keeps its capacity; refinement of LeaseTokens (3,361,218 states) | 2 sessions, 3 connections, leases of 2 ticks, 2 epochs, pools of 1 |
| `source` | a manifest's entries are snapshots, no key gets other bytes, pushes settle although files change (1,283,151 states) | 2 files, 2 events (a change, a lost answer, a conflict or another push) |
| `provider` | stored rows are the plan; outcomes and listings are true; the object is final; listings end (520,705 states) | 1 upload, part sizes 2 to 5, 2 parts, blobs of up to 8, 2 ETags, pages of 1, 2 tries |
| `pull` | complete outputs, no replacement, staging gone unless the cleanup was hit (473,408 states) | 2 pulls to one output (3 files, 1 file), one of an empty version |
| `repair_stuck`, `mismatch_lost`, `fresh_receipt`, `stale_fence`, `pool_overrun` | disagreements between documents and code, below | smallest that show them |

Why the bounds are enough: two versions, two blobs and one shared blob give every case of
"mine, shared, other's". Three sessions allow a failed, a restarted and another attempt;
the third key is needed to fall back on a terminal session. Two generations show
a successor of each terminal outcome; two grants and two claims show a takeover while the
first owner still calls and replays. One fault is enough to separate "acted" from "was
told"; pools of one make two sessions compete, and the third connection is the one that
takes over or counts while two others wait. Leases of two ticks can be renewed in the middle
and expire while a statement waits. Two changes of a file give "changed and changed back",
two files a shared digest and a tree of which one file is scanned before, one after a
change. A blob of 8 in parts of 5 (or of 4, the least that fits in two) reaches every limit
of the plan at once; pages of one part put a change between any two parts. `MaxSessions`,
`MaxClaims`, `MaxEpoch`, `MaxEvents`, `MaxUploads`, `MaxTries`, `MaxFaults`, `MaxPoison`,
`Ttl` and the sets of keys are the only bounds.

CHECK_DEADLOCK is off in `source` only, whose pushes end; elsewhere replays, reruns and
expiry are always possible. Symmetry is used on keys, invocations, connections, ETags and
datasets only, and never with liveness.

**Fairness.** `FairSpec` of SinglePut: weak fairness of each pusher's step (a handler runs
to its end; a user reruns a push that failed, as its error message asks) and of the
operator's removal. Faults, late PUTs and poison are never forced. `PushesPublish` excepts
poisoned objects, since mismatches are documented to stop. A push that `TakeAnswer` ends
is rerun like any other, although its message does not ask for it, finds its blob AVAILABLE
and publishes. `FairSpec` of Source: weak fairness of the push's
own steps, its rerun included; changes of files, faults and late requests are never forced,
and their number is bounded, so the source does stop changing. `FairSpec` of Provider: every
request is answered or given up, because botocore has read timeouts and a limit of attempts,
and every answer is read, because the adapter is sequential code; no particular answer is
forced. Multipart and Fencing have no fairness: nothing in the repository calls those
transactions periodically yet, so no liveness is claimed.

## Findings

1. `repair_stuck`: after the repair ADR 0007 describes, a rerun never publishes.
   `prepare_upload` has bound the key to the FAILED session, and `restart_failed_upload` is
   given the same key and replays it (`application/transfers.py:70-80`).
2. `mismatch_lost`: a second mismatch of a version that already failed is refused, hence
   not recorded (`store.py:540`).
3. `fresh_receipt`: a part that reconciliation reset keeps its old receipt and refuses the
   fresh one that rows 5 and 20 of the reconciliation matrix ask for (`store.py:1029`).
4. `stale_fence`: a fenced upload UPDATE that waits for its session row behind
   `acquire_multipart_lease` commits after the takeover. Its `EXISTS` was decided on the
   statement's snapshot, and PostgreSQL evaluates it again only if the session row itself
   was changed, which a takeover does not do (`store.py:995`). What still holds, and
   `WritesMeetTheirSession` states, is that such a write never lands on a session that
   acceptance or a terminal transaction left behind, and that the transactions which end
   the upload phase are fenced.
5. `pool_overrun`: `renew_completion_lease` takes no advisory lock, so a renewal committing
   beside another claim's count makes more live completion leases than the capacity
   (`store.py:1300`). The excess does not add up over time: it is at most the number of
   connections less one (theorem `OverrunsAreBounded`).

Noted without a run of their own:

- A push that joined the upload session of another version sharing the blob, or fell back on
  it, exits with ManifestMismatchError ("DatasetVersion manifest identity changed during
  push.") right after its object was verified and attested, without any fault: two concurrent
  pushes are enough. `mark_upload_verified` answers with the version that opened the session
  (`store.py:493`, `500`, `518`), and `push.py:87` and `:115` compare that version's manifest
  with the push's own. The docstring of the error (`domain/errors.py:75`) speaks of invalid or
  non-canonical manifests. The exit is `TakeAnswer` of SinglePut; a rerun finds the blob
  AVAILABLE and publishes (`PushesPublish`).
- An interrupt or an error between `os.mkdir` and the lines that record the staging directory
  (`atomic_tree.py:69-74`), or in `abort` (`:145-156`), leaves a hidden staging directory
  beside the output. `docs/superpowers/specs/2026-07-11-m1-vertical-slice-design.md:429-432`
  promises removal "best-effort" for handled failures, so this is not counted as a
  disagreement; `StagingIsAccounted` names these cases and allows no other.
- Two completion phase edges of the domain rule, PENDING to FINAL_PRESENT and ASSEMBLING to
  PENDING (`domain/multipart.py`, drawn in `docs/M2_STATE_MACHINES.md`), can never pass the
  row trigger, which looks at a column no code writes (`store.py:1349`).
- PARTS_PARTIAL reopens a session with no matching part at all (`store.py:1465`), against
  fact 5 of the guarded recovery.
- `scan` takes an entry's size from the first fstat and its digest from the bytes it read.
  Two changes of a file within one tick of its mtime can register a digest with a size that
  is not that of its bytes; every later version with those bytes then conflicts
  (`scanner.py:162-187`). `PushesSettle` excepts this case and no other.
- `docs/M2_FAILURE_AND_RECONCILIATION_MATRIX.md:68` says of a create without answer "Never
  repeat Create in that generation". The S3 client repeats it by botocore's default before
  the adapter reports it ambiguous, since `create_s3_client` sets no retry mode.

## Proofs

Every invariant and every action property of the passing runs is proved, and so is every
refinement. Some theorems state more than a run's property list does: `CallsAreBounded` and
`CallsRunDown` (Provider), `SlotsAreBounded` (Multipart), `DoneIsPublished` (Source),
`CompletionOverrunIsBounded` (Fencing), and what the abstract specifications entail
(`PublishedIsStored`, `NothingIsWithdrawn`, `TokensGrantedOnce`, `StagesEndTheirLease`).
They are defined in the modules they speak of and need no run of their own.

`RegistryProofs` proves, for all sets of datasets, manifests, blobs and keys, any content
map and any number of sessions, from the assumptions `ContentAssumption`,
`MaxSessionsAssumption` and `NoneAssumption` (NULL is not a value), every property of the
`registry` run: the inductive invariant `RegInv`, from it `TypeOK`, `ReadyIsComplete`,
`NewestAttemptDecides`, `NumbersAreDense`, `KeysAnswerTheirBlob` and the action properties
`LegalTransitions` and `IdentityIsPermanent`, and inductively beside it
`VersionsAgreeWithSessions` and `FailureIsExplained`.

The argument. None of these is inductive alone. `ReadyIsComplete` needs that an AVAILABLE
blob never leaves that state: `MarkUploadVerified/Failed` act on an IN_PROGRESS session, so
one needs that a blob with such a session is UPLOADING, which is `NewestAttemptDecides`.
That in turn needs the shape of the session table (`SessionTable`: rows are exactly those
below `nextId`, each with a blob its version references), and that a restart or a first
open meets only FAILED sessions. `NumbersAreDense` stands by itself with typing.
`KeysAnswerTheirBlob` uses that the newest session of a blob is one of its sessions; as
`LatestOf` is a `Max`, `MaxOfBounded` proves from well-foundedness of the naturals that a
bounded non-empty set has its greatest element. `VersionsAgreeWithSessions` needs that
`finalize_version` meets no active session: its blobs are AVAILABLE, and by
`NewestAttemptDecides` an active session's blob is not. Each step lemma has one case per
action.

`PullProofs` proves all six properties of `Pull`, for any pulls, versions, file counts and
output paths, from `PullAssumption` (the constants' types) and `NoneAssumption` (NULL is
neither a cursor nor a staged tree). The output path alone is not inductive: a commit
publishes whatever is staged, so `Position` says of every pull that it has staged a
verified prefix of its manifest as long as its ordinal, that its version is READY, and that
it holds the cursor of the entry it is at (`CursorsFollow`: the service answers that cursor
with that entry and issues the next one, none at the last). A commit then finds the
complete version (`StagedIsComplete`), `StepOutput` says it is the only step of a pull that
changes an output path, and only an empty one. For `StagingIsAccounted`, a pull outside its
staging phases holds a tree only after `cut`; `HeldIsVerified` says of whatever it holds,
wherever it is, that its files are verified, `AbortPosition` covers every way to be stopped
and `CutPosition` an abort that removed any part of the tree.

`ProviderProofs` proves all safety properties of the `provider` run and the arithmetic
behind them, for all limits, blobs, row sets, page sizes, numbers of uploads and tries.
The limits satisfy `PartLimits` and `SomePartSizeFits` (some allowed part size covers the
largest blob in the allowed number of parts; true of the code's 64 MiB, 5 GiB and 10,000),
and `BlobsAssumption`, `RowsAssumption`, `ProviderBounds` and `ProviderNone` type the rest.

- *Plans.* `CeilDivBounds` and `FewerParts` say what a rounded-up quotient is and that it
  falls as the part size grows; `PartSizeIsLeast` takes the least part size that fits, which
  exists because the naturals are well founded. From the two, `PlanIsValid`: the plan
  passes the client's validation, so its rows tile the blob. `SqlAcceptsOnlyThePlan`: the
  SQL validation accepts the plan and nothing else; as it looks at the number of rows, their
  numbers and each row's range, the proof counts the rows to find that none is missing.
  `PlansAlwaysAgree` follows because `plan` never changes.
- *Outcomes.* What an answer says must be true when it is read, steps after it was given.
  `OutcomeInv` says it of answers on their way and of outcomes alike; every fact it names
  (completed, aborted, gone, an object at the key) is one that no later step revokes
  (`SettledStays`, `ObjectStep`).
- *Listings.* `ListInv` says that the pages read so far show everything up to the marker
  that stayed, that a page on its way shows the rest or everything up to its next marker,
  and that `since` bounds what the upload holds now from both sides. `PageContents` proves
  it of a page when it is made: the first `PageSize` parts are downward closed, by
  cardinality of the parts before each.
- *Calls.* `CallsAlwaysRunDown`: each step of a call under way lowers `StepsLeft`, which is
  never above `2 * MaxTries * (MaxParts + 1)` (`CallsStayBounded`). A try that gets no answer
  uses up a try, and a page is followed by another request only if its marker moved on,
  which the adapter checks itself; so not even a provider that invents pages keeps a call
  going. This is the safety half of `ListingsEnd`, for every operation;
  that a request is answered or given up at all is fairness, and stays with TLC.

`SinglePutProofs` proves every safety property of the `singleput` run and the refinement of
Publication, for any pushers, jobs, faults and poison, from the registry's assumptions,
`JobAssumption` (a pusher's job is a version) and `PushKeysAssumption` (the keys of pushes
are keys of the registry).

- *Steps are transactions.* A push asks `restart_failed_upload` only with a key that
  `prepare_upload` has bound, so it is answered with a replay (`RestartReplays`), and every
  step is a step of Registry or leaves the tables alone (`StepsAreTransactions`). That is
  the refinement `PushesImplementRegistry`; `RegInv` and `VersionsAgreeWithSessions` hold
  of the whole system without another proof.
- *Stale contexts.* `PutInv` adds to those the types, `AvailableMeansStored`,
  `FailedAreBlocked` and, for each push, `PushHolds`: what its `pc` says of tables that
  others move while it is between two transactions. Each fact it names is one that no step
  takes back (`Permanent`: good bytes stay, AVAILABLE, FAILED and READY last, keys stay
  bound, sessions keep their blob), so a HEAD may be as old as it likes when `mark_upload_verified` commits.
  `ActorHolds` has one case per step of the push that moves, `OthersAreUntouched` covers
  the pushes that do not.
- *Refinement.* `PublicationStep`: a PUT or a foreign writer stores, verification attests
  stored bytes, `finalize_version` publishes what is attested, everything else stutters.
  What follows from Publication alone then holds of the program:
  `PublishedVersionsAreStored`, every byte of a READY version is at its key, and
  `NothingPublishedIsWithdrawn`, good bytes, AVAILABLE and READY are never taken back.

`MultipartProofs` proves all properties of the `multipart` run, for any blobs, parts,
numbers of sessions and claims and any capacities, from `MultipartBounds`,
`PartsAssumption`, `CapacityAssumption` and `NoneIsNoValue`.

- *Ownership and parts.* `MpInv` puts beside the properties the session table (rows are
  those below `nextId`), `TokensFollowLeases` (no token is younger than the epoch of its
  lease) and `GenerationsDiffer` (a blob's sessions have distinct generations).
- *Generations.* `CreateOrResolve` counts: the next generation is one more than the number
  of a blob's sessions (`NextIsOneMore`, from `MaxOfInterval`), an active session is the
  newest one (`ActiveIsNewest`), and a new one is opened only when all others are FAILED
  (`AttemptOpens`). So `NewestGenerationDecides` lasts for any number of generations.
- *History.* `HistoryStep` has one case per transaction, for the sessions it does not name
  and the one it does.
- *Refinement of UploadOwnership.* The mapping reads a session's stage off its state and
  its owner off its two leases (`Stages`, `Owners`); each transaction moves one session
  (`OneMoves`) or none (`NobodyMoves`).
- *Slots.* `SlotsStayBounded`: neither pool ever has more live leases than its capacity
  (`TakesASlot` and `SlotTaken` say that a transaction makes at most one lease live, and
  only into a free slot). This is what one transaction at a time promises; Fencing shows
  which half of it READ COMMITTED keeps.

`FencingProofs` proves all four properties of the `fencing` run, for any finite set of
sessions, any connections, capacities, lease times and epochs, from `FencingCapacity`,
`FencingBounds` and `FencingSessions` (finitely many sessions; NULL is none of them).

- *Statements.* The properties speak of what is committed, and a transaction acts on what
  it read, so `FenceInv` says what each may rely on between its statements: `Relies` (an
  UPDATE that waits for a row nobody changed still finds the state its `WHERE` saw; an
  acquisition that counted room finds it when it commits; a claim that wrote the lease row
  takes over one that is not live), `Shape` (where each kind of transaction can be) and
  `LocksHold` (no two transactions hold one row or advisory lock). `CommitOne` shows that a
  commit disturbs nobody else, because whatever others rely on is behind a lock that the
  committing transaction holds; `LeasesFade` that time only helps. The finding
  `stale_fence` marks the edge of it: an upload UPDATE relies on the state of its session,
  not on its epoch.
- *Tokens.* `TokenInv` adds what the refinement of LeaseTokens needs: a live lease serves
  the state its session is in, and `Expects` of each kind of transaction that what it has
  locked or written (`Holding`, `Written`) still carries the token it was fenced with. A
  session's state is its stage, the epochs of its two lease rows are the tokens, a lease is
  live while its countdown runs. Each commit is then one grant, renewal, hand-over or lapse;
  statements before it are stutters (`StepsRefine`). `LeaseTokens` proves for whoever
  implements it that leases are live only in their stage, that tokens are granted once and
  not beside a live lease, and that stages end their lease; `LiveLeasesKeepTheirOwner` and
  `MovedSessionsHaveNoLease` carry the last two over.
- *The overrun.* `OverrunsAreBounded`, for finitely many connections (not none): the live
  completion leases never exceed the capacity by more than the number of connections less
  one. `OverrunInv` bounds the sessions that are `Spoken` for: their lease is live, or a
  claim that has counted or a renewal that has written will make it so. What a claim's count
  misses is renewals under way, at most one for each other connection; a renewal itself
  adds nobody, since it was fenced on a lease that was live. So the excess does not
  accumulate: the next claim counts what was revived.

`SourceProofs` proves all safety properties of the `source` run, for any files, contents of
one or two chunks, changes, faults and reruns, from `SourceAssumption`, `SourceBounds`,
`TreesAssumption` and `SourceNone`. `HashOK` says, while a file is hashed, that the bytes
read so far are a prefix of what its inode holds, or that the inode shows that it was
changed: its mtime is above the one first seen, or two of its changes share it (`Tracks`).
Time never runs backwards and a change sets the mtime to now, so no later change hides an
earlier one (`WriterStep`); the second fstat of `scan` then rules out the first case. That
the clock ticks between two changes is exactly what is not promised, hence the exception.
For the store, `TakenBody` is the one place where an object appears: at a free key, with
the digest's bytes if the store compares.
`FinishedPushesArePublished` is what success of a push is worth: every file has an entry
whose exact bytes are stored under an AVAILABLE row, and whose size is theirs. The sizes
agree although `scan` takes them from the first fstat, even after two changes in one tick:
registration compares them with the rows, and `complete_upload` a row with the stored object
(`RowsPublish`), so a wrong size stops the push, and only success is claimed. `PublishInv`
carries entries and rows from the scan to the end. `SourceNone` asks that NULL is
neither a content nor a size.

Only model-checked: liveness under fairness (out of TLAPS's reach:
`PushesPublish`, `PushesSettle`, `ListingsEnd`). What they say about the end of a run is
proved as safety: a push that is done is published (`PushBeliefsHold`, `DoneIsPublished`),
and a call cannot take steps for ever (`CallsRunDown`).

## Not modelled

The order in which the M1 transactions take their row locks (two of them can deadlock;
PostgreSQL fails one, which Registry takes as a transaction that is no step); the same of
M2, where `create_or_resolve_multipart` locks the blob before the session and
`record_provider_upload` and `record_verified_completion` the session before the blob. A snapshot of
the whole source tree, which the program does not promise. Symbolic links, special files and
directory permissions, which scanner and tree writer refuse or preset. Value objects, HTTP
encoding and the text the CLI prints. Settings, health probes, the example data and the
benchmark, which keep no protocol state. In `create_dataset`, two first requests for one
name can both find no row and one fails on the unique name; a failed transaction is no step
here. A driver that runs the multipart transactions against the adapter does not exist in
the repository yet, so Multipart and Provider are not composed.

## Plan

1. **Registry** with **RegistryProofs**, **SinglePut** with **Publication** and
   **SinglePutProofs** - done.
2. **Pull** with **PullProofs**, **Multipart** with **UploadOwnership** and
   **MultipartProofs** - done.
3. **Fencing** with **LeaseTokens** and **FencingProofs**, **Source** with **SourceProofs** - done.
4. **PartPlan**, **Provider** with **ProviderProofs** - done.
5. An abstract specification of an output path (empty, then one complete tree of a READY
   version) that Pull implements.
6. When the repository has a driver of the multipart transactions: its composition with
   Multipart and Provider, and the liveness of completions under its schedule.
