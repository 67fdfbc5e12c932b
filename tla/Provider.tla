------------------------------ MODULE Provider ------------------------------
(***************************************************************************)
(* S3MultipartObjectStore: one call of the adapter at a time, as the       *)
(* requests it sends, the answers it gets or loses, and the outcome it     *)
(* reports, against a provider that others use at the same time: the CLI   *)
(* puts parts through presigned requests, other invocations and delayed    *)
(* requests complete and abort the same uploads, another push publishes    *)
(* the same key.                                                           *)
(*                                                                         *)
(* Everything concerns one key and one blob.  A part's bytes are their     *)
(* ETag.  The S3 client repeats a request that gets no answer or a 5xx,    *)
(* botocore's default here, as create_s3_client sets no retry mode.        *)
(***************************************************************************)
EXTENDS PartPlan

CONSTANTS
    Blobs,       \* sizes of the blob
    Rows,        \* part rows a client may have stored, by part number
    ETags,
    PageSize,    \* of ListParts
    MaxUploads,  \* bound on provider uploads
    MaxTries,    \* requests per operation
    None

ASSUME BlobsAssumption == Blobs \subseteq BlobSizes
ASSUME RowsAssumption ==
    \A rows \in Rows : /\ rows = [n \in DOMAIN rows |-> rows[n]]
                       /\ \A n \in DOMAIN rows : rows[n] \in [offset : Nat, size : Nat]
ASSUME ProviderBounds ==
    /\ PageSize \in Nat \ {0} /\ MaxUploads \in Nat \ {0} /\ MaxTries \in Nat \ {0}
ASSUME ProviderNone ==
    /\ None \notin ETags
    /\ None \notin [by : 0..MaxUploads,
                    parts : UNION {[S -> ETags] : S \in SUBSET (1..MaxParts)}]

VARIABLES
    blob, plan,  \* size and stored part rows, frozen
    upload,      \* the provider's multipart uploads of the key
    object,      \* the final object
    call,        \* the adapter call under way
    since        \* parts the upload being listed held all along, and at some time

provVars == <<blob, plan, upload, object, call, since>>

Uploads == 1..MaxUploads
Numbers == DOMAIN plan
NoUpload == [state |-> "none", parts |-> [n \in Numbers |-> None]]

\* What a request does not use keeps its idle value.
Idle == [op |-> "none", at |-> "idle", upload |-> 0, receipts |-> <<>>, tries |-> 1,
         marker |-> 0, observed |-> {}, misled |-> FALSE, answer |-> None, page |-> None]
Known == {u \in Uploads : upload[u].state # "none"}

HeldBy(up) == {<<n, up.parts[n]>> : n \in {m \in DOMAIN up.parts : up.parts[m] # None}}
Watching(op) == op = "list"

Init ==
    /\ blob \in Blobs
    /\ plan \in {rows \in Rows : SqlAccepts(blob, rows)}
    /\ upload = [u \in Uploads |-> NoUpload]
    /\ object = None
    /\ call = Idle
    /\ since = [always |-> {}, ever |-> {}]

-----------------------------------------------------------------------------
(***************************************************************************)
(* The caller.                                                             *)
(***************************************************************************)

Return(outcome) ==
    call' = [Idle EXCEPT !.op = call.op, !.at = "returned", !.upload = call.upload,
                         !.answer = outcome,
                         !.receipts = IF outcome = "completed" THEN call.receipts ELSE <<>>]

Begin(op, u) ==
    /\ call.at = "idle"
    /\ call' = [Idle EXCEPT !.op = op, !.at = "request", !.upload = u]
    /\ UNCHANGED <<upload, object>>

\* complete_multipart sends receipts of the parts 1..n and of no others.
Consecutive(receipts) ==
    DOMAIN receipts # {} /\ DOMAIN receipts = 1..Cardinality(DOMAIN receipts)

BeginComplete(u, receipts) ==
    /\ call.at = "idle"
    /\ call' = [Idle EXCEPT !.op = "complete", !.upload = u, !.receipts = receipts,
                            !.at = IF Consecutive(receipts) THEN "request" ELSE "returned",
                            !.answer = IF Consecutive(receipts) THEN None ELSE "contract"]
    /\ UNCHANGED <<upload, object>>

Forget ==
    /\ call.at = "returned"
    /\ call' = Idle
    /\ UNCHANGED <<upload, object>>

-----------------------------------------------------------------------------
(***************************************************************************)
(* The provider's side of a request (external).                            *)
(***************************************************************************)

Requested(op) == call.op = op /\ call.at = "request"
Answer(a) == call' = [call EXCEPT !.at = "answered", !.answer = a]

\* A complete that ignores what is at the key.
CanCompleteAnyway(u, receipts) ==
    /\ upload[u].state = "open"
    /\ \A n \in DOMAIN receipts : upload[u].parts[n] = receipts[n]

\* CompleteMultipartUpload with If-None-Match and the ETag of every part.
CanComplete(u, receipts) ==
    /\ upload[u].state = "open"
    /\ object = None
    /\ \A n \in DOMAIN receipts : upload[u].parts[n] = receipts[n]

Assemble(u, receipts) ==
    /\ CanComplete(u, receipts)
    /\ object' = [by |-> u, parts |-> [n \in DOMAIN receipts |-> upload[u].parts[n]]]
    /\ upload' = [upload EXCEPT ![u].state = "completed"]

Discard(u) ==
    /\ upload[u].state = "open"
    /\ upload' = [upload EXCEPT ![u].state = "aborted"]
    /\ UNCHANGED object

OpenUpload(u) ==
    /\ upload[u].state = "none" /\ u - 1 \in Known \cup {0}
    /\ upload' = [upload EXCEPT ![u].state = "open"]
    /\ UNCHANGED object

AnswerCreate(u) ==
    /\ Requested("create")
    /\ OpenUpload(u)
    /\ call' = [call EXCEPT !.at = "answered", !.answer = "created", !.upload = u]

AnswerComplete ==
    /\ Requested("complete")
    /\ Assemble(call.upload, call.receipts)
    /\ Answer("completed")

AnswerAbort ==
    /\ Requested("abort")
    /\ Discard(call.upload)
    /\ Answer("aborted")

\* Answers that change nothing: NoSuchUpload, 412, 409, and another 4xx.
Errors == {"noSuchUpload", "precondition", "conflict", "rejected"}
Refusals ==
    {code \in Errors :
       CASE code = "noSuchUpload" -> /\ call.op \in {"list", "complete", "abort"}
                                     /\ upload[call.upload].state # "open"
         [] code = "precondition" -> call.op = "complete" /\ object # None
         [] code = "conflict"     -> call.op = "complete"
         [] code = "rejected"     -> TRUE}

AnswerRefused ==
    /\ call.at = "request"
    /\ \E code \in Refusals : Answer(code)
    /\ UNCHANGED <<upload, object>>

AnswerHead ==
    /\ Requested("inspect")
    /\ Answer(IF object = None THEN "absent" ELSE "exists")
    /\ UNCHANGED <<upload, object>>

\* The first PageSize parts after the marker.
PageAfter(marker) ==
    LET rest == {p \in HeldBy(upload[call.upload]) : p[1] > marker}
        page == {p \in rest : Cardinality({q \in rest : q[1] < p[1]}) < PageSize}
    IN  [parts |-> page, truncated |-> page # rest,
         next |-> IF page = {} THEN 0 ELSE Max({p[1] : p \in page})]

AnswerPage ==
    /\ Requested("list") /\ upload[call.upload].state = "open"
    /\ call' = [call EXCEPT !.at = "answered", !.answer = "page",
                            !.page = PageAfter(call.marker)]
    /\ UNCHANGED <<upload, object>>

\* A provider that loses its place: some page, any next marker.
AnswerWrongPage ==
    /\ Requested("list") /\ upload[call.upload].state = "open"
    /\ \E parts \in {{}, PageAfter(0).parts}, truncated \in BOOLEAN, next \in Numbers \cup {0} :
         call' = [call EXCEPT !.at = "answered", !.answer = "page", !.misled = TRUE,
                              !.page = [parts |-> parts, truncated |-> truncated, next |-> next]]
    /\ UNCHANGED <<upload, object>>

-----------------------------------------------------------------------------
(***************************************************************************)
(* The adapter's side of an answer.                                        *)
(***************************************************************************)

\* An adapter that takes an unconfirmed abort as done.
GaveUpAborted ==
    CASE call.op \in {"list", "inspect"} -> "transient"
      [] call.op = "abort" -> "aborted"
      [] OTHER -> "ambiguous"

\* No answer or a 5xx after the last try: nothing is known of an operation that
\* changes something.
GaveUp == IF call.op \in {"list", "inspect"} THEN "transient" ELSE "ambiguous"

\* The request or its answer is lost.  Executed or not, it is sent again.
Lose ==
    /\ call.at \in {"request", "answered"}
    /\ IF call.tries < MaxTries
       THEN call' = [call EXCEPT !.at = "request", !.tries = @ + 1, !.answer = None,
                                  !.page = None]
       ELSE Return(GaveUp)
    /\ UNCHANGED <<upload, object>>

\* An answer without the fields the adapter requires.
Malformed ==
    /\ call.at = "answered" /\ call.answer \notin Errors
    /\ Return("contract")
    /\ UNCHANGED <<upload, object>>

Classify ==
    /\ call.at = "answered" /\ call.answer # "page"
    /\ Return(IF call.answer = "noSuchUpload"
              THEN IF call.op = "abort" THEN "alreadyAbsent" ELSE "notFound"
              ELSE call.answer)
    /\ UNCHANGED <<upload, object>>

\* A page loop that asks for whatever it is told.
AdvancesAlways(next) == TRUE

Advances(next) == next > call.marker
Repeats(parts) == \E p \in parts, q \in call.observed : p[1] = q[1]

\* A page loop that ends at the first page.
TakeOnePage(page) ==
    IF Repeats(page.parts) THEN Return("contract")
    ELSE call' = [call EXCEPT !.at = "returned", !.answer = "listed", !.page = None,
                              !.observed = @ \cup page.parts]

TakePage(page) ==
    IF Repeats(page.parts) \/ (page.truncated /\ ~Advances(page.next))
    THEN Return("contract")
    ELSE LET seen == [call EXCEPT !.observed = @ \cup page.parts]
         IN  call' = IF page.truncated
                     THEN [seen EXCEPT !.at = "request", !.tries = 1, !.marker = page.next,
                                       !.answer = None, !.page = None]
                     ELSE [seen EXCEPT !.at = "returned", !.tries = 1, !.marker = 0,
                                       !.answer = "listed", !.page = None]

ReadPage ==
    /\ call.at = "answered" /\ call.answer = "page"
    /\ TakePage(call.page)
    /\ UNCHANGED <<upload, object>>

-----------------------------------------------------------------------------
(***************************************************************************)
(* Others.                                                                 *)
(***************************************************************************)

\* UploadPart through a presign_upload_part request.
PutPart(u, n, etag) ==
    /\ upload[u].state = "open"
    /\ upload' = [upload EXCEPT ![u].parts[n] = etag]
    /\ UNCHANGED <<object, call>>

OthersComplete(u, receipts) ==
    /\ Consecutive(receipts)
    /\ Assemble(u, receipts)
    /\ UNCHANGED call

OthersAbort(u) == Discard(u) /\ UNCHANGED call

OthersCreate(u) == OpenUpload(u) /\ UNCHANGED call

\* Another session publishes the key.
OthersPublish ==
    /\ object = None
    /\ object' = [by |-> 0, parts |-> <<>>]
    /\ UNCHANGED <<upload, call>>

-----------------------------------------------------------------------------
Receipts == UNION {[S -> ETags] : S \in SUBSET Numbers}

Begins ==
    \/ Begin("create", 0) \/ Begin("inspect", 0)
    \/ \E u \in Known :
        \/ Begin("list", u) \/ Begin("abort", u)
        \/ \E receipts \in Receipts : BeginComplete(u, receipts)
    \/ Forget

Answers ==
    \/ \E u \in Uploads : AnswerCreate(u)
    \/ AnswerComplete \/ AnswerAbort \/ AnswerRefused \/ AnswerHead
    \/ AnswerPage \/ AnswerWrongPage
    \/ Lose

Returns == Malformed \/ Classify \/ ReadPage

Others ==
    \/ \E u \in Uploads :
        \/ \E n \in Numbers, etag \in ETags : PutPart(u, n, etag)
        \/ \E receipts \in Receipts : OthersComplete(u, receipts)
        \/ OthersAbort(u) \/ OthersCreate(u)
    \/ OthersPublish

\* What the upload held at every moment of a listing, and at any.
Watch ==
    since' = IF ~Watching(call'.op) THEN [always |-> {}, ever |-> {}]
             ELSE LET held == HeldBy(upload'[call'.upload])
                  IN  IF Watching(call.op)
                      THEN [always |-> since.always \cap held, ever |-> since.ever \cup held]
                      ELSE [always |-> held, ever |-> held]

Next ==
    /\ Begins \/ Answers \/ Returns \/ Others
    /\ Watch
    /\ UNCHANGED <<blob, plan>>

Spec == Init /\ [][Next]_provVars

\* Every request is answered or given up (the client's timeouts), every answer
\* is read.
FairSpec ==
    /\ Spec
    /\ WF_provVars(Answers /\ Watch /\ UNCHANGED <<blob, plan>>)
    /\ WF_provVars(Returns /\ Watch /\ UNCHANGED <<blob, plan>>)

-----------------------------------------------------------------------------
(***************************************************************************)
(* Properties.                                                             *)
(***************************************************************************)

\* The rows the trigger lets into the database are exactly the plan the CLI
\* computes for that blob, and satisfy the CLI's own validation: neither
\* refuses what the other produces, at the limits either.
PlansAgree ==
    /\ plan = Plan(blob)
    /\ ValidRanges(blob, SelectPartSize(blob), plan)
    /\ SqlAccepts(blob, Plan(blob))

Outcome(o) == call.at = "returned" /\ call.answer = o
Upload == upload[call.upload]

\* A definite outcome is true of the provider, whatever was lost, repeated or
\* done by others meanwhile: COMPLETED means that the object is this upload's,
\* made of the parts the receipts name; ABORTED that it never becomes one;
\* ALREADY_ABSENT and NoSuchUpload that the upload is gone; a lost precondition
\* that an object is there.
OutcomesAreProven ==
    /\ Outcome("completed") => object = [by |-> call.upload, parts |-> call.receipts]
    /\ Outcome("aborted") => Upload.state = "aborted"
    /\ Outcome("alreadyAbsent") \/ Outcome("notFound") => Upload.state \in {"completed", "aborted"}
    /\ Outcome("precondition") \/ Outcome("exists") => object # None

\* A listing shows every part that was in the upload all along, and none that
\* was never in it, although the upload changes between two pages (unless the
\* provider lost its place).
ListingsAreTrue ==
    Outcome("listed") /\ ~call.misled =>
      /\ since.always \subseteq call.observed
      /\ call.observed \subseteq since.ever

\* The object at the key is written once, whichever upload or session wins.
ObjectsAreFinal == [][object # None => object' = object]_provVars

\* A listing ends, also with a provider that loses its place at every page.
ListingsEnd == call.op = "list" ~> (call.op = "list" => call.at = "returned")

UnderWay == call.at \in {"request", "answered"}

\* The steps a call under way can still take: a request and its answer for each
\* try it has left and for each try of the pages after its marker.
StepsLeft ==
    IF ~UnderWay THEN 0
    ELSE 2 * (MaxTries * (MaxParts - call.marker) + MaxTries - call.tries)
         + IF call.at = "request" THEN 2 ELSE 1

\* A call under way has a bounded number of steps left, and every step it takes
\* leaves it fewer, whatever the provider answers: it cannot ask for ever.
CallsAreBounded == UnderWay => StepsLeft \in 1..(2 * MaxTries * (MaxParts + 1))
CallsRunDown ==
    [][UnderWay => call' = call \/ (call'.op = call.op /\ StepsLeft' < StepsLeft)]_provVars
=============================================================================
