--------------------------- MODULE ProviderProofs ---------------------------
(***************************************************************************)
(* Proofs about PartPlan and Provider, for any limits of the part plan     *)
(* that leave a part size for the largest blob, any blobs, and any number  *)
(* of uploads and tries.                                                   *)
(***************************************************************************)
EXTENDS Provider, FiniteSetTheorems, WellFoundedInduction, TLAPS

-----------------------------------------------------------------------------
(***************************************************************************)
(* The part size.                                                          *)
(***************************************************************************)

\* Rounding up: the quotient is the least number of parts that hold a blob.
LEMMA CeilDivBounds ==
    ASSUME NEW a \in Nat \ {0}, NEW b \in Nat \ {0}
    PROVE  /\ CeilDiv(a, b) \in Nat \ {0}
           /\ (CeilDiv(a, b) - 1) * b < a
           /\ a <= CeilDiv(a, b) * b
<1> DEFINE q == CeilDiv(a, b)
<1>1. q \in Int /\ b * q <= a + b - 1 /\ a + b - 1 < b * q + b
  BY Z3 DEF CeilDiv
<1>2. b * q = q * b /\ (q - 1) * b = b * q - b
  BY <1>1
<1> HIDE DEF q
<1>3. a <= q * b /\ (q - 1) * b < a
  BY <1>1, <1>2
<1>4. q > 0
  <2> SUFFICES ASSUME q <= 0 PROVE FALSE
    BY <1>1
  <2>1. q * b <= 0
    BY <1>1
  <2> QED
    BY <2>1, <1>3, <1>1
<1> QED
  BY <1>1, <1>3, <1>4 DEF q

\* A smaller blob needs no more parts of the same size.
LEMMA FewerParts ==
    ASSUME NEW a \in Nat \ {0}, NEW c \in Nat, a <= c, NEW b \in Nat \ {0}
    PROVE  CeilDiv(a, b) <= CeilDiv(c, b)
<1> DEFINE q == CeilDiv(a, b)
           r == CeilDiv(c, b)
<1>1. q \in Nat \ {0} /\ (q - 1) * b < a
  BY CeilDivBounds
<1>2. r \in Nat \ {0} /\ c <= r * b
  BY CeilDivBounds
<1> HIDE DEF q, r
<1>3. (q - 1) * b < r * b
  BY <1>1, <1>2
<1>4. q - 1 < r
  <2> SUFFICES ASSUME r <= q - 1 PROVE FALSE
    BY <1>1, <1>2
  <2>1. r * b <= (q - 1) * b
    BY <1>1, <1>2
  <2> QED
    BY <2>1, <1>3, <1>1, <1>2
<1> QED
  BY <1>4, <1>1, <1>2 DEF q, r

Less == {t \in Nat \X Nat : t[1] < t[2]}

\* The order of the natural numbers, as a set of pairs, is well founded.
LEMMA LessIsWellFounded == IsWellFoundedOn(Less, Nat)
<1>1. OpToRel(<, Nat) = Less
  BY Zenon DEF OpToRel, Less
<1>2. IsWellFoundedOn(OpToRel(<, Nat), Nat)
  BY Zenon, NatLessThanWellFounded
<1> QED
  BY Zenon, <1>1, <1>2

\* The doubling loop ends with a size that needs no more than MaxParts parts,
\* and no smaller size of the loop would do.
LEMMA PartSizeIsLeast ==
    ASSUME NEW size \in BlobSizes
    PROVE  /\ SelectPartSize(size) \in PartSizes
           /\ Fits(size, SelectPartSize(size))
           /\ \A q \in PartSizes : Fits(size, q) => SelectPartSize(size) <= q
<1> DEFINE Fitting == {p \in PartSizes : Fits(size, p)}
<1>1. PartSizes \subseteq Nat \ {0}
  BY PartLimits DEF PartSizes
<1>2. PICK p0 \in PartSizes : Fits(MaxBlob, p0)
  BY SomePartSizeFits
<1>3. size \in Nat \ {0} /\ size <= MaxBlob
  BY PartLimits DEF BlobSizes
<1>4. Fits(size, p0)
  <2>1. p0 \in Nat \ {0}
    BY <1>1
  <2>2. MaxBlob \in Nat \ {0}
    BY <1>3, PartLimits
  <2>3. CeilDiv(size, p0) <= CeilDiv(MaxBlob, p0)
    BY <1>3, <2>1, <2>2, FewerParts
  <2>4. CeilDiv(size, p0) \in Nat /\ CeilDiv(MaxBlob, p0) \in Nat
    BY <1>3, <2>1, <2>2, CeilDivBounds
  <2> QED
    BY <1>2, <2>3, <2>4, PartLimits DEF Fits
<1>5. Fitting \subseteq Nat /\ Fitting # {}
  BY <1>1, <1>4
<1>6. PICK p \in Fitting : \A q \in Fitting : ~ (<<q, p>> \in Less)
  BY <1>5, LessIsWellFounded, WFMin
<1>7. \A q \in Fitting : p <= q
  <2> SUFFICES ASSUME NEW q \in Fitting PROVE p <= q
    OBVIOUS
  <2>1. p \in Nat /\ q \in Nat /\ ~ (<<q, p>> \in Less)
    BY <1>5, <1>6
  <2> HIDE DEF Fitting
  <2> QED
    BY <2>1 DEF Less
<1>8. \E x \in PartSizes : Fits(size, x) /\ \A q \in PartSizes : Fits(size, q) => x <= q
  BY <1>6, <1>7
<1> QED
  BY <1>8 DEF SelectPartSize

\* What the plan is built from: a positive part size within the limits and a
\* number of parts, at most MaxParts, that the blob exactly needs.
LEMMA PlanNumbers ==
    ASSUME NEW size \in BlobSizes
    PROVE  /\ size \in Nat \ {0}
           /\ SelectPartSize(size) \in Nat \ {0}
           /\ SelectPartSize(size) <= MaxPart
           /\ PartCount(size) \in 1..MaxParts
           /\ (PartCount(size) - 1) * SelectPartSize(size) < size
           /\ size <= PartCount(size) * SelectPartSize(size)
<1>1. size \in Nat \ {0}
  BY PartLimits DEF BlobSizes
<1>2. SelectPartSize(size) \in Nat \ {0} /\ SelectPartSize(size) <= MaxPart
  BY PartSizeIsLeast, PartLimits DEF PartSizes
<1>3. CeilDiv(size, SelectPartSize(size)) <= MaxParts
  BY PartSizeIsLeast DEF Fits
<1> QED
  BY <1>1, <1>2, <1>3, CeilDivBounds, PartLimits DEF PartCount

-----------------------------------------------------------------------------
(***************************************************************************)
(* The ranges.                                                             *)
(***************************************************************************)

\* All parts but the last are of full size, the last holds the rest.
LEMMA PlanRows ==
    ASSUME NEW size \in BlobSizes, NEW n \in 1..PartCount(size)
    PROVE  LET p == SelectPartSize(size)
               row == Plan(size)[n]
           IN  /\ row.offset = (n - 1) * p
               /\ n < PartCount(size) => row.size = p
               /\ n = PartCount(size) => row.size = size - row.offset
               /\ row.size \in 1..p
<1> DEFINE p == SelectPartSize(size)
           count == PartCount(size)
           rest == size - (n - 1) * p
<1>1. /\ size \in Nat \ {0} /\ p \in Nat \ {0} /\ count \in Nat \ {0}
      /\ (count - 1) * p < size /\ size <= count * p
  BY PlanNumbers, PartLimits
<1>2. Plan(size)[n] = [offset |-> (n - 1) * p, size |-> Smaller(p, rest)]
  BY DEF Plan
<1>n. n \in 1..count
  OBVIOUS
<1> HIDE DEF p, count
<1>3. n < count => rest >= p
  <2> SUFFICES ASSUME n < count PROVE rest >= p
    OBVIOUS
  <2>1. n * p <= (count - 1) * p
    BY <1>1, <1>n
  <2>2. (n - 1) * p = n * p - p
    BY <1>1, <1>n
  <2> QED
    BY <2>1, <2>2, <1>1, <1>n
<1>4. n = count => rest \in 1..p
  <2> SUFFICES ASSUME n = count PROVE rest \in 1..p
    OBVIOUS
  <2>1. (n - 1) * p = n * p - p
    BY <1>1, <1>n
  <2> QED
    BY <2>1, <1>1, <1>n
<1>5. rest \in Int
  BY <1>1, <1>n
<1>6. n < count => Smaller(p, rest) = p
  BY <1>1, <1>3, <1>5 DEF Smaller
<1>7. n = count => Smaller(p, rest) = rest
  BY <1>1, <1>4, <1>5 DEF Smaller
<1>8. Smaller(p, rest) \in 1..p
  BY <1>1, <1>4, <1>6, <1>7, <1>n
<1> HIDE DEF rest
<1>9. /\ n < count => Plan(size)[n].size = p
      /\ n = count => Plan(size)[n].size = rest
      /\ Plan(size)[n].size \in 1..p
      /\ Plan(size)[n].offset = (n - 1) * p
  BY <1>2, <1>6, <1>7, <1>8
<1> QED
  BY <1>9 DEF p, count, rest

\* plan_part_boundaries satisfies _validate_ranges for every blob size within
\* the limits: the parts are numbered from one, tile the blob without gap or
\* overlap, and none is empty or larger than the part size.
THEOREM PlanIsValid ==
    ASSUME NEW size \in BlobSizes
    PROVE  ValidRanges(size, SelectPartSize(size), Plan(size))
<1> DEFINE p == SelectPartSize(size)
           count == PartCount(size)
           rows == Plan(size)
<1>1. /\ size \in Nat \ {0} /\ p \in Nat \ {0} /\ count \in 1..MaxParts
  BY PlanNumbers
<1>2. DOMAIN rows = 1..count
  BY DEF Plan
<1>3. Cardinality(DOMAIN rows) = count
  BY <1>1, <1>2, FS_Interval, PartLimits
<1>4. rows[1].offset = 0
  <2>1. 1 \in 1..count
    BY <1>1, PartLimits
  <2>2. rows[1].offset = (1 - 1) * p
    BY <2>1, PlanRows
  <2> QED
    BY <2>2, <1>1
<1>5. ASSUME NEW n \in 1..count
      PROVE  /\ rows[n].size \in 1..p
             /\ IF n < count
                THEN rows[n].size = p /\ rows[n + 1].offset = rows[n].offset + rows[n].size
                ELSE rows[n].offset + rows[n].size = size
  <2>1. /\ rows[n].offset = (n - 1) * p
        /\ n < count => rows[n].size = p
        /\ n = count => rows[n].size = size - rows[n].offset
        /\ rows[n].size \in 1..p
    BY PlanRows
  <2>2. CASE n < count
    <3>1. n + 1 \in 1..count
      BY <2>2, <1>1, PartLimits
    <3>2. rows[n + 1].offset = ((n + 1) - 1) * p
      BY <3>1, PlanRows
    <3> HIDE DEF rows, p, count
    <3>3. ((n + 1) - 1) * p = (n - 1) * p + p
      BY <1>1
    <3> QED
      BY <2>1, <2>2, <3>2, <3>3
  <2>3. CASE ~(n < count)
    <3>1. n = count
      BY <2>3, <1>1, PartLimits
    <3>2. (n - 1) * p \in Int
      BY <1>1
    <3> HIDE DEF rows, p, count
    <3> QED
      BY <2>1, <2>3, <3>1, <3>2, <1>1
  <2> QED
    BY <2>2, <2>3
<1> HIDE DEF rows, p, count
<1>6. ValidRanges(size, p, rows)
  BY <1>1, <1>2, <1>3, <1>4, <1>5, PartLimits DEF ValidRanges
<1> QED
  BY <1>6 DEF rows, p

\* What the SQL validation accepts of a session's part rows is exactly the
\* plan of the CLI.
THEOREM SqlAcceptsOnlyThePlan ==
    ASSUME NEW size \in BlobSizes, NEW rows,
           rows = [n \in DOMAIN rows |-> rows[n]],
           \A n \in DOMAIN rows : rows[n] \in [offset : Nat, size : Nat],
           SqlAccepts(size, rows)
    PROVE  rows = Plan(size)
<1> DEFINE p == SelectPartSize(size)
           count == PartCount(size)
<1>1. /\ size \in Nat \ {0} /\ p \in Nat \ {0} /\ count \in Nat \ {0}
  BY PlanNumbers, PartLimits
<1>2. /\ Cardinality(DOMAIN rows) = count
      /\ \A n \in DOMAIN rows : SqlRow(size, p, count, n, rows[n])
  BY DEF SqlAccepts, PartCount
<1>3. DOMAIN rows \subseteq 1..count
  BY <1>2 DEF SqlRow
<1>4. IsFiniteSet(1..count) /\ Cardinality(1..count) = count
  BY <1>1, FS_Interval
<1>5. DOMAIN rows = 1..count
  BY <1>2, <1>3, <1>4, FS_Subset
<1>6. ASSUME NEW n \in 1..count PROVE rows[n] = Plan(size)[n]
  <2>1. rows[n] \in [offset : Nat, size : Nat]
    BY <1>5
  <2>2. SqlRow(size, p, count, n, rows[n])
    BY <1>2, <1>5
  <2>3. /\ Plan(size)[n].offset = (n - 1) * p
        /\ n < count => Plan(size)[n].size = p
        /\ n = count => Plan(size)[n].size = size - Plan(size)[n].offset
    BY PlanRows
  <2>4. Plan(size)[n] = [offset |-> Plan(size)[n].offset, size |-> Plan(size)[n].size]
    BY DEF Plan
  <2> HIDE DEF p, count
  <2>5. rows[n].offset = Plan(size)[n].offset /\ rows[n].size = Plan(size)[n].size
    BY <2>2, <2>3, <1>1 DEF SqlRow
  <2>6. rows[n] = [offset |-> rows[n].offset, size |-> rows[n].size]
    BY <2>1
  <2> QED
    BY <2>4, <2>5, <2>6
<1>7. Plan(size) = [n \in 1..count |-> Plan(size)[n]]
  BY DEF Plan
<1> HIDE DEF p, count
<1> QED
  BY <1>5, <1>6, <1>7

-----------------------------------------------------------------------------
(***************************************************************************)
(* The stored rows, and the object at the key.                             *)
(***************************************************************************)

\* Whatever rows a client has stored, once the trigger has accepted them they
\* are the plan the CLI computes, and the CLI's validation accepts them.
THEOREM PlansAlwaysAgree == Spec => []PlansAgree
<1>1. Init => PlansAgree
  <2> SUFFICES ASSUME Init PROVE PlansAgree
    OBVIOUS
  <2>1. blob \in BlobSizes /\ plan \in Rows /\ SqlAccepts(blob, plan)
    BY BlobsAssumption DEF Init
  <2>2. plan = Plan(blob)
    BY <2>1, RowsAssumption, SqlAcceptsOnlyThePlan
  <2> QED
    BY <2>1, <2>2, PlanIsValid DEF PlansAgree
<1>2. PlansAgree /\ [Next]_provVars => PlansAgree'
  BY DEF PlansAgree, Next, provVars
<1> QED
  BY <1>1, <1>2, PTL DEF Spec

\* No step writes the object at the key but one that finds none.
LEMMA ObjectStep == Next => (object # None => object' = object)
<1> SUFFICES ASSUME Next, object # None PROVE object' = object
  OBVIOUS
<1>1. CASE Begins
  BY <1>1 DEF Begins, Begin, BeginComplete, Forget
<1>2. CASE Answers
  BY <1>2 DEF Answers, AnswerCreate, OpenUpload, AnswerComplete, Assemble, CanComplete,
              AnswerAbort, Discard, AnswerRefused, AnswerHead, AnswerPage, AnswerWrongPage, Lose
<1>3. CASE Returns
  BY <1>3 DEF Returns, Malformed, Classify, ReadPage
<1>4. CASE Others
  BY <1>4 DEF Others, PutPart, OthersComplete, Assemble, CanComplete, OthersAbort, Discard,
              OthersCreate, OpenUpload, OthersPublish
<1> QED
  BY <1>1, <1>2, <1>3, <1>4 DEF Next

\* The object at the key is written once, whoever wins.
THEOREM ObjectsStayFinal == Spec => ObjectsAreFinal
<1>1. [Next]_provVars => [object # None => object' = object]_provVars
  BY ObjectStep
<1> QED
  BY <1>1, PTL DEF Spec, ObjectsAreFinal

-----------------------------------------------------------------------------
(***************************************************************************)
(* Typing.                                                                 *)
(***************************************************************************)

PartsHeld == Numbers \X ETags
Pages == [parts : SUBSET PartsHeld, truncated : BOOLEAN, next : Int]
UploadTable ==
    [Uploads -> [state : {"none", "open", "completed", "aborted"},
                 parts : [Numbers -> ETags \cup {None}]]]
OnUpload == {"list", "abort", "complete"}
AnswerCodes ==
    Errors \cup {"created", "completed", "aborted", "absent", "exists", "page", "listed",
                 "contract", "transient", "ambiguous", "notFound", "alreadyAbsent", None}
Calls ==
    [op : OnUpload \cup {"none", "create", "inspect"},
     at : {"idle", "request", "answered", "returned"},
     upload : 0..MaxUploads,
     receipts : Receipts \cup {<<>>},
     tries : Nat, marker : Int, observed : SUBSET PartsHeld, misled : BOOLEAN,
     answer : AnswerCodes,
     page : Pages \cup {None}]

\* The values of a call, its upload and its receipts.
ProviderType ==
    /\ Numbers \subseteq 1..MaxParts
    /\ upload \in UploadTable
    /\ call \in Calls
    /\ call.op \in OnUpload => call.upload \in Uploads /\ upload[call.upload].state # "none"
    /\ call.op = "complete" /\ call.at # "returned" => call.receipts \in Receipts
    /\ call.at = "answered" /\ call.answer = "page" => call.op = "list" /\ call.page \in Pages

\* What every page of a listing is made of.
LEMMA HeldParts ==
    ASSUME ProviderType, NEW u \in Uploads
    PROVE  HeldBy(upload[u]) \subseteq PartsHeld
<1> DEFINE parts == upload[u].parts
<1>1. parts \in [Numbers -> ETags \cup {None}]
  BY DEF ProviderType, UploadTable
<1>2. HeldBy(upload[u]) = {<<n, parts[n]>> : n \in {m \in DOMAIN parts : parts[m] # None}}
  BY Zenon DEF HeldBy
<1> HIDE DEF parts
<1>3. \A n \in {m \in DOMAIN parts : parts[m] # None} : <<n, parts[n]>> \in Numbers \X ETags
  BY <1>1
<1> QED
  BY <1>2, <1>3, Zenon DEF PartsHeld

\* The greatest element of a non-empty set of part numbers.
LEMMA MaxIsGreatest ==
    ASSUME NEW n \in Nat, NEW S, S \subseteq 1..n, S # {}
    PROVE  Max(S) \in S /\ \A x \in S : x <= Max(S)
<1> DEFINE T == {n - x : x \in S}
<1>1. T \subseteq Nat /\ T # {}
  <2>1. \A x \in S : n - x \in Nat
    OBVIOUS
  <2> QED
    BY <2>1
<1>2. PICK t \in T : \A u \in T : ~ (<<u, t>> \in Less)
  BY <1>1, LessIsWellFounded, WFMin
<1>3. PICK x \in S : t = n - x
  OBVIOUS
<1>4. ASSUME NEW y \in S PROVE y <= x
  <2>1. n - y \in T
    OBVIOUS
  <2>2. ~ (<<n - y, n - x>> \in Less)
    BY <1>2, <1>3, <2>1
  <2>3. n - y \in Nat /\ n - x \in Nat
    BY <1>1, <2>1, <1>3
  <2> HIDE DEF T
  <2> QED
    BY <2>2, <2>3 DEF Less
<1>5. \E m \in S : \A y \in S : m >= y
  BY <1>4
<1> QED
  BY <1>5 DEF Max

\* A call that has not begun.
LEMMA IdleType == Idle \in Calls
BY ProviderBounds DEF Idle, Calls, AnswerCodes

\* A call starts well typed.
LEMMA InitProviderType == Init => ProviderType
<1> SUFFICES ASSUME Init PROVE ProviderType
  OBVIOUS
<1>1. Numbers \subseteq 1..MaxParts
  <2>1. blob \in BlobSizes /\ SqlAccepts(blob, plan)
    BY BlobsAssumption DEF Init
  <2>2. \A n \in DOMAIN plan : n \in 1..PartCount(blob)
    BY <2>1 DEF SqlAccepts, SqlRow, PartCount
  <2>3. PartCount(blob) \in 1..MaxParts
    BY <2>1, PlanNumbers
  <2> QED
    BY <2>2, <2>3, PartLimits DEF Numbers
<1>2. upload \in UploadTable
  BY DEF Init, UploadTable, NoUpload
<1>3. call \in Calls
  BY IdleType DEF Init
<1> QED
  BY <1>1, <1>2, <1>3 DEF ProviderType, Init, Idle, OnUpload

\* The sets of values depend on the frozen plan only.
LEMMA SameTypes ==
    ASSUME UNCHANGED plan
    PROVE  /\ Numbers' = Numbers /\ PartsHeld' = PartsHeld /\ Pages' = Pages
           /\ Receipts' = Receipts /\ UploadTable' = UploadTable /\ Calls' = Calls
BY DEF Numbers, PartsHeld, Pages, Receipts, UploadTable, Calls

\* The caller keeps them.
LEMMA BeginsType == ProviderType /\ Begins /\ UNCHANGED plan => ProviderType'
<1> SUFFICES ASSUME ProviderType, Begins, UNCHANGED plan PROVE ProviderType'
  OBVIOUS
<1>0. /\ Numbers' = Numbers /\ Pages' = Pages /\ Receipts' = Receipts
      /\ UploadTable' = UploadTable /\ Calls' = Calls
  BY SameTypes
<1>u. UNCHANGED upload
  BY DEF Begins, Begin, BeginComplete, Forget
<1>1. ASSUME NEW op \in {"create", "inspect"}, Begin(op, 0) PROVE ProviderType'
  <2>1. call' = [Idle EXCEPT !.op = op, !.at = "request", !.upload = 0]
    BY <1>1 DEF Begin
  <2>0. 0 \in 0..MaxUploads /\ op \in OnUpload \cup {"none", "create", "inspect"}
    BY ProviderBounds
  <2>2. call' \in Calls
    BY <2>0, <2>1, IdleType DEF Calls
  <2>3. call'.op = op /\ call'.at = "request"
    BY <2>1 DEF Idle
  <2> QED
    BY <2>2, <2>3, <1>0, <1>u DEF ProviderType, OnUpload
<1>2. ASSUME NEW u \in Known, NEW op \in {"list", "abort"}, Begin(op, u) PROVE ProviderType'
  <2>1. call' = [Idle EXCEPT !.op = op, !.at = "request", !.upload = u]
    BY <1>2 DEF Begin
  <2>2. u \in Uploads /\ upload[u].state # "none" /\ u \in 0..MaxUploads
    BY ProviderBounds DEF Known, Uploads
  <2>3. call' \in Calls
    BY <2>1, <2>2, IdleType DEF Calls, OnUpload
  <2>4. call'.op = op /\ call'.at = "request" /\ call'.upload = u
    BY <2>1 DEF Idle
  <2> QED
    BY <2>2, <2>3, <2>4, <1>0, <1>u DEF ProviderType, OnUpload, Uploads
<1>3. ASSUME NEW u \in Known, NEW receipts \in Receipts, BeginComplete(u, receipts)
      PROVE  ProviderType'
  <2> DEFINE at == IF Consecutive(receipts) THEN "request" ELSE "returned"
             answer == IF Consecutive(receipts) THEN None ELSE "contract"
  <2>1. call' = [Idle EXCEPT !.op = "complete", !.upload = u, !.receipts = receipts,
                             !.at = at, !.answer = answer]
    BY <1>3 DEF BeginComplete
  <2>2. u \in Uploads /\ upload[u].state # "none" /\ u \in 0..MaxUploads
    BY ProviderBounds DEF Known, Uploads
  <2>3. at \in {"request", "returned"} /\ answer \in {None, "contract"}
    OBVIOUS
  <2> HIDE DEF at, answer
  <2>4. call' \in Calls
    BY <2>1, <2>2, <2>3, IdleType DEF Calls, OnUpload, AnswerCodes
  <2>5. /\ call'.op = "complete" /\ call'.at # "answered"
        /\ call'.upload = u /\ call'.receipts = receipts
    BY <2>1, <2>3 DEF Idle
  <2> QED
    BY <2>2, <2>4, <2>5, <1>0, <1>u DEF ProviderType, OnUpload, Uploads
<1>4. CASE Forget
  <2>1. call' = Idle
    BY <1>4 DEF Forget
  <2>2. call'.op = "none" /\ call'.at = "idle"
    BY <2>1 DEF Idle
  <2> QED
    BY <2>1, <2>2, <1>0, <1>u, IdleType DEF ProviderType, OnUpload
<1> QED
  BY <1>1, <1>2, <1>3, <1>4 DEF Begins

\* What a request does to the upload it names: parts stay, a state never goes
\* back to none.
LEMMA UploadsStep ==
    ASSUME ProviderType, Answers \/ Others
    PROVE  /\ upload' \in UploadTable
           /\ \A u \in Uploads : upload[u].state # "none" => upload'[u].state # "none"
<1>1. ASSUME NEW u \in Uploads, NEW st \in {"open", "completed", "aborted"},
             upload' = [upload EXCEPT ![u].state = st]
      PROVE  /\ upload' \in UploadTable
             /\ \A w \in Uploads : upload[w].state # "none" => upload'[w].state # "none"
  BY <1>1 DEF ProviderType, UploadTable
<1>2. ASSUME NEW u \in Uploads, NEW n \in Numbers, NEW etag \in ETags,
             upload' = [upload EXCEPT ![u].parts[n] = etag]
      PROVE  /\ upload' \in UploadTable
             /\ \A w \in Uploads : upload[w].state # "none" => upload'[w].state # "none"
  BY <1>2 DEF ProviderType, UploadTable
<1>3. ASSUME NEW u \in Uploads, NEW receipts, Assemble(u, receipts)
      PROVE  upload' = [upload EXCEPT ![u].state = "completed"]
  BY <1>3 DEF Assemble
<1>4. ASSUME NEW u \in Uploads, Discard(u)
      PROVE  upload' = [upload EXCEPT ![u].state = "aborted"]
  BY <1>4 DEF Discard
<1>5. ASSUME NEW u \in Uploads, OpenUpload(u)
      PROVE  upload' = [upload EXCEPT ![u].state = "open"]
  BY <1>5 DEF OpenUpload
<1>6. CASE UNCHANGED upload
  BY <1>6 DEF ProviderType
<1>7. CASE AnswerComplete \/ AnswerAbort
  <2>1. call.upload \in Uploads
    BY <1>7 DEF AnswerComplete, AnswerAbort, Requested, ProviderType, OnUpload
  <2> QED
    BY <1>1, <1>3, <1>4, <1>7, <2>1 DEF AnswerComplete, AnswerAbort
<1>8. ASSUME NEW u \in Uploads, AnswerCreate(u) \/ OthersAbort(u) \/ OthersCreate(u)
      PROVE  /\ upload' \in UploadTable
             /\ \A w \in Uploads : upload[w].state # "none" => upload'[w].state # "none"
  BY <1>1, <1>4, <1>5, <1>8 DEF AnswerCreate, OthersAbort, OthersCreate
<1>9. ASSUME NEW u \in Uploads, NEW receipts \in Receipts, OthersComplete(u, receipts)
      PROVE  /\ upload' \in UploadTable
             /\ \A w \in Uploads : upload[w].state # "none" => upload'[w].state # "none"
  BY <1>1, <1>3, <1>9 DEF OthersComplete
<1>10. ASSUME NEW u \in Uploads, NEW n \in Numbers, NEW etag \in ETags, PutPart(u, n, etag)
       PROVE  /\ upload' \in UploadTable
              /\ \A w \in Uploads : upload[w].state # "none" => upload'[w].state # "none"
  BY <1>2, <1>10 DEF PutPart
<1>11. CASE AnswerRefused \/ AnswerHead \/ AnswerPage \/ AnswerWrongPage \/ Lose \/ OthersPublish
  BY <1>6, <1>11 DEF AnswerRefused, AnswerHead, AnswerPage, AnswerWrongPage, Lose, OthersPublish
<1> QED
  BY <1>7, <1>8, <1>9, <1>10, <1>11 DEF Answers, Others

\* A call that returns is well typed.
LEMMA ReturnType ==
    ASSUME ProviderType, UNCHANGED <<plan, upload>>, NEW outcome \in AnswerCodes, Return(outcome)
    PROVE  ProviderType'
<1>0. /\ Numbers' = Numbers /\ Pages' = Pages /\ Receipts' = Receipts
      /\ UploadTable' = UploadTable /\ Calls' = Calls
  BY SameTypes
<1> DEFINE receipts == IF outcome = "completed" THEN call.receipts ELSE <<>>
<1>1. call' = [Idle EXCEPT !.op = call.op, !.at = "returned", !.upload = call.upload,
                           !.answer = outcome, !.receipts = receipts]
  BY DEF Return
<1>2. call \in Calls
  BY DEF ProviderType
<1>3. receipts \in Receipts \cup {<<>>}
  BY <1>2 DEF Calls
<1> HIDE DEF receipts
<1>4. call' \in Calls
  BY <1>1, <1>2, <1>3, IdleType DEF Calls
<1>5. call'.op = call.op /\ call'.at = "returned" /\ call'.upload = call.upload
  BY <1>1, IdleType DEF Calls
<1> QED
  BY <1>0, <1>4, <1>5 DEF ProviderType

\* An upload holds finitely many parts.
LEMMA HeldFinite ==
    ASSUME ProviderType, NEW u \in Uploads
    PROVE  IsFiniteSet(HeldBy(upload[u]))
<1> DEFINE parts == upload[u].parts
           there == {m \in DOMAIN parts : parts[m] # None}
           f == [m \in there |-> <<m, parts[m]>>]
<1>1. parts \in [Numbers -> ETags \cup {None}] /\ Numbers \subseteq 1..MaxParts
  BY DEF ProviderType, UploadTable
<1>2. there \subseteq 1..MaxParts
  BY <1>1
<1>3. IsFiniteSet(1..MaxParts)
  BY FS_Interval, PartLimits
<1>4. IsFiniteSet(there)
  BY <1>2, <1>3, FS_Subset
<1>5. HeldBy(upload[u]) = {<<m, parts[m]>> : m \in there}
  BY Zenon DEF HeldBy
<1> HIDE DEF parts, there
<1>6. f \in Surjection(there, {<<m, parts[m]>> : m \in there})
  BY DEF Surjection
<1> QED
  BY <1>4, <1>5, <1>6, FS_Surjection

\* A page is a page: parts the upload holds, and all of them that lie after the
\* marker and, if more follow, up to the next marker.
LEMMA PageContents ==
    ASSUME ProviderType, call.upload \in Uploads, NEW marker \in Int
    PROVE  LET page == PageAfter(marker)
               held == HeldBy(upload[call.upload])
           IN  /\ page \in Pages /\ page.next \in 0..MaxParts
               /\ page.parts \subseteq held
               /\ \A x \in held : /\ x[1] > marker
                                  /\ page.truncated => x[1] <= page.next
                                  => x \in page.parts
<1> DEFINE held == HeldBy(upload[call.upload])
           rest == {p \in held : p[1] > marker}
           Before(x) == {q \in rest : q[1] < x[1]}
           page == {p \in rest : Cardinality(Before(p)) < PageSize}
           next == IF page = {} THEN 0 ELSE Max({p[1] : p \in page})
<1>1. PageAfter(marker) = [parts |-> page, truncated |-> page # rest, next |-> next]
  BY Zenon DEF PageAfter
<1>2. held \subseteq PartsHeld /\ IsFiniteSet(held)
  BY HeldParts, HeldFinite
<1>3. \A x \in held : x[1] \in 1..MaxParts
  <2>1. Numbers \subseteq 1..MaxParts
    BY DEF ProviderType
  <2> QED
    BY <1>2, <2>1 DEF PartsHeld
<1> HIDE DEF held
<1>4. IsFiniteSet(rest)
  BY <1>2, FS_Subset
<1>5. page \subseteq rest /\ rest \subseteq held
  OBVIOUS
<1>6. page = {} \/ (\E y \in page : next = y[1])
  <2> SUFFICES ASSUME page # {} PROVE \E y \in page : next = y[1]
    OBVIOUS
  <2> DEFINE numbers == {p[1] : p \in page}
  <2>1. numbers # {}
    OBVIOUS
  <2>2. numbers \subseteq 1..MaxParts
    BY <1>3, <1>5
  <2>3. Max(numbers) \in numbers
    <3> HIDE DEF numbers
    <3> QED
      BY <2>1, <2>2, MaxIsGreatest, PartLimits
  <2>4. next = Max(numbers)
    OBVIOUS
  <2>5. PICK y \in page : Max(numbers) = y[1]
    BY <2>3
  <2> QED
    BY <2>4, <2>5, Zenon
<1>7. next \in 0..MaxParts
  <2>1. CASE page = {}
    BY <2>1, PartLimits
  <2>2. ASSUME NEW y \in page, next = y[1] PROVE next \in 0..MaxParts
    <3>1. y[1] \in 1..MaxParts
      BY <1>3, <1>5
    <3> HIDE DEF next
    <3> QED
      BY <2>2, <3>1, PartLimits
  <2> HIDE DEF page, next
  <2> QED
    BY <1>6, <2>1, <2>2
<1>8. ASSUME NEW x \in rest, NEW y \in page, x[1] <= y[1] PROVE x \in page
  <2>1. Before(x) \subseteq Before(y)
    <3>1. x[1] \in Int /\ y[1] \in Int
      BY <1>3, <1>5
    <3>2. \A q \in rest : q[1] \in Int
      BY <1>3, <1>5
    <3> QED
      BY <1>8, <3>1, <3>2
  <2>2. IsFiniteSet(Before(y))
    BY <1>4, FS_Subset
  <2>3. Cardinality(Before(x)) <= Cardinality(Before(y)) /\ IsFiniteSet(Before(x))
    BY <2>1, <2>2, FS_Subset
  <2>4. Cardinality(Before(x)) \in Nat /\ Cardinality(Before(y)) \in Nat
    BY <2>2, <2>3, FS_CardinalityType
  <2>5. Cardinality(Before(y)) < PageSize
    OBVIOUS
  <2> QED
    BY <2>3, <2>4, <2>5, ProviderBounds
<1>9. ASSUME NEW x \in held, x[1] > marker, page # rest => x[1] <= next PROVE x \in page
  <2>1. x \in rest
    BY <1>9
  <2>2. CASE page = rest
    BY <2>1, <2>2
  <2>3. CASE page # rest
    <3>1. x[1] <= next /\ x[1] \in 1..MaxParts
      BY <1>3, <1>9, <2>3
    <3>2. page # {}
      BY <3>1
    <3>3. PICK y \in page : next = y[1]
      BY <1>6, <3>2
    <3> QED
      BY <1>8, <2>1, <3>1, <3>3
  <2> QED
    BY <2>2, <2>3
<1> HIDE DEF page, next, rest
<1>10. PageAfter(marker) \in Pages
  <2> DEFINE truncated == page # rest
  <2>1. truncated \in BOOLEAN
    OBVIOUS
  <2>2. page \in SUBSET PartsHeld
    BY <1>2, <1>5
  <2> HIDE DEF truncated
  <2>3. next \in Int
    BY <1>7, PartLimits
  <2>4. [parts |-> page, truncated |-> truncated, next |-> next] \in Pages
    BY <2>1, <2>2, <2>3 DEF Pages
  <2> QED
    BY <1>1, <2>4, Zenon DEF truncated
<1>11. PageAfter(marker).parts = page /\ PageAfter(marker).next = next
  BY <1>1
<1>12. page # rest => PageAfter(marker).truncated
  <2> DEFINE truncated == page # rest
  <2>1. PageAfter(marker) = [parts |-> page, truncated |-> truncated, next |-> next]
    BY <1>1, Zenon
  <2> HIDE DEF truncated
  <2>2. PageAfter(marker).truncated = truncated
    BY <2>1
  <2>3. truncated => PageAfter(marker).truncated
    BY <2>2, Zenon
  <2> QED
    BY <2>3, Zenon DEF truncated
<1>13. PageAfter(marker).parts \subseteq held
  BY <1>5, <1>11
<1>14. ASSUME NEW x \in held, x[1] > marker,
              PageAfter(marker).truncated => x[1] <= PageAfter(marker).next
       PROVE  x \in PageAfter(marker).parts
  <2>1. page # rest => x[1] <= next
    BY <1>11, <1>12, <1>14
  <2> QED
    BY <1>9, <1>11, <1>14, <2>1
<1> QED
  BY <1>7, <1>10, <1>11, <1>13, <1>14 DEF held

\* An answer keeps the call well typed.
LEMMA AnswerType ==
    ASSUME ProviderType, UNCHANGED plan, upload' \in UploadTable,
           \A u \in Uploads : upload[u].state # "none" => upload'[u].state # "none",
           call.at = "request", NEW a \in AnswerCodes \ {"page"}, Answer(a)
    PROVE  ProviderType'
<1>0. /\ Numbers' = Numbers /\ Pages' = Pages /\ Receipts' = Receipts
      /\ UploadTable' = UploadTable /\ Calls' = Calls
  BY SameTypes
<1>1. call \in Calls /\ call' = [call EXCEPT !.at = "answered", !.answer = a]
  BY DEF ProviderType, Answer
<1>2. call' \in Calls
  BY <1>1 DEF Calls
<1>3. /\ call'.op = call.op /\ call'.upload = call.upload /\ call'.receipts = call.receipts
      /\ call'.answer = a /\ call'.at = "answered"
  BY <1>1 DEF Calls
<1>4. a # "page"
  OBVIOUS
<1> QED
  BY <1>0, <1>2, <1>3, <1>4 DEF ProviderType

\* The provider keeps them.
LEMMA AnswersType == ProviderType /\ Answers /\ UNCHANGED plan => ProviderType'
<1> SUFFICES ASSUME ProviderType, Answers, UNCHANGED plan PROVE ProviderType'
  OBVIOUS
<1>0. /\ Numbers' = Numbers /\ Pages' = Pages /\ Receipts' = Receipts
      /\ UploadTable' = UploadTable /\ Calls' = Calls
  BY SameTypes
<1>u. /\ upload' \in UploadTable
      /\ \A u \in Uploads : upload[u].state # "none" => upload'[u].state # "none"
  BY UploadsStep
<1>c. call \in Calls
  BY DEF ProviderType
<1>1. ASSUME NEW u \in Uploads, AnswerCreate(u) PROVE ProviderType'
  <2>1. call' = [call EXCEPT !.at = "answered", !.answer = "created", !.upload = u]
    BY <1>1 DEF AnswerCreate
  <2>2. u \in 0..MaxUploads /\ call.op = "create"
    BY <1>1, ProviderBounds DEF Uploads, AnswerCreate, Requested
  <2>3. call' \in Calls
    BY <1>c, <2>1, <2>2 DEF Calls, AnswerCodes
  <2>4. call'.op = "create" /\ call'.answer = "created"
    BY <1>c, <2>1, <2>2 DEF Calls
  <2> QED
    BY <1>0, <1>u, <2>3, <2>4 DEF ProviderType, OnUpload
<1>2. CASE AnswerComplete
  BY <1>2, <1>u, AnswerType DEF AnswerComplete, Requested, AnswerCodes
<1>3. CASE AnswerAbort
  BY <1>3, <1>u, AnswerType DEF AnswerAbort, Requested, AnswerCodes
<1>4. CASE AnswerRefused
  <2>1. PICK code \in Errors : Answer(code)
    BY <1>4 DEF AnswerRefused, Refusals
  <2> QED
    BY <1>4, <1>u, <2>1, AnswerType DEF AnswerRefused, AnswerCodes, Errors
<1>5. CASE AnswerHead
  <2>1. PICK code \in {"absent", "exists"} : Answer(code)
    BY <1>5 DEF AnswerHead
  <2> QED
    BY <1>5, <1>u, <2>1, AnswerType DEF AnswerHead, Requested, AnswerCodes
<1>6. ASSUME NEW page \in Pages, NEW misled \in BOOLEAN, call.op = "list",
             call' = [call EXCEPT !.at = "answered", !.answer = "page", !.misled = misled,
                                  !.page = page]
      PROVE  ProviderType'
  <2>1. call' \in Calls
    BY <1>c, <1>6 DEF Calls, AnswerCodes
  <2>2. call'.op = "list" /\ call'.upload = call.upload /\ call'.page = page
    BY <1>c, <1>6 DEF Calls
  <2> QED
    BY <1>0, <1>u, <1>6, <2>1, <2>2 DEF ProviderType, OnUpload
<1>7. CASE AnswerPage
  <2>1. call.op = "list" /\ call.upload \in Uploads /\ call.marker \in Int
    BY <1>7, <1>c DEF AnswerPage, Requested, ProviderType, OnUpload, Calls
  <2>2. PageAfter(call.marker) \in Pages
    BY <2>1, PageContents
  <2>3. call' = [call EXCEPT !.at = "answered", !.answer = "page", !.misled = call.misled,
                             !.page = PageAfter(call.marker)]
    BY <1>7, <1>c DEF AnswerPage, Calls
  <2>4. call.misled \in BOOLEAN
    BY <1>c DEF Calls
  <2> QED
    BY <1>6, <2>1, <2>2, <2>3, <2>4
<1>8. CASE AnswerWrongPage
  <2>1. call.op = "list" /\ call.upload \in Uploads
    BY <1>8 DEF AnswerWrongPage, Requested, ProviderType, OnUpload
  <2>2. PageAfter(0).parts \in SUBSET PartsHeld
    <3>1. PageAfter(0).parts \subseteq HeldBy(upload[call.upload])
      BY <2>1, PageContents
    <3>2. HeldBy(upload[call.upload]) \subseteq PartsHeld
      BY <2>1, HeldParts
    <3> QED
      BY <3>1, <3>2
  <2>3. PICK parts \in {{}, PageAfter(0).parts}, truncated \in BOOLEAN, next \in Numbers \cup {0} :
          call' = [call EXCEPT !.at = "answered", !.answer = "page", !.misled = TRUE,
                               !.page = [parts |-> parts, truncated |-> truncated, next |-> next]]
    BY <1>8 DEF AnswerWrongPage
  <2>4. parts \in SUBSET PartsHeld
    <3>1. {} \in SUBSET PartsHeld
      OBVIOUS
    <3> QED
      BY <2>2, <2>3, <3>1, Zenon
  <2>5. next \in Int
    BY <2>3 DEF ProviderType
  <2>6. [parts |-> parts, truncated |-> truncated, next |-> next] \in Pages
    BY <2>3, <2>4, <2>5 DEF Pages
  <2> QED
    BY <1>6, <2>1, <2>3, <2>6
<1>9. CASE Lose
  <2>1. CASE call.tries < MaxTries
    <3>1. call' = [call EXCEPT !.at = "request", !.tries = call.tries + 1, !.answer = None,
                               !.page = None]
      BY <1>9, <2>1, <1>c DEF Lose, Calls
    <3>t. call.tries + 1 \in Nat /\ None \in AnswerCodes /\ None \in Pages \cup {None}
      BY <1>c DEF Calls, AnswerCodes
    <3>2. call' \in Calls
      BY <1>c, <3>1, <3>t DEF Calls
    <3>3. /\ call'.op = call.op /\ call'.upload = call.upload /\ call'.receipts = call.receipts
          /\ call'.at = "request"
      BY <1>c, <3>1 DEF Calls
    <3> QED
      BY <1>0, <1>9, <1>u, <3>2, <3>3 DEF ProviderType, Lose
  <2>2. CASE ~(call.tries < MaxTries)
    <3>1. GaveUp \in AnswerCodes
      BY DEF GaveUp, AnswerCodes
    <3>2. Return(GaveUp) /\ UNCHANGED upload
      BY <1>9, <2>2, Zenon DEF Lose
    <3> HIDE DEF GaveUp
    <3> QED
      BY <3>1, <3>2, ReturnType, Zenon
  <2> QED
    BY <2>1, <2>2
<1> QED
  BY <1>1, <1>2, <1>3, <1>4, <1>5, <1>7, <1>8, <1>9 DEF Answers

\* What reading a page does, unless it ends the call with a contract error.
LEMMA TakePageEffect ==
    ASSUME ProviderType, call.at = "answered", call.answer = "page", TakePage(call.page)
    PROVE  \/ Return("contract")
           \/ /\ call' \in Calls
              /\ call'.op = "list" /\ call'.upload = call.upload /\ call'.misled = call.misled
              /\ call'.observed = call.observed \cup call.page.parts
              /\ \/ /\ call.page.truncated
                    /\ call'.at = "request" /\ call'.marker = call.page.next
                    /\ call'.tries = 1 /\ Advances(call.page.next)
                 \/ /\ ~call.page.truncated
                    /\ call'.at = "returned" /\ call'.answer = "listed"
<1> DEFINE page == call.page
           observed == call.observed \cup page.parts
           seen == [call EXCEPT !.observed = observed]
<1>1. call \in Calls /\ page \in Pages /\ call.op = "list"
  BY DEF ProviderType
<1>2. observed \in SUBSET PartsHeld /\ page.next \in Int /\ page.truncated \in BOOLEAN
  BY <1>1 DEF Calls, Pages
<1>3. \/ Return("contract")
      \/ /\ page.truncated /\ Advances(page.next)
         /\ call' = [seen EXCEPT !.at = "request", !.tries = 1, !.marker = page.next,
                                 !.answer = None, !.page = None]
      \/ ~page.truncated /\ call' = [seen EXCEPT !.at = "returned", !.tries = 1, !.marker = 0,
                                       !.answer = "listed", !.page = None]
  <2>1. seen = [call EXCEPT !.observed = @ \cup page.parts]
    BY <1>1 DEF Calls
  <2> HIDE DEF seen
  <2> QED
    BY <2>1, <1>2 DEF TakePage
<1> HIDE DEF page, observed
<1>4. seen \in Calls
  BY <1>1, <1>2 DEF Calls
<1>5. /\ seen.op = "list" /\ seen.upload = call.upload /\ seen.misled = call.misled
      /\ seen.observed = observed
  BY <1>1 DEF Calls
<1> HIDE DEF seen
<1>6. None \in AnswerCodes /\ "listed" \in AnswerCodes /\ None \in Pages \cup {None}
  BY DEF AnswerCodes
<1>7. ASSUME NEW at \in {"request", "returned"}, NEW marker \in Int, NEW answer \in AnswerCodes,
             call' = [seen EXCEPT !.at = at, !.tries = 1, !.marker = marker, !.answer = answer,
                                  !.page = None]
      PROVE  /\ call' \in Calls
             /\ call'.op = "list" /\ call'.upload = call.upload /\ call'.misled = call.misled
             /\ call'.observed = observed /\ call'.at = at /\ call'.marker = marker
             /\ call'.answer = answer /\ call'.tries = 1
  <2>1. 1 \in Nat
    OBVIOUS
  <2> QED
    BY <1>4, <1>5, <1>6, <1>7, <2>1 DEF Calls
<1>8. CASE Return("contract")
  BY <1>8
<1>9. CASE /\ page.truncated /\ Advances(page.next)
           /\ call' = [seen EXCEPT !.at = "request", !.tries = 1, !.marker = page.next,
                                   !.answer = None, !.page = None]
  <2>1. /\ call' \in Calls
        /\ call'.op = "list" /\ call'.upload = call.upload /\ call'.misled = call.misled
        /\ call'.observed = observed /\ call'.at = "request" /\ call'.marker = page.next
        /\ call'.tries = 1
    BY <1>2, <1>6, <1>7, <1>9
  <2> QED
    BY <1>9, <2>1 DEF page, observed
<1>10. CASE ~page.truncated /\ call' = [seen EXCEPT !.at = "returned", !.tries = 1, !.marker = 0,
                                          !.answer = "listed", !.page = None]
  <2>1. /\ call' \in Calls
        /\ call'.op = "list" /\ call'.upload = call.upload /\ call'.misled = call.misled
        /\ call'.observed = observed /\ call'.at = "returned" /\ call'.answer = "listed"
    <3>1. 0 \in Int
      OBVIOUS
    <3> QED
      BY <1>6, <1>7, <1>10, <3>1
  <2> QED
    BY <1>10, <2>1 DEF page, observed
<1> QED
  BY <1>3, <1>8, <1>9, <1>10

\* The adapter keeps them.
LEMMA ReturnsType == ProviderType /\ Returns /\ UNCHANGED plan => ProviderType'
<1> SUFFICES ASSUME ProviderType, Returns, UNCHANGED plan PROVE ProviderType'
  OBVIOUS
<1>0. /\ Numbers' = Numbers /\ Pages' = Pages /\ Receipts' = Receipts
      /\ UploadTable' = UploadTable /\ Calls' = Calls
  BY SameTypes
<1>1. UNCHANGED <<plan, upload>>
  BY DEF Returns, Malformed, Classify, ReadPage
<1>2. \/ \E outcome \in AnswerCodes : Return(outcome)
      \/ call.at = "answered" /\ call.answer = "page" /\ TakePage(call.page)
  <2>1. call.answer \in AnswerCodes
    BY DEF ProviderType, Calls
  <2>2. {"contract", "alreadyAbsent", "notFound"} \subseteq AnswerCodes
    BY DEF AnswerCodes
  <2>3. CASE Malformed
    BY <2>2, <2>3 DEF Malformed
  <2>4. CASE Classify
    BY <2>1, <2>2, <2>4 DEF Classify
  <2>5. CASE ReadPage
    BY <2>5 DEF ReadPage
  <2> QED
    BY <2>3, <2>4, <2>5 DEF Returns
<1>3. CASE \E outcome \in AnswerCodes : Return(outcome)
  BY <1>1, <1>3, ReturnType
<1>4. CASE call.at = "answered" /\ call.answer = "page" /\ TakePage(call.page)
  <2>1. CASE Return("contract")
    BY <1>1, <2>1, ReturnType DEF AnswerCodes
  <2>2. CASE /\ call' \in Calls
             /\ call'.op = "list" /\ call'.upload = call.upload
             /\ call'.at \in {"request", "returned"}
    BY <1>0, <1>1, <1>4, <2>2 DEF ProviderType, OnUpload
  <2> QED
    BY <1>4, <2>1, <2>2, TakePageEffect
<1> QED
  BY <1>2, <1>3, <1>4

\* Types are kept by every step.
LEMMA StepProviderType == ProviderType /\ [Next]_provVars => ProviderType'
<1> SUFFICES ASSUME ProviderType, [Next]_provVars PROVE ProviderType'
  OBVIOUS
<1>1. CASE UNCHANGED provVars
  BY <1>1, SameTypes DEF provVars, ProviderType
<1>2. CASE Next
  <2>1. UNCHANGED plan
    BY <1>2 DEF Next
  <2>2. CASE Others
    <3>1. UNCHANGED call
      BY <2>2 DEF Others, PutPart, OthersComplete, OthersAbort, OthersCreate, OthersPublish
    <3>2. upload' \in UploadTable
          /\ \A u \in Uploads : upload[u].state # "none" => upload'[u].state # "none"
      BY <2>2, UploadsStep
    <3> QED
      BY <2>1, <3>1, <3>2, SameTypes DEF ProviderType
  <2> QED
    BY <1>2, <2>1, <2>2, BeginsType, AnswersType, ReturnsType DEF Next
<1> QED
  BY <1>1, <1>2

-----------------------------------------------------------------------------
(***************************************************************************)
(* Outcomes.                                                               *)
(***************************************************************************)

Settled == {"completed", "aborted"}

\* What an answer says is true while the adapter reads it and after it has
\* returned.
OutcomeInv ==
    call.at \in {"answered", "returned"} =>
      /\ call.answer = "completed" =>
           /\ call.receipts \in Receipts
           /\ call.op \in OnUpload
           /\ object = [by |-> call.upload, parts |-> call.receipts]
      /\ call.answer = "aborted" =>
           call.op \in OnUpload /\ upload[call.upload].state = "aborted"
      /\ call.answer \in {"noSuchUpload", "alreadyAbsent", "notFound"} =>
           call.op \in OnUpload /\ upload[call.upload].state \in Settled
      /\ call.answer \in {"precondition", "exists"} => object # None

\* An upload that was completed or aborted stays so, and a create opens one
\* that did not exist.
LEMMA SettledStays ==
    ASSUME ProviderType, Next, NEW u \in Uploads, upload[u].state \in Settled
    PROVE  upload'[u] = upload[u]
<1>1. ASSUME NEW w \in Uploads, NEW st, upload[w].state \notin Settled,
             upload' = [upload EXCEPT ![w].state = st]
      PROVE  upload'[u] = upload[u]
  BY <1>1 DEF ProviderType, UploadTable
<1>2. ASSUME NEW w \in Uploads, NEW n \in Numbers, NEW etag, upload[w].state \notin Settled,
             upload' = [upload EXCEPT ![w].parts[n] = etag]
      PROVE  upload'[u] = upload[u]
  BY <1>2 DEF ProviderType, UploadTable
<1>3. ASSUME NEW w \in Uploads, NEW receipts,
             Assemble(w, receipts) \/ Discard(w) \/ OpenUpload(w)
      PROVE  upload'[u] = upload[u]
  BY <1>1, <1>3 DEF Assemble, CanComplete, Discard, OpenUpload, Settled
<1>4. CASE AnswerComplete \/ AnswerAbort
  <2>1. call.upload \in Uploads
    BY <1>4 DEF AnswerComplete, AnswerAbort, Requested, ProviderType, OnUpload
  <2> QED
    BY <1>3, <1>4, <2>1 DEF AnswerComplete, AnswerAbort
<1>5. ASSUME NEW w \in Uploads, AnswerCreate(w) \/ OthersAbort(w) \/ OthersCreate(w)
      PROVE  upload'[u] = upload[u]
  BY <1>3, <1>5 DEF AnswerCreate, OthersAbort, OthersCreate
<1>6. ASSUME NEW w \in Uploads, NEW receipts \in Receipts, OthersComplete(w, receipts)
      PROVE  upload'[u] = upload[u]
  BY <1>3, <1>6 DEF OthersComplete
<1>7. ASSUME NEW w \in Uploads, NEW n \in Numbers, NEW etag \in ETags, PutPart(w, n, etag)
      PROVE  upload'[u] = upload[u]
  BY <1>2, <1>7 DEF PutPart, Settled
<1>8. CASE AnswerRefused \/ AnswerHead \/ AnswerPage \/ AnswerWrongPage \/ Lose \/ OthersPublish
  BY <1>8 DEF AnswerRefused, AnswerHead, AnswerPage, AnswerWrongPage, Lose, OthersPublish
<1>9. CASE Begins \/ Returns
  BY <1>9 DEF Begins, Begin, BeginComplete, Forget, Returns, Malformed, Classify, ReadPage
<1> QED
  BY <1>4, <1>5, <1>6, <1>7, <1>8, <1>9 DEF Next, Answers, Others

\* What was proven stays true while the call itself stands still, or returns
\* the same answer.
LEMMA OutcomeStays ==
    ASSUME ProviderType, OutcomeInv, Next, call.at \in {"answered", "returned"},
           call'.op = call.op, call'.upload = call.upload, call'.answer = call.answer,
           call.answer = "completed" => call'.receipts = call.receipts
    PROVE  OutcomeInv'
<1>0. Receipts' = Receipts
  BY DEF Next, Receipts, Numbers
<1>1. object # None => object' = object
  BY ObjectStep
<1>2. call.op \in OnUpload => call.upload \in Uploads
  BY DEF ProviderType
<1>3. \A u \in Uploads : upload[u].state \in Settled => upload'[u] = upload[u]
  BY SettledStays
<1>4. call.answer = "completed" => object # None
  <2> SUFFICES ASSUME call.answer = "completed" PROVE object # None
    OBVIOUS
  <2>1. /\ call.receipts \in Receipts /\ call.upload \in 0..MaxUploads
        /\ object = [by |-> call.upload, parts |-> call.receipts]
    BY DEF OutcomeInv, ProviderType, Calls
  <2>2. PICK S \in SUBSET Numbers : call.receipts \in [S -> ETags]
    BY <2>1 DEF Receipts
  <2>3. S \in SUBSET (1..MaxParts)
    BY DEF ProviderType
  <2>4. call.receipts \in UNION {[T -> ETags] : T \in SUBSET (1..MaxParts)}
    BY <2>2, <2>3
  <2> QED
    BY <2>1, <2>4, ProviderNone
<1>5. call.answer = "completed" =>
        /\ call'.receipts \in Receipts /\ call'.op \in OnUpload
        /\ object' = [by |-> call'.upload, parts |-> call'.receipts]
  BY <1>1, <1>4 DEF OutcomeInv
<1>6. call.answer = "aborted" =>
        call'.op \in OnUpload /\ upload'[call'.upload].state = "aborted"
  BY <1>2, <1>3 DEF OutcomeInv, Settled
<1>7. call.answer \in {"noSuchUpload", "alreadyAbsent", "notFound"} =>
        call'.op \in OnUpload /\ upload'[call'.upload].state \in Settled
  BY <1>2, <1>3 DEF OutcomeInv
<1>8. call.answer \in {"precondition", "exists"} => object' # None
  BY <1>1 DEF OutcomeInv
<1> QED
  BY <1>0, <1>5, <1>6, <1>7, <1>8 DEF OutcomeInv, Settled, OnUpload

\* A returning call keeps what identifies it.
LEMMA ReturnEffect ==
    ASSUME ProviderType, NEW outcome, Return(outcome)
    PROVE  /\ call'.op = call.op /\ call'.at = "returned" /\ call'.upload = call.upload
           /\ call'.answer = outcome
           /\ outcome = "completed" => call'.receipts = call.receipts
           /\ call'.observed = {} /\ call'.misled = FALSE
<1> DEFINE receipts == IF outcome = "completed" THEN call.receipts ELSE <<>>
<1>1. call' = [Idle EXCEPT !.op = call.op, !.at = "returned", !.upload = call.upload,
                           !.answer = outcome, !.receipts = receipts]
  BY DEF Return
<1>2. Idle.observed = {} /\ Idle.misled = FALSE
  BY DEF Idle
<1>3. outcome = "completed" => receipts = call.receipts
  OBVIOUS
<1> HIDE DEF receipts
<1> QED
  BY <1>1, <1>2, <1>3, IdleType DEF Calls

\* An outcome that promises nothing.
LEMMA NoPromise ==
    ASSUME call'.answer \notin {"completed", "aborted", "noSuchUpload", "alreadyAbsent",
                               "notFound", "precondition", "exists"}
    PROVE  OutcomeInv'
BY DEF OutcomeInv

\* The provider's answers are true when they are given.
LEMMA AnswersAreTrue == ProviderType /\ OutcomeInv /\ Next /\ Answers => OutcomeInv'
<1> SUFFICES ASSUME ProviderType, OutcomeInv, Next, Answers PROVE OutcomeInv'
  OBVIOUS
<1>0. Receipts' = Receipts /\ call \in Calls
  BY DEF Next, Receipts, Numbers, ProviderType
<1>a. ASSUME NEW a, Answer(a)
      PROVE  /\ call'.op = call.op /\ call'.upload = call.upload
             /\ call'.receipts = call.receipts /\ call'.answer = a /\ call'.at = "answered"
  BY <1>0, <1>a DEF Answer, Calls
<1>1. ASSUME NEW u \in Uploads, AnswerCreate(u) PROVE OutcomeInv'
  <2>1. call' = [call EXCEPT !.at = "answered", !.answer = "created", !.upload = u]
    BY <1>1 DEF AnswerCreate
  <2>2. call'.answer = "created"
    BY <1>0, <2>1 DEF Calls
  <2> QED
    BY <2>2, NoPromise
<1>2. CASE AnswerComplete
  <2> DEFINE r == call.receipts
  <2>1. r \in Receipts /\ call.upload \in Uploads
    BY <1>2 DEF AnswerComplete, Requested, ProviderType, OnUpload
  <2>2. PICK S \in SUBSET Numbers : r \in [S -> ETags]
    BY <2>1 DEF Receipts
  <2>3. r = [n \in DOMAIN r |-> upload[call.upload].parts[n]]
    <3>1. \A n \in DOMAIN r : upload[call.upload].parts[n] = r[n]
      BY <1>2 DEF AnswerComplete, Assemble, CanComplete
    <3> QED
      BY <2>2, <3>1
  <2>4. object' = [by |-> call.upload, parts |-> r]
    BY <1>2, <2>3 DEF AnswerComplete, Assemble
  <2>5. call.op = "complete" /\ Answer("completed")
    BY <1>2 DEF AnswerComplete, Requested
  <2> QED
    BY <1>0, <1>a, <2>1, <2>4, <2>5 DEF OutcomeInv, OnUpload
<1>3. CASE AnswerAbort
  <2>1. call.op = "abort" /\ Answer("aborted") /\ call.upload \in Uploads
    BY <1>3 DEF AnswerAbort, Requested, ProviderType, OnUpload
  <2>2. upload' = [upload EXCEPT ![call.upload].state = "aborted"] /\ upload \in UploadTable
    BY <1>3 DEF AnswerAbort, Discard, ProviderType
  <2>3. upload'[call.upload].state = "aborted"
    BY <2>1, <2>2 DEF UploadTable
  <2> QED
    BY <1>a, <2>1, <2>3 DEF OutcomeInv, OnUpload
<1>4. CASE AnswerRefused
  <2>1. PICK code \in Refusals : Answer(code)
    BY <1>4 DEF AnswerRefused
  <2>2. UNCHANGED <<upload, object>>
    BY <1>4 DEF AnswerRefused
  <2>3. code = "noSuchUpload" =>
          call.op \in OnUpload /\ upload[call.upload].state \in Settled
    <3> SUFFICES ASSUME code = "noSuchUpload"
                 PROVE  call.op \in OnUpload /\ upload[call.upload].state \in Settled
      OBVIOUS
    <3>1. call.op \in OnUpload /\ upload[call.upload].state # "open"
      BY DEF Refusals, Errors, OnUpload
    <3> QED
      BY <3>1 DEF ProviderType, UploadTable, Settled
  <2>4. code = "precondition" => object # None
    BY DEF Refusals, Errors
  <2>5. code \in Errors
    BY DEF Refusals
  <2> QED
    BY <1>a, <2>1, <2>2, <2>3, <2>4, <2>5 DEF OutcomeInv, Errors, Settled, OnUpload
<1>5. CASE AnswerHead
  <2>1. CASE object = None
    BY <1>5, <1>a, <2>1, NoPromise DEF AnswerHead
  <2>2. CASE object # None
    <3>1. Answer("exists") /\ UNCHANGED object
      BY <1>5, <2>2 DEF AnswerHead
    <3> QED
      BY <1>a, <2>2, <3>1 DEF OutcomeInv
  <2> QED
    BY <2>1, <2>2
<1>6. CASE AnswerPage \/ AnswerWrongPage
  <2>1. call'.answer = "page"
    BY <1>0, <1>6 DEF AnswerPage, AnswerWrongPage, Calls
  <2> QED
    BY <2>1, NoPromise
<1>7. CASE Lose
  <2>1. CASE call.tries < MaxTries
    <3>1. call'.at = "request"
      BY <1>0, <1>7, <2>1 DEF Lose, Calls
    <3> QED
      BY <3>1 DEF OutcomeInv
  <2>2. CASE ~(call.tries < MaxTries)
    <3>1. Return(GaveUp) /\ GaveUp \in {"transient", "ambiguous"}
      BY <1>7, <2>2 DEF Lose, GaveUp
    <3>2. call'.answer = GaveUp
      BY <3>1, ReturnEffect
    <3> QED
      BY <3>1, <3>2, NoPromise
  <2> QED
    BY <2>1, <2>2
<1> QED
  BY <1>1, <1>2, <1>3, <1>4, <1>5, <1>6, <1>7 DEF Answers

\* Nor does a contract error.
LEMMA ContractPromisesNothing ==
    ASSUME ProviderType, Return("contract")
    PROVE  OutcomeInv'
<1>1. call'.answer = "contract"
  BY ReturnEffect
<1> QED
  BY <1>1, NoPromise

\* The adapter reports no more than the answer says.
LEMMA ReturnsAreTrue == ProviderType /\ OutcomeInv /\ Next /\ Returns => OutcomeInv'
<1> SUFFICES ASSUME ProviderType, OutcomeInv, Next, Returns PROVE OutcomeInv'
  OBVIOUS
<1>1. CASE Malformed
  BY <1>1, ContractPromisesNothing DEF Malformed
<1>2. CASE Classify
  <2> DEFINE outcome == IF call.answer = "noSuchUpload"
                        THEN IF call.op = "abort" THEN "alreadyAbsent" ELSE "notFound"
                        ELSE call.answer
  <2>1. call.at = "answered" /\ UNCHANGED <<upload, object>> /\ Return(outcome)
    BY <1>2 DEF Classify
  <2>2. CASE call.answer = "noSuchUpload"
    <3>1. outcome \in {"alreadyAbsent", "notFound"}
      BY <2>2
    <3> HIDE DEF outcome
    <3>2. call'.op = call.op /\ call'.upload = call.upload /\ call'.answer = outcome
      BY <2>1, ReturnEffect
    <3> QED
      BY <2>1, <2>2, <3>1, <3>2 DEF OutcomeInv, OnUpload, Settled
  <2>3. CASE call.answer # "noSuchUpload"
    <3>1. Return(call.answer)
      BY <2>1, <2>3
    <3> QED
      BY <2>1, <3>1, ReturnEffect, OutcomeStays
  <2> QED
    BY <2>2, <2>3
<1>3. CASE ReadPage
  <2>1. CASE Return("contract")
    BY <2>1, ContractPromisesNothing
  <2>2. CASE call'.at = "request" \/ call'.answer = "listed"
    BY <2>2, NoPromise DEF OutcomeInv
  <2> QED
    BY <1>3, <2>1, <2>2, TakePageEffect DEF ReadPage
<1> QED
  BY <1>1, <1>2, <1>3 DEF Returns

\* Every step keeps it.
LEMMA StepOutcome == ProviderType /\ OutcomeInv /\ [Next]_provVars => OutcomeInv'
<1> SUFFICES ASSUME ProviderType, OutcomeInv, [Next]_provVars PROVE OutcomeInv'
  OBVIOUS
<1>1. CASE UNCHANGED provVars
  BY <1>1 DEF provVars, OutcomeInv, Receipts, Numbers, OnUpload, Settled
<1>2. CASE Next /\ Begins
  <2>1. call'.at \in {"idle", "request"} \/ call'.answer = "contract"
    <3>1. ASSUME NEW op, NEW u, Begin(op, u) PROVE call'.at = "request"
      BY <3>1 DEF Begin, Idle
    <3>2. ASSUME NEW u, NEW receipts, BeginComplete(u, receipts)
          PROVE  call'.at = "request" \/ call'.answer = "contract"
      BY <3>2 DEF BeginComplete, Idle
    <3>3. CASE Forget
      BY <3>3 DEF Forget, Idle
    <3> QED
      BY <1>2, <3>1, <3>2, <3>3 DEF Begins
  <2> QED
    BY <2>1, NoPromise DEF OutcomeInv
<1>3. CASE Next /\ Others
  <2>1. UNCHANGED call
    BY <1>3 DEF Others, PutPart, OthersComplete, OthersAbort, OthersCreate, OthersPublish
  <2>2. CASE call.at \in {"answered", "returned"}
    BY <1>3, <2>1, <2>2, OutcomeStays
  <2>3. CASE call.at \notin {"answered", "returned"}
    BY <2>1, <2>3 DEF OutcomeInv
  <2> QED
    BY <2>2, <2>3
<1> QED
  BY <1>1, <1>2, <1>3, AnswersAreTrue, ReturnsAreTrue DEF Next

\* The types and the outcomes hold in every state.
THEOREM ProviderInvariant == Spec => [](ProviderType /\ OutcomeInv)
<1>1. Init => ProviderType /\ OutcomeInv
  BY InitProviderType DEF Init, Idle, OutcomeInv
<1>2. (ProviderType /\ OutcomeInv) /\ [Next]_provVars => (ProviderType /\ OutcomeInv)'
  BY StepProviderType, StepOutcome
<1> QED
  BY <1>1, <1>2, PTL DEF Spec

\* A definite outcome of complete, abort, list or inspect is true of the
\* provider, however often requests were lost and repeated, whatever others do.
THEOREM OutcomesAreTrue == Spec => []OutcomesAreProven
<1>1. ProviderType /\ OutcomeInv => OutcomesAreProven
  BY DEF ProviderType, OutcomeInv, OutcomesAreProven, Outcome, Upload, Settled
<1> QED
  BY <1>1, ProviderInvariant, PTL

-----------------------------------------------------------------------------
(***************************************************************************)
(* Listings.                                                               *)
(***************************************************************************)

ListedUpload == HeldBy(upload[call.upload])

\* The pages read so far show everything up to the marker.
UpToMarker ==
    /\ call.observed \subseteq since.ever
    /\ \A x \in since.always : x[1] <= call.marker => x \in call.observed

\* The page about to be read shows the rest, or all up to the next marker.
PageShows ==
    /\ call.page.parts \subseteq since.ever
    /\ \A x \in since.always :
         x[1] > call.marker /\ (call.page.truncated => x[1] <= call.page.next)
           => x \in call.page.parts

\* What a listing knows at each of its steps.
ListInv ==
    /\ call.at = "idle" => call.op = "none"
    /\ call.at = "answered" => call.answer # "listed"
    /\ call.at = "returned" /\ call.answer = "listed" => call.op = "list"
    /\ call.op = "list" =>
         /\ since.always \subseteq ListedUpload /\ ListedUpload \subseteq since.ever
         /\ ~call.misled =>
              /\ call.at \in {"request", "answered"} => UpToMarker
              /\ call.at = "answered" /\ call.answer = "page" => PageShows
              /\ call.at = "returned" /\ call.answer = "listed" =>
                   since.always \subseteq call.observed /\ call.observed \subseteq since.ever

\* While a listing goes on, what was there all along shrinks and what was there
\* at some time grows; both bound what is there now.
LEMMA WatchStep ==
    ASSUME Next, call'.op = "list"
    PROVE  /\ since'.always \subseteq ListedUpload' /\ ListedUpload' \subseteq since'.ever
           /\ call.op = "list" =>
                since'.always \subseteq since.always /\ since.ever \subseteq since'.ever
<1> DEFINE held == HeldBy(upload'[call'.upload])
<1>1. since' = IF call.op = "list"
               THEN [always |-> since.always \cap held, ever |-> since.ever \cup held]
               ELSE [always |-> held, ever |-> held]
  BY DEF Next, Watch, Watching
<1>2. ListedUpload' = held
  BY DEF ListedUpload
<1> HIDE DEF held
<1> QED
  BY <1>1, <1>2

\* A step that leaves a listing where it is, or asks again.
LEMMA ListingStands ==
    ASSUME ProviderType, ListInv, Next, call.op = "list", call.at \in {"request", "answered"},
           call'.op = "list", call'.at = "request", call'.misled = call.misled,
           call'.marker = call.marker, call'.observed = call.observed
    PROVE  ListInv'
<1>1. /\ since'.always \subseteq ListedUpload' /\ ListedUpload' \subseteq since'.ever
      /\ since'.always \subseteq since.always /\ since.ever \subseteq since'.ever
  BY WatchStep
<1>2. ~call.misled => UpToMarker'
  BY <1>1 DEF ListInv, UpToMarker
<1> QED
  BY <1>1, <1>2 DEF ListInv

\* A listing that ends without a result.
LEMMA ListingFails ==
    ASSUME Next, call'.at = "returned", call'.answer # "listed"
    PROVE  ListInv'
BY WatchStep DEF ListInv

\* The caller's steps.
LEMMA BeginsListing == ProviderType /\ ListInv /\ Next /\ Begins => ListInv'
<1> SUFFICES ASSUME ProviderType, ListInv, Next, Begins PROVE ListInv'
  OBVIOUS
<1>t. ProviderType'
  BY StepProviderType
<1>1. ASSUME NEW op, NEW u, Begin(op, u) PROVE ListInv'
  <2>1. /\ call'.op = op /\ call'.at = "request"
        /\ call'.marker = 0 /\ call'.observed = {} /\ call.op = "none"
    BY <1>1 DEF Begin, Idle, ListInv
  <2>2. CASE op = "list"
    <3>1. since'.always \subseteq ListedUpload' /\ ListedUpload' \subseteq since'.ever
      BY <2>1, <2>2, WatchStep
    <3>2. ListedUpload' \subseteq PartsHeld' /\ Numbers' \subseteq 1..MaxParts
      <4>1. call'.upload \in Uploads
        BY <1>t, <2>1, <2>2 DEF ProviderType, OnUpload
      <4>2. HeldBy(upload'[call'.upload]) \subseteq PartsHeld'
        <5> DEFINE parts == upload'[call'.upload].parts
        <5>1. parts \in [Numbers' -> ETags \cup {None}]
          BY <1>t, <4>1 DEF ProviderType, UploadTable
        <5>2. HeldBy(upload'[call'.upload])
                = {<<n, parts[n]>> : n \in {m \in DOMAIN parts : parts[m] # None}}
          BY Zenon DEF HeldBy
        <5> HIDE DEF parts
        <5>3. \A n \in {m \in DOMAIN parts : parts[m] # None} :
                <<n, parts[n]>> \in Numbers' \X ETags
          BY <5>1
        <5> QED
          BY <5>2, <5>3, Zenon DEF PartsHeld
      <4> QED
        BY <1>t, <4>2 DEF ListedUpload, ProviderType
    <3>3. ASSUME NEW x \in since'.always PROVE ~ (x[1] <= 0)
      <4>1. x \in PartsHeld'
        BY <3>1, <3>2
      <4>2. x[1] \in Numbers'
        BY <4>1 DEF PartsHeld
      <4>3. x[1] \in 1..MaxParts
        BY <3>2, <4>2
      <4> QED
        BY <4>3, PartLimits
    <3>4. UpToMarker'
      BY <2>1, <3>3 DEF UpToMarker
    <3> QED
      BY <2>1, <3>1, <3>4 DEF ListInv
  <2>3. CASE op # "list"
    BY <2>1, <2>3 DEF ListInv
  <2> QED
    BY <2>2, <2>3
<1>2. ASSUME NEW u, NEW receipts, BeginComplete(u, receipts) PROVE ListInv'
  <2>1. call'.op = "complete" /\ call'.at \in {"request", "returned"}
        /\ (call'.at = "returned" => call'.answer = "contract")
    BY <1>2 DEF BeginComplete, Idle
  <2> QED
    BY <2>1 DEF ListInv
<1>3. CASE Forget
  <2>1. call'.op = "none" /\ call'.at = "idle"
    BY <1>3 DEF Forget, Idle
  <2> QED
    BY <2>1 DEF ListInv
<1> QED
  BY <1>1, <1>2, <1>3 DEF Begins

\* A listing that goes on while an answer arrives, or that others work beside.
LEMMA ListingWaits ==
    ASSUME ProviderType, ListInv, Next, call.op = "list", call'.op = "list",
           call'.at = call.at \/ (call.at = "request" /\ call'.at = "answered"),
           call'.misled = call.misled, call'.marker = call.marker,
           call'.observed = call.observed,
           call'.answer # "listed" \/ (call'.answer = call.answer /\ call'.at = call.at),
           ~call'.misled /\ call'.at = "answered" /\ call'.answer = "page" => PageShows'
    PROVE  ListInv'
<1>1. /\ since'.always \subseteq ListedUpload' /\ ListedUpload' \subseteq since'.ever
      /\ since'.always \subseteq since.always /\ since.ever \subseteq since'.ever
  BY WatchStep
<1>2. ~call.misled /\ call.at \in {"request", "answered"} => UpToMarker'
  BY <1>1 DEF ListInv, UpToMarker
<1>3. ~call.misled /\ call'.at = "returned" /\ call'.answer = "listed" =>
        since'.always \subseteq call'.observed /\ call'.observed \subseteq since'.ever
  BY <1>1 DEF ListInv
<1> QED
  BY <1>1, <1>2, <1>3 DEF ListInv

\* The provider's steps.
LEMMA AnswersListing == ProviderType /\ ListInv /\ Next /\ Answers => ListInv'
<1> SUFFICES ASSUME ProviderType, ListInv, Next, Answers PROVE ListInv'
  OBVIOUS
<1>c. call \in Calls
  BY DEF ProviderType
<1>1. ASSUME NEW a \in AnswerCodes \ {"page", "listed"}, call.at = "request", Answer(a)
      PROVE  ListInv'
  <2>1. /\ call'.op = call.op /\ call'.at = "answered" /\ call'.answer = a
        /\ call'.marker = call.marker /\ call'.observed = call.observed
        /\ call'.misled = call.misled
    BY <1>1, <1>c DEF Answer, Calls
  <2>2. CASE call.op = "list"
    BY <1>1, <2>1, <2>2, ListingWaits
  <2>3. CASE call.op # "list"
    BY <1>1, <2>1, <2>3 DEF ListInv
  <2> QED
    BY <2>2, <2>3
<1>2. ASSUME NEW u \in Uploads, AnswerCreate(u) PROVE ListInv'
  <2>1. call'.op = "create" /\ call'.at = "answered" /\ call'.answer = "created"
    BY <1>2, <1>c DEF AnswerCreate, Requested, Calls
  <2> QED
    BY <2>1 DEF ListInv
<1>3. CASE AnswerComplete
  BY <1>1, <1>3 DEF AnswerComplete, Requested, AnswerCodes
<1>4. CASE AnswerAbort
  BY <1>1, <1>4 DEF AnswerAbort, Requested, AnswerCodes
<1>5. CASE AnswerRefused
  BY <1>1, <1>5 DEF AnswerRefused, Refusals, Errors, AnswerCodes
<1>6. CASE AnswerHead
  BY <1>1, <1>6 DEF AnswerHead, Requested, AnswerCodes
<1>7. CASE AnswerPage
  <2> DEFINE page == PageAfter(call.marker)
  <2>1. /\ call.op = "list" /\ call.at = "request" /\ upload' = upload
        /\ call' = [call EXCEPT !.at = "answered", !.answer = "page", !.page = page]
    BY <1>7 DEF AnswerPage, Requested
  <2>2. call.upload \in Uploads /\ call.marker \in Int
    BY <1>c, <2>1 DEF ProviderType, Calls, OnUpload
  <2>3. /\ page.parts \subseteq ListedUpload
        /\ \A x \in ListedUpload :
             x[1] > call.marker /\ (page.truncated => x[1] <= page.next) => x \in page.parts
    BY <2>2, PageContents DEF ListedUpload
  <2> HIDE DEF page
  <2>4. /\ call'.op = "list" /\ call'.at = "answered" /\ call'.answer = "page"
        /\ call'.page = page /\ call'.marker = call.marker
        /\ call'.observed = call.observed /\ call'.misled = call.misled
    BY <1>c, <2>1 DEF Calls
  <2>5. since'.always \subseteq since.always /\ since.ever \subseteq since'.ever
    BY <2>1, <2>4, WatchStep
  <2>6. since.always \subseteq ListedUpload /\ ListedUpload \subseteq since.ever
    BY <2>1 DEF ListInv
  <2>7. PageShows'
    BY <2>3, <2>4, <2>5, <2>6 DEF PageShows
  <2> QED
    BY <2>1, <2>4, <2>7, ListingWaits
<1>8. CASE AnswerWrongPage
  <2>1. /\ call.op = "list" /\ call'.op = "list" /\ call'.misled
        /\ call'.at = "answered" /\ call'.answer = "page"
    BY <1>8, <1>c DEF AnswerWrongPage, Requested, Calls
  <2>2. since'.always \subseteq ListedUpload' /\ ListedUpload' \subseteq since'.ever
    BY <2>1, WatchStep
  <2> QED
    BY <2>1, <2>2 DEF ListInv
<1>9. CASE Lose
  <2>1. CASE call' = [call EXCEPT !.at = "request", !.tries = @ + 1, !.answer = None,
                                  !.page = None]
    <3>1. /\ call'.op = call.op /\ call'.at = "request"
          /\ call'.marker = call.marker /\ call'.observed = call.observed
          /\ call'.misled = call.misled
      BY <1>c, <2>1 DEF Calls
    <3>2. CASE call.op = "list"
      BY <1>9, <3>1, <3>2, ListingStands DEF Lose
    <3>3. CASE call.op # "list"
      BY <3>1, <3>3 DEF ListInv
    <3> QED
      BY <3>2, <3>3
  <2>2. CASE Return(GaveUp)
    <3>1. GaveUp # "listed"
      BY DEF GaveUp
    <3> QED
      BY <2>2, <3>1, ReturnEffect, ListingFails
  <2> QED
    BY <1>9, <2>1, <2>2 DEF Lose
<1> QED
  BY <1>2, <1>3, <1>4, <1>5, <1>6, <1>7, <1>8, <1>9 DEF Answers

\* The adapter's steps: a page is read, a listing ends.
LEMMA ReturnsListing == ProviderType /\ ListInv /\ Next /\ Returns => ListInv'
<1> SUFFICES ASSUME ProviderType, ListInv, Next, Returns PROVE ListInv'
  OBVIOUS
<1>1. ASSUME NEW outcome, Return(outcome), outcome # "listed" PROVE ListInv'
  BY <1>1, ReturnEffect, ListingFails
<1>2. CASE Malformed
  BY <1>1, <1>2 DEF Malformed
<1>3. CASE Classify
  <2> DEFINE outcome == IF call.answer = "noSuchUpload"
                        THEN IF call.op = "abort" THEN "alreadyAbsent" ELSE "notFound"
                        ELSE call.answer
  <2>1. Return(outcome)
    BY <1>3 DEF Classify
  <2>2. outcome # "listed"
    BY <1>3 DEF Classify, ListInv
  <2> HIDE DEF outcome
  <2> QED
    BY <1>1, <2>1, <2>2
<1>4. CASE ReadPage
  <2>1. /\ call.at = "answered" /\ call.answer = "page" /\ call.op = "list"
        /\ TakePage(call.page)
    BY <1>4 DEF ReadPage, ProviderType
  <2>2. CASE Return("contract")
    BY <1>1, <2>2
  <2>3. CASE /\ call'.op = "list" /\ call'.misled = call.misled
             /\ call'.observed = call.observed \cup call.page.parts
             /\ \/ /\ call.page.truncated
                   /\ call'.at = "request" /\ call'.marker = call.page.next
                \/ /\ ~call.page.truncated
                   /\ call'.at = "returned" /\ call'.answer = "listed"
    <3>1. /\ since'.always \subseteq ListedUpload' /\ ListedUpload' \subseteq since'.ever
          /\ since'.always \subseteq since.always /\ since.ever \subseteq since'.ever
      BY <2>1, <2>3, WatchStep
    <3>2. since.always \subseteq PartsHeld /\ Numbers \subseteq Int /\ call.marker \in Int
      <4>1. call.marker \in Int /\ call.upload \in Uploads /\ Numbers \subseteq 1..MaxParts
        BY <2>1 DEF ProviderType, Calls, OnUpload
      <4>2. ListedUpload \subseteq PartsHeld
        BY <4>1, HeldParts DEF ListedUpload
      <4> QED
        BY <2>1, <4>1, <4>2, PartLimits DEF ListInv
    <3>3. ASSUME ~call.misled
          PROVE  /\ call'.observed \subseteq since'.ever
                 /\ \A x \in since'.always :
                      (call.page.truncated => x[1] <= call.page.next) => x \in call'.observed
      <4>1. UpToMarker /\ PageShows
        BY <2>1, <3>3 DEF ListInv
      <4>2. \A x \in since'.always : x[1] \in Int
        BY <3>1, <3>2 DEF PartsHeld
      <4> QED
        BY <2>3, <3>1, <3>2, <4>1, <4>2 DEF UpToMarker, PageShows
    <3> QED
      BY <2>1, <2>3, <3>1, <3>3 DEF ListInv, UpToMarker
  <2> QED
    BY <2>1, <2>2, <2>3, TakePageEffect
<1> QED
  BY <1>2, <1>3, <1>4 DEF Returns

\* The listing's invariant holds from the first state on.
LEMMA StepListing == ProviderType /\ ListInv /\ [Next]_provVars => ListInv'
<1> SUFFICES ASSUME ProviderType, ListInv, [Next]_provVars PROVE ListInv'
  OBVIOUS
<1>1. CASE UNCHANGED provVars
  BY <1>1 DEF provVars, ListInv, ListedUpload, UpToMarker, PageShows, HeldBy
<1>2. CASE Next /\ Others
  <2>1. UNCHANGED call
    BY <1>2 DEF Others, PutPart, OthersComplete, OthersAbort, OthersCreate, OthersPublish
  <2>2. CASE call.op = "list"
    <3>1. since'.always \subseteq since.always /\ since.ever \subseteq since'.ever
      BY <1>2, <2>1, <2>2, WatchStep
    <3>2. ~call.misled /\ call.at = "answered" /\ call.answer = "page" => PageShows'
      BY <2>1, <2>2, <3>1 DEF ListInv, PageShows
    <3> QED
      BY <1>2, <2>1, <2>2, <3>2, ListingWaits
  <2>3. CASE call.op # "list"
    BY <2>1, <2>3 DEF ListInv
  <2> QED
    BY <2>2, <2>3
<1> QED
  BY <1>1, <1>2, BeginsListing, AnswersListing, ReturnsListing DEF Next

\* A listing shows every part that was in the upload all along and none that
\* never was, however the upload changes between two pages.
THEOREM ListingsStayTrue == Spec => []ListingsAreTrue
<1>1. Init => ListInv
  BY DEF Init, Idle, ListInv
<1>2. ListInv => ListingsAreTrue
  BY DEF ListInv, ListingsAreTrue, Outcome
<1>3. ProviderType /\ ListInv /\ [Next]_provVars => ListInv'
  BY StepListing
<1> QED
  BY <1>1, <1>2, <1>3, ProviderInvariant, PTL DEF Spec
-----------------------------------------------------------------------------
(***************************************************************************)
(* The steps of a call.                                                    *)
(***************************************************************************)

\* A call under way asks for a page that exists, at one of its tries.
RunInv ==
    /\ UnderWay => call.tries \in 1..MaxTries /\ call.marker \in 0..MaxParts
    /\ call.at = "answered" /\ call.answer = "page" => call.page.next \in 0..MaxParts

\* The steps left before a page's marker at a try; r counts the request.
Left(marker, tries, r) == 2 * (MaxTries * (MaxParts - marker) + MaxTries - tries) + r

\* A factor of a smaller number.
LEMMA FactorStep ==
    ASSUME NEW a \in Nat, NEW b \in Nat, NEW c \in Nat, b < c
    PROVE  a * b \in Nat /\ a * c \in Nat /\ a * b + a <= a * c
<1> DEFINE d == c - b - 1
<1>1. d \in Nat /\ c = b + d + 1
  OBVIOUS
<1> HIDE DEF d
<1>2. a * d \in Nat /\ a * b \in Nat
  BY <1>1
<1>3. a * (b + d + 1) = a * b + a * d + a
  BY <1>1
<1> QED
  BY <1>1, <1>2, <1>3

\* There are steps left while a call is under way, and never more than the
\* tries of all pages.
LEMMA StepsAreFinite ==
    ASSUME NEW marker \in 0..MaxParts, NEW tries \in 1..MaxTries, NEW r \in {1, 2}
    PROVE  Left(marker, tries, r) \in 1..(2 * MaxTries * (MaxParts + 1))
<1> DEFINE rest == MaxTries * (MaxParts - marker)
           all == MaxTries * (MaxParts + 1)
<1>1. MaxTries \in Nat \ {0} /\ MaxParts \in Nat \ {0}
  BY PartLimits, ProviderBounds
<1>2. rest \in Nat /\ all \in Nat /\ rest + MaxTries <= all
  <2>1. MaxParts - marker \in Nat /\ MaxParts + 1 \in Nat /\ MaxParts - marker < MaxParts + 1
    BY <1>1
  <2> QED
    BY <1>1, <2>1, FactorStep
<1>3. 2 * MaxTries * (MaxParts + 1) = 2 * all
  BY <1>1
<1>4. Left(marker, tries, r) = 2 * (rest + MaxTries - tries) + r
  BY DEF Left
<1> HIDE DEF rest, all
<1>5. 2 * (rest + MaxTries - tries) + r \in 1..(2 * all)
  BY <1>1, <1>2
<1> QED
  BY <1>3, <1>4, <1>5

\* A page further on, a try later, an answer: each leaves fewer steps.
LEMMA FewerSteps ==
    ASSUME NEW marker \in 0..MaxParts, NEW tries \in 1..MaxTries
    PROVE  /\ Left(marker, tries, 1) < Left(marker, tries, 2)
           /\ \A r \in {1, 2} : Left(marker, tries + 1, 2) < Left(marker, tries, r)
           /\ \A next \in 0..MaxParts :
                next > marker => Left(next, 1, 2) < Left(marker, tries, 1)
<1> DEFINE rest == MaxTries * (MaxParts - marker)
<1>1. MaxTries \in Nat \ {0} /\ MaxParts \in Nat \ {0}
  BY PartLimits, ProviderBounds
<1>2. rest \in Nat
  BY <1>1
<1>3. \A t, r : Left(marker, t, r) = 2 * (rest + MaxTries - t) + r
  BY DEF Left
<1>4. ASSUME NEW next \in 0..MaxParts, next > marker
      PROVE  Left(next, 1, 2) < Left(marker, tries, 1)
  <2> DEFINE fewer == MaxTries * (MaxParts - next)
  <2>1. MaxParts - next \in Nat /\ MaxParts - marker \in Nat /\ MaxParts - next < MaxParts - marker
    BY <1>1, <1>4
  <2>2. fewer \in Nat /\ fewer + MaxTries <= rest
    BY <1>1, <2>1, FactorStep
  <2>3. Left(next, 1, 2) = 2 * (fewer + MaxTries - 1) + 2
    BY DEF Left
  <2> HIDE DEF rest, fewer
  <2>4. 2 * (fewer + MaxTries - 1) + 2 < 2 * (rest + MaxTries - tries) + 1
    BY <1>1, <1>2, <2>2
  <2> QED
    BY <1>3, <2>3, <2>4
<1> HIDE DEF rest
<1>5. /\ 2 * (rest + MaxTries - tries) + 1 < 2 * (rest + MaxTries - tries) + 2
      /\ \A r \in {1, 2} :
           2 * (rest + MaxTries - (tries + 1)) + 2 < 2 * (rest + MaxTries - tries) + r
  BY <1>1, <1>2
<1> QED
  BY <1>3, <1>4, <1>5
\* What a step does to a call under way: nothing, its end, an answer, another
\* try, or the next page.
LEMMA CallSteps ==
    ASSUME ProviderType, RunInv, Next, UnderWay
    PROVE  \/ call' = call
           \/ /\ call'.op = call.op
              /\ \/ call'.at = "returned"
                 \/ /\ call.at = "request" /\ call'.at = "answered"
                    /\ call'.marker = call.marker /\ call'.tries = call.tries
                    /\ call'.answer = "page" => call'.page.next \in 0..MaxParts
                 \/ /\ call'.at = "request" /\ call'.marker = call.marker
                    /\ call'.tries = call.tries + 1 /\ call.tries < MaxTries
                 \/ /\ call.at = "answered" /\ call'.at = "request" /\ call'.tries = 1
                    /\ call'.marker \in 0..MaxParts /\ call'.marker > call.marker
<1> DEFINE Ends == call'.op = call.op /\ call'.at = "returned"
           Answered == /\ call'.op = call.op
                       /\ call.at = "request" /\ call'.at = "answered"
                       /\ call'.marker = call.marker /\ call'.tries = call.tries
                       /\ call'.answer = "page" => call'.page.next \in 0..MaxParts
           Again == /\ call'.op = call.op
                    /\ call'.at = "request" /\ call'.marker = call.marker
                    /\ call'.tries = call.tries + 1 /\ call.tries < MaxTries
           Onward == /\ call'.op = call.op
                     /\ call.at = "answered" /\ call'.at = "request" /\ call'.tries = 1
                     /\ call'.marker \in 0..MaxParts /\ call'.marker > call.marker
<1> SUFFICES call' = call \/ Ends \/ Answered \/ Again \/ Onward
  OBVIOUS
<1>c. call \in Calls /\ call.at \in {"request", "answered"}
  BY DEF ProviderType, UnderWay
<1>r. ASSUME NEW outcome, Return(outcome) PROVE Ends
  BY <1>r, ReturnEffect
<1>a. ASSUME NEW code, code # "page", call.at = "request", Answer(code) PROVE Answered
  <2>1. call' = [call EXCEPT !.at = "answered", !.answer = code]
    BY <1>a DEF Answer
  <2>2. /\ call'.op = call.op /\ call'.at = "answered" /\ call'.answer = code
        /\ call'.marker = call.marker /\ call'.tries = call.tries
    BY <1>c, <2>1 DEF Calls
  <2> QED
    BY <1>a, <2>2
<1>p. ASSUME NEW page, NEW misled, page.next \in 0..MaxParts, call.at = "request",
             call' = [call EXCEPT !.at = "answered", !.answer = "page", !.misled = misled,
                                  !.page = page]
      PROVE  Answered
  BY <1>c, <1>p DEF Calls
<1> HIDE DEF Ends, Answered, Again, Onward
<1>1. CASE Begins
  BY <1>1, <1>c DEF Begins, Begin, BeginComplete, Forget
<1>2. CASE Others
  BY <1>2 DEF Others, PutPart, OthersComplete, OthersAbort, OthersCreate, OthersPublish
<1>3. CASE Answers
  <2>1. ASSUME NEW u \in Uploads, AnswerCreate(u) PROVE Answered
    <3>1. /\ call.at = "request"
          /\ call' = [call EXCEPT !.at = "answered", !.answer = "created", !.upload = u]
      BY <2>1 DEF AnswerCreate, Requested
    <3>2. /\ call'.op = call.op /\ call'.at = "answered" /\ call'.answer = "created"
          /\ call'.marker = call.marker /\ call'.tries = call.tries
      BY <1>c, <3>1 DEF Calls
    <3> QED
      BY <3>1, <3>2 DEF Answered
  <2>2. CASE AnswerComplete
    BY <1>a, <2>2 DEF AnswerComplete, Requested
  <2>3. CASE AnswerAbort
    BY <1>a, <2>3 DEF AnswerAbort, Requested
  <2>4. CASE AnswerRefused
    <3>1. PICK code \in Errors : Answer(code)
      BY <2>4 DEF AnswerRefused, Refusals
    <3> QED
      BY <1>a, <2>4, <3>1 DEF AnswerRefused, Errors
  <2>5. CASE AnswerHead
    <3>1. PICK code \in {"absent", "exists"} : Answer(code)
      BY <2>5 DEF AnswerHead
    <3> QED
      BY <1>a, <2>5, <3>1 DEF AnswerHead, Requested
  <2>6. CASE AnswerPage
    <3>1. /\ call.at = "request" /\ call.op = "list" /\ call.upload \in Uploads
          /\ call.marker \in Int
      BY <2>6, <1>c DEF AnswerPage, Requested, ProviderType, OnUpload, Calls
    <3>2. PageAfter(call.marker).next \in 0..MaxParts
      BY <3>1, PageContents
    <3>3. call' = [call EXCEPT !.at = "answered", !.answer = "page", !.misled = call.misled,
                               !.page = PageAfter(call.marker)]
      BY <2>6, <1>c DEF AnswerPage, Calls
    <3> QED
      BY <1>p, <3>1, <3>2, <3>3
  <2>7. CASE AnswerWrongPage
    <3>1. PICK parts \in {{}, PageAfter(0).parts}, truncated \in BOOLEAN,
               next \in Numbers \cup {0} :
            call' = [call EXCEPT !.at = "answered", !.answer = "page", !.misled = TRUE,
                       !.page = [parts |-> parts, truncated |-> truncated, next |-> next]]
      BY <2>7 DEF AnswerWrongPage
    <3>2. next \in 0..MaxParts
      BY <3>1, PartLimits DEF ProviderType
    <3>3. [parts |-> parts, truncated |-> truncated, next |-> next].next = next
      OBVIOUS
    <3>4. call.at = "request"
      BY <2>7 DEF AnswerWrongPage, Requested
    <3> QED
      BY <1>p, <3>1, <3>2, <3>3, <3>4
  <2>8. CASE Lose
    <3>1. CASE call.tries < MaxTries
      <4>1. call' = [call EXCEPT !.at = "request", !.tries = call.tries + 1, !.answer = None,
                                 !.page = None]
        BY <2>8, <3>1, <1>c DEF Lose, Calls
      <4> QED
        BY <1>c, <3>1, <4>1 DEF Calls, Again
    <3>2. CASE ~(call.tries < MaxTries)
      <4>1. Return(GaveUp)
        BY <2>8, <3>2, Zenon DEF Lose
      <4> QED
        BY <1>r, <4>1
    <3> QED
      BY <3>1, <3>2
  <2> QED
    BY <1>3, <2>1, <2>2, <2>3, <2>4, <2>5, <2>6, <2>7, <2>8 DEF Answers
<1>4. CASE Returns
  <2>1. CASE Malformed
    BY <1>r, <2>1 DEF Malformed
  <2>2. CASE Classify
    BY <1>r, <2>2 DEF Classify
  <2>3. CASE ReadPage
    <3>1. /\ call.at = "answered" /\ call.answer = "page" /\ call.op = "list"
          /\ TakePage(call.page)
      BY <2>3 DEF ReadPage, ProviderType
    <3>2. CASE Return("contract")
      BY <1>r, <3>2 DEF Ends
    <3>3. CASE call'.op = "list" /\ call'.at = "returned"
      BY <3>1, <3>3 DEF Ends
    <3>4. CASE /\ call'.op = "list" /\ call'.at = "request" /\ call'.tries = 1
               /\ call'.marker = call.page.next /\ Advances(call.page.next)
      BY <3>1, <3>4 DEF RunInv, Advances, Onward
    <3> QED
      BY <3>1, <3>2, <3>3, <3>4, TakePageEffect DEF Ends
  <2> QED
    BY <1>4, <2>1, <2>2, <2>3 DEF Returns
<1> QED
  BY <1>1, <1>2, <1>3, <1>4 DEF Next
\* A call that begins has all its tries, for all its pages.
LEMMA BeginsToRun ==
    ASSUME ProviderType, Next, ~UnderWay
    PROVE  RunInv'
<1> DEFINE Fresh == call'.tries = 1 /\ call'.marker = 0 /\ call'.at # "answered"
<1>1. CASE Begins
  <2>1. Fresh
    <3>1. ASSUME NEW op, NEW u, Begin(op, u) PROVE Fresh
      BY <3>1 DEF Begin, Idle
    <3>2. ASSUME NEW u, NEW receipts, BeginComplete(u, receipts) PROVE Fresh
      BY <3>2 DEF BeginComplete, Idle
    <3>3. CASE Forget
      BY <3>3 DEF Forget, Idle
    <3> HIDE DEF Fresh
    <3> QED
      BY <1>1, <3>1, <3>2, <3>3 DEF Begins
  <2> QED
    BY <2>1, PartLimits, ProviderBounds DEF RunInv
<1>2. CASE Others
  <2>1. UNCHANGED call
    BY <1>2 DEF Others, PutPart, OthersComplete, OthersAbort, OthersCreate, OthersPublish
  <2> QED
    BY <2>1 DEF RunInv, UnderWay
<1>3. CASE Answers \/ Returns
  BY <1>3 DEF Answers, Returns, AnswerCreate, AnswerComplete, AnswerAbort, AnswerRefused,
       AnswerHead, AnswerPage, AnswerWrongPage, Lose, Malformed, Classify, ReadPage, Requested,
       UnderWay
<1> QED
  BY <1>1, <1>2, <1>3 DEF Next

\* The next page and the next try exist.
LEMMA StepRun == ProviderType /\ RunInv /\ [Next]_provVars => RunInv'
<1> SUFFICES ASSUME ProviderType, RunInv, [Next]_provVars PROVE RunInv'
  OBVIOUS
<1>1. CASE UNCHANGED provVars \/ call' = call
  <2>1. call' = call
    BY <1>1 DEF provVars
  <2> QED
    BY <2>1 DEF RunInv, UnderWay
<1>2. CASE Next /\ ~UnderWay
  BY <1>2, BeginsToRun
<1>3. CASE Next /\ UnderWay /\ call' # call
  <2>1. MaxTries \in Nat \ {0} /\ call.tries \in 1..MaxTries /\ call.marker \in 0..MaxParts
    BY <1>3, ProviderBounds DEF RunInv
  <2>2. CASE call'.at = "returned"
    BY <2>2 DEF RunInv, UnderWay
  <2>3. CASE /\ call'.at = "answered"
             /\ call'.marker = call.marker /\ call'.tries = call.tries
             /\ call'.answer = "page" => call'.page.next \in 0..MaxParts
    BY <2>1, <2>3 DEF RunInv
  <2>4. CASE /\ call'.at = "request" /\ call'.marker = call.marker
             /\ call'.tries = call.tries + 1 /\ call.tries < MaxTries
    BY <2>1, <2>4 DEF RunInv
  <2>5. CASE /\ call'.at = "request" /\ call'.tries = 1 /\ call'.marker \in 0..MaxParts
    BY <2>1, <2>5 DEF RunInv
  <2> QED
    BY <1>3, <2>2, <2>3, <2>4, <2>5, CallSteps
<1> QED
  BY <1>1, <1>2, <1>3

\* The steps left, by the two places a call under way can be at.
LEMMA StepsAreLeft ==
    /\ call.at = "request" => StepsLeft = Left(call.marker, call.tries, 2)
    /\ call.at = "answered" => StepsLeft = Left(call.marker, call.tries, 1)
    /\ ~UnderWay => StepsLeft = 0
BY DEF StepsLeft, Left, UnderWay

\* Each step of a call under way leaves it fewer.
LEMMA RunsDown ==
    ASSUME ProviderType, RunInv, Next, UnderWay, call' # call
    PROVE  call'.op = call.op /\ StepsLeft' < StepsLeft
<1> DEFINE r == IF call.at = "request" THEN 2 ELSE 1
<1>1. call.tries \in 1..MaxTries /\ call.marker \in 0..MaxParts /\ r \in {1, 2}
  BY DEF RunInv
<1>2. StepsLeft = Left(call.marker, call.tries, r)
  BY StepsAreLeft DEF UnderWay
<1>3. call.at = "answered" => StepsLeft = Left(call.marker, call.tries, 1)
  BY StepsAreLeft
<1>4. call.at = "request" => StepsLeft = Left(call.marker, call.tries, 2)
  BY StepsAreLeft
<1>5. /\ call'.at = "request" => StepsLeft' = Left(call'.marker, call'.tries, 2)
      /\ call'.at = "answered" => StepsLeft' = Left(call'.marker, call'.tries, 1)
      /\ call'.at = "returned" => StepsLeft' = 0
  BY DEF StepsLeft, Left, UnderWay
<1> HIDE DEF r
<1>6. CASE call'.at = "returned"
  <2>1. StepsLeft \in 1..(2 * MaxTries * (MaxParts + 1))
    BY <1>1, <1>2, StepsAreFinite
  <2>2. 2 * MaxTries * (MaxParts + 1) \in Int
    BY PartLimits, ProviderBounds
  <2>3. 0 < StepsLeft
    BY <2>1, <2>2
  <2> QED
    BY <1>5, <1>6, <2>3, CallSteps
<1>7. CASE /\ call'.op = call.op /\ call.at = "request" /\ call'.at = "answered"
           /\ call'.marker = call.marker /\ call'.tries = call.tries
  BY <1>1, <1>4, <1>5, <1>7, FewerSteps
<1>8. CASE /\ call'.op = call.op /\ call'.at = "request" /\ call'.marker = call.marker
           /\ call'.tries = call.tries + 1
  BY <1>1, <1>2, <1>5, <1>8, FewerSteps
<1>9. CASE /\ call'.op = call.op /\ call.at = "answered" /\ call'.at = "request"
           /\ call'.tries = 1 /\ call'.marker \in 0..MaxParts /\ call'.marker > call.marker
  BY <1>1, <1>3, <1>5, <1>9, FewerSteps
<1> QED
  BY <1>6, <1>7, <1>8, <1>9, CallSteps

\* What a call under way knows of its tries and pages.
LEMMA RunInvariant == Spec => [](ProviderType /\ RunInv)
<1>1. Init => RunInv
  BY DEF Init, Idle, RunInv, UnderWay
<1>2. ProviderType /\ RunInv /\ [Next]_provVars => RunInv'
  BY StepRun
<1> QED
  BY <1>1, <1>2, ProviderInvariant, PTL DEF Spec

\* A call has no more steps left than requests and answers for each try of each
\* page: MaxParts bounds the pages, as a page's marker is a part number.
THEOREM CallsStayBounded == Spec => []CallsAreBounded
<1>1. RunInv => CallsAreBounded
  <2> SUFFICES ASSUME RunInv, UnderWay
               PROVE  StepsLeft \in 1..(2 * MaxTries * (MaxParts + 1))
    BY DEF CallsAreBounded
  <2>1. call.tries \in 1..MaxTries /\ call.marker \in 0..MaxParts
    BY DEF RunInv
  <2>2. \E r \in {1, 2} : StepsLeft = Left(call.marker, call.tries, r)
    BY StepsAreLeft DEF UnderWay
  <2> QED
    BY <2>1, <2>2, StepsAreFinite
<1> QED
  BY <1>1, RunInvariant, PTL

\* Every step of a call under way leaves it fewer steps, also with a provider
\* that loses its place at every page: list_parts asks for no page twice.
THEOREM CallsAlwaysRunDown == Spec => CallsRunDown
<1>1. /\ ProviderType /\ RunInv /\ [Next]_provVars
      => [UnderWay => call' = call \/ (call'.op = call.op /\ StepsLeft' < StepsLeft)]_provVars
  BY RunsDown
<1> QED
  BY <1>1, RunInvariant, PTL DEF Spec, CallsRunDown
=============================================================================
