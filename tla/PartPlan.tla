------------------------------ MODULE PartPlan ------------------------------
(***************************************************************************)
(* The deterministic part plan of a multipart blob, computed by            *)
(* domain/multipart.py and checked again, from the stored rows, by the SQL *)
(* functions of migration 0003.  Sizes are in any unit; the code has       *)
(* BASE_PART_BYTES 64 MiB, MAX_PART_BYTES 5 GiB, MAX_PARTS 10,000, blobs   *)
(* above 5 * 10^9 and up to 5 * 10^12 bytes.                               *)
(***************************************************************************)
EXTENDS Integers, FiniteSets, FiniteSetsExt

CONSTANTS BasePart, MaxPart, MaxParts, MaxSinglePut, MaxBlob

ASSUME PartLimits ==
    /\ BasePart \in Nat \ {0} /\ MaxPart \in Nat /\ BasePart <= MaxPart
    /\ MaxParts \in Nat \ {0}
    /\ MaxSinglePut \in Nat /\ MaxBlob \in Nat /\ MaxSinglePut < MaxBlob

CeilDiv(dividend, divisor) == (dividend + divisor - 1) \div divisor

-----------------------------------------------------------------------------
(***************************************************************************)
(* plan_multipart.                                                         *)
(***************************************************************************)

\* What repeated doubling of the base size may select.
PartSizes == {p \in BasePart..MaxPart : \E k \in 0..p : p = BasePart * 2^k}
Fits(size, p) == CeilDiv(size, p) <= MaxParts

\* The largest blob has a part size (512 MiB in the code).
ASSUME SomePartSizeFits == \E p \in PartSizes : Fits(MaxBlob, p)

BlobSizes == (MaxSinglePut + 1)..MaxBlob

\* The first size the doubling loop meets that needs no more than MaxParts.
SelectPartSize(size) ==
    CHOOSE p \in PartSizes : Fits(size, p) /\ \A q \in PartSizes : Fits(size, q) => p <= q

PartCount(size) == CeilDiv(size, SelectPartSize(size))

Smaller(a, b) == IF a <= b THEN a ELSE b

Plan(size) ==
    LET p == SelectPartSize(size)
    IN  [n \in 1..PartCount(size) |->
           [offset |-> (n - 1) * p, size |-> Smaller(p, size - (n - 1) * p)]]

\* _validate_ranges and MultipartPart, for rows keyed by part number: a cursor
\* runs over the rows.
ValidRanges(size, p, rows) ==
    LET count == Cardinality(DOMAIN rows) IN
    /\ count \in 1..MaxParts
    /\ DOMAIN rows = 1..count
    /\ rows[1].offset = 0
    /\ \A n \in 1..count :
         LET cursor == rows[n].offset + rows[n].size IN
         /\ rows[n].size \in 1..p
         /\ IF n < count THEN rows[n].size = p /\ rows[n + 1].offset = cursor ELSE cursor = size

-----------------------------------------------------------------------------
(***************************************************************************)
(* robolake_validate_multipart_plan, run by a deferred trigger.            *)
(***************************************************************************)

\* A row check without the offset.
SqlRowAnyOffset(size, p, count, n, row) ==
    /\ n \in 1..count
    /\ row.size = IF n < count THEN p ELSE size - row.offset

SqlRow(size, p, count, n, row) ==
    /\ n \in 1..count
    /\ row.offset = (n - 1) * p
    /\ row.size = IF n < count THEN p ELSE size - row.offset

SqlAccepts(size, rows) ==
    LET p == SelectPartSize(size)
        count == CeilDiv(size, p)
    IN  /\ Cardinality(DOMAIN rows) = count
        /\ MapThenSumSet(LAMBDA n : rows[n].size, DOMAIN rows) = size
        /\ Min(DOMAIN rows) = 1 /\ Max(DOMAIN rows) = count
        /\ \A n \in DOMAIN rows : SqlRow(size, p, count, n, rows[n])
=============================================================================
