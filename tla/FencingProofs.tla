---------------------------- MODULE FencingProofs ----------------------------
(***************************************************************************)
(* Proofs about Fencing, for any sessions, any number of connections, any  *)
(* capacities and lease times: fenced writes meet the session they belong  *)
(* to, admissions keep their capacity, and a live claim keeps its owner.   *)
(***************************************************************************)
EXTENDS Fencing, FiniteSetTheorems, TLAPS

-----------------------------------------------------------------------------
(***************************************************************************)
(* The invariant: what a transaction is, what it holds, and what it relies *)
(* on, of each transaction and of each two of them.                        *)
(***************************************************************************)

TablesOK ==
    /\ state \in [Sessions -> States]
    /\ admission \in [Sessions -> Leases]
    /\ completion \in [Sessions -> Leases]

\* The values of a transaction at each point of its program.
Shape(x) ==
    /\ x \in Transactions \cup {Idle}
    /\ x.changed => x.at = "waiting"
    /\ x.at = "waiting" => x.op \in {"upload", "ambiguous"}
    /\ x.at = "queued" => x.op \in {"acquire", "claim"}
    /\ x.at = "locked" => x.op \in {"acquire", "accept", "claim", "phase", "settle"}
    /\ x.at \in {"waiting", "locked", "written"} => x.s \in Sessions
    /\ x.op = "acquire" => x.s \in Sessions

\* The rows a transaction holds.
LocksSession(x) == x.op # "renew" /\ x.at \in {"locked", "written"}
LocksLease(x) == x.op \in {"claim", "renew", "settle"} /\ x.at = "written"

\* No row lock is held twice, nor either advisory lock.
Compatible(x, y) ==
    /\ x.s = y.s => ~(LocksSession(x) /\ LocksSession(y)) /\ ~(LocksLease(x) /\ LocksLease(y))
    /\ x.op \in {"acquire", "claim"} => x.op # y.op

LocksHold == \A t, u \in Txns : t # u => Compatible(txn[t], txn[u])

\* The other live admissions than that of s.
Others(s) == LiveAdmissions \ {s}

\* What a transaction's next step takes for granted.
Relies(x) ==
    /\ x.at = "waiting" /\ ~x.changed => state[x.s] = "UPLOAD"
    /\ x.at = "written" =>
         /\ x.op \in {"accept", "ambiguous"} => admission[x.s].epoch = x.epoch
         /\ x.op \in {"phase", "settle"} => completion[x.s].epoch = x.epoch
         /\ x.op \in {"upload", "ambiguous"} => state[x.s] = "UPLOAD"
         /\ x.op = "claim" => ~Live(completion[x.s])
         /\ x.op = "acquire" => Cardinality(Others(x.s)) < AdmissionCapacity

FenceInv ==
    /\ TablesOK
    /\ txn \in [Txns -> Transactions \cup {Idle}]
    /\ \A t \in Txns : Shape(txn[t]) /\ Relies(txn[t])
    /\ LocksHold
    /\ AdmissionPoolIsBounded

-----------------------------------------------------------------------------
(***************************************************************************)
(* Sets of leases, and time.                                               *)
(***************************************************************************)

LEMMA OthersCount ==
  ASSUME NEW s \in Sessions
  PROVE  /\ IsFiniteSet(LiveAdmissions) /\ Cardinality(LiveAdmissions) \in Nat
         /\ Cardinality(Others(s)) \in Nat
         /\ Cardinality(LiveAdmissions) =
              IF Live(admission[s]) THEN Cardinality(Others(s)) + 1 ELSE Cardinality(Others(s))
<1>1. LiveAdmissions \in SUBSET Sessions
  BY DEF LiveAdmissions
<1>2. IsFiniteSet(LiveAdmissions)
  BY <1>1, FencingSessions, FS_Subset
<1>3. Cardinality(LiveAdmissions) \in Nat
  BY <1>2, FS_CardinalityType
<1>4. IsFiniteSet(Others(s)) /\ Cardinality(Others(s)) =
        IF s \in LiveAdmissions THEN Cardinality(LiveAdmissions) - 1 ELSE Cardinality(LiveAdmissions)
  BY <1>2, FS_RemoveElement DEF Others
<1>5. Cardinality(Others(s)) \in Nat
  BY <1>4, FS_CardinalityType
<1>6. s \in LiveAdmissions <=> Live(admission[s])
  BY DEF LiveAdmissions
<1> QED BY <1>2, <1>3, <1>4, <1>5, <1>6

\* A step that revives no lease makes no count greater.
LEMMA CountsShrink ==
  ASSUME \A s \in Sessions : Live(admission'[s]) => Live(admission[s])
  PROVE  /\ AdmissionPoolIsBounded => AdmissionPoolIsBounded'
         /\ \A s \in Sessions : Cardinality(Others(s)) < AdmissionCapacity
                                  => Cardinality(Others(s)') < AdmissionCapacity
<1>1. LiveAdmissions \in SUBSET Sessions /\ IsFiniteSet(LiveAdmissions)
  BY FencingSessions, FS_Subset DEF LiveAdmissions
<1>2. LiveAdmissions' \in SUBSET LiveAdmissions
  BY DEF LiveAdmissions
<1>3. /\ Cardinality(LiveAdmissions) \in Nat /\ Cardinality(LiveAdmissions') \in Nat
      /\ Cardinality(LiveAdmissions') <= Cardinality(LiveAdmissions)
  BY <1>1, <1>2, FS_Subset, FS_CardinalityType
<1>4. ASSUME NEW s \in Sessions
      PROVE  /\ Cardinality(Others(s)) \in Nat /\ Cardinality(Others(s)') \in Nat
             /\ Cardinality(Others(s)') <= Cardinality(Others(s))
  <2>1. IsFiniteSet(Others(s)) /\ Others(s)' \in SUBSET Others(s)
    BY <1>1, <1>2, FS_RemoveElement DEF Others
  <2> QED BY <2>1, FS_Subset, FS_CardinalityType
<1>5. AdmissionPoolIsBounded => AdmissionPoolIsBounded'
  BY <1>3, FencingCapacity DEF AdmissionPoolIsBounded
<1> QED BY <1>4, <1>5, FencingCapacity

\* Time takes a tick from a lease and changes nothing else.
LEMMA AgedLease ==
  ASSUME NEW r \in Leases
  PROVE  /\ Aged(r) \in Leases /\ Aged(r).epoch = r.epoch
         /\ Live(Aged(r)) => Live(r)
BY FencingBounds DEF Leases, Aged, Live

LEMMA AgedTransaction ==
  ASSUME NEW x \in Transactions \cup {Idle}
  PROVE  /\ Aged(x) \in Transactions \cup {Idle}
         /\ Aged(x).op = x.op /\ Aged(x).at = x.at /\ Aged(x).s = x.s /\ Aged(x).epoch = x.epoch
         /\ Aged(x).changed = x.changed /\ Aged(x).into = x.into
<1>1. CASE x = Idle
  <2>1. Idle.left = 0
    BY DEF Idle
  <2>2. Aged(Idle) = [Idle EXCEPT !.left = 0]
    BY <2>1 DEF Aged
  <2> DEFINE R == [op : {"none"}, at : {"idle"}, s : {None}, epoch : {0}, left : {0},
                   changed : {FALSE}, into : {"UPLOAD"}]
  <2>3. [Idle EXCEPT !.left = 0] = Idle
    <3>1. Idle \in R /\ [Idle EXCEPT !.left = 0] \in R
      BY DEF Idle
    <3>2. ASSUME NEW z \in R PROVE z = Idle
      <4>1. z = [op |-> z.op, at |-> z.at, s |-> z.s, epoch |-> z.epoch, left |-> z.left,
                 changed |-> z.changed, into |-> z.into]
        OBVIOUS
      <4>2. /\ z.op = "none" /\ z.at = "idle" /\ z.s = None /\ z.epoch = 0 /\ z.left = 0
            /\ z.changed = FALSE /\ z.into = "UPLOAD"
        OBVIOUS
      <4> QED BY <4>1, <4>2, Zenon DEF Idle
    <3> QED BY <3>1, <3>2
  <2> QED BY <1>1, <2>2, <2>3
<1>2. CASE x \in Transactions
  BY <1>2, FencingBounds DEF Transactions, Aged
<1> QED BY <1>1, <1>2

-----------------------------------------------------------------------------
(***************************************************************************)
(* Steps that only move one transaction.                                   *)
(***************************************************************************)

LEMMA OneTransaction ==
  ASSUME FenceInv, UNCHANGED <<state, admission, completion>>, NEW t \in Txns, NEW r,
         txn' = [txn EXCEPT ![t] = r], Shape(r), Relies(r),
         \A u \in Txns \ {t} : Compatible(r, txn[u]) /\ Compatible(txn[u], r)
  PROVE  FenceInv'
<1>1. txn'[t] = r /\ \A u \in Txns \ {t} : txn'[u] = txn[u]
  BY DEF FenceInv
<1>2. txn' \in [Txns -> Transactions \cup {Idle}]
  BY DEF FenceInv, Shape
<1>3. TablesOK' /\ AdmissionPoolIsBounded'
  BY DEF FenceInv, TablesOK, AdmissionPoolIsBounded, LiveAdmissions
<1>5. \A u \in Txns : Shape(txn'[u]) /\ Relies(txn'[u])
  BY <1>1 DEF FenceInv
<1>6. \A u \in Txns : Shape(txn[u])' /\ Relies(txn[u])'
  BY <1>5 DEF Shape, Relies, Others, LiveAdmissions
<1>7. LocksHold'
  BY <1>1 DEF FenceInv, LocksHold, Compatible, LocksSession, LocksLease
<1> QED BY <1>2, <1>3, <1>6, <1>7 DEF FenceInv

\* A transaction that takes only free rows conflicts with no other.
LEMMA NoConflict ==
  ASSUME FenceInv, NEW t \in Txns, NEW r,
         LocksSession(r) => \/ SessionFree(r.s)
                            \/ LocksSession(txn[t]) /\ r.s = txn[t].s,
         LocksLease(r) => \/ CompletionFree(r.s)
                          \/ LocksLease(txn[t]) /\ r.s = txn[t].s,
         r.op \in {"acquire", "claim"} => \A u \in Txns \ {t} : txn[u].op # r.op
  PROVE  \A u \in Txns \ {t} : Compatible(r, txn[u]) /\ Compatible(txn[u], r)
<1> SUFFICES ASSUME NEW u \in Txns \ {t}
             PROVE  Compatible(r, txn[u]) /\ Compatible(txn[u], r)
  OBVIOUS
<1>1. Compatible(txn[t], txn[u])
  BY DEF FenceInv, LocksHold
<1>2. r.s = txn[u].s => ~(LocksSession(r) /\ LocksSession(txn[u]))
  BY <1>1 DEF SessionFree, HoldsSession, Compatible, LocksSession
<1>3. r.s = txn[u].s => ~(LocksLease(r) /\ LocksLease(txn[u]))
  BY <1>1 DEF CompletionFree, Compatible, LocksLease
<1> QED BY <1>2, <1>3 DEF Compatible

LEMMA BeginStep ==
  ASSUME FenceInv, NEW t \in Txns, Begin(t)
  PROVE  FenceInv'
<1> USE DEF Shape, Relies, Transactions, Idle, Ops, States
<1>0. /\ TablesOK /\ UNCHANGED <<state, admission, completion>>
      /\ 0 \in 0..MaxEpoch /\ 0 \in 0..Ttl /\ Ttl \in 0..Ttl
  <2> HIDE DEF Shape, Relies, Transactions, Idle, Ops, States
  <2>1. UNCHANGED <<state, admission, completion>>
    BY DEF Begin, StartClaim, StartAcquire, Starts, EvaluateFence, LockForAccept, RenewWrites,
           LockForCompletion
  <2> QED BY <2>1, FencingBounds DEF FenceInv
<1>1. ASSUME NEW op, NEW s, Starts(t, op, "queued", s), AdvisoryFree(op),
             \/ op = "claim" /\ s = None
             \/ op = "acquire" /\ s \in Sessions
      PROVE  FenceInv'
  <2> DEFINE r == [Idle EXCEPT !.op = op, !.at = "queued", !.s = s]
  <2>1. txn' = [txn EXCEPT ![t] = r]
    BY <1>1 DEF Starts
  <2>2. Shape(r) /\ Relies(r)
    BY <1>0, <1>1
  <2>3. \A u \in Txns \ {t} : Compatible(r, txn[u]) /\ Compatible(txn[u], r)
    BY <1>1 DEF AdvisoryFree, Compatible, LocksSession, LocksLease
  <2> HIDE DEF r, Shape, Relies
  <2> QED BY <1>0, <2>1, <2>2, <2>3, OneTransaction
<1>2. ASSUME NEW s \in Sessions, NEW e \in 1..admission[s].epoch,
             NEW op \in {"upload", "ambiguous"}, EvaluateFence(t, op, s, e)
      PROVE  FenceInv'
  <2> DEFINE r == [Idle EXCEPT !.op = op, !.at = "waiting", !.s = s, !.epoch = e,
                               !.left = admission[s].left]
  <2>1. txn' = [txn EXCEPT ![t] = r] /\ state[s] = "UPLOAD"
    BY <1>2 DEF EvaluateFence
  <2>2. e \in 0..MaxEpoch /\ admission[s].left \in 0..Ttl
    BY <1>0, FencingBounds DEF TablesOK, Leases
  <2>3. Shape(r) /\ Relies(r)
    BY <1>0, <2>1, <2>2
  <2>4. \A u \in Txns \ {t} : Compatible(r, txn[u]) /\ Compatible(txn[u], r)
    BY DEF Compatible, LocksSession, LocksLease
  <2> HIDE DEF r, Shape, Relies
  <2> QED BY <1>0, <2>1, <2>3, <2>4, OneTransaction
<1>3. ASSUME NEW s \in Sessions, NEW op \in {"accept", "phase", "settle"}, NEW e \in 0..MaxEpoch,
             SessionFree(s),
             txn' = [txn EXCEPT ![t] = [Idle EXCEPT !.op = op, !.at = "locked", !.s = s, !.epoch = e]]
      PROVE  FenceInv'
  <2> DEFINE r == [Idle EXCEPT !.op = op, !.at = "locked", !.s = s, !.epoch = e]
  <2>1. txn' = [txn EXCEPT ![t] = r]
    BY <1>3
  <2>2. Shape(r) /\ Relies(r)
    BY <1>0, <1>3
  <2>3. r.s = s /\ r.op = op /\ ~LocksLease(r)
    BY DEF LocksLease
  <2>4. \A u \in Txns \ {t} : Compatible(r, txn[u]) /\ Compatible(txn[u], r)
    <3> HIDE DEF r, Shape, Relies, Transactions, Idle, Ops, States
    <3> QED BY <1>3, <2>3, NoConflict
  <2> HIDE DEF r, Shape, Relies
  <2> QED BY <1>0, <2>1, <2>2, <2>4, OneTransaction
<1>4. ASSUME NEW s \in Sessions, NEW e \in 1..completion[s].epoch, RenewWrites(t, s, e)
      PROVE  FenceInv'
  <2> DEFINE r == [Idle EXCEPT !.op = "renew", !.at = "written", !.s = s, !.epoch = e, !.left = Ttl]
  <2>1. txn' = [txn EXCEPT ![t] = r]
    BY <1>4 DEF RenewWrites
  <2>2. e \in 0..MaxEpoch
    BY <1>0, FencingBounds DEF TablesOK, Leases
  <2>3. Shape(r) /\ Relies(r)
    BY <1>0, <2>2
  <2>4. \A u \in Txns \ {t} : Compatible(r, txn[u]) /\ Compatible(txn[u], r)
    BY <1>4 DEF RenewWrites, CompletionFree, Compatible, LocksSession, LocksLease
  <2> HIDE DEF r, Shape, Relies
  <2> QED BY <1>0, <2>1, <2>3, <2>4, OneTransaction
<1> QED
  <2> HIDE DEF Shape, Relies, Transactions, Idle, Ops, States
  <2>1. CASE StartClaim(t)
    BY <1>1, <2>1 DEF StartClaim
  <2>2. CASE \E s \in Sessions : StartAcquire(t, s)
    BY <1>1, <2>2 DEF StartAcquire
  <2>3. ASSUME NEW s \in Sessions, NEW e \in 1..admission[s].epoch,
               \/ EvaluateFence(t, "upload", s, e)
               \/ EvaluateFence(t, "ambiguous", s, e)
               \/ LockForAccept(t, s, e)
        PROVE  FenceInv'
    <3>1. e \in 0..MaxEpoch
      BY <1>0, FencingBounds DEF TablesOK, Leases
    <3> QED BY <1>2, <1>3, <2>3, <3>1 DEF LockForAccept
  <2>4. ASSUME NEW s \in Sessions, NEW e \in 1..completion[s].epoch,
               \/ RenewWrites(t, s, e)
               \/ LockForCompletion(t, "phase", s, e)
               \/ LockForCompletion(t, "settle", s, e)
        PROVE  FenceInv'
    <3>1. e \in 0..MaxEpoch
      BY <1>0, FencingBounds DEF TablesOK, Leases
    <3> QED BY <1>3, <1>4, <2>4, <3>1 DEF LockForCompletion
  <2> QED BY <2>1, <2>2, <2>3, <2>4 DEF Begin

LEMMA ProceedStep ==
  ASSUME FenceInv, NEW t \in Txns, Proceed(t)
  PROVE  FenceInv'
<1> DEFINE x == txn[t]
           Compat(r) == \A u \in Txns \ {t} : Compatible(r, txn[u]) /\ Compatible(txn[u], r)
<1>0. /\ TablesOK /\ AdmissionPoolIsBounded
      /\ x \in Transactions \cup {Idle} /\ Shape(x) /\ Relies(x)
      /\ x.op \in {"acquire", "claim"} => \A u \in Txns \ {t} : txn[u].op # x.op
      /\ 0 \in 0..Ttl /\ Ttl \in 0..Ttl
  BY FencingBounds DEF FenceInv, LocksHold, Compatible
<1>1. x.op # "none" => x \in Transactions
  BY <1>0 DEF Idle
<1>2. CASE UploadWrites(t)
  <2> DEFINE r == [x EXCEPT !.at = "written", !.left = 0, !.changed = FALSE,
                            !.into = IF x.op = "upload" THEN "UPLOAD" ELSE "TERMINAL"]
  <2>1. /\ txn' = [txn EXCEPT ![t] = r] /\ UNCHANGED <<state, admission, completion>>
        /\ x.op \in {"upload", "ambiguous"} /\ x.at = "waiting"
        /\ SessionFree(x.s) /\ FenceStillHolds(t)
        /\ x.op = "ambiguous" => admission[x.s].epoch = x.epoch
    BY <1>2 DEF UploadWrites
  <2>2. x \in Transactions /\ x.s \in Sessions
    BY <1>0, <1>1, <2>1 DEF Shape
  <2>3. /\ r \in Transactions /\ r.op = x.op /\ r.at = "written" /\ r.s = x.s
        /\ r.epoch = x.epoch /\ r.changed = FALSE
    BY <1>0, <2>2 DEF Transactions, States
  <2>4. state[x.s] = "UPLOAD"
    BY <1>0, <2>1 DEF FenceStillHolds, Relies
  <2> HIDE DEF r, x
  <2>5. Shape(r) /\ Relies(r)
    BY <2>1, <2>2, <2>3, <2>4 DEF Shape, Relies
  <2>6. Compat(r)
    BY <2>1, <2>3, NoConflict DEF LocksLease
  <2> QED BY <2>1, <2>5, <2>6, OneTransaction
<1>3. CASE LockForAcquire(t)
  <2> DEFINE r == [x EXCEPT !.at = "locked"]
  <2>1. /\ txn' = [txn EXCEPT ![t] = r] /\ UNCHANGED <<state, admission, completion>>
        /\ x.op = "acquire" /\ x.at = "queued" /\ SessionFree(x.s)
    BY <1>3 DEF LockForAcquire
  <2>2. x \in Transactions /\ x.s \in Sessions /\ ~x.changed
    BY <1>0, <1>1, <2>1 DEF Shape
  <2>3. /\ r \in Transactions /\ r.op = "acquire" /\ r.at = "locked" /\ r.s = x.s
        /\ ~r.changed
    BY <2>1, <2>2 DEF Transactions
  <2> HIDE DEF r, x
  <2>5. Shape(r) /\ Relies(r)
    BY <2>2, <2>3 DEF Shape, Relies
  <2>6. Compat(r)
    BY <1>0, <2>1, <2>3, NoConflict DEF LocksLease
  <2> QED BY <2>1, <2>5, <2>6, OneTransaction
<1>4. CASE GrantAdmission(t)
  <2>0. /\ UNCHANGED <<state, admission, completion>>
        /\ x.op = "acquire" /\ x.at = "locked"
    BY <1>4 DEF GrantAdmission
  <2>1. PICK e \in {admission[x.s].epoch, admission[x.s].epoch + 1} :
          /\ txn' = [txn EXCEPT ![t] = [x EXCEPT !.at = "written", !.epoch = e, !.left = Ttl]]
          /\ \/ e = admission[x.s].epoch /\ Live(admission[x.s])
             \/ /\ ~Live(admission[x.s]) /\ Cardinality(LiveAdmissions) < AdmissionCapacity
                /\ admission[x.s].epoch < MaxEpoch /\ e = admission[x.s].epoch + 1
    BY <1>4 DEF GrantAdmission
  <2> DEFINE r == [x EXCEPT !.at = "written", !.epoch = e, !.left = Ttl]
  <2>2. x \in Transactions /\ x.s \in Sessions /\ ~x.changed
    BY <1>0, <1>1, <2>0 DEF Shape
  <2>3. e \in 0..MaxEpoch
    BY <1>0, <2>1, <2>2, FencingBounds DEF TablesOK, Leases
  <2>4. /\ r \in Transactions /\ r.op = "acquire" /\ r.at = "written" /\ r.s = x.s
        /\ ~r.changed
    BY <1>0, <2>0, <2>2, <2>3 DEF Transactions
  <2>5. Cardinality(Others(x.s)) < AdmissionCapacity
    BY <1>0, <2>1, <2>2, OthersCount, FencingCapacity DEF AdmissionPoolIsBounded
  <2>6. LocksSession(x)
    BY <2>0 DEF LocksSession
  <2> HIDE DEF r
  <2>7. Shape(r) /\ Relies(r)
    <3> HIDE DEF x
    <3> QED BY <2>2, <2>4, <2>5 DEF Shape, Relies
  <2>8. Compat(r)
    BY <1>0, <2>0, <2>4, <2>6, NoConflict DEF LocksLease
  <2> QED BY <2>0, <2>1, <2>7, <2>8, OneTransaction DEF r
<1>5. CASE AcceptWrites(t)
  <2> DEFINE r == [x EXCEPT !.at = "written"]
  <2>1. /\ txn' = [txn EXCEPT ![t] = r] /\ UNCHANGED <<state, admission, completion>>
        /\ x.op = "accept" /\ x.at = "locked" /\ admission[x.s].epoch = x.epoch
    BY <1>5 DEF AcceptWrites, Fenced
  <2>2. x \in Transactions /\ x.s \in Sessions /\ ~x.changed
    BY <1>0, <1>1, <2>1 DEF Shape
  <2>3. /\ r \in Transactions /\ r.op = "accept" /\ r.at = "written" /\ r.s = x.s
        /\ r.epoch = x.epoch /\ ~r.changed
    BY <2>1, <2>2 DEF Transactions
  <2>4. LocksSession(x)
    BY <2>1 DEF LocksSession
  <2> HIDE DEF r
  <2>5. Shape(r) /\ Relies(r)
    <3> HIDE DEF x
    <3> QED BY <2>1, <2>2, <2>3 DEF Shape, Relies
  <2>6. Compat(r)
    BY <2>3, <2>4, NoConflict DEF LocksLease
  <2> QED BY <2>1, <2>5, <2>6, OneTransaction
<1>6. ASSUME NEW s \in Sessions, SelectClaim(t, s) PROVE FenceInv'
  <2> DEFINE r == [x EXCEPT !.at = "locked", !.s = s, !.left = Ttl]
  <2>1. /\ txn' = [txn EXCEPT ![t] = r] /\ UNCHANGED <<state, admission, completion>>
        /\ x.op = "claim" /\ x.at = "queued" /\ SessionFree(s)
    BY <1>6 DEF SelectClaim
  <2>2. x \in Transactions /\ ~x.changed
    BY <1>0, <1>1, <2>1 DEF Shape
  <2>3. /\ r \in Transactions /\ r.op = "claim" /\ r.at = "locked" /\ r.s = s /\ ~r.changed
    BY <1>0, <2>1, <2>2 DEF Transactions
  <2> HIDE DEF r, x
  <2>5. Shape(r) /\ Relies(r)
    BY <2>3 DEF Shape, Relies
  <2>6. Compat(r)
    BY <1>0, <2>1, <2>3, NoConflict DEF LocksLease
  <2> QED BY <2>1, <2>5, <2>6, OneTransaction
<1>7. CASE ClaimWrites(t)
  <2> DEFINE r == [x EXCEPT !.at = "written", !.epoch = completion[x.s].epoch + 1]
  <2>1. /\ txn' = [txn EXCEPT ![t] = r] /\ UNCHANGED <<state, admission, completion>>
        /\ x.op = "claim" /\ x.at = "locked" /\ CompletionFree(x.s)
        /\ ~Live(completion[x.s]) /\ completion[x.s].epoch < MaxEpoch
    BY <1>7 DEF ClaimWrites
  <2>2. x \in Transactions /\ x.s \in Sessions /\ ~x.changed
    BY <1>0, <1>1, <2>1 DEF Shape
  <2>3. completion[x.s].epoch + 1 \in 0..MaxEpoch
    BY <1>0, <2>1, <2>2, FencingBounds DEF TablesOK, Leases
  <2>4. /\ r \in Transactions /\ r.op = "claim" /\ r.at = "written" /\ r.s = x.s /\ ~r.changed
    BY <2>1, <2>2, <2>3 DEF Transactions
  <2>5. LocksSession(x)
    BY <2>1 DEF LocksSession
  <2> HIDE DEF r
  <2>6. Shape(r) /\ Relies(r)
    <3> HIDE DEF x
    <3> QED BY <2>1, <2>2, <2>4 DEF Shape, Relies
  <2>7. Compat(r)
    BY <1>0, <2>1, <2>4, <2>5, NoConflict
  <2> QED BY <2>1, <2>6, <2>7, OneTransaction
<1>8. ASSUME NEW into \in States, CompletionWrites(t, into) PROVE FenceInv'
  <2> DEFINE r == [x EXCEPT !.at = "written", !.into = into]
  <2>1. /\ txn' = [txn EXCEPT ![t] = r] /\ UNCHANGED <<state, admission, completion>>
        /\ x.op \in {"phase", "settle"} /\ x.at = "locked"
        /\ x.op = "settle" => CompletionFree(x.s)
        /\ completion[x.s].epoch = x.epoch
    BY <1>8 DEF CompletionWrites, Fenced
  <2>2. x \in Transactions /\ x.s \in Sessions /\ ~x.changed
    BY <1>0, <1>1, <2>1 DEF Shape
  <2>3. /\ r \in Transactions /\ r.op = x.op /\ r.at = "written" /\ r.s = x.s
        /\ r.epoch = x.epoch /\ ~r.changed
    BY <2>1, <2>2 DEF Transactions
  <2>4. LocksSession(x)
    BY <2>1 DEF LocksSession
  <2> HIDE DEF r
  <2>5. Shape(r) /\ Relies(r)
    <3> HIDE DEF x
    <3> QED BY <2>1, <2>2, <2>3 DEF Shape, Relies
  <2>6. Compat(r)
    BY <2>1, <2>3, <2>4, NoConflict DEF LocksLease
  <2> QED BY <2>1, <2>5, <2>6, OneTransaction
<1> QED BY <1>2, <1>3, <1>4, <1>5, <1>6, <1>7, <1>8 DEF Proceed

LEMMA RollbackStep ==
  ASSUME FenceInv, NEW t \in Txns, Rollback(t)
  PROVE  FenceInv'
<1>1. Shape(Idle) /\ Relies(Idle)
  BY DEF Shape, Relies, Idle
<1>2. \A u \in Txns \ {t} : Compatible(Idle, txn[u]) /\ Compatible(txn[u], Idle)
  BY DEF Compatible, LocksSession, LocksLease, Idle
<1> QED BY <1>1, <1>2, OneTransaction DEF Rollback

-----------------------------------------------------------------------------
(***************************************************************************)
(* Commits.                                                                *)
(***************************************************************************)

\* What a commit does to the other transactions: those that wait for the session
\* row learn that it changed.
LEMMA OtherTransactions ==
  ASSUME FenceInv, NEW t \in Txns, NEW s, CommitsSession(t, s) \/ CommitsLease(t)
  PROVE  /\ txn'[t] = Idle
         /\ \A u \in Txns \ {t} :
              /\ Shape(txn'[u])
              /\ txn'[u].op = txn[u].op /\ txn'[u].at = txn[u].at /\ txn'[u].s = txn[u].s
              /\ txn'[u].epoch = txn[u].epoch /\ txn'[u].into = txn[u].into
              /\ \/ txn'[u].changed = txn[u].changed
                 \/ CommitsSession(t, s) /\ txn[u].s = s /\ txn'[u].changed
              /\ CommitsSession(t, s) /\ txn[u].at = "waiting" /\ txn[u].s = s => txn'[u].changed
         /\ txn' \in [Txns -> Transactions \cup {Idle}]
<1>1. CASE CommitsLease(t)
  <2>1. /\ txn'[t] = Idle /\ \A u \in Txns \ {t} : txn'[u] = txn[u]
        /\ txn' \in [Txns -> Transactions \cup {Idle}]
    BY <1>1 DEF CommitsLease, FenceInv
  <2>2. ~CommitsSession(t, s) \/ \A u \in Txns \ {t} :
           txn[u].at = "waiting" /\ txn[u].s = s => txn'[u].changed
    <3> SUFFICES ASSUME CommitsSession(t, s), NEW u \in Txns \ {t}, txn[u].at = "waiting",
                        txn[u].s = s
                 PROVE  txn'[u].changed
      OBVIOUS
    <3>1. txn'[u] = [txn[u] EXCEPT !.changed = TRUE]
      BY DEF CommitsSession
    <3>2. txn[u] \in Transactions
      BY DEF FenceInv, Idle
    <3> QED BY <3>1, <3>2 DEF Transactions
  <2> QED BY <2>1, <2>2 DEF FenceInv
<1>2. CASE CommitsSession(t, s)
  <2>1. txn'[t] = Idle
    BY <1>2 DEF CommitsSession
  <2>2. ASSUME NEW u \in Txns \ {t}
        PROVE  /\ Shape(txn'[u])
               /\ txn'[u].op = txn[u].op /\ txn'[u].at = txn[u].at /\ txn'[u].s = txn[u].s
               /\ txn'[u].epoch = txn[u].epoch /\ txn'[u].into = txn[u].into
               /\ txn'[u].changed = txn[u].changed \/ (txn[u].s = s /\ txn'[u].changed)
               /\ txn[u].at = "waiting" /\ txn[u].s = s => txn'[u].changed
    <3>1. Shape(txn[u])
      BY DEF FenceInv
    <3>2. CASE txn[u].at = "waiting" /\ txn[u].s = s
      <4>1. txn'[u] = [txn[u] EXCEPT !.changed = TRUE]
        BY <1>2, <3>2 DEF CommitsSession
      <4>2. txn[u] \in Transactions
        BY <3>1, <3>2 DEF Shape, Idle
      <4>3. /\ txn'[u] \in Transactions /\ txn'[u].changed
            /\ txn'[u].op = txn[u].op /\ txn'[u].at = txn[u].at /\ txn'[u].s = txn[u].s
            /\ txn'[u].epoch = txn[u].epoch /\ txn'[u].into = txn[u].into
        BY <4>1, <4>2 DEF Transactions
      <4> QED BY <3>1, <3>2, <4>3 DEF Shape
    <3>3. CASE ~(txn[u].at = "waiting" /\ txn[u].s = s)
      <4>1. txn'[u] = txn[u]
        BY <1>2, <3>3 DEF CommitsSession
      <4> QED BY <3>1, <3>3, <4>1
    <3> QED BY <3>2, <3>3
  <2>3. txn' \in [Txns -> Transactions \cup {Idle}]
    <3>1. \A u \in Txns : txn'[u] \in Transactions \cup {Idle}
      BY <2>1, <2>2 DEF Shape
    <3> QED BY <1>2, <3>1 DEF CommitsSession
  <2> QED BY <1>2, <2>1, <2>2, <2>3
<1> QED BY <1>1, <1>2

\* A commit changes the rows of one session only, and only rows that it locks.
LEMMA CommitOne ==
  ASSUME FenceInv, NEW t \in Txns, txn[t].at = "written", TablesOK', AdmissionPoolIsBounded',
         \/ CommitsSession(t, txn[t].s)
         \/ CommitsLease(t) /\ state' = state,
         \A c \in Sessions \ {txn[t].s} : /\ state'[c] = state[c]
                                        /\ admission'[c] = admission[c]
                                        /\ completion'[c] = completion[c],
         \/ txn[t].op # "renew"
         \/ /\ state' = state /\ admission' = admission
            /\ completion'[txn[t].s].epoch = completion[txn[t].s].epoch,
         txn[t].op # "acquire" => \A c \in Sessions : Live(admission'[c]) => Live(admission[c])
  PROVE  FenceInv'
<1> DEFINE x == txn[t]
<1>1. x.s \in Sessions
  BY DEF FenceInv, Shape
<1>2. PICK s \in Sessions : s = x.s
  BY <1>1
<1>3. /\ txn'[t] = Idle
      /\ \A u \in Txns \ {t} :
           /\ Shape(txn'[u])
           /\ txn'[u].op = txn[u].op /\ txn'[u].at = txn[u].at /\ txn'[u].s = txn[u].s
           /\ txn'[u].epoch = txn[u].epoch
           /\ \/ txn'[u].changed = txn[u].changed
              \/ CommitsSession(t, s) /\ txn[u].s = s /\ txn'[u].changed
           /\ CommitsSession(t, s) /\ txn[u].at = "waiting" /\ txn[u].s = s => txn'[u].changed
      /\ txn' \in [Txns -> Transactions \cup {Idle}]
  BY <1>2, OtherTransactions
<1>4. ASSUME NEW u \in Txns \ {t} PROVE Relies(txn[u])'
  <2> DEFINE y == txn[u]
  <2>1. /\ Shape(y) /\ Relies(y) /\ Compatible(x, y)
    BY DEF FenceInv, LocksHold
  <2>2. CASE y.at = "waiting"
    <3>1. y.s \in Sessions
      BY <2>1, <2>2 DEF Shape
    <3>2. CASE y.s = s /\ CommitsSession(t, s)
      BY <1>3, <2>2, <3>2 DEF Relies
    <3>3. CASE y.s = s /\ ~CommitsSession(t, s)
      BY <1>2, <1>3, <2>1, <2>2, <3>3 DEF Relies
    <3>4. CASE y.s # s
      BY <1>2, <1>3, <2>1, <2>2, <3>1, <3>4 DEF Relies
    <3> QED BY <3>2, <3>3, <3>4
  <2>3. CASE y.at = "written"
    <3>1. y.s \in Sessions /\ txn'[u].at = "written" /\ txn'[u].s = y.s /\ txn'[u].op = y.op
          /\ txn'[u].epoch = y.epoch
      BY <1>3, <2>1, <2>3 DEF Shape
    <3>2. y.op = "acquire" => Cardinality(Others(y.s)') < AdmissionCapacity
      BY <2>1, <2>3, <3>1, CountsShrink DEF Relies, Compatible
    <3>3. CASE y.s # s
      BY <1>2, <2>1, <2>3, <3>1, <3>2, <3>3 DEF Relies
    <3>4. CASE y.s = s /\ x.op # "renew"
      <4>1. y.op = "renew"
        BY <1>2, <2>1, <2>3, <3>4 DEF Compatible, LocksSession
      <4> QED BY <3>1, <4>1 DEF Relies
    <3>5. CASE y.s = s /\ x.op = "renew"
      <4>1. y.op \notin {"claim", "renew", "settle"}
        BY <1>2, <2>1, <2>3, <3>5 DEF Compatible, LocksLease
      <4> QED BY <1>2, <2>1, <2>3, <3>1, <3>2, <3>5, <4>1 DEF Relies
    <3> QED BY <3>3, <3>4, <3>5
  <2>4. CASE y.at \notin {"waiting", "written"}
    BY <1>3, <2>4 DEF Relies
  <2> QED BY <2>2, <2>3, <2>4
<1>5. Shape(Idle) /\ Relies(Idle)'
  BY DEF Shape, Relies, Idle
<1>6. \A u \in Txns : Shape(txn[u])' /\ Relies(txn[u])'
  <2> SUFFICES ASSUME NEW u \in Txns PROVE Shape(txn[u])' /\ Relies(txn[u])'
    OBVIOUS
  <2>1. CASE u = t
    BY <1>3, <1>5, <2>1 DEF Shape, Relies
  <2>2. CASE u # t
    BY <1>3, <1>4, <2>2 DEF Shape
  <2> QED BY <2>1, <2>2
<1>7. LocksHold'
  <2> SUFFICES ASSUME NEW u \in Txns, NEW v \in Txns, u # v PROVE Compatible(txn'[u], txn'[v])
    BY DEF LocksHold, Compatible, LocksSession, LocksLease
  <2>1. CASE u = t \/ v = t
    <3>1. Idle.op = "none" /\ Idle.at = "idle"
      BY DEF Idle
    <3> QED BY <1>3, <2>1, <3>1 DEF Compatible, LocksSession, LocksLease
  <2>2. CASE u # t /\ v # t
    BY <1>3, <2>2 DEF FenceInv, LocksHold, Compatible, LocksSession, LocksLease
  <2> QED BY <2>1, <2>2
<1> QED BY <1>3, <1>6, <1>7 DEF FenceInv

\* Ending a lease, or leaving it, revives none.
LEMMA EndedLease ==
  ASSUME NEW F \in [Sessions -> Leases], NEW G, NEW s \in Sessions,
         G = F \/ G = [F EXCEPT ![s].left = 0]
  PROVE  /\ G \in [Sessions -> Leases]
         /\ \A u \in Sessions : /\ (Live(G[u]) => Live(F[u]))
                              /\ G[u].epoch = F[u].epoch
                              /\ (u # s => G[u] = F[u])
<1>1. 0 \in 0..Ttl
  BY FencingBounds
<1>2. F[s] \in Leases /\ [F[s] EXCEPT !.left = 0] \in Leases
  BY <1>1 DEF Leases
<1>3. CASE G = F
  BY <1>3
<1>4. CASE G = [F EXCEPT ![s] = [F[s] EXCEPT !.left = 0]]
  <2>1. G \in [Sessions -> Leases]
    BY <1>2, <1>4
  <2>2. G[s] = [F[s] EXCEPT !.left = 0]
    BY <1>4
  <2>3. ~Live(G[s]) /\ G[s].epoch = F[s].epoch
    BY <1>2, <2>2 DEF Live, Leases
  <2>4. \A u \in Sessions : u # s => G[u] = F[u]
    BY <1>4
  <2> QED BY <2>1, <2>3, <2>4
<1> QED BY <1>3, <1>4

LEMMA CommitStep ==
  ASSUME FenceInv, NEW t \in Txns, Commit(t)
  PROVE  FenceInv'
<1> DEFINE x == txn[t]
<1>0. /\ TablesOK /\ AdmissionPoolIsBounded
      /\ x \in Transactions \cup {Idle} /\ Shape(x) /\ Relies(x)
  BY DEF FenceInv
<1>1. x.at = "written" /\ x \in Transactions /\ x.s \in Sessions
  <2>1. x.at = "written"
    BY DEF Commit, CommitUpload, CommitAcquire, CommitAccept, CommitClaim, CommitRenew,
           CommitCompletion
  <2> QED BY <1>0, <2>1 DEF Shape, Idle
<1>2. PICK s \in Sessions : s = x.s
  BY <1>1
<1>3. x.epoch \in 0..MaxEpoch /\ x.left \in 0..Ttl /\ x.into \in States
  BY <1>1 DEF Transactions
<1>4. [epoch |-> x.epoch, left |-> x.left] \in Leases
  BY <1>3 DEF Leases
<1>5. CASE \/ CommitUpload(t) \/ CommitAccept(t)
  <2>1. PICK into \in States :
          /\ state' = [state EXCEPT ![s] = into]
          /\ admission' = admission \/ admission' = [admission EXCEPT ![s].left = 0]
          /\ CommitsSession(t, x.s) /\ UNCHANGED completion
          /\ x.op \in {"upload", "ambiguous", "accept"}
    BY <1>2, <1>3, <1>5 DEF CommitUpload, CommitAccept, States
  <2>2. /\ TablesOK' /\ \A c \in Sessions : Live(admission'[c]) => Live(admission[c])
        /\ \A c \in Sessions \ {s} : state'[c] = state[c] /\ admission'[c] = admission[c]
    <3>1. /\ admission \in [Sessions -> Leases] /\ completion \in [Sessions -> Leases]
          /\ state \in [Sessions -> States]
      BY <1>0 DEF TablesOK
    <3>2. /\ admission' \in [Sessions -> Leases]
          /\ \A c \in Sessions : /\ (Live(admission'[c]) => Live(admission[c]))
                               /\ (c # s => admission'[c] = admission[c])
      BY <2>1, <3>1, EndedLease
    <3>3. /\ state' \in [Sessions -> States]
          /\ \A c \in Sessions \ {s} : state'[c] = state[c]
      BY <2>1, <3>1
    <3> QED BY <2>1, <3>1, <3>2, <3>3 DEF TablesOK
  <2>3. AdmissionPoolIsBounded'
    BY <1>0, <2>2, CountsShrink
  <2> HIDE DEF x
  <2> QED BY <1>1, <1>2, <2>1, <2>2, <2>3, CommitOne DEF x
<1>6. CASE CommitAcquire(t)
  <2>1. /\ admission' = [admission EXCEPT ![s] = [epoch |-> x.epoch, left |-> x.left]]
        /\ CommitsLease(t) /\ UNCHANGED <<state, completion>> /\ x.op = "acquire"
    BY <1>2, <1>6 DEF CommitAcquire
  <2>2. TablesOK' /\ \A c \in Sessions \ {s} : admission'[c] = admission[c]
    BY <1>0, <1>4, <2>1 DEF TablesOK
  <2>3. AdmissionPoolIsBounded'
    <3>1. Cardinality(Others(s)) < AdmissionCapacity
      BY <1>0, <1>1, <1>2, <2>1 DEF Relies
    <3>2. Others(s)' = Others(s)
      BY <2>2 DEF Others, LiveAdmissions
    <3>3. LiveAdmissions' \in SUBSET (Others(s) \cup {s})
      BY <2>2 DEF Others, LiveAdmissions
    <3>4. IsFiniteSet(Others(s)) /\ Cardinality(Others(s)) \in Nat
      BY OthersCount, FS_RemoveElement DEF Others
    <3>5. /\ IsFiniteSet(Others(s) \cup {s})
          /\ Cardinality(Others(s) \cup {s}) = Cardinality(Others(s)) + 1
      BY <3>4, FS_AddElement DEF Others
    <3>6. /\ Cardinality(LiveAdmissions') <= Cardinality(Others(s)) + 1
          /\ Cardinality(LiveAdmissions') \in Nat
      BY <3>3, <3>5, FS_Subset, FS_CardinalityType
    <3> QED BY <3>1, <3>4, <3>6, FencingCapacity DEF AdmissionPoolIsBounded
  <2> HIDE DEF x
  <2> QED BY <1>1, <1>2, <2>1, <2>2, <2>3, CommitOne DEF x
<1>7. CASE CommitClaim(t) \/ CommitRenew(t)
  <2>1. PICK e \in 0..MaxEpoch :
          /\ completion' = [completion EXCEPT ![s] = [epoch |-> e, left |-> x.left]]
          /\ CommitsLease(t) /\ UNCHANGED <<state, admission>>
          /\ (x.op = "claim" \/ (x.op = "renew" /\ e = completion[s].epoch))
    <3>1. CASE CommitClaim(t)
      <4>1. /\ completion' = [completion EXCEPT ![s] = [epoch |-> x.epoch, left |-> x.left]]
            /\ CommitsLease(t) /\ UNCHANGED <<state, admission>> /\ x.op = "claim"
        BY <1>2, <3>1 DEF CommitClaim
      <4> QED BY <1>3, <4>1
    <3>2. CASE CommitRenew(t)
      <4>1. completion[s] \in Leases
        BY <1>0 DEF TablesOK
      <4>2. [completion[s] EXCEPT !.left = x.left] = [epoch |-> completion[s].epoch, left |-> x.left]
        BY <4>1 DEF Leases
      <4>3. completion' = [completion EXCEPT ![s] = [completion[s] EXCEPT !.left = x.left]]
        BY <1>2, <3>2 DEF CommitRenew
      <4> QED BY <3>2, <4>1, <4>2, <4>3 DEF CommitRenew, Leases
    <3> QED BY <1>7, <3>1, <3>2
  <2>2. /\ TablesOK' /\ \A c \in Sessions \ {s} : completion'[c] = completion[c]
        /\ completion'[s].epoch = e
    <3>1. [epoch |-> e, left |-> x.left] \in Leases
      BY <1>3 DEF Leases
    <3> QED BY <1>0, <2>1, <3>1 DEF TablesOK
  <2>3. AdmissionPoolIsBounded'
    BY <1>0, <2>1 DEF AdmissionPoolIsBounded, LiveAdmissions
  <2> HIDE DEF x
  <2> QED BY <1>1, <1>2, <2>1, <2>2, <2>3, CommitOne DEF x
<1>8. CASE CommitCompletion(t)
  <2>1. /\ state' = [state EXCEPT ![s] = x.into]
        /\ completion' = completion \/ completion' = [completion EXCEPT ![s].left = 0]
        /\ CommitsSession(t, x.s) /\ UNCHANGED admission /\ x.op \in {"phase", "settle"}
    BY <1>2, <1>8 DEF CommitCompletion
  <2>2. /\ TablesOK'
        /\ \A c \in Sessions \ {s} : state'[c] = state[c] /\ completion'[c] = completion[c]
    <3>1. /\ admission \in [Sessions -> Leases] /\ completion \in [Sessions -> Leases]
          /\ state \in [Sessions -> States]
      BY <1>0 DEF TablesOK
    <3>2. /\ completion' \in [Sessions -> Leases]
          /\ \A c \in Sessions : c # s => completion'[c] = completion[c]
      BY <2>1, <3>1, EndedLease
    <3>3. /\ state' \in [Sessions -> States]
          /\ \A c \in Sessions \ {s} : state'[c] = state[c]
      BY <1>3, <2>1, <3>1
    <3> QED BY <2>1, <3>1, <3>2, <3>3 DEF TablesOK
  <2>3. AdmissionPoolIsBounded'
    BY <1>0, <2>1 DEF AdmissionPoolIsBounded, LiveAdmissions
  <2> HIDE DEF x
  <2> QED BY <1>1, <1>2, <2>1, <2>2, <2>3, CommitOne DEF x
<1> QED BY <1>5, <1>6, <1>7, <1>8 DEF Commit

-----------------------------------------------------------------------------
(***************************************************************************)
(* Releases and time.                                                      *)
(***************************************************************************)

\* A step that only takes from what is left of leases.
LEMMA LeasesFade ==
  ASSUME FenceInv, TablesOK', UNCHANGED state,
         txn' \in [Txns -> Transactions \cup {Idle}],
         \A t \in Txns :
           /\ txn'[t].op = txn[t].op /\ txn'[t].at = txn[t].at /\ txn'[t].s = txn[t].s
           /\ txn'[t].epoch = txn[t].epoch /\ txn'[t].changed = txn[t].changed,
         \A s \in Sessions :
           /\ admission'[s].epoch = admission[s].epoch
           /\ completion'[s].epoch = completion[s].epoch
           /\ (Live(admission'[s]) => Live(admission[s]))
           /\ (Live(completion'[s]) => Live(completion[s]))
  PROVE  FenceInv'
<1>1. AdmissionPoolIsBounded'
  BY CountsShrink DEF FenceInv
<1>2. LocksHold'
  BY DEF FenceInv, LocksHold, Compatible, LocksSession, LocksLease
<1>3. ASSUME NEW t \in Txns PROVE Shape(txn[t])' /\ Relies(txn[t])'
  <2>1. Shape(txn[t]) /\ Relies(txn[t])
    BY DEF FenceInv
  <2>2. Shape(txn[t])'
    BY <2>1 DEF Shape
  <2>3. txn[t].at \in {"waiting", "written"} => txn[t].s \in Sessions
    BY <2>1 DEF Shape
  <2>4. txn[t].at = "written" /\ txn[t].op = "acquire" =>
          Cardinality(Others(txn[t].s)') < AdmissionCapacity
    <3> SUFFICES ASSUME txn[t].at = "written", txn[t].op = "acquire"
                 PROVE  Cardinality(Others(txn[t].s)') < AdmissionCapacity
      OBVIOUS
    <3>1. PICK s \in Sessions : s = txn[t].s /\ s = txn'[t].s
      BY <2>3
    <3>2. Cardinality(Others(s)') < AdmissionCapacity
      BY <2>1, <3>1, CountsShrink DEF Relies
    <3> QED BY <3>1, <3>2
  <2>5. Relies(txn[t])'
    BY <2>1, <2>3, <2>4 DEF Relies
  <2> QED BY <2>2, <2>5
<1> QED BY <1>1, <1>2, <1>3 DEF FenceInv

LEMMA ReleaseStep ==
  ASSUME FenceInv, NEW s \in Sessions, NEW e, ReleaseAdmission(s, e)
  PROVE  FenceInv'
<1>1. TablesOK /\ txn \in [Txns -> Transactions \cup {Idle}]
  BY DEF FenceInv
<1>2. admission' = [admission EXCEPT ![s].left = 0] /\ UNCHANGED <<state, completion, txn>>
  BY DEF ReleaseAdmission
<1>3. /\ TablesOK'
      /\ \A c \in Sessions : /\ (Live(admission'[c]) => Live(admission[c]))
                             /\ admission'[c].epoch = admission[c].epoch
  <2>1. /\ admission \in [Sessions -> Leases] /\ completion \in [Sessions -> Leases]
        /\ state \in [Sessions -> States]
    BY <1>1 DEF TablesOK
  <2>2. /\ admission' \in [Sessions -> Leases]
        /\ \A c \in Sessions : /\ (Live(admission'[c]) => Live(admission[c]))
                             /\ admission'[c].epoch = admission[c].epoch
    <3>1. admission' = admission \/ admission' = [admission EXCEPT ![s].left = 0]
      BY <1>2
    <3> QED BY <2>1, <3>1, EndedLease
  <2> QED BY <1>2, <2>1, <2>2 DEF TablesOK
<1> QED BY <1>1, <1>2, <1>3, LeasesFade

LEMMA TickStep ==
  ASSUME FenceInv, Tick
  PROVE  FenceInv'
<1>1. TablesOK /\ txn \in [Txns -> Transactions \cup {Idle}]
  BY DEF FenceInv
<1>2. /\ TablesOK'
      /\ \A s \in Sessions :
           /\ admission'[s].epoch = admission[s].epoch
           /\ completion'[s].epoch = completion[s].epoch
           /\ (Live(admission'[s]) => Live(admission[s]))
           /\ (Live(completion'[s]) => Live(completion[s]))
  <2>1. \A s \in Sessions : admission'[s] = Aged(admission[s]) /\ completion'[s] = Aged(completion[s])
    BY DEF Tick
  <2>2. \A s \in Sessions : admission[s] \in Leases /\ completion[s] \in Leases
    BY <1>1 DEF TablesOK
  <2>3. \A s \in Sessions : /\ admission'[s] \in Leases /\ completion'[s] \in Leases
                          /\ admission'[s].epoch = admission[s].epoch
                          /\ completion'[s].epoch = completion[s].epoch
                          /\ (Live(admission'[s]) => Live(admission[s]))
                          /\ (Live(completion'[s]) => Live(completion[s]))
    BY <2>1, <2>2, AgedLease
  <2>4. TablesOK'
    <3>1. /\ admission' = [s \in Sessions |-> admission'[s]]
          /\ completion' = [s \in Sessions |-> completion'[s]]
      BY DEF Tick
    <3>2. admission' \in [Sessions -> Leases] /\ completion' \in [Sessions -> Leases]
      BY <2>3, <3>1
    <3>3. state' \in [Sessions -> States]
      BY <1>1 DEF Tick, TablesOK
    <3> QED BY <3>2, <3>3 DEF TablesOK
  <2> QED BY <2>3, <2>4
<1>3. \A t \in Txns :
        /\ txn'[t] \in Transactions \cup {Idle}
        /\ txn'[t].op = txn[t].op /\ txn'[t].at = txn[t].at /\ txn'[t].s = txn[t].s
        /\ txn'[t].epoch = txn[t].epoch /\ txn'[t].changed = txn[t].changed
  <2>1. \A t \in Txns : txn'[t] = Aged(txn[t])
    BY DEF Tick
  <2> QED BY <1>1, <2>1, AgedTransaction
<1>4. txn' \in [Txns -> Transactions \cup {Idle}]
  BY <1>3 DEF Tick
<1>5. UNCHANGED state
  BY DEF Tick
<1> QED BY <1>2, <1>3, <1>4, <1>5, LeasesFade

-----------------------------------------------------------------------------
(***************************************************************************)
(* The theorems.                                                           *)
(***************************************************************************)

LEMMA FenceInitially == Init => FenceInv
<1> SUFFICES ASSUME Init PROVE FenceInv
  OBVIOUS
<1>1. TablesOK
  <2>1. [epoch |-> 0, left |-> 0] \in Leases
    BY FencingBounds DEF Leases
  <2> QED BY <2>1 DEF Init, TablesOK, States
<1>2. txn \in [Txns -> Transactions \cup {Idle}] /\ \A t \in Txns : txn[t] = Idle
  BY DEF Init
<1>3. Shape(Idle) /\ Relies(Idle)
  BY DEF Shape, Relies, Idle
<1>4. LocksHold
  BY <1>2 DEF LocksHold, Compatible, LocksSession, LocksLease, Idle
<1>5. AdmissionPoolIsBounded
  <2>1. LiveAdmissions = {}
    BY DEF Init, LiveAdmissions, Live
  <2> QED BY <2>1, FS_EmptySet, FencingCapacity DEF AdmissionPoolIsBounded
<1> QED BY <1>1, <1>2, <1>3, <1>4, <1>5 DEF FenceInv

LEMMA FenceStep == FenceInv /\ [Next]_fVars => FenceInv'
<1> SUFFICES ASSUME FenceInv, [Next]_fVars PROVE FenceInv'
  OBVIOUS
<1>1. CASE Next
  BY <1>1, BeginStep, ProceedStep, CommitStep, RollbackStep, ReleaseStep, TickStep DEF Next
<1>2. CASE UNCHANGED fVars
  BY <1>2 DEF fVars, FenceInv, TablesOK, Shape, Relies, LocksHold, Compatible, LocksSession,
              LocksLease, Others, LiveAdmissions, AdmissionPoolIsBounded
<1> QED BY <1>1, <1>2

\* The inductive invariant of the statements of the multipart transactions.
THEOREM FencingInvariant == Spec => []FenceInv
BY FenceInitially, FenceStep, PTL DEF Spec

\* Type correctness, and that no lease outlives its ttl.
THEOREM FencingTypes == Spec => []FencingTypeOK
<1>1. FenceInv => FencingTypeOK
  BY DEF FenceInv, TablesOK, FencingTypeOK, Shape
<1> QED BY <1>1, FencingInvariant, PTL

\* The UPDATEs of accept_completion, mark_multipart_initiation_ambiguous and the
\* completion transactions take effect under the epoch they were fenced with,
\* and upload writes only on sessions that are still uploading.
THEOREM WritesAlwaysMeetTheirSession == Spec => []WritesMeetTheirSession
<1>1. FenceInv => WritesMeetTheirSession
  BY DEF FenceInv, Relies, WritesMeetTheirSession, Wrote
<1> QED BY <1>1, FencingInvariant, PTL

\* acquire_multipart_lease never makes more live admissions than its capacity.
THEOREM AdmissionsStayBounded == Spec => []AdmissionPoolIsBounded
<1>1. FenceInv => AdmissionPoolIsBounded
  BY DEF FenceInv
<1> QED BY <1>1, FencingInvariant, PTL

-----------------------------------------------------------------------------
(***************************************************************************)
(* The lease tokens: what a transaction that holds its session or its      *)
(* lease row knows of them until it commits.                               *)
(***************************************************************************)

Holding(x, ops) == x.op \in ops /\ x.at \in {"locked", "written"}
Written(x, ops) == x.op \in ops /\ x.at = "written"

Expects(x) ==
    /\ x.op \in {"accept", "ambiguous", "settle", "renew"} => x.epoch > 0
    /\ Holding(x, {"acquire"}) => state[x.s] = "UPLOAD"
    /\ Holding(x, {"claim", "phase", "settle"}) => state[x.s] = "COMPLETING"
    /\ Written(x, {"accept"}) => state[x.s] = "UPLOAD"
    /\ Written(x, {"upload"}) => x.into = "UPLOAD"
    /\ Written(x, {"ambiguous"}) => x.into = "TERMINAL"
    /\ Written(x, {"phase"}) => x.into = "COMPLETING"
    /\ Written(x, {"renew"}) => state[x.s] = "COMPLETING" /\ x.epoch = completion[x.s].epoch
    /\ Written(x, {"claim"}) => x.epoch = completion[x.s].epoch + 1
    /\ Written(x, {"acquire"}) =>
         \/ x.epoch = admission[x.s].epoch /\ x.epoch > 0
         \/ x.epoch = admission[x.s].epoch + 1 /\ ~Live(admission[x.s])

LiveFollowsState ==
    \A s \in Sessions :
        /\ Live(admission[s]) => state[s] = "UPLOAD" /\ admission[s].epoch > 0
        /\ Live(completion[s]) => state[s] = "COMPLETING" /\ completion[s].epoch > 0

TokenInv == LiveFollowsState /\ \A t \in Txns : Expects(txn[t])

\* A step that only moves one transaction.
LEMMA OneExpectation ==
  ASSUME FenceInv, TokenInv, UNCHANGED <<state, admission, completion>>, NEW t \in Txns, NEW r,
         txn' = [txn EXCEPT ![t] = r], Expects(r)
  PROVE  TokenInv'
<1>1. txn'[t] = r /\ \A u \in Txns \ {t} : txn'[u] = txn[u]
  BY DEF FenceInv
<1>2. \A u \in Txns : Expects(txn'[u])
  BY <1>1 DEF TokenInv
<1>3. \A u \in Txns : Expects(txn[u])'
  BY <1>2 DEF Expects, Holding, Written
<1> QED BY <1>3 DEF TokenInv, LiveFollowsState

LEMMA BeginTokens ==
  ASSUME FenceInv, TokenInv, NEW t \in Txns, Begin(t)
  PROVE  TokenInv'
<1>0. UNCHANGED <<state, admission, completion>>
  BY DEF Begin, StartClaim, StartAcquire, Starts, EvaluateFence, LockForAccept, RenewWrites,
         LockForCompletion
<1>1. ASSUME NEW op \in {"acquire", "claim"}, NEW s, Starts(t, op, "queued", s)
      PROVE  TokenInv'
  <2> DEFINE r == [Idle EXCEPT !.op = op, !.at = "queued", !.s = s]
  <2>1. Expects(r)
    BY DEF Expects, Holding, Written, Idle
  <2> QED BY <1>0, <1>1, <2>1, OneExpectation DEF Starts
<1>2. ASSUME NEW s \in Sessions, NEW e \in Nat \ {0}, NEW op \in {"upload", "ambiguous"},
             EvaluateFence(t, op, s, e)
      PROVE  TokenInv'
  <2> DEFINE r == [Idle EXCEPT !.op = op, !.at = "waiting", !.s = s, !.epoch = e,
                               !.left = admission[s].left]
  <2>1. Expects(r)
    BY DEF Expects, Holding, Written, Idle
  <2> QED BY <1>0, <1>2, <2>1, OneExpectation DEF EvaluateFence
<1>3. ASSUME NEW s \in Sessions, NEW op \in {"accept", "phase", "settle"}, NEW e \in Nat \ {0},
             op # "accept" => state[s] = "COMPLETING",
             txn' = [txn EXCEPT ![t] = [Idle EXCEPT !.op = op, !.at = "locked", !.s = s, !.epoch = e]]
      PROVE  TokenInv'
  <2> DEFINE r == [Idle EXCEPT !.op = op, !.at = "locked", !.s = s, !.epoch = e]
  <2>1. Expects(r)
    BY <1>3 DEF Expects, Holding, Written, Idle
  <2> QED BY <1>0, <1>3, <2>1, OneExpectation
<1>4. ASSUME NEW s \in Sessions, NEW e \in Nat \ {0}, RenewWrites(t, s, e)
      PROVE  TokenInv'
  <2> DEFINE r == [Idle EXCEPT !.op = "renew", !.at = "written", !.s = s, !.epoch = e, !.left = Ttl]
  <2>1. state[s] = "COMPLETING" /\ e = completion[s].epoch
    BY <1>4 DEF RenewWrites, Fenced, TokenInv, LiveFollowsState
  <2>2. Expects(r)
    BY <2>1 DEF Expects, Holding, Written, Idle
  <2> QED BY <1>0, <1>4, <2>2, OneExpectation DEF RenewWrites
<1>5. \A s \in Sessions :
        1..admission[s].epoch \subseteq Nat \ {0} /\ 1..completion[s].epoch \subseteq Nat \ {0}
  BY DEF FenceInv, TablesOK, Leases
<1> QED
  <2>1. CASE StartClaim(t)
    BY <1>1, <2>1 DEF StartClaim
  <2>2. CASE \E s \in Sessions : StartAcquire(t, s)
    BY <1>1, <2>2 DEF StartAcquire
  <2>3. ASSUME NEW s \in Sessions, NEW e \in 1..admission[s].epoch,
               \/ EvaluateFence(t, "upload", s, e)
               \/ EvaluateFence(t, "ambiguous", s, e)
               \/ LockForAccept(t, s, e)
        PROVE  TokenInv'
    BY <1>2, <1>3, <1>5, <2>3 DEF LockForAccept
  <2>4. ASSUME NEW s \in Sessions, NEW e \in 1..completion[s].epoch,
               \/ RenewWrites(t, s, e)
               \/ LockForCompletion(t, "phase", s, e)
               \/ LockForCompletion(t, "settle", s, e)
        PROVE  TokenInv'
    BY <1>3, <1>4, <1>5, <2>4 DEF LockForCompletion
  <2> QED BY <2>1, <2>2, <2>3, <2>4 DEF Begin

LEMMA ProceedTokens ==
  ASSUME FenceInv, TokenInv, NEW t \in Txns, Proceed(t)
  PROVE  TokenInv'
<1> DEFINE x == txn[t]
<1>0. /\ TablesOK /\ x \in Transactions \cup {Idle} /\ Shape(x) /\ Relies(x) /\ Expects(x)
  BY DEF FenceInv, TokenInv
<1>1. x.op # "none" => x \in Transactions
  BY <1>0 DEF Idle
<1>2. CASE UploadWrites(t)
  <2> DEFINE r == [x EXCEPT !.at = "written", !.left = 0, !.changed = FALSE,
                            !.into = IF x.op = "upload" THEN "UPLOAD" ELSE "TERMINAL"]
  <2>1. /\ txn' = [txn EXCEPT ![t] = r] /\ UNCHANGED <<state, admission, completion>>
        /\ x.op \in {"upload", "ambiguous"}
    BY <1>2 DEF UploadWrites
  <2>2. /\ r.op = x.op /\ r.at = "written" /\ r.s = x.s /\ r.epoch = x.epoch
        /\ r.into = IF x.op = "upload" THEN "UPLOAD" ELSE "TERMINAL"
    BY <1>1, <2>1 DEF Transactions
  <2> HIDE DEF r, x
  <2>3. Expects(r)
    BY <1>0, <2>1, <2>2 DEF Expects, Holding, Written
  <2> QED BY <2>1, <2>3, OneExpectation
<1>3. CASE LockForAcquire(t)
  <2> DEFINE r == [x EXCEPT !.at = "locked"]
  <2>1. /\ txn' = [txn EXCEPT ![t] = r] /\ UNCHANGED <<state, admission, completion>>
        /\ x.op = "acquire" /\ state[x.s] = "UPLOAD"
    BY <1>3 DEF LockForAcquire
  <2>2. r.op = "acquire" /\ r.at = "locked" /\ r.s = x.s
    BY <1>1, <2>1 DEF Transactions
  <2> HIDE DEF r, x
  <2>3. Expects(r)
    BY <2>1, <2>2 DEF Expects, Holding, Written
  <2> QED BY <2>1, <2>3, OneExpectation
<1>4. CASE GrantAdmission(t)
  <2>0. /\ UNCHANGED <<state, admission, completion>>
        /\ x.op = "acquire" /\ x.at = "locked"
    BY <1>4 DEF GrantAdmission
  <2>1. PICK e \in {admission[x.s].epoch, admission[x.s].epoch + 1} :
          /\ txn' = [txn EXCEPT ![t] = [x EXCEPT !.at = "written", !.epoch = e, !.left = Ttl]]
          /\ \/ e = admission[x.s].epoch /\ Live(admission[x.s])
             \/ ~Live(admission[x.s]) /\ e = admission[x.s].epoch + 1
    BY <1>4 DEF GrantAdmission
  <2> DEFINE r == [x EXCEPT !.at = "written", !.epoch = e, !.left = Ttl]
  <2>2. x.s \in Sessions /\ state[x.s] = "UPLOAD"
    BY <1>0, <2>0 DEF Shape, Expects, Holding
  <2>3. r.op = "acquire" /\ r.at = "written" /\ r.s = x.s /\ r.epoch = e
    BY <1>1, <2>0 DEF Transactions
  <2>4. Live(admission[x.s]) => admission[x.s].epoch > 0
    BY <2>2 DEF TokenInv, LiveFollowsState
  <2> HIDE DEF r
  <2>5. Expects(r)
    <3> HIDE DEF x
    <3> QED BY <2>1, <2>2, <2>3, <2>4 DEF Expects, Holding, Written
  <2> QED BY <2>0, <2>1, <2>5, OneExpectation DEF r
<1>5. CASE AcceptWrites(t)
  <2> DEFINE r == [x EXCEPT !.at = "written"]
  <2>1. /\ txn' = [txn EXCEPT ![t] = r] /\ UNCHANGED <<state, admission, completion>>
        /\ x.op = "accept" /\ state[x.s] = "UPLOAD"
    BY <1>5 DEF AcceptWrites
  <2>2. r.op = "accept" /\ r.at = "written" /\ r.s = x.s /\ r.epoch = x.epoch
    BY <1>1, <2>1 DEF Transactions
  <2> HIDE DEF r, x
  <2>3. Expects(r)
    BY <1>0, <2>1, <2>2 DEF Expects, Holding, Written
  <2> QED BY <2>1, <2>3, OneExpectation
<1>6. ASSUME NEW s \in Sessions, SelectClaim(t, s) PROVE TokenInv'
  <2> DEFINE r == [x EXCEPT !.at = "locked", !.s = s, !.left = Ttl]
  <2>1. /\ txn' = [txn EXCEPT ![t] = r] /\ UNCHANGED <<state, admission, completion>>
        /\ x.op = "claim" /\ state[s] = "COMPLETING"
    BY <1>6 DEF SelectClaim
  <2>2. r.op = "claim" /\ r.at = "locked" /\ r.s = s
    BY <1>1, <2>1 DEF Transactions
  <2> HIDE DEF r, x
  <2>3. Expects(r)
    BY <2>1, <2>2 DEF Expects, Holding, Written
  <2> QED BY <2>1, <2>3, OneExpectation
<1>7. CASE ClaimWrites(t)
  <2> DEFINE r == [x EXCEPT !.at = "written", !.epoch = completion[x.s].epoch + 1]
  <2>1. /\ txn' = [txn EXCEPT ![t] = r] /\ UNCHANGED <<state, admission, completion>>
        /\ x.op = "claim" /\ x.at = "locked"
    BY <1>7 DEF ClaimWrites
  <2>2. /\ r.op = "claim" /\ r.at = "written" /\ r.s = x.s
        /\ r.epoch = completion[x.s].epoch + 1
    BY <1>1, <2>1 DEF Transactions
  <2> HIDE DEF r
  <2>3. Expects(r)
    <3> HIDE DEF x
    <3> QED BY <1>0, <2>1, <2>2 DEF Expects, Holding, Written
  <2> QED BY <2>1, <2>3, OneExpectation
<1>8. ASSUME NEW into \in States, CompletionWrites(t, into) PROVE TokenInv'
  <2> DEFINE r == [x EXCEPT !.at = "written", !.into = into]
  <2>1. /\ txn' = [txn EXCEPT ![t] = r] /\ UNCHANGED <<state, admission, completion>>
        /\ x.op \in {"phase", "settle"} /\ x.at = "locked"
        /\ x.op = "phase" => into = "COMPLETING"
    BY <1>8 DEF CompletionWrites
  <2>2. r.op = x.op /\ r.at = "written" /\ r.s = x.s /\ r.epoch = x.epoch /\ r.into = into
    BY <1>1, <2>1 DEF Transactions
  <2> HIDE DEF r, x
  <2>3. Expects(r)
    BY <1>0, <2>1, <2>2 DEF Expects, Holding, Written
  <2> QED BY <2>1, <2>3, OneExpectation
<1> QED BY <1>2, <1>3, <1>4, <1>5, <1>6, <1>7, <1>8 DEF Proceed

LEMMA RollbackTokens ==
  ASSUME FenceInv, TokenInv, NEW t \in Txns, Rollback(t)
  PROVE  TokenInv'
<1>1. Expects(Idle)
  BY DEF Expects, Holding, Written, Idle
<1> QED BY <1>1, OneExpectation DEF Rollback

\* A commit changes what only the transactions that hold its rows count on.
LEMMA CommitExpectations ==
  ASSUME FenceInv, TokenInv, NEW t \in Txns, txn[t].at = "written",
         NEW s \in Sessions, s = txn[t].s,
         CommitsSession(t, s) \/ CommitsLease(t),
         \A c \in Sessions \ {s} : /\ state'[c] = state[c]
                                   /\ admission'[c] = admission[c]
                                   /\ completion'[c] = completion[c],
         txn[t].op = "renew" => /\ state' = state /\ admission' = admission
                                /\ completion'[s].epoch = completion[s].epoch,
         txn[t].op \notin {"claim", "renew", "settle"} /\ state[s] = "COMPLETING" =>
           state'[s] = "COMPLETING" /\ completion'[s].epoch = completion[s].epoch,
         Live(admission'[s]) => state'[s] = "UPLOAD" /\ admission'[s].epoch > 0,
         Live(completion'[s]) => state'[s] = "COMPLETING" /\ completion'[s].epoch > 0
  PROVE  TokenInv'
<1> DEFINE x == txn[t]
<1>1. /\ txn'[t] = Idle
      /\ \A u \in Txns \ {t} :
           /\ txn'[u].op = txn[u].op /\ txn'[u].at = txn[u].at /\ txn'[u].s = txn[u].s
           /\ txn'[u].epoch = txn[u].epoch /\ txn'[u].into = txn[u].into
  BY OtherTransactions
<1>2. ASSUME NEW u \in Txns \ {t} PROVE Expects(txn[u])'
  <2> DEFINE y == txn[u]
  <2>1. /\ Shape(y) /\ Expects(y) /\ Compatible(x, y) /\ Shape(x)
    BY DEF FenceInv, TokenInv, LocksHold
  <2>2. CASE y.at \notin {"locked", "written"}
    BY <1>1, <2>1, <2>2 DEF Expects, Holding, Written
  <2>3. CASE y.at \in {"locked", "written"} /\ y.s # s
    <3>1. y.s \in Sessions
      BY <2>1, <2>3 DEF Shape
    <3>2. /\ state'[y.s] = state[y.s] /\ admission'[y.s] = admission[y.s]
          /\ completion'[y.s] = completion[y.s]
      BY <2>3, <3>1
    <3> QED BY <1>1, <2>1, <2>3, <3>2 DEF Expects, Holding, Written
  <2>4. CASE y.at \in {"locked", "written"} /\ y.s = s /\ x.op = "renew"
    <3>1. ~Written(y, {"claim", "renew", "settle"})
      BY <2>1, <2>4 DEF Compatible, LocksLease, Written
    <3>2. state' = state /\ admission' = admission
      BY <2>4
    <3> QED BY <1>1, <2>1, <2>4, <3>1, <3>2 DEF Expects, Holding, Written
  <2>5. CASE y.at \in {"locked", "written"} /\ y.s = s /\ x.op # "renew"
    <3>1. y.op = "renew"
      BY <2>1, <2>5 DEF Compatible, LocksSession
    <3>2. y.at = "written"
      BY <2>1, <2>5, <3>1 DEF Shape
    <3>3. x.op \notin {"claim", "settle"}
      BY <2>1, <2>5, <3>1, <3>2 DEF Compatible, LocksLease
    <3>4. state[s] = "COMPLETING" /\ y.epoch = completion[s].epoch /\ y.epoch > 0
      BY <2>1, <2>5, <3>1, <3>2 DEF Expects, Written
    <3>5. state'[s] = "COMPLETING" /\ completion'[s].epoch = completion[s].epoch
      BY <2>5, <3>3, <3>4
    <3> HIDE DEF y
    <3>6. /\ txn'[u].op = "renew" /\ txn'[u].s = s /\ txn'[u].epoch = completion'[s].epoch
          /\ txn'[u].epoch > 0
      BY <1>1, <2>5, <3>1, <3>4, <3>5 DEF y
    <3> QED BY <3>5, <3>6 DEF Expects, Holding, Written
  <2> QED BY <2>2, <2>3, <2>4, <2>5
<1>3. Expects(txn[t])'
  BY <1>1 DEF Expects, Holding, Written, Idle
<1>4. LiveFollowsState'
  BY DEF TokenInv, LiveFollowsState
<1> QED BY <1>2, <1>3, <1>4 DEF TokenInv

\* What each commit knows and does, one row of each table at a time.
Committed(t, s, kind) ==
    /\ txn[t].at = "written" /\ s = txn[t].s
    /\ CommitsSession(t, s) \/ CommitsLease(t)
    /\ \/ /\ kind = "keep"
          /\ UNCHANGED <<state, admission, completion>>
       \/ /\ kind = "end admission" /\ txn[t].op \in {"ambiguous", "accept"}
          /\ state[s] = "UPLOAD" /\ admission[s].epoch > 0
          /\ \E into \in {"COMPLETING", "TERMINAL"} : state' = [state EXCEPT ![s] = into]
          /\ admission' = [admission EXCEPT ![s].left = 0]
          /\ UNCHANGED completion
       \/ /\ kind = "end completion" /\ txn[t].op = "settle"
          /\ state[s] = "COMPLETING" /\ completion[s].epoch > 0
          /\ \E into \in {"UPLOAD", "TERMINAL"} : state' = [state EXCEPT ![s] = into]
          /\ completion' = [completion EXCEPT ![s].left = 0]
          /\ UNCHANGED admission
       \/ /\ kind = "extend admission" /\ txn[t].op = "acquire"
          /\ state[s] = "UPLOAD"
          /\ \/ txn[t].epoch = admission[s].epoch /\ txn[t].epoch > 0
             \/ txn[t].epoch = admission[s].epoch + 1 /\ ~Live(admission[s])
          /\ admission' = [admission EXCEPT ![s] = [epoch |-> txn[t].epoch, left |-> txn[t].left]]
          /\ UNCHANGED <<state, completion>>
       \/ /\ kind = "extend completion" /\ txn[t].op \in {"claim", "renew"}
          /\ state[s] = "COMPLETING"
          /\ \/ txn[t].op = "renew" /\ txn[t].epoch = completion[s].epoch /\ txn[t].epoch > 0
             \/ txn[t].op = "claim" /\ txn[t].epoch = completion[s].epoch + 1 /\ ~Live(completion[s])
          /\ completion' = [completion EXCEPT ![s] = [epoch |-> txn[t].epoch, left |-> txn[t].left]]
          /\ UNCHANGED <<state, admission>>

CommitKinds ==
    {"keep", "end admission", "end completion", "extend admission", "extend completion"}

LEMMA CommitsAre ==
  ASSUME FenceInv, TokenInv, NEW t \in Txns, Commit(t)
  PROVE  /\ txn[t].s \in Sessions /\ txn[t].epoch \in 0..MaxEpoch /\ txn[t].left \in 0..Ttl
         /\ \E kind \in CommitKinds : Committed(t, txn[t].s, kind)
<1> DEFINE x == txn[t]
           s == txn[t].s
<1>0. /\ TablesOK /\ x \in Transactions \cup {Idle} /\ Shape(x) /\ Relies(x) /\ Expects(x)
  BY DEF FenceInv, TokenInv
<1>1. x.at = "written" /\ x \in Transactions /\ s \in Sessions
  <2>1. x.at = "written"
    BY DEF Commit, CommitUpload, CommitAcquire, CommitAccept, CommitClaim, CommitRenew,
           CommitCompletion
  <2> QED BY <1>0, <2>1 DEF Shape, Idle
<1>2. x.epoch \in 0..MaxEpoch /\ x.left \in 0..Ttl /\ x.into \in States
  BY <1>1 DEF Transactions
<1>3. CASE CommitUpload(t)
  <2>1. CASE x.op = "upload"
    <3>1. state[s] = "UPLOAD" /\ x.into = "UPLOAD"
      BY <1>0, <1>1, <2>1 DEF Relies, Expects, Written
    <3>2. state' = [state EXCEPT ![s] = "UPLOAD"] /\ UNCHANGED <<admission, completion>>
      BY <1>3, <2>1, <3>1 DEF CommitUpload
    <3>3. state' = state
      BY <1>0, <1>1, <3>1, <3>2 DEF TablesOK
    <3>4. CommitsSession(t, s)
      BY <1>3 DEF CommitUpload
    <3> QED BY <1>1, <1>2, <3>2, <3>3, <3>4 DEF Committed, CommitKinds
  <2>2. CASE x.op = "ambiguous"
    <3>1. /\ state[s] = "UPLOAD" /\ x.into = "TERMINAL" /\ x.epoch > 0
          /\ admission[s].epoch = x.epoch
      BY <1>0, <1>1, <2>2 DEF Relies, Expects, Written
    <3>2. /\ state' = [state EXCEPT ![s] = "TERMINAL"] /\ UNCHANGED completion
          /\ admission' = [admission EXCEPT ![s].left = 0] /\ CommitsSession(t, s)
      BY <1>3, <2>2, <3>1 DEF CommitUpload
    <3>3. Committed(t, s, "end admission")
      BY <1>1, <2>2, <3>1, <3>2 DEF Committed
    <3> QED BY <1>1, <1>2, <3>3 DEF CommitKinds
  <2> QED BY <1>3, <2>1, <2>2 DEF CommitUpload
<1>4. CASE CommitAccept(t)
  <2>1. /\ state' = [state EXCEPT ![s] = "COMPLETING"] /\ UNCHANGED completion
        /\ admission' = [admission EXCEPT ![s].left = 0] /\ CommitsSession(t, s)
        /\ x.op = "accept"
    BY <1>4 DEF CommitAccept
  <2>2. state[s] = "UPLOAD" /\ x.epoch > 0 /\ admission[s].epoch = x.epoch
    BY <1>0, <1>1, <2>1 DEF Relies, Expects, Written
  <2>3. Committed(t, s, "end admission")
    BY <1>1, <2>1, <2>2 DEF Committed
  <2> QED BY <1>1, <1>2, <2>3 DEF CommitKinds
<1>5. CASE CommitAcquire(t)
  <2>1. /\ admission' = [admission EXCEPT ![s] = [epoch |-> x.epoch, left |-> x.left]]
        /\ CommitsLease(t) /\ UNCHANGED <<state, completion>> /\ x.op = "acquire"
    BY <1>5 DEF CommitAcquire
  <2>2. /\ state[s] = "UPLOAD"
        /\ \/ x.epoch = admission[s].epoch /\ x.epoch > 0
           \/ x.epoch = admission[s].epoch + 1 /\ ~Live(admission[s])
    BY <1>0, <1>1, <2>1 DEF Expects, Written, Holding
  <2>3. Committed(t, s, "extend admission")
    BY <1>1, <2>1, <2>2 DEF Committed
  <2> QED BY <1>1, <1>2, <2>3 DEF CommitKinds
<1>6. CASE CommitClaim(t)
  <2>1. /\ completion' = [completion EXCEPT ![s] = [epoch |-> x.epoch, left |-> x.left]]
        /\ CommitsLease(t) /\ UNCHANGED <<state, admission>> /\ x.op = "claim"
    BY <1>6 DEF CommitClaim
  <2>2. /\ state[s] = "COMPLETING" /\ x.epoch = completion[s].epoch + 1 /\ ~Live(completion[s])
    BY <1>0, <1>1, <2>1 DEF Relies, Expects, Written, Holding
  <2>3. Committed(t, s, "extend completion")
    BY <1>1, <2>1, <2>2 DEF Committed
  <2> QED BY <1>1, <1>2, <2>3 DEF CommitKinds
<1>7. CASE CommitRenew(t)
  <2>0. x.op = "renew"
    BY <1>7 DEF CommitRenew
  <2>1. state[s] = "COMPLETING" /\ x.epoch = completion[s].epoch /\ x.epoch > 0
    BY <1>0, <1>1, <2>0 DEF Expects, Written
  <2>2. completion[s] \in Leases
    BY <1>0, <1>1 DEF TablesOK
  <2>3. [completion[s] EXCEPT !.left = x.left] = [epoch |-> x.epoch, left |-> x.left]
    BY <2>1, <2>2 DEF Leases
  <2>4. completion' = [completion EXCEPT ![s] = [completion[s] EXCEPT !.left = x.left]]
    BY <1>7 DEF CommitRenew
  <2>5. CommitsLease(t) /\ UNCHANGED <<state, admission>>
    BY <1>7 DEF CommitRenew
  <2>6. completion' = [completion EXCEPT ![s] = [epoch |-> x.epoch, left |-> x.left]]
    BY <2>3, <2>4
  <2>7. Committed(t, s, "extend completion")
    BY <1>1, <2>0, <2>1, <2>5, <2>6 DEF Committed
  <2> QED BY <1>1, <1>2, <2>7 DEF CommitKinds
<1>8. CASE CommitCompletion(t)
  <2>1. /\ state' = [state EXCEPT ![s] = x.into] /\ CommitsSession(t, s) /\ UNCHANGED admission
        /\ completion' = IF x.into = "COMPLETING" THEN completion
                         ELSE [completion EXCEPT ![s].left = 0]
        /\ x.op \in {"phase", "settle"}
    BY <1>8 DEF CommitCompletion
  <2>2. state[s] = "COMPLETING" /\ completion[s].epoch = x.epoch
    BY <1>0, <1>1, <2>1 DEF Relies, Expects, Written, Holding
  <2>3. CASE x.into = "COMPLETING"
    <3>1. state' = state /\ UNCHANGED completion
      BY <1>0, <1>1, <2>1, <2>2, <2>3 DEF TablesOK
    <3>2. Committed(t, s, "keep")
      BY <1>1, <2>1, <3>1 DEF Committed
    <3> QED BY <1>1, <1>2, <3>2 DEF CommitKinds
  <2>4. CASE x.into # "COMPLETING"
    <3>1. x.op = "settle" /\ x.epoch > 0
      BY <1>0, <1>1, <2>1, <2>4 DEF Expects, Written
    <3>2. x.into \in {"UPLOAD", "TERMINAL"}
      BY <1>2, <2>4 DEF States
    <3>3. Committed(t, s, "end completion")
      BY <1>1, <2>1, <2>2, <2>4, <3>1, <3>2 DEF Committed
    <3> QED BY <1>1, <1>2, <3>3 DEF CommitKinds
  <2> QED BY <2>3, <2>4
<1> QED BY <1>3, <1>4, <1>5, <1>6, <1>7, <1>8 DEF Commit

LEMMA CommitTokens ==
  ASSUME FenceInv, TokenInv, NEW t \in Txns, Commit(t)
  PROVE  TokenInv'
<1>1. PICK kind \in CommitKinds : Committed(t, txn[t].s, kind)
  BY CommitsAre
<1>2. PICK s \in Sessions : s = txn[t].s /\ Committed(t, s, kind)
  BY <1>1, CommitsAre
<1>3. txn[t].epoch \in 0..MaxEpoch /\ txn[t].left \in 0..Ttl
  BY CommitsAre
<1>4. /\ state \in [Sessions -> States] /\ admission \in [Sessions -> Leases]
      /\ completion \in [Sessions -> Leases]
  BY DEF FenceInv, TablesOK
<1>5. /\ Live(admission[s]) => state[s] = "UPLOAD" /\ admission[s].epoch > 0
      /\ Live(completion[s]) => state[s] = "COMPLETING" /\ completion[s].epoch > 0
  BY DEF TokenInv, LiveFollowsState
<1>6. \A c \in Sessions \ {s} : /\ state'[c] = state[c]
                                /\ admission'[c] = admission[c]
                                /\ completion'[c] = completion[c]
  BY <1>2, <1>4 DEF Committed
<1>12. /\ kind = "extend admission" => admission'[s].epoch = txn[t].epoch
       /\ kind = "extend completion" => completion'[s].epoch = txn[t].epoch
  <2>1. CASE kind = "extend admission"
    <3>1. admission' = [admission EXCEPT ![s] = [epoch |-> txn[t].epoch, left |-> txn[t].left]]
      BY <1>2, <2>1 DEF Committed
    <3> QED BY <1>4, <2>1, <3>1
  <2>2. CASE kind = "extend completion"
    <3>1. completion' = [completion EXCEPT ![s] = [epoch |-> txn[t].epoch, left |-> txn[t].left]]
      BY <1>2, <2>2 DEF Committed
    <3> QED BY <1>4, <2>2, <3>1
  <2> QED BY <2>1, <2>2
<1>7. txn[t].op = "renew" => /\ state' = state /\ admission' = admission
                             /\ completion'[s].epoch = completion[s].epoch
  BY <1>2, <1>4, <1>12 DEF Committed
<1>8. txn[t].op \notin {"claim", "renew", "settle"} /\ state[s] = "COMPLETING" =>
        state'[s] = "COMPLETING" /\ completion'[s].epoch = completion[s].epoch
  BY <1>2, <1>4 DEF Committed
<1>9. Live(admission'[s]) => state'[s] = "UPLOAD" /\ admission'[s].epoch > 0
  <2>1. CASE kind \in {"keep", "extend completion"}
    BY <1>2, <1>5, <2>1 DEF Committed
  <2>2. CASE kind = "end admission"
    <3>1. admission'[s] = [admission[s] EXCEPT !.left = 0]
      BY <1>2, <1>4, <2>2 DEF Committed
    <3> QED BY <1>4, <3>1 DEF Live, Leases
  <2>3. CASE kind = "end completion"
    BY <1>2, <1>5, <2>3 DEF Committed
  <2>4. CASE kind = "extend admission"
    <3>1. admission[s].epoch \in Nat
      <4>1. admission[s] \in Leases
        BY <1>4
      <4> QED BY <4>1, FencingBounds DEF Leases
    <3>2. /\ state[s] = "UPLOAD" /\ state' = state
          /\ \/ txn[t].epoch = admission[s].epoch /\ txn[t].epoch > 0
             \/ txn[t].epoch = admission[s].epoch + 1
      BY <1>2, <2>4 DEF Committed
    <3>3. txn[t].epoch > 0
      BY <3>1, <3>2
    <3>4. admission'[s].epoch = txn[t].epoch
      BY <1>12, <2>4
    <3> QED BY <3>2, <3>3, <3>4
  <2> QED BY <2>1, <2>2, <2>3, <2>4 DEF CommitKinds
<1>10. Live(completion'[s]) => state'[s] = "COMPLETING" /\ completion'[s].epoch > 0
  <2>1. CASE kind \in {"keep", "extend admission"}
    BY <1>2, <1>5, <2>1 DEF Committed
  <2>2. CASE kind = "end completion"
    <3>1. completion'[s] = [completion[s] EXCEPT !.left = 0]
      BY <1>2, <1>4, <2>2 DEF Committed
    <3> QED BY <1>4, <3>1 DEF Live, Leases
  <2>3. CASE kind = "end admission"
    BY <1>2, <1>5, <2>3 DEF Committed
  <2>4. CASE kind = "extend completion"
    <3>1. completion[s].epoch \in Nat
      <4>1. completion[s] \in Leases
        BY <1>4
      <4> QED BY <4>1, FencingBounds DEF Leases
    <3>2. /\ state[s] = "COMPLETING" /\ state' = state
          /\ \/ txn[t].epoch = completion[s].epoch /\ txn[t].epoch > 0
             \/ txn[t].epoch = completion[s].epoch + 1
      BY <1>2, <2>4 DEF Committed
    <3>3. txn[t].epoch > 0
      BY <3>1, <3>2
    <3>4. completion'[s].epoch = txn[t].epoch
      BY <1>12, <2>4
    <3> QED BY <3>2, <3>3, <3>4
  <2> QED BY <2>1, <2>2, <2>3, <2>4 DEF CommitKinds
<1>11. txn[t].at = "written" /\ (CommitsSession(t, s) \/ CommitsLease(t))
  BY <1>2 DEF Committed
<1> QED BY <1>2, <1>6, <1>7, <1>8, <1>9, <1>10, <1>11, CommitExpectations

\* A step that only takes from what is left of leases disappoints nobody.
LEMMA FadingTokens ==
  ASSUME FenceInv, TokenInv, UNCHANGED state,
         \A t \in Txns :
           /\ txn'[t].op = txn[t].op /\ txn'[t].at = txn[t].at /\ txn'[t].s = txn[t].s
           /\ txn'[t].epoch = txn[t].epoch /\ txn'[t].into = txn[t].into,
         \A s \in Sessions :
           /\ admission'[s].epoch = admission[s].epoch
           /\ completion'[s].epoch = completion[s].epoch
           /\ (Live(admission'[s]) => Live(admission[s]))
           /\ (Live(completion'[s]) => Live(completion[s]))
  PROVE  TokenInv'
<1>1. ASSUME NEW t \in Txns PROVE Expects(txn[t])'
  <2>1. Shape(txn[t]) /\ Expects(txn[t])
    BY DEF FenceInv, TokenInv
  <2>2. txn[t].at \in {"locked", "written"} => txn[t].s \in Sessions
    BY <2>1 DEF Shape
  <2> QED BY <2>1, <2>2 DEF Expects, Holding, Written
<1>2. LiveFollowsState'
  BY DEF TokenInv, LiveFollowsState
<1> QED BY <1>1, <1>2 DEF TokenInv

\* Releases and ticks fade leases.
LEMMA Fading ==
  ASSUME FenceInv, Tick \/ \E s \in Sessions : \E e \in 1..admission[s].epoch : ReleaseAdmission(s, e)
  PROVE  /\ UNCHANGED state
         /\ \A t \in Txns :
              /\ txn'[t].op = txn[t].op /\ txn'[t].at = txn[t].at /\ txn'[t].s = txn[t].s
              /\ txn'[t].epoch = txn[t].epoch /\ txn'[t].into = txn[t].into
         /\ \A s \in Sessions :
              /\ admission'[s].epoch = admission[s].epoch
              /\ completion'[s].epoch = completion[s].epoch
              /\ (Live(admission'[s]) => Live(admission[s]))
              /\ (Live(completion'[s]) => Live(completion[s]))
<1>1. /\ admission \in [Sessions -> Leases] /\ completion \in [Sessions -> Leases]
      /\ txn \in [Txns -> Transactions \cup {Idle}]
  BY DEF FenceInv, TablesOK
<1>2. CASE Tick
  <2>1. \A s \in Sessions : admission'[s] = Aged(admission[s]) /\ completion'[s] = Aged(completion[s])
    BY <1>2 DEF Tick
  <2>2. \A t \in Txns : txn'[t] = Aged(txn[t])
    BY <1>2 DEF Tick
  <2>3. UNCHANGED state
    BY <1>2 DEF Tick
  <2> QED BY <1>1, <2>1, <2>2, <2>3, AgedLease, AgedTransaction
<1>3. ASSUME NEW s \in Sessions, NEW e, ReleaseAdmission(s, e)
      PROVE  /\ UNCHANGED <<state, completion, txn>>
             /\ \A c \in Sessions : /\ admission'[c].epoch = admission[c].epoch
                                    /\ (Live(admission'[c]) => Live(admission[c]))
  <2>1. admission' = [admission EXCEPT ![s].left = 0] /\ UNCHANGED <<state, completion, txn>>
    BY <1>3 DEF ReleaseAdmission
  <2>2. admission' = admission \/ admission' = [admission EXCEPT ![s].left = 0]
    BY <2>1
  <2> QED BY <1>1, <2>1, <2>2, EndedLease
<1> QED BY <1>2, <1>3

LEMMA TokenStep == FenceInv /\ TokenInv /\ [Next]_fVars => TokenInv'
<1> SUFFICES ASSUME FenceInv, TokenInv, [Next]_fVars PROVE TokenInv'
  OBVIOUS
<1>1. CASE Next
  <2>1. CASE Tick \/ \E s \in Sessions : \E e \in 1..admission[s].epoch : ReleaseAdmission(s, e)
    BY <2>1, Fading, FadingTokens
  <2> QED BY <1>1, <2>1, BeginTokens, ProceedTokens, CommitTokens, RollbackTokens DEF Next
<1>2. CASE UNCHANGED fVars
  BY <1>2 DEF fVars, TokenInv, LiveFollowsState, Expects, Holding, Written
<1> QED BY <1>1, <1>2

\* A live lease serves the state its session is in, and what a transaction has
\* locked or written is still the last token of its session when it commits.
THEOREM TokensAreCurrent == Spec => []TokenInv
<1>1. Init => TokenInv
  BY DEF Init, TokenInv, LiveFollowsState, Live, Expects, Holding, Written, Idle
<1>2. FenceInv /\ TokenInv /\ [Next]_fVars => TokenInv'
  BY TokenStep
<1> QED BY <1>1, <1>2, FencingInvariant, PTL DEF Spec

-----------------------------------------------------------------------------
(***************************************************************************)
(* The refinement: every step is a step of LeaseTokens, or changes none of *)
(* its variables.                                                          *)
(***************************************************************************)

LEMMA KeysAre == LeaseKeys = Tokens!Leases /\ Tokens!Kinds = {"admission", "completion"}
BY DEF LeaseKeys, Tokens!Leases, Tokens!Kinds

\* One lease table, and one row of it, changes.
LEMMA OneLease ==
  ASSUME NEW F \in [LeaseKeys -> Leases], NEW G \in [LeaseKeys -> Leases], NEW l \in LeaseKeys,
         \A j \in LeaseKeys \ {l} : G[j] = F[j]
  PROVE  /\ [j \in LeaseKeys |-> G[j].epoch] =
              [[j \in LeaseKeys |-> F[j].epoch] EXCEPT ![l] = G[l].epoch]
         /\ {j \in LeaseKeys : Live(G[j])} =
              IF Live(G[l]) THEN {j \in LeaseKeys : Live(F[j])} \cup {l}
                            ELSE {j \in LeaseKeys : Live(F[j])} \ {l}
<1>1. \A j \in LeaseKeys : G[j] = IF j = l THEN G[l] ELSE F[j]
  OBVIOUS
<1> DEFINE E == [j \in LeaseKeys |-> F[j].epoch]
           D == [j \in LeaseKeys |-> G[j].epoch]
<1>2. \A j \in LeaseKeys : D[j] = [E EXCEPT ![l] = G[l].epoch][j]
  BY <1>1
<1>3. D = [E EXCEPT ![l] = G[l].epoch]
  <2>1. DOMAIN D = LeaseKeys /\ DOMAIN [E EXCEPT ![l] = G[l].epoch] = LeaseKeys
    OBVIOUS
  <2>2. /\ D = [j \in LeaseKeys |-> D[j]]
        /\ [E EXCEPT ![l] = G[l].epoch] = [j \in LeaseKeys |-> [E EXCEPT ![l] = G[l].epoch][j]]
    BY Zenon
  <2> QED BY <1>2, <2>2
<1>4. {j \in LeaseKeys : Live(G[j])} =
        IF Live(G[l]) THEN {j \in LeaseKeys : Live(F[j])} \cup {l}
                      ELSE {j \in LeaseKeys : Live(F[j])} \ {l}
  BY <1>1
<1> QED BY <1>3, <1>4

\* The rows of both lease tables, by key.
Rows == [l \in LeaseKeys |-> Table(l[1])[l[2]]]

LEMMA RowsAre ==
  ASSUME TablesOK
  PROVE  /\ Rows \in [LeaseKeys -> Leases]
         /\ \A s \in Sessions : /\ <<"admission", s>> \in LeaseKeys
                                /\ <<"completion", s>> \in LeaseKeys
                                /\ Rows[<<"admission", s>>] = admission[s]
                                /\ Rows[<<"completion", s>>] = completion[s]
         /\ \A l \in LeaseKeys : \E s \in Sessions : l = <<"admission", s>> \/ l = <<"completion", s>>
         /\ LeaseEpochs = [l \in LeaseKeys |-> Rows[l].epoch]
         /\ LiveLeases = {l \in LeaseKeys : Live(Rows[l])}
<1>1. \A l \in LeaseKeys : \E s \in Sessions : l = <<"admission", s>> \/ l = <<"completion", s>>
  BY DEF LeaseKeys
<1>2. \A s \in Sessions : <<"admission", s>> \in LeaseKeys /\ <<"completion", s>> \in LeaseKeys
  BY DEF LeaseKeys
<1>3. \A s \in Sessions : /\ Rows[<<"admission", s>>] = admission[s]
                          /\ Rows[<<"completion", s>>] = completion[s]
  BY <1>2 DEF Rows, Table
<1>4. \A l \in LeaseKeys : Rows[l] \in Leases
  BY <1>1, <1>3 DEF TablesOK
<1>5. Rows \in [LeaseKeys -> Leases]
  BY <1>4 DEF Rows
<1>6. LeaseEpochs = [l \in LeaseKeys |-> Rows[l].epoch] /\ LiveLeases = {l \in LeaseKeys : Live(Rows[l])}
  BY DEF LeaseEpochs, LiveLeases, Rows
<1> QED BY <1>1, <1>2, <1>3, <1>5, <1>6

LEMMA RowsAreNext ==
  ASSUME TablesOK'
  PROVE  /\ Rows' \in [LeaseKeys -> Leases]
         /\ \A s \in Sessions : /\ Rows'[<<"admission", s>>] = admission'[s]
                                /\ Rows'[<<"completion", s>>] = completion'[s]
         /\ LeaseEpochs' = [l \in LeaseKeys |-> Rows'[l].epoch]
         /\ LiveLeases' = {l \in LeaseKeys : Live(Rows'[l])}
<1>1. \A l \in LeaseKeys : \E s \in Sessions : l = <<"admission", s>> \/ l = <<"completion", s>>
  BY DEF LeaseKeys
<1>2. \A s \in Sessions : <<"admission", s>> \in LeaseKeys /\ <<"completion", s>> \in LeaseKeys
  BY DEF LeaseKeys
<1>3. \A s \in Sessions : /\ Rows'[<<"admission", s>>] = admission'[s]
                          /\ Rows'[<<"completion", s>>] = completion'[s]
  BY <1>2 DEF Rows, Table
<1>4. \A l \in LeaseKeys : Rows'[l] \in Leases
  BY <1>1, <1>3 DEF TablesOK
<1>5. Rows' \in [LeaseKeys -> Leases]
  BY <1>4 DEF Rows
<1>6. /\ LeaseEpochs' = [l \in LeaseKeys |-> Rows'[l].epoch]
      /\ LiveLeases' = {l \in LeaseKeys : Live(Rows'[l])}
  BY DEF LeaseEpochs, LiveLeases, Rows
<1> QED BY <1>3, <1>5, <1>6

\* What a change of one row is to LeaseTokens.
LEMMA RowStep ==
  ASSUME TablesOK, TablesOK', NEW s \in Sessions, NEW k \in {"admission", "completion"},
         \A c \in Sessions \ {s} : admission'[c] = admission[c] /\ completion'[c] = completion[c],
         k = "admission" => completion'[s] = completion[s],
         k = "completion" => admission'[s] = admission[s]
  PROVE  /\ LeaseEpochs' = [LeaseEpochs EXCEPT ![<<k, s>>] = Table(k)'[s].epoch]
         /\ LiveLeases' = IF Live(Table(k)'[s]) THEN LiveLeases \cup {<<k, s>>}
                                                ELSE LiveLeases \ {<<k, s>>}
         /\ LeaseEpochs[<<k, s>>] = Table(k)[s].epoch
         /\ <<k, s>> \in LiveLeases <=> Live(Table(k)[s])
<1>1. /\ Rows \in [LeaseKeys -> Leases] /\ Rows' \in [LeaseKeys -> Leases] /\ <<k, s>> \in LeaseKeys
      /\ Rows[<<k, s>>] = Table(k)[s] /\ Rows'[<<k, s>>] = Table(k)'[s]
  BY RowsAre, RowsAreNext DEF Table
<1>2. ASSUME NEW l \in LeaseKeys \ {<<k, s>>} PROVE Rows'[l] = Rows[l]
  <2>1. PICK c \in Sessions : l = <<"admission", c>> \/ l = <<"completion", c>>
    BY RowsAre
  <2>0. /\ Rows[<<"admission", c>>] = admission[c] /\ Rows[<<"completion", c>>] = completion[c]
        /\ Rows'[<<"admission", c>>] = admission'[c] /\ Rows'[<<"completion", c>>] = completion'[c]
    BY RowsAre, RowsAreNext
  <2>2. CASE c # s
    <3>1. admission'[c] = admission[c] /\ completion'[c] = completion[c]
      BY <2>2
    <3> QED BY <2>0, <2>1, <3>1
  <2>3. CASE c = s /\ k = "admission"
    <3>1. l = <<"completion", s>>
      BY <2>1, <2>3
    <3> QED BY <2>0, <2>3, <3>1
  <2>4. CASE c = s /\ k = "completion"
    <3>1. l = <<"admission", s>>
      BY <2>1, <2>4
    <3> QED BY <2>0, <2>4, <3>1
  <2> QED BY <2>2, <2>3, <2>4
<1>3. /\ LeaseEpochs' = [LeaseEpochs EXCEPT ![<<k, s>>] = Rows'[<<k, s>>].epoch]
      /\ LiveLeases' = IF Live(Rows'[<<k, s>>]) THEN LiveLeases \cup {<<k, s>>}
                                                ELSE LiveLeases \ {<<k, s>>}
  <2> DEFINE l == <<k, s>>
             F == Rows
             G == Rows'
  <2>1. F \in [LeaseKeys -> Leases] /\ G \in [LeaseKeys -> Leases] /\ l \in LeaseKeys
    BY <1>1
  <2>2. \A j \in LeaseKeys \ {l} : G[j] = F[j]
    BY <1>2
  <2>3. /\ LeaseEpochs = [j \in LeaseKeys |-> F[j].epoch]
        /\ LiveLeases = {j \in LeaseKeys : Live(F[j])}
        /\ LeaseEpochs' = [j \in LeaseKeys |-> G[j].epoch]
        /\ LiveLeases' = {j \in LeaseKeys : Live(G[j])}
    BY RowsAre, RowsAreNext
  <2> HIDE DEF F, G, l
  <2>4. /\ LeaseEpochs' = [LeaseEpochs EXCEPT ![l] = G[l].epoch]
        /\ LiveLeases' = IF Live(G[l]) THEN LiveLeases \cup {l} ELSE LiveLeases \ {l}
    <3>1. /\ [j \in LeaseKeys |-> G[j].epoch] =
               [[j \in LeaseKeys |-> F[j].epoch] EXCEPT ![l] = G[l].epoch]
          /\ {j \in LeaseKeys : Live(G[j])} =
               IF Live(G[l]) THEN {j \in LeaseKeys : Live(F[j])} \cup {l}
                             ELSE {j \in LeaseKeys : Live(F[j])} \ {l}
      BY <2>1, <2>2, OneLease
    <3> QED BY <2>3, <3>1, Zenon
  <2> QED BY <2>4 DEF F, G, l
<1>4. LeaseEpochs[<<k, s>>] = Table(k)[s].epoch /\ (<<k, s>> \in LiveLeases <=> Live(Table(k)[s]))
  BY <1>1, RowsAre
<1> QED BY <1>1, <1>3, <1>4

LEMMA FadingRefines ==
  ASSUME TablesOK, TablesOK', UNCHANGED state,
         \A s \in Sessions :
           /\ admission'[s].epoch = admission[s].epoch
           /\ completion'[s].epoch = completion[s].epoch
           /\ (Live(admission'[s]) => Live(admission[s]))
           /\ (Live(completion'[s]) => Live(completion[s]))
  PROVE  Tokens!Lapse
<1>1. \A l \in LeaseKeys : Rows'[l].epoch = Rows[l].epoch /\ (Live(Rows'[l]) => Live(Rows[l]))
  <2> TAKE l \in LeaseKeys
  <2>1. PICK c \in Sessions : l = <<"admission", c>> \/ l = <<"completion", c>>
    BY RowsAre
  <2>2. /\ Rows[<<"admission", c>>] = admission[c] /\ Rows[<<"completion", c>>] = completion[c]
        /\ Rows'[<<"admission", c>>] = admission'[c] /\ Rows'[<<"completion", c>>] = completion'[c]
    BY RowsAre, RowsAreNext
  <2> QED BY <2>1, <2>2
<1>2. LeaseEpochs' = LeaseEpochs /\ LiveLeases' \subseteq LiveLeases
  BY <1>1, RowsAre, RowsAreNext
<1> QED BY <1>2 DEF Tokens!Lapse

LEMMA TablesNext ==
  ASSUME FenceInv'
  PROVE  TablesOK'
BY DEF FenceInv

LEMMA CommitRefines ==
  ASSUME FenceInv, FenceInv', TokenInv, NEW t \in Txns, Commit(t)
  PROVE  Tokens!Next \/ UNCHANGED Tokens!vars
<1>1. PICK kind \in CommitKinds : Committed(t, txn[t].s, kind)
  BY CommitsAre
<1>2. PICK s \in Sessions : s = txn[t].s /\ Committed(t, s, kind)
  BY <1>1, CommitsAre
<1>3. txn[t].epoch \in 0..MaxEpoch /\ txn[t].left \in 0..Ttl
  BY CommitsAre
<1>4. /\ TablesOK /\ TablesOK' /\ state \in [Sessions -> States]
      /\ admission \in [Sessions -> Leases] /\ completion \in [Sessions -> Leases]
  BY TablesNext DEF FenceInv, TablesOK
<1>5. CASE kind = "keep"
  <2>1. UNCHANGED <<state, admission, completion>>
    BY <1>2, <1>5 DEF Committed
  <2> QED BY <2>1 DEF Tokens!vars, LeaseEpochs, LiveLeases, Table
<1>6. CASE kind = "end admission"
  <2>1. /\ state[s] = "UPLOAD" /\ admission[s].epoch > 0 /\ UNCHANGED completion
        /\ \E into \in {"COMPLETING", "TERMINAL"} : state' = [state EXCEPT ![s] = into]
        /\ admission' = [admission EXCEPT ![s].left = 0]
    BY <1>2, <1>6 DEF Committed
  <2>2. /\ \A c \in Sessions \ {s} : admission'[c] = admission[c] /\ completion'[c] = completion[c]
        /\ completion'[s] = completion[s] /\ admission'[s] = [admission[s] EXCEPT !.left = 0]
    BY <1>4, <2>1
  <2>3. ~Live(admission'[s]) /\ admission'[s].epoch = admission[s].epoch
    BY <1>4, <2>2 DEF Live, Leases
  <2>4. /\ LeaseEpochs' = [LeaseEpochs EXCEPT ![<<"admission", s>>] = admission'[s].epoch]
        /\ LiveLeases' = LiveLeases \ {<<"admission", s>>}
        /\ LeaseEpochs[<<"admission", s>>] = admission[s].epoch
    BY <1>4, <2>2, <2>3, RowStep DEF Table
  <2>5. LeaseEpochs' = LeaseEpochs
    BY <2>3, <2>4 DEF LeaseEpochs
  <2>6. Tokens!HandOver("admission", s)
    BY <2>1, <2>4, <2>5 DEF Tokens!HandOver, Tokens!Serves, Tokens!Exits
  <2> QED BY <2>6 DEF Tokens!Next, Tokens!Kinds
<1>7. CASE kind = "end completion"
  <2>1. /\ state[s] = "COMPLETING" /\ completion[s].epoch > 0 /\ UNCHANGED admission
        /\ \E into \in {"UPLOAD", "TERMINAL"} : state' = [state EXCEPT ![s] = into]
        /\ completion' = [completion EXCEPT ![s].left = 0]
    BY <1>2, <1>7 DEF Committed
  <2>2. /\ \A c \in Sessions \ {s} : admission'[c] = admission[c] /\ completion'[c] = completion[c]
        /\ admission'[s] = admission[s] /\ completion'[s] = [completion[s] EXCEPT !.left = 0]
    BY <1>4, <2>1
  <2>3. ~Live(completion'[s]) /\ completion'[s].epoch = completion[s].epoch
    BY <1>4, <2>2 DEF Live, Leases
  <2>4. /\ LeaseEpochs' = [LeaseEpochs EXCEPT ![<<"completion", s>>] = completion'[s].epoch]
        /\ LiveLeases' = LiveLeases \ {<<"completion", s>>}
        /\ LeaseEpochs[<<"completion", s>>] = completion[s].epoch
    BY <1>4, <2>2, <2>3, RowStep DEF Table
  <2>5. LeaseEpochs' = LeaseEpochs
    BY <2>3, <2>4 DEF LeaseEpochs
  <2>6. Tokens!HandOver("completion", s)
    BY <2>1, <2>4, <2>5 DEF Tokens!HandOver, Tokens!Serves, Tokens!Exits
  <2> QED BY <2>6 DEF Tokens!Next, Tokens!Kinds
<1>8. CASE kind = "extend admission"
  <2>1. /\ state[s] = "UPLOAD" /\ UNCHANGED <<state, completion>>
        /\ \/ txn[t].epoch = admission[s].epoch /\ txn[t].epoch > 0
           \/ txn[t].epoch = admission[s].epoch + 1 /\ ~Live(admission[s])
        /\ admission' = [admission EXCEPT ![s] = [epoch |-> txn[t].epoch, left |-> txn[t].left]]
    BY <1>2, <1>8 DEF Committed
  <2>2. /\ \A c \in Sessions \ {s} : admission'[c] = admission[c] /\ completion'[c] = completion[c]
        /\ completion'[s] = completion[s] /\ admission'[s].epoch = txn[t].epoch
    BY <1>4, <2>1
  <2> DEFINE l == <<"admission", s>>
  <2>3. /\ LeaseEpochs' = [LeaseEpochs EXCEPT ![l] = txn[t].epoch]
        /\ LiveLeases' = IF Live(admission'[s]) THEN LiveLeases \cup {l} ELSE LiveLeases \ {l}
        /\ LeaseEpochs[l] = admission[s].epoch
        /\ l \in LiveLeases <=> Live(admission[s])
    BY <1>4, <2>2, RowStep DEF Table
  <2> HIDE DEF l
  <2>4. CASE txn[t].epoch = admission[s].epoch /\ txn[t].epoch > 0
    <3>1. LeaseEpochs' = LeaseEpochs
      BY <2>3, <2>4 DEF LeaseEpochs
    <3>2. CASE Live(admission'[s])
      <4>1. Tokens!Renew("admission", s)
        BY <2>1, <2>3, <2>4, <3>1, <3>2 DEF Tokens!Renew, Tokens!Serves, l
      <4> QED BY <4>1 DEF Tokens!Next, Tokens!Kinds
    <3>3. CASE ~Live(admission'[s])
      <4>1. Tokens!Lapse
        BY <2>1, <2>3, <3>1, <3>3 DEF Tokens!Lapse
      <4> QED BY <4>1 DEF Tokens!Next
    <3> QED BY <3>2, <3>3
  <2>5. CASE txn[t].epoch = admission[s].epoch + 1 /\ ~Live(admission[s])
    <3>1. LeaseEpochs' = [LeaseEpochs EXCEPT ![l] = LeaseEpochs[l] + 1]
      BY <2>3, <2>5
    <3>2. l \notin LiveLeases
      BY <2>3, <2>5
    <3>3. LiveLeases' \in {LiveLeases, LiveLeases \cup {l}}
      BY <2>3, <3>2
    <3>4. Tokens!Grant("admission", s)
      BY <2>1, <3>1, <3>2, <3>3 DEF Tokens!Grant, Tokens!Serves, l
    <3> QED BY <3>4 DEF Tokens!Next, Tokens!Kinds
  <2> QED BY <2>1, <2>4, <2>5
<1>9. CASE kind = "extend completion"
  <2>1. /\ state[s] = "COMPLETING" /\ UNCHANGED <<state, admission>>
        /\ \/ txn[t].epoch = completion[s].epoch /\ txn[t].epoch > 0
           \/ txn[t].epoch = completion[s].epoch + 1 /\ ~Live(completion[s])
        /\ completion' = [completion EXCEPT ![s] = [epoch |-> txn[t].epoch, left |-> txn[t].left]]
    BY <1>2, <1>9 DEF Committed
  <2>2. /\ \A c \in Sessions \ {s} : admission'[c] = admission[c] /\ completion'[c] = completion[c]
        /\ admission'[s] = admission[s] /\ completion'[s].epoch = txn[t].epoch
    BY <1>4, <2>1
  <2> DEFINE l == <<"completion", s>>
  <2>3. /\ LeaseEpochs' = [LeaseEpochs EXCEPT ![l] = txn[t].epoch]
        /\ LiveLeases' = IF Live(completion'[s]) THEN LiveLeases \cup {l} ELSE LiveLeases \ {l}
        /\ LeaseEpochs[l] = completion[s].epoch
        /\ l \in LiveLeases <=> Live(completion[s])
    BY <1>4, <2>2, RowStep DEF Table
  <2> HIDE DEF l
  <2>4. CASE txn[t].epoch = completion[s].epoch /\ txn[t].epoch > 0
    <3>1. LeaseEpochs' = LeaseEpochs
      BY <2>3, <2>4 DEF LeaseEpochs
    <3>2. CASE Live(completion'[s])
      <4>1. Tokens!Renew("completion", s)
        BY <2>1, <2>3, <2>4, <3>1, <3>2 DEF Tokens!Renew, Tokens!Serves, l
      <4> QED BY <4>1 DEF Tokens!Next, Tokens!Kinds
    <3>3. CASE ~Live(completion'[s])
      <4>1. Tokens!Lapse
        BY <2>1, <2>3, <3>1, <3>3 DEF Tokens!Lapse
      <4> QED BY <4>1 DEF Tokens!Next
    <3> QED BY <3>2, <3>3
  <2>5. CASE txn[t].epoch = completion[s].epoch + 1 /\ ~Live(completion[s])
    <3>1. LeaseEpochs' = [LeaseEpochs EXCEPT ![l] = LeaseEpochs[l] + 1]
      BY <2>3, <2>5
    <3>2. l \notin LiveLeases
      BY <2>3, <2>5
    <3>3. LiveLeases' \in {LiveLeases, LiveLeases \cup {l}}
      BY <2>3, <3>2
    <3>4. Tokens!Grant("completion", s)
      BY <2>1, <3>1, <3>2, <3>3 DEF Tokens!Grant, Tokens!Serves, l
    <3> QED BY <3>4 DEF Tokens!Next, Tokens!Kinds
  <2> QED BY <2>1, <2>4, <2>5
<1> QED BY <1>5, <1>6, <1>7, <1>8, <1>9 DEF CommitKinds

LEMMA StepsRefine ==
  FenceInv /\ FenceInv' /\ TokenInv /\ [Next]_fVars => [Tokens!Next]_(Tokens!vars)
<1> SUFFICES ASSUME FenceInv, FenceInv', TokenInv, [Next]_fVars
             PROVE  Tokens!Next \/ UNCHANGED Tokens!vars
  OBVIOUS
<1>1. CASE UNCHANGED <<state, admission, completion>>
  BY <1>1 DEF Tokens!vars, LeaseEpochs, LiveLeases, Table
<1>2. ASSUME NEW t \in Txns, Begin(t) PROVE UNCHANGED <<state, admission, completion>>
  BY <1>2 DEF Begin, StartClaim, StartAcquire, Starts, EvaluateFence, LockForAccept,
              RenewWrites, LockForCompletion
<1>3. ASSUME NEW t \in Txns, Proceed(t) PROVE UNCHANGED <<state, admission, completion>>
  BY <1>3 DEF Proceed, UploadWrites, LockForAcquire, GrantAdmission, AcceptWrites,
              SelectClaim, ClaimWrites, CompletionWrites
<1>4. ASSUME NEW t \in Txns, Rollback(t) PROVE UNCHANGED <<state, admission, completion>>
  BY <1>4 DEF Rollback
<1>5. CASE Tick \/ \E s \in Sessions : \E e \in 1..admission[s].epoch : ReleaseAdmission(s, e)
  <2>1. Tokens!Lapse
    BY <1>5, Fading, FadingRefines, TablesNext DEF FenceInv
  <2> QED BY <2>1 DEF Tokens!Next
<1>6. CASE UNCHANGED fVars
  BY <1>1, <1>6 DEF fVars
<1> QED BY <1>1, <1>2, <1>3, <1>4, <1>5, <1>6, CommitRefines DEF Next

\* Under READ COMMITTED the transactions keep to what LeaseTokens promises of
\* leases: tokens granted one by one and never while live, stages left only by a
\* hand-over that ends the lease.
THEOREM TransactionsImplementLeaseTokens == Spec => ImplementsLeaseTokens
<1>1. Init => Tokens!Init
  <2> SUFFICES ASSUME Init PROVE Tokens!Init
    OBVIOUS
  <2>1. \A l \in LeaseKeys : Table(l[1])[l[2]] = [epoch |-> 0, left |-> 0]
    BY DEF Init, Table, LeaseKeys
  <2>2. LeaseEpochs = [l \in Tokens!Leases |-> 0] /\ LiveLeases = {}
    BY <2>1, KeysAre DEF LeaseEpochs, LiveLeases, Live
  <2> QED BY <2>2 DEF Init, Tokens!Init
<1>2. FenceInv /\ FenceInv' /\ TokenInv /\ [Next]_fVars => [Tokens!Next]_(Tokens!vars)
  BY StepsRefine
<1> QED BY <1>1, <1>2, FencingInvariant, TokensAreCurrent, PTL DEF Spec, Tokens!Spec, ImplementsLeaseTokens

\* claim_completion and acquire_multipart_lease never take over a live lease,
\* even one that a renewal revived after it was counted as expired.
THEOREM LiveLeasesKeepTheirOwner == Spec => Tokens!TokensGrantedOnce
BY TransactionsImplementLeaseTokens, Tokens!TokensAreGrantedOnce DEF ImplementsLeaseTokens

\* A session that accept_completion, mark_multipart_initiation_ambiguous or a
\* completion transaction moves on has no live lease of either kind left.
THEOREM MovedSessionsHaveNoLease == Spec => Tokens!StagesEndTheirLease
BY TransactionsImplementLeaseTokens, Tokens!StagesEndLeases DEF ImplementsLeaseTokens

-----------------------------------------------------------------------------
(***************************************************************************)
(* How far claim_completion may exceed its capacity.                       *)
(***************************************************************************)

\* The sessions whose completion lease is live, or may be when a transaction
\* under way commits.
Renewed(u, s) == Written(txn[u], {"renew"}) /\ txn[u].s = s
Claimed(u, s) == Holding(txn[u], {"claim"}) /\ txn[u].s = s
Spoken == {s \in Sessions : \/ Live(completion[s])
                            \/ \E u \in Txns : Renewed(u, s) \/ Claimed(u, s)}

OverrunInv == Cardinality(Spoken) <= CompletionCapacity + Cardinality(Txns) - 1

LEMMA SpokenFinite ==
  /\ IsFiniteSet(Spoken) /\ Cardinality(Spoken) \in Nat
  /\ IsFiniteSet(Spoken') /\ Cardinality(Spoken') \in Nat
<1>1. Spoken \in SUBSET Sessions /\ Spoken' \in SUBSET Sessions
  BY DEF Spoken
<1> QED BY <1>1, FencingSessions, FS_Subset, FS_CardinalityType

LEMMA SpokenShrinks ==
  ASSUME IsFiniteSet(Txns), OverrunInv, Spoken' \subseteq Spoken
  PROVE  OverrunInv'
<1>1. Cardinality(Spoken') <= Cardinality(Spoken)
  BY SpokenFinite, FS_Subset
<1>2. Cardinality(Txns) \in Nat
  BY FS_CardinalityType
<1> QED BY <1>1, <1>2, SpokenFinite, FencingCapacity DEF OverrunInv

\* The sessions that the other connections are renewing.
RenewedBy(U) == {txn[u].s : u \in {v \in U : Written(txn[v], {"renew"})}}

LEMMA RenewedByCount ==
  ASSUME NEW U, IsFiniteSet(U)
  PROVE  IsFiniteSet(RenewedBy(U)) /\ Cardinality(RenewedBy(U)) <= Cardinality(U)
<1> DEFINE S == {v \in U : Written(txn[v], {"renew"})}
           f == [u \in S |-> txn[u].s]
<1>1. IsFiniteSet(S) /\ Cardinality(S) <= Cardinality(U)
  BY FS_Subset
<1>2. f \in Surjection(S, RenewedBy(U))
  BY DEF Surjection, RenewedBy
<1>3. IsFiniteSet(RenewedBy(U)) /\ Cardinality(RenewedBy(U)) <= Cardinality(S)
  BY <1>1, <1>2, FS_Surjection
<1>4. Cardinality(S) \in Nat /\ Cardinality(U) \in Nat /\ Cardinality(RenewedBy(U)) \in Nat
  BY <1>1, <1>3, FS_CardinalityType
<1> QED BY <1>1, <1>3, <1>4

\* A claim is made while the committed leases leave room: what it does not see
\* are the renewals of the other connections.
LEMMA ClaimOverruns ==
  ASSUME FenceInv, IsFiniteSet(Txns), NEW t \in Txns, NEW s \in Sessions, SelectClaim(t, s)
  PROVE  OverrunInv'
<1> DEFINE R == RenewedBy(Txns \ {t})
<1>1. /\ Cardinality(LiveCompletions) < CompletionCapacity /\ completion' = completion
      /\ txn[t].op = "claim" /\ txn[t].at = "queued"
      /\ \A u \in Txns \ {t} : txn'[u] = txn[u]
      /\ txn'[t].op = "claim" /\ txn'[t].s = s
  <2>1. txn[t] \in Transactions /\ txn \in [Txns -> Transactions \cup {Idle}]
    BY DEF FenceInv, SelectClaim, Idle
  <2>2. txn' = [txn EXCEPT ![t] = [txn[t] EXCEPT !.at = "locked", !.s = s, !.left = Ttl]]
    BY DEF SelectClaim
  <2> QED BY <2>1, <2>2 DEF SelectClaim, Transactions
<1>2. \A u \in Txns \ {t} : txn[u].op # "claim"
  BY <1>1 DEF FenceInv, LocksHold, Compatible
<1>3. Spoken' \subseteq (LiveCompletions \cup R) \cup {s}
  <2> SUFFICES ASSUME NEW c \in Sessions,
                      \/ Live(completion'[c])
                      \/ \E u \in Txns : Renewed(u, c)' \/ Claimed(u, c)'
               PROVE  c \in (LiveCompletions \cup R) \cup {s}
    BY DEF Spoken
  <2>1. CASE Live(completion'[c])
    BY <1>1, <2>1 DEF LiveCompletions
  <2>2. ASSUME NEW u \in Txns, Renewed(u, c)' \/ Claimed(u, c)' PROVE c \in R \cup {s}
    <3>1. CASE u = t
      BY <1>1, <2>2, <3>1 DEF Renewed, Claimed, Written, Holding
    <3>2. CASE u # t
      <4>1. Renewed(u, c)
        BY <1>1, <1>2, <2>2, <3>2 DEF Renewed, Claimed, Written, Holding
      <4> QED BY <3>2, <4>1 DEF Renewed, RenewedBy
    <3> QED BY <3>1, <3>2
  <2> QED BY <2>1, <2>2
<1>4. /\ IsFiniteSet(Txns \ {t}) /\ Cardinality(Txns \ {t}) = Cardinality(Txns) - 1
      /\ Cardinality(Txns) \in Nat
  BY FS_RemoveElement, FS_CardinalityType
<1>5. IsFiniteSet(R) /\ Cardinality(R) <= Cardinality(Txns) - 1 /\ Cardinality(R) \in Nat
  BY <1>4, RenewedByCount, FS_CardinalityType
<1>6. IsFiniteSet(LiveCompletions) /\ Cardinality(LiveCompletions) \in Nat
  BY FencingSessions, FS_Subset, FS_CardinalityType DEF LiveCompletions
<1>7. /\ IsFiniteSet(LiveCompletions \cup R)
      /\ Cardinality(LiveCompletions \cup R) <= Cardinality(LiveCompletions) + Cardinality(R)
  <2>1. /\ IsFiniteSet(LiveCompletions \cup R) /\ IsFiniteSet(LiveCompletions \cap R)
        /\ Cardinality(LiveCompletions \cup R) = Cardinality(LiveCompletions) + Cardinality(R)
                                                 - Cardinality(LiveCompletions \cap R)
    BY <1>5, <1>6, FS_Union, FS_Intersection
  <2>2. Cardinality(LiveCompletions \cap R) \in Nat
    BY <2>1, FS_CardinalityType
  <2> QED BY <1>5, <1>6, <2>1, <2>2
<1>8. /\ IsFiniteSet((LiveCompletions \cup R) \cup {s})
      /\ Cardinality((LiveCompletions \cup R) \cup {s}) <= Cardinality(LiveCompletions \cup R) + 1
      /\ Cardinality(LiveCompletions \cup R) \in Nat
      /\ Cardinality((LiveCompletions \cup R) \cup {s}) \in Nat
  <2> DEFINE A == LiveCompletions \cup R
  <2>1. IsFiniteSet(A) /\ Cardinality(A) \in Nat
    BY <1>7, FS_CardinalityType
  <2> HIDE DEF A
  <2>2. /\ IsFiniteSet(A \cup {s})
        /\ Cardinality(A \cup {s}) = Cardinality(A) \/ Cardinality(A \cup {s}) = Cardinality(A) + 1
    BY <2>1, FS_AddElement
  <2> QED BY <2>1, <2>2 DEF A
<1>9. Cardinality(Spoken') <= Cardinality((LiveCompletions \cup R) \cup {s})
  BY <1>3, <1>8, FS_Subset
<1> HIDE DEF R
<1> QED BY <1>1, <1>4, <1>5, <1>6, <1>7, <1>8, <1>9, SpokenFinite, FencingCapacity DEF OverrunInv

\* A step of one transaction that makes it speak for no new lease.
LEMMA OneSpeaker ==
  ASSUME FenceInv, UNCHANGED completion, NEW t \in Txns, NEW r, txn' = [txn EXCEPT ![t] = r],
         Written(r, {"renew"}) \/ Holding(r, {"claim"}) => r.s \in Spoken
  PROVE  Spoken' \subseteq Spoken
<1> SUFFICES ASSUME NEW u \in Txns, NEW c \in Sessions, Renewed(u, c)' \/ Claimed(u, c)'
             PROVE  c \in Spoken
  BY DEF Spoken
<1>1. CASE u = t
  <2>1. txn'[u] = r
    BY <1>1 DEF FenceInv
  <2> QED BY <2>1 DEF Renewed, Claimed
<1>2. CASE u # t
  <2>1. txn'[u] = txn[u]
    BY <1>2
  <2> QED BY <2>1 DEF Renewed, Claimed, Spoken
<1> QED BY <1>1, <1>2

LEMMA BeginSpeaks ==
  ASSUME FenceInv, NEW t \in Txns, Begin(t)
  PROVE  Spoken' \subseteq Spoken
<1>0. UNCHANGED completion
  BY DEF Begin, StartClaim, StartAcquire, Starts, EvaluateFence, LockForAccept, RenewWrites,
         LockForCompletion
<1>1. ASSUME NEW op, NEW s, NEW e, EvaluateFence(t, op, s, e) PROVE Spoken' \subseteq Spoken
  <2> DEFINE r == [Idle EXCEPT !.op = op, !.at = "waiting", !.s = s, !.epoch = e,
                               !.left = admission[s].left]
  <2>1. ~Written(r, {"renew"}) /\ ~Holding(r, {"claim"})
    BY DEF Written, Holding, Idle
  <2> QED BY <1>0, <1>1, <2>1, OneSpeaker DEF EvaluateFence
<1>2. ASSUME NEW s \in Sessions, NEW e, RenewWrites(t, s, e)
      PROVE  Spoken' \subseteq Spoken
  <2> DEFINE r == [Idle EXCEPT !.op = "renew", !.at = "written", !.s = s, !.epoch = e, !.left = Ttl]
  <2>1. r.s = s /\ s \in Spoken
    BY <1>2 DEF RenewWrites, Fenced, Spoken, Idle
  <2> QED BY <1>0, <1>2, <2>1, OneSpeaker DEF RenewWrites
<1>3. ASSUME NEW op, NEW s, Starts(t, op, "queued", s) PROVE Spoken' \subseteq Spoken
  <2> DEFINE r == [Idle EXCEPT !.op = op, !.at = "queued", !.s = s]
  <2>1. ~Written(r, {"renew"}) /\ ~Holding(r, {"claim"})
    BY DEF Written, Holding, Idle
  <2> QED BY <1>0, <1>3, <2>1, OneSpeaker DEF Starts
<1>4. ASSUME NEW s, NEW e, NEW op \in {"accept", "phase", "settle"},
             txn' = [txn EXCEPT ![t] = [Idle EXCEPT !.op = op, !.at = "locked", !.s = s, !.epoch = e]]
      PROVE  Spoken' \subseteq Spoken
  <2> DEFINE r == [Idle EXCEPT !.op = op, !.at = "locked", !.s = s, !.epoch = e]
  <2>1. ~Written(r, {"renew"}) /\ ~Holding(r, {"claim"})
    BY DEF Written, Holding, Idle
  <2> QED BY <1>0, <1>4, <2>1, OneSpeaker
<1>5. ASSUME NEW s, NEW e, LockForAccept(t, s, e) PROVE Spoken' \subseteq Spoken
  BY <1>4, <1>5 DEF LockForAccept
<1>6. ASSUME NEW s, NEW e, NEW op \in {"phase", "settle"}, LockForCompletion(t, op, s, e)
      PROVE  Spoken' \subseteq Spoken
  BY <1>4, <1>6 DEF LockForCompletion
<1>7. ASSUME NEW s, StartAcquire(t, s) \/ StartClaim(t) PROVE Spoken' \subseteq Spoken
  BY <1>3, <1>7 DEF StartAcquire, StartClaim
<1> QED BY <1>1, <1>2, <1>5, <1>6, <1>7 DEF Begin

LEMMA ProceedSpeaks ==
  ASSUME FenceInv, NEW t \in Txns, Proceed(t), \A s \in Sessions : ~SelectClaim(t, s)
  PROVE  Spoken' \subseteq Spoken
<1> DEFINE x == txn[t]
<1>0. /\ x \in Transactions \cup {Idle} /\ Shape(x) /\ UNCHANGED completion
      /\ x.op # "none" => x \in Transactions
  <2>1. UNCHANGED completion
    BY DEF Proceed, UploadWrites, LockForAcquire, GrantAdmission, AcceptWrites, SelectClaim,
           ClaimWrites, CompletionWrites
  <2> QED BY <2>1 DEF FenceInv, Idle
<1>1. ASSUME NEW r, txn' = [txn EXCEPT ![t] = r], r.op = x.op, x.op \notin {"claim", "renew"}
      PROVE  Spoken' \subseteq Spoken
  <2>1. ~Written(r, {"renew"}) /\ ~Holding(r, {"claim"})
    BY <1>1 DEF Written, Holding
  <2> QED BY <1>0, <1>1, <2>1, OneSpeaker
<1>2. CASE UploadWrites(t)
  <2> DEFINE r == [x EXCEPT !.at = "written", !.left = 0, !.changed = FALSE,
                            !.into = IF x.op = "upload" THEN "UPLOAD" ELSE "TERMINAL"]
  <2>1. txn' = [txn EXCEPT ![t] = r] /\ x.op \in {"upload", "ambiguous"}
    BY <1>2 DEF UploadWrites
  <2>2. r.op = x.op
    BY <1>0, <2>1 DEF Transactions
  <2> QED BY <1>1, <2>1, <2>2
<1>3. CASE LockForAcquire(t) \/ AcceptWrites(t)
  <2>1. /\ txn' = [txn EXCEPT ![t] = [x EXCEPT !.at = "locked"]] \/
           txn' = [txn EXCEPT ![t] = [x EXCEPT !.at = "written"]]
        /\ x.op \in {"acquire", "accept"}
    BY <1>3 DEF LockForAcquire, AcceptWrites
  <2>2. [x EXCEPT !.at = "locked"].op = x.op /\ [x EXCEPT !.at = "written"].op = x.op
    BY <1>0, <2>1 DEF Transactions
  <2> QED BY <1>1, <2>1, <2>2
<1>4. CASE GrantAdmission(t)
  <2>1. PICK e : /\ txn' = [txn EXCEPT ![t] = [x EXCEPT !.at = "written", !.epoch = e, !.left = Ttl]]
                 /\ x.op = "acquire"
    BY <1>4 DEF GrantAdmission
  <2>2. [x EXCEPT !.at = "written", !.epoch = e, !.left = Ttl].op = x.op
    BY <1>0, <2>1 DEF Transactions
  <2> QED BY <1>1, <2>1, <2>2
<1>5. CASE ClaimWrites(t)
  <2> DEFINE r == [x EXCEPT !.at = "written", !.epoch = completion[x.s].epoch + 1]
  <2>1. txn' = [txn EXCEPT ![t] = r] /\ x.op = "claim" /\ x.at = "locked"
    BY <1>5 DEF ClaimWrites
  <2>2. r.s = x.s /\ x.s \in Sessions
    BY <1>0, <2>1 DEF Transactions, Shape
  <2>3. x.s \in Spoken
    BY <2>1, <2>2 DEF Spoken, Claimed, Holding
  <2> QED BY <1>0, <2>1, <2>2, <2>3, OneSpeaker
<1>6. ASSUME NEW into, CompletionWrites(t, into) PROVE Spoken' \subseteq Spoken
  <2> DEFINE r == [x EXCEPT !.at = "written", !.into = into]
  <2>1. txn' = [txn EXCEPT ![t] = r] /\ x.op \in {"phase", "settle"}
    BY <1>6 DEF CompletionWrites
  <2>2. r.op = x.op
    BY <1>0, <2>1 DEF Transactions
  <2> QED BY <1>1, <2>1, <2>2
<1> QED BY <1>2, <1>3, <1>4, <1>5, <1>6 DEF Proceed

LEMMA CommitSpeaks ==
  ASSUME FenceInv, TokenInv, NEW t \in Txns, Commit(t)
  PROVE  Spoken' \subseteq Spoken
<1>1. PICK kind \in CommitKinds : Committed(t, txn[t].s, kind)
  BY CommitsAre
<1>2. PICK s \in Sessions : s = txn[t].s /\ Committed(t, s, kind)
  BY <1>1, CommitsAre
<1>3. /\ txn'[t] = Idle
      /\ \A u \in Txns \ {t} :
           txn'[u].op = txn[u].op /\ txn'[u].at = txn[u].at /\ txn'[u].s = txn[u].s
  BY <1>2, OtherTransactions DEF Committed
<1>4. ASSUME NEW c \in Sessions, Live(completion'[c]) PROVE c \in Spoken
  <2>1. completion \in [Sessions -> Leases]
    BY DEF FenceInv, TablesOK
  <2>2. CASE kind \in {"keep", "end admission", "extend admission"}
    BY <1>2, <1>4, <2>2 DEF Committed, Spoken
  <2>3. CASE kind = "end completion"
    <3>1. completion' = completion \/ completion' = [completion EXCEPT ![s].left = 0]
      BY <1>2, <2>3 DEF Committed
    <3>2. Live(completion[c])
      BY <1>4, <2>1, <3>1, EndedLease
    <3> QED BY <3>2 DEF Spoken
  <2>4. CASE kind = "extend completion"
    <3>1. /\ completion' = [completion EXCEPT ![s] = [epoch |-> txn[t].epoch, left |-> txn[t].left]]
          /\ txn[t].at = "written" /\ txn[t].op \in {"claim", "renew"}
      BY <1>2, <2>4 DEF Committed
    <3>2. s \in Spoken
      BY <1>2, <3>1 DEF Spoken, Claimed, Renewed, Holding, Written
    <3>3. c # s => completion'[c] = completion[c]
      BY <2>1, <3>1
    <3> QED BY <1>4, <3>2, <3>3 DEF Spoken
  <2> QED BY <2>2, <2>3, <2>4 DEF CommitKinds
<1>5. ASSUME NEW c \in Sessions, NEW u \in Txns, Renewed(u, c)' \/ Claimed(u, c)' PROVE c \in Spoken
  BY <1>3, <1>5 DEF Renewed, Claimed, Written, Holding, Idle, Spoken
<1> QED BY <1>4, <1>5 DEF Spoken

LEMMA OverrunStep ==
  FenceInv /\ TokenInv /\ IsFiniteSet(Txns) /\ OverrunInv /\ [Next]_fVars => OverrunInv'
<1> SUFFICES ASSUME FenceInv, TokenInv, IsFiniteSet(Txns), OverrunInv, [Next]_fVars
             PROVE  OverrunInv'
  OBVIOUS
<1>1. CASE UNCHANGED fVars
  BY <1>1 DEF fVars, OverrunInv, Spoken, Renewed, Claimed, Written, Holding
<1>2. ASSUME NEW t \in Txns, Begin(t) \/ Commit(t) PROVE OverrunInv'
  BY <1>2, BeginSpeaks, CommitSpeaks, SpokenShrinks
<1>3. ASSUME NEW t \in Txns, Proceed(t) PROVE OverrunInv'
  BY <1>3, ProceedSpeaks, ClaimOverruns, SpokenShrinks
<1>4. ASSUME NEW t \in Txns, Rollback(t) PROVE OverrunInv'
  <2>1. txn' = [txn EXCEPT ![t] = Idle] /\ UNCHANGED completion
    BY <1>4 DEF Rollback
  <2>2. ~Written(Idle, {"renew"}) /\ ~Holding(Idle, {"claim"})
    BY DEF Written, Holding, Idle
  <2> QED BY <2>1, <2>2, OneSpeaker, SpokenShrinks
<1>5. CASE Tick \/ \E s \in Sessions : \E e \in 1..admission[s].epoch : ReleaseAdmission(s, e)
  <2>1. Spoken' \subseteq Spoken
    <3>1. \A u \in Txns, c \in Sessions : /\ Renewed(u, c)' => Renewed(u, c)
                                          /\ Claimed(u, c)' => Claimed(u, c)
      BY <1>5, Fading DEF Renewed, Claimed, Written, Holding
    <3>2. \A c \in Sessions : Live(completion'[c]) => Live(completion[c])
      BY <1>5, Fading
    <3> QED BY <3>1, <3>2 DEF Spoken
  <2> QED BY <2>1, SpokenShrinks
<1> QED BY <1>1, <1>2, <1>3, <1>4, <1>5 DEF Next

\* claim_completion counts committed leases while renewals of leases it counts
\* as expired are under way, so its cap can be exceeded; by no more than one
\* lease for each of the other connections, however long the system runs.
THEOREM OverrunsAreBounded ==
  ASSUME IsFiniteSet(Txns), Txns # {}
  PROVE  Spec => []CompletionOverrunIsBounded
<1>1. Init => OverrunInv
  <2> SUFFICES ASSUME Init PROVE OverrunInv
    OBVIOUS
  <2>1. Spoken = {}
    BY DEF Init, Spoken, Live, Renewed, Claimed, Written, Holding, Idle
  <2>2. Cardinality(Txns) \in Nat \ {0}
    BY FS_CardinalityType, FS_EmptySet
  <2> QED BY <2>1, <2>2, FS_EmptySet, FencingCapacity DEF OverrunInv
<1>2. FenceInv /\ TokenInv /\ OverrunInv /\ [Next]_fVars => OverrunInv'
  BY OverrunStep
<1>3. OverrunInv => CompletionOverrunIsBounded
  <2> SUFFICES ASSUME OverrunInv PROVE CompletionOverrunIsBounded
    OBVIOUS
  <2>1. LiveCompletions \subseteq Spoken
    BY DEF LiveCompletions, Spoken
  <2>2. IsFiniteSet(LiveCompletions) /\ Cardinality(LiveCompletions) <= Cardinality(Spoken)
    BY <2>1, SpokenFinite, FS_Subset
  <2>3. Cardinality(LiveCompletions) \in Nat /\ Cardinality(Txns) \in Nat
    BY <2>2, FS_CardinalityType
  <2> QED BY <2>2, <2>3, SpokenFinite, FencingCapacity DEF OverrunInv, CompletionOverrunIsBounded
<1> QED BY <1>1, <1>2, <1>3, FencingInvariant, TokensAreCurrent, PTL DEF Spec
=============================================================================
