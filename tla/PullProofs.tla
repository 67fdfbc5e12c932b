----------------------------- MODULE PullProofs -----------------------------
(***************************************************************************)
(* Proofs about Pull, for any pulls, versions, file counts and outputs.    *)
(* The inductive invariant says where each pull is: which ordinals it has  *)
(* placed, which cursor it holds, and that what it has placed is verified. *)
(***************************************************************************)
EXTENDS Pull, TLAPS

Verified(S) == [i \in S |-> "good"]
Placed(n) == Verified(0..(n - 1))

CursorAt(p, n) ==
    IF 0 < n /\ n < Count(p) THEN [version |-> VersionOf[p], ordinal |-> n] ELSE None

Locations == Working \cup {"idle", "abort", "done", "error"}
Staging == {"entry", "plan", "get", "place"}

\* Values of the variables of every pull.
Tables ==
    /\ ready \subseteq Versions
    /\ pc \in [Pulls -> Locations]
    /\ ordinal \in [Pulls -> Nat]
    /\ cursor \in [Pulls -> {None} \cup [version : Versions, ordinal : Nat]]
    /\ item \in [Pulls -> {None} \cup Nat]
    /\ part \in [Pulls -> {None, "empty", "good", "bad"}]
    /\ DOMAIN tree = Pulls /\ tree = [p \in Pulls |-> tree[p]]
    /\ cut \in [Pulls -> BOOLEAN]

\* Where a pull is and what it holds there.
Position(p) ==
    /\ pc[p] \in Staging \cup {"begin", "made"} => VersionOf[p] \in ready
    /\ pc[p] = "made" => tree[p] = Placed(0)
    /\ pc[p] \in Staging =>
         /\ ordinal[p] <= Count(p)
         /\ tree[p] = Placed(ordinal[p])
    /\ pc[p] \in {"entry", "plan"} => cursor[p] = CursorAt(p, ordinal[p])
    /\ pc[p] \in {"plan", "get", "place"} => ordinal[p] < Count(p)
    /\ pc[p] \in {"get", "place"} =>
         /\ item[p] = ordinal[p]
         /\ cursor[p] = CursorAt(p, ordinal[p] + 1)
    /\ pc[p] \notin Staging \cup {"made", "abort", "error"} => tree[p] = None
    /\ pc[p] = "error" /\ tree[p] # None => cut[p]
    /\ pc[p] \in {"abort", "error"} /\ tree[p] # None =>
         \E S \in SUBSET (0..(Count(p) - 1)) : tree[p] = Verified(S)
    /\ pc[p] \notin {"plan", "get", "place", "abort", "error"} => part[p] = None
    /\ part[p] # None => tree[p] # None
    /\ item[p] # None => item[p] < Count(p)

\* What the output paths may hold.
Outcomes == {None, Foreign} \cup {Published(v, Complete(v)) : v \in ready}

PullInv ==
    /\ Tables
    /\ \A p \in Pulls : Position(p)
    /\ output \in [Outputs -> Outcomes]

-----------------------------------------------------------------------------
\* The count of a pulled manifest is a number.
LEMMA CountType ==
    ASSUME NEW p \in Pulls
    PROVE  Count(p) \in Nat /\ VersionOf[p] \in Versions /\ OutputOf[p] \in Outputs
BY PullAssumption DEF Count

\* A staged tree is a tree, not NULL.
LEMMA VerifiedIsTree ==
    ASSUME NEW p \in Pulls, NEW S \in SUBSET (0..(Count(p) - 1))
    PROVE  Verified(S) # None
<1>1. S \in SUBSET (0..(FileCount[VersionOf[p]] - 1))
  BY DEF Count
<1> QED
  BY <1>1, CountType, NoneAssumption DEF Verified

LEMMA PlacedIsTree ==
    ASSUME NEW p \in Pulls, NEW n \in Nat, n <= Count(p)
    PROVE  Placed(n) # None /\ 0..(n - 1) \in SUBSET (0..(Count(p) - 1))
<1>1. 0..(n - 1) \in SUBSET (0..(Count(p) - 1))
  BY CountType
<1> QED
  BY <1>1, VerifiedIsTree DEF Placed

\* Placing the file at the loop's ordinal extends the staged tree by it.
LEMMA PlaceNext ==
    ASSUME NEW n \in Nat
    PROVE  [i \in DOMAIN Placed(n) \cup {n} |-> IF i = n THEN "good" ELSE Placed(n)[i]]
             = Placed(n + 1)
<1>1. DOMAIN Placed(n) \cup {n} = 0..((n + 1) - 1)
  BY DEF Placed, Verified
<1>2. \A i \in 0..((n + 1) - 1) : (IF i = n THEN "good" ELSE Placed(n)[i]) = "good"
  BY DEF Placed, Verified
<1> QED
  BY <1>1, <1>2 DEF Placed, Verified

\* The service resolves the cursor of the loop to the loop's ordinal, and the
\* cursor it answers with is the loop's next one.
LEMMA CursorsFollow ==
    ASSUME NEW p \in Pulls, NEW n \in Nat, n < Count(p)
    PROVE  /\ Decoded(CursorAt(p, n), VersionOf[p]) = n
           /\ NextCursor(VersionOf[p], n) = CursorAt(p, n + 1)
           /\ NextCursor(VersionOf[p], n) = None <=> n + 1 = FileCount[VersionOf[p]]
<1>1. Count(p) \in Nat /\ Count(p) = FileCount[VersionOf[p]] /\ VersionOf[p] \in Versions
  BY CountType DEF Count
<1>2. \A k \in Nat : [version |-> VersionOf[p], ordinal |-> k] # None
  BY <1>1, NoneAssumption
<1>3. Decoded(CursorAt(p, n), VersionOf[p]) = n
  <2>1. CASE n = 0
    <3>1. CursorAt(p, n) = None
      BY <2>1 DEF CursorAt
    <3> QED
      BY <1>1, <2>1, <3>1 DEF Decoded
  <2>2. CASE n # 0
    <3>1. CursorAt(p, n) = [version |-> VersionOf[p], ordinal |-> n]
      BY <2>2 DEF CursorAt
    <3> QED
      BY <1>1, <1>2, <3>1 DEF Decoded
  <2> QED
    BY <2>1, <2>2
<1>4. NextCursor(VersionOf[p], n) = CursorAt(p, n + 1)
  BY <1>1 DEF NextCursor, CursorAt
<1>5. NextCursor(VersionOf[p], n) = None <=> n + 1 = FileCount[VersionOf[p]]
  BY <1>1, <1>2 DEF NextCursor
<1> QED
  BY <1>3, <1>4, <1>5

\* No pull has started.
LEMMA PullInvInit == Init => PullInv
BY PullAssumption DEF Init, PullInv, Tables, Position, Staging, Locations, Outcomes

-----------------------------------------------------------------------------
\* A step of one pull that keeps the others' variables keeps their positions.
LEMMA OthersStay ==
    ASSUME NEW p \in Pulls, NEW q \in Pulls, Position(q), ready \subseteq ready',
           pc'[q] = pc[q], ordinal'[q] = ordinal[q], cursor'[q] = cursor[q],
           item'[q] = item[q], part'[q] = part[q], tree'[q] = tree[q], cut'[q] = cut[q]
    PROVE  Position(q)'
BY DEF Position, Count, CursorAt, Placed, Verified

\* Publication of versions and changes of output paths leave pulls alone.
LEMMA WorldStep ==
    ASSUME PullInv,
           \/ \E v \in Versions : Publish(v)
           \/ \E o \in Outputs : Occupy(o) \/ Remove(o)
           \/ UNCHANGED vars
    PROVE  PullInv'
<1>1. UNCHANGED <<pc, ordinal, cursor, item, part, tree, cut>> /\ ready \subseteq ready'
      /\ ready' \subseteq Versions
  BY DEF Publish, Occupy, Remove, vars, stagingVars, PullInv, Tables
<1>2. Tables'
  BY <1>1 DEF PullInv, Tables
<1>3. \A p \in Pulls : Position(p)'
  BY <1>1, OthersStay DEF PullInv
<1>4. output' \in [Outputs -> Outcomes']
  <2>1. Outcomes \subseteq Outcomes'
    BY <1>1 DEF Outcomes, Complete, Ordinals, Published
  <2>2. CASE UNCHANGED output
    BY <2>1, <2>2 DEF PullInv
  <2>3. ASSUME NEW o \in Outputs, Occupy(o) \/ Remove(o) PROVE output' \in [Outputs -> Outcomes']
    <3>1. None \in Outcomes' /\ Foreign \in Outcomes'
      BY DEF Outcomes
    <3> QED
      BY <2>1, <2>3, <3>1 DEF Occupy, Remove, PullInv
  <2> QED
    BY <2>2, <2>3 DEF Publish, vars
<1> QED
  BY <1>2, <1>3, <1>4 DEF PullInv

-----------------------------------------------------------------------------
OwnStep(p) == PullStep(p) \/ Cutoff(p)

\* A step of a pull changes that pull's variables only.
LEMMA StepIsOwn ==
    ASSUME PullInv, NEW p \in Pulls, OwnStep(p), NEW q \in Pulls, q # p
    PROVE  /\ pc'[q] = pc[q] /\ ordinal'[q] = ordinal[q] /\ cursor'[q] = cursor[q]
           /\ item'[q] = item[q] /\ part'[q] = part[q] /\ tree'[q] = tree[q]
           /\ cut'[q] = cut[q]
<1>1. Tables
  BY DEF PullInv
<1>2. CASE Resolve(p) \/ MakeStaging(p) \/ RecordStaging(p)
  BY <1>1, <1>2 DEF Resolve, MakeStaging, RecordStaging, Goto, Tables
<1>3. CASE PrepareEntry(p) \/ PlanEntry(p)
  BY <1>1, <1>3 DEF PrepareEntry, PlanEntry, Goto, Tables
<1>4. CASE \E bytes \in {"good", "bad"} : Stream(p, bytes)
  BY <1>1, <1>4 DEF Stream, Goto, Tables
<1>5. CASE Place(p) \/ Commit(p) \/ Return(p) \/ Abort(p)
  BY <1>1, <1>5 DEF Place, Commit, Return, Abort, Goto, stagingVars, Tables
<1>6. CASE AbortCut(p)
  BY <1>1, <1>6 DEF AbortCut, Goto, Tables
<1>7. CASE Interrupt(p) \/ InterruptUnrecorded(p) \/ Kill(p)
  BY <1>1, <1>7 DEF Interrupt, InterruptUnrecorded, Kill, Goto, stagingVars, Tables
<1> QED
  BY <1>2, <1>3, <1>4, <1>5, <1>6, <1>7 DEF OwnStep, PullStep, Cutoff

\* No step of a pull takes a version's READY back.
LEMMA ReadyStays ==
    ASSUME NEW p \in Pulls, OwnStep(p)
    PROVE  ready' = ready
BY DEF OwnStep, PullStep, Cutoff, Resolve, MakeStaging, RecordStaging, PrepareEntry, PlanEntry,
       Stream, Place, Commit, Return, Abort, AbortCut, Interrupt, InterruptUnrecorded, Kill

\* The entry a plan is accepted for is the loop's, and so is the next cursor.
LEMMA PlanIsFollowed ==
    ASSUME PullInv, NEW p \in Pulls, PlanEntry(p)
    PROVE  /\ item' = [item EXCEPT ![p] = ordinal[p]]
           /\ cursor' = [cursor EXCEPT ![p] = CursorAt(p, ordinal[p] + 1)]
           /\ pc' = [pc EXCEPT ![p] = "get"]
<1>1. /\ pc[p] = "plan" /\ ordinal[p] \in Nat /\ ordinal[p] < Count(p)
      /\ cursor[p] = CursorAt(p, ordinal[p]) /\ VersionOf[p] \in ready
  BY DEF PullInv, Position, Staging, PlanEntry, Tables
<1>2. /\ Decoded(cursor[p], VersionOf[p]) = ordinal[p]
      /\ NextCursor(VersionOf[p], ordinal[p]) = CursorAt(p, ordinal[p] + 1)
      /\ NextCursor(VersionOf[p], ordinal[p]) = None <=> ordinal[p] + 1 = FileCount[VersionOf[p]]
  BY <1>1, CursorsFollow
<1> QED
  BY <1>1, <1>2 DEF PlanEntry, Goto

\* The cursor a pull may hold is a cursor or None.
LEMMA CursorType ==
    ASSUME NEW p \in Pulls, NEW n \in Nat
    PROVE  CursorAt(p, n) \in {None} \cup [version : Versions, ordinal : Nat]
BY CountType DEF CursorAt

\* The variables of every pull keep their types.
LEMMA StepTables ==
    ASSUME PullInv, NEW p \in Pulls, OwnStep(p)
    PROVE  Tables'
<1>1. Tables
  BY DEF PullInv
<1>2. CASE Resolve(p) \/ Return(p)
  <2>1. CASE Resolve(p)
    BY <1>1, <2>1 DEF Resolve, Goto, Tables, Locations, Working
  <2>2. CASE Return(p)
    BY <1>1, <2>2 DEF Return, Goto, stagingVars, Tables, Locations
  <2> QED
    BY <1>2, <2>1, <2>2
<1>3. CASE MakeStaging(p) \/ RecordStaging(p) \/ PrepareEntry(p)
  BY <1>1, <1>3 DEF MakeStaging, RecordStaging, PrepareEntry, Goto, Tables, Locations, Working
<1>4. CASE PlanEntry(p)
  <2>1. /\ CursorAt(p, ordinal[p] + 1) \in {None} \cup [version : Versions, ordinal : Nat]
        /\ ordinal[p] \in Nat
    BY <1>1, CursorType DEF Tables
  <2>2. /\ cursor' \in [Pulls -> {None} \cup [version : Versions, ordinal : Nat]]
        /\ item' \in [Pulls -> {None} \cup Nat]
        /\ pc' \in [Pulls -> Locations]
    BY <1>1, <1>4, <2>1, PlanIsFollowed DEF Tables, Locations, Working
  <2> QED
    BY <1>1, <1>4, <2>2 DEF PlanEntry, Tables
<1>5. CASE \E bytes \in {"good", "bad"} : Stream(p, bytes)
  BY <1>1, <1>5 DEF Stream, Goto, Tables, Locations, Working
<1>6. CASE Place(p)
  BY <1>1, <1>6 DEF Place, Goto, Tables, Locations, Working
<1>7. CASE Commit(p) \/ Abort(p)
  BY <1>1, <1>7 DEF Commit, Abort, Goto, Tables, Locations, Working
<1>8. CASE AbortCut(p)
  <2>1. part' \in [Pulls -> {None, "empty", "good", "bad"}]
    BY <1>1, <1>8 DEF AbortCut, Tables
  <2>2. DOMAIN tree' = Pulls /\ tree' = [q \in Pulls |-> tree'[q]]
    BY <1>1, <1>8 DEF AbortCut, Tables
  <2> QED
    BY <1>1, <1>8, <2>1, <2>2 DEF AbortCut, Goto, Tables, Locations
<1>9. CASE Interrupt(p) \/ InterruptUnrecorded(p) \/ Kill(p)
  <2>1. CASE Interrupt(p)
    BY <1>1, <2>1 DEF Interrupt, Goto, stagingVars, Tables, Locations
  <2>2. CASE InterruptUnrecorded(p) \/ Kill(p)
    <3>1. cut' = [cut EXCEPT ![p] = TRUE] /\ Goto(p, "error") /\ UNCHANGED <<ready, stagingVars>>
      BY <2>2 DEF InterruptUnrecorded, Kill
    <3>2. cut' \in [Pulls -> BOOLEAN]
      BY <1>1, <3>1 DEF Tables
    <3>3. pc' \in [Pulls -> Locations]
      BY <1>1, <3>1 DEF Tables, Goto, Locations
    <3> QED
      BY <1>1, <3>1, <3>2, <3>3 DEF stagingVars, Tables
  <2> QED
    BY <1>9, <2>1, <2>2
<1> QED
  BY <1>2, <1>3, <1>4, <1>5, <1>6, <1>7, <1>8, <1>9 DEF OwnStep, PullStep, Cutoff

-----------------------------------------------------------------------------
\* A pull holds a tree of verified files, wherever it is.
LEMMA HeldIsVerified ==
    ASSUME PullInv, NEW p \in Pulls, tree[p] # None
    PROVE  \E S \in SUBSET (0..(Count(p) - 1)) : tree[p] = Verified(S)
<1>1. Count(p) \in Nat /\ Position(p) /\ ordinal[p] \in Nat
  BY CountType DEF PullInv, Tables
<1>2. ASSUME NEW n \in Nat, n <= Count(p), tree[p] = Placed(n)
      PROVE  \E S \in SUBSET (0..(Count(p) - 1)) : tree[p] = Verified(S)
  BY <1>2, PlacedIsTree DEF Placed
<1>3. CASE pc[p] \in Staging
  BY <1>1, <1>2, <1>3 DEF Position
<1>4. CASE pc[p] = "made"
  BY <1>1, <1>2, <1>4 DEF Position
<1> QED
  BY <1>1, <1>3, <1>4 DEF Position

\* A pull that goes to abort, or ends without one, keeps what it has staged.
LEMMA AbortPosition ==
    ASSUME PullInv, NEW p \in Pulls, tree'[p] = tree[p], item'[p] = item[p],
           pc'[p] = "abort" \/ (pc'[p] = "error" /\ cut'[p]),
           part'[p] \in {None, part[p]}
    PROVE  Position(p)'
<1>1. Count(p) \in Nat /\ Position(p)
  BY CountType DEF PullInv
<1>2. tree'[p] # None => \E S \in SUBSET (0..(Count(p)' - 1)) : tree'[p] = Verified(S)
  BY HeldIsVerified DEF Count
<1>3. /\ part'[p] # None => tree'[p] # None
      /\ item'[p] # None => item'[p] < Count(p)'
  BY <1>1 DEF Position, Count
<1> QED
  BY <1>2, <1>3 DEF Position, Staging, Verified

\* An abort that was cut short leaves part of that.
LEMMA CutPosition ==
    ASSUME PullInv, NEW p \in Pulls, AbortCut(p)
    PROVE  Position(p)'
<1>1. Tables /\ Position(p) /\ tree[p] # None
  BY DEF PullInv, AbortCut
<1>2. PICK T \in SUBSET (0..(Count(p) - 1)) : tree[p] = Verified(T)
  BY <1>1, HeldIsVerified
<1>3. PICK S \in SUBSET T : tree'[p] = Verified(S)
  <2>1. PICK S \in SUBSET DOMAIN tree[p] : tree' = [tree EXCEPT ![p] = [n \in S |-> @[n]]]
    BY DEF AbortCut
  <2>2. tree'[p] = [n \in S |-> tree[p][n]]
    BY <1>1, <2>1 DEF Tables
  <2>3. S \in SUBSET T /\ \A n \in S : tree[p][n] = "good"
    BY <1>2, <2>1 DEF Verified
  <2> QED
    BY <2>2, <2>3 DEF Verified
<1>4. S \in SUBSET (0..(Count(p)' - 1)) /\ tree'[p] # None
  BY <1>2, <1>3, VerifiedIsTree DEF Count
<1>5. pc'[p] = "error" /\ cut'[p] /\ item'[p] = item[p]
  BY <1>1 DEF AbortCut, Goto, Tables
<1> QED
  BY <1>1, <1>3, <1>4, <1>5 DEF Position, Staging, Verified, Count

\* A step of a pull leaves it in a position the invariant describes.
LEMMA StepPosition ==
    ASSUME PullInv, NEW p \in Pulls, OwnStep(p)
    PROVE  Position(p)'
<1>1. Tables /\ Position(p) /\ ready' = ready
  BY ReadyStays DEF PullInv
<1>2. Count(p) \in Nat /\ Count(p)' = Count(p) /\ \A n : CursorAt(p, n)' = CursorAt(p, n)
  BY CountType DEF Count, CursorAt
<1>3. CASE Resolve(p)
  <2>1. /\ tree'[p] = None /\ part'[p] = None /\ item' = item
        /\ pc'[p] = IF VersionOf[p] \in ready THEN "begin" ELSE "error"
    BY <1>1, <1>3 DEF Resolve, Goto, Tables
  <2> QED
    BY <1>1, <1>2, <2>1 DEF Position, Staging
<1>4. CASE MakeStaging(p) \/ RecordStaging(p)
  <2>1. EmptyTree = Placed(0) /\ CursorAt(p, 0) = None
    BY DEF EmptyTree, Placed, Verified, CursorAt
  <2>2. CASE MakeStaging(p) /\ Goto(p, "made")
    <3>1. pc'[p] = "made" /\ tree'[p] = Placed(0) /\ UNCHANGED <<part, item>> /\ pc[p] = "begin"
      BY <1>1, <2>1, <2>2 DEF MakeStaging, Goto, Tables
    <3> QED
      BY <1>1, <1>2, <3>1 DEF Position, Staging, Placed, Verified
  <2>3. CASE MakeStaging(p) /\ Goto(p, "abort")
    BY <1>1, <2>3, AbortPosition DEF MakeStaging, Goto, Tables
  <2>4. CASE RecordStaging(p)
    <3>1. /\ pc[p] = "made" /\ pc'[p] = "entry" /\ ordinal'[p] = 0 /\ cursor'[p] = None
          /\ UNCHANGED <<tree, part, item>>
      BY <1>1, <2>4 DEF RecordStaging, Goto, Tables
    <3> QED
      BY <1>1, <1>2, <2>1, <3>1 DEF Position, Staging, Placed, Verified
  <2> QED
    BY <1>4, <2>2, <2>3, <2>4 DEF MakeStaging
<1>5. CASE PrepareEntry(p)
  <2>1. tree[p] # None
    BY <1>1, <1>2, <1>5, PlacedIsTree DEF PrepareEntry, Position, Staging, Tables
  <2>2. pc'[p] = "plan" /\ part'[p] = "empty"
    BY <1>1, <1>5 DEF PrepareEntry, Goto, Tables
  <2> QED
    BY <1>1, <1>2, <1>5, <2>1, <2>2 DEF PrepareEntry, Position, Staging, Placed, Verified
<1>6. CASE PlanEntry(p)
  <2>1. /\ pc[p] = "plan" /\ pc'[p] = "get"
        /\ item'[p] = ordinal[p] /\ cursor'[p] = CursorAt(p, ordinal[p] + 1)
    BY <1>1, <1>6, PlanIsFollowed DEF PlanEntry, Tables
  <2> QED
    BY <1>1, <1>2, <1>6, <2>1 DEF PlanEntry, Position, Staging, Placed, Verified
<1>7. CASE \E bytes \in {"good", "bad"} : Stream(p, bytes)
  <2>1. pc[p] = "get" /\ pc'[p] = "place" /\ tree[p] # None
    BY <1>1, <1>2, <1>7, PlacedIsTree DEF Stream, Goto, Position, Staging, Tables
  <2> QED
    BY <1>1, <1>2, <1>7, <2>1 DEF Stream, Position, Staging, Placed, Verified
<1>8. CASE Place(p)
  <2>1. /\ pc[p] = "place" /\ item[p] = ordinal[p] /\ ordinal[p] \in Nat
        /\ tree[p] = Placed(ordinal[p]) /\ ordinal[p] < Count(p)
        /\ part'[p] = None
    BY <1>1, <1>8 DEF Place, Position, Staging, Tables
  <2>2. CASE part[p] = "good"
    <3>1. tree'[p] = Placed(ordinal[p] + 1)
      <4>1. tree' = [tree EXCEPT ![p] =
                       [n \in DOMAIN @ \cup {item[p]} |-> IF n = item[p] THEN part[p] ELSE @[n]]]
        BY <1>8, <2>2 DEF Place
      <4>2. tree'[p] = [n \in DOMAIN Placed(ordinal[p]) \cup {ordinal[p]} |->
                          IF n = ordinal[p] THEN "good" ELSE Placed(ordinal[p])[n]]
        BY <1>1, <2>1, <2>2, <4>1 DEF Tables
      <4> QED
        BY <2>1, <4>2, PlaceNext
    <3>2. ordinal'[p] = ordinal[p] + 1 /\ pc'[p] = "entry"
      BY <1>1, <1>8, <2>2 DEF Place, Goto, Tables
    <3> QED
      BY <1>1, <1>2, <1>8, <2>1, <3>1, <3>2 DEF Place, Position, Staging, Placed, Verified
  <2>3. CASE part[p] # "good"
    <3>1. pc'[p] = "abort" /\ tree' = tree /\ item' = item
      BY <1>1, <1>8, <2>3 DEF Place, Goto, Tables
    <3> QED
      BY <2>1, <3>1, AbortPosition
  <2> QED
    BY <2>2, <2>3
<1>9. CASE Commit(p)
  <2>1. /\ pc[p] = "entry" /\ part[p] = None /\ part' = part /\ item' = item
        /\ tree[p] = Placed(ordinal[p]) /\ ordinal[p] = Count(p)
    BY <1>1, <1>9 DEF Commit, Position, Staging
  <2>2. CASE pc'[p] = "return" /\ tree'[p] = None
    BY <1>1, <1>2, <2>1, <2>2 DEF Position, Staging, Placed, Verified
  <2>3. CASE pc'[p] = "abort" /\ tree' = tree
    BY <2>1, <2>3, AbortPosition
  <2> QED
    BY <1>1, <1>9, <2>2, <2>3 DEF Commit, Goto, Tables
<1>10. CASE Return(p)
  <2>1. pc[p] = "return" /\ pc'[p] = "done" /\ UNCHANGED <<tree, part, item>>
    BY <1>1, <1>10 DEF Return, Goto, stagingVars, Tables
  <2> QED
    BY <1>1, <1>2, <2>1 DEF Position, Staging
<1>11. CASE Interrupt(p) \/ InterruptUnrecorded(p) \/ Kill(p)
  BY <1>1, <1>11, AbortPosition
     DEF Interrupt, InterruptUnrecorded, Kill, Goto, stagingVars, Tables
<1>12. CASE Abort(p)
  <2>1. pc'[p] = "error" /\ tree'[p] = None /\ part'[p] = None /\ item' = item
    BY <1>1, <1>12 DEF Abort, Goto, Tables
  <2> QED
    BY <1>1, <1>2, <2>1 DEF Position, Staging
<1> QED
  BY <1>3, <1>4, <1>5, <1>6, <1>7, <1>8, <1>9, <1>10, <1>11, <1>12, CutPosition
     DEF OwnStep, PullStep, Cutoff

\* A pull at the end of its manifest has staged the complete version.
LEMMA StagedIsComplete ==
    ASSUME PullInv, NEW p \in Pulls, Commit(p)
    PROVE  /\ tree[p] = Complete(VersionOf[p]) /\ DOMAIN tree[p] = Ordinals(VersionOf[p])
           /\ VersionOf[p] \in ready
BY DEF PullInv, Commit, Position, Staging, Placed, Verified, Complete, Ordinals, Count

\* Only a commit changes an output path: an empty one becomes the complete version.
LEMMA StepOutput ==
    ASSUME PullInv, NEW p \in Pulls, OwnStep(p)
    PROVE  \/ output' = output /\ (pc'[p] = "return" => pc[p] = "return")
           \/ /\ output[OutputOf[p]] = None
              /\ VersionOf[p] \in ready
              /\ output' = [output EXCEPT ![OutputOf[p]] =
                              Published(VersionOf[p], Complete(VersionOf[p]))]
<1>1. pc \in [Pulls -> Locations]
  BY DEF PullInv, Tables
<1>2. CASE Commit(p)
  BY <1>1, <1>2, StagedIsComplete DEF Commit, Goto
<1>3. CASE \/ Resolve(p) \/ MakeStaging(p) \/ RecordStaging(p) \/ PrepareEntry(p)
           \/ Return(p) \/ Abort(p)
  BY <1>1, <1>3
     DEF Resolve, MakeStaging, RecordStaging, PrepareEntry, Return, Abort, Goto, stagingVars
<1>4. CASE PlanEntry(p)
  BY <1>1, <1>4 DEF PlanEntry, Goto
<1>5. CASE \E bytes \in {"good", "bad"} : Stream(p, bytes)
  BY <1>1, <1>5 DEF Stream, Goto
<1>6. CASE Place(p) \/ Cutoff(p)
  BY <1>1, <1>6 DEF Place, Cutoff, AbortCut, Interrupt, InterruptUnrecorded, Kill, Goto
<1> QED
  BY <1>2, <1>3, <1>4, <1>5, <1>6 DEF OwnStep, PullStep

\* The invariant is inductive.
LEMMA PullInvStep == PullInv /\ [Next]_vars => PullInv'
<1>1. CASE \/ \E v \in Versions : Publish(v)
           \/ \E o \in Outputs : Occupy(o) \/ Remove(o)
           \/ UNCHANGED vars
  BY <1>1, WorldStep
<1>2. ASSUME PullInv, NEW p \in Pulls, OwnStep(p) PROVE PullInv'
  <2>1. Tables'
    BY <1>2, StepTables
  <2>2. \A q \in Pulls : Position(q)'
    <3>1. ready' = ready
      BY <1>2, ReadyStays
    <3>2. ASSUME NEW q \in Pulls PROVE Position(q)'
      <4>1. CASE q = p
        BY <1>2, <4>1, StepPosition
      <4>2. CASE q # p
        <5>1. Position(q) /\ ready \subseteq ready'
          BY <1>2, <3>1 DEF PullInv
        <5> QED
          BY <1>2, <4>2, <5>1, StepIsOwn, OthersStay
      <4> QED
        BY <4>1, <4>2
    <3> QED
      BY <3>2
  <2>3. output' \in [Outputs -> Outcomes']
    <3>1. ready' = ready /\ output \in [Outputs -> Outcomes] /\ Outcomes' = Outcomes
      BY <1>2, ReadyStays DEF PullInv, Outcomes, Complete, Ordinals, Published
    <3>2. VersionOf[p] \in ready => Published(VersionOf[p], Complete(VersionOf[p])) \in Outcomes
      BY DEF Outcomes
    <3> QED
      BY <1>2, <3>1, <3>2, StepOutput
  <2> QED
    BY <2>1, <2>2, <2>3 DEF PullInv
<1> QED
  BY <1>1, <1>2 DEF Next, OwnStep

\* Every pull is where the invariant says: it has placed a verified prefix of
\* its READY version's manifest and holds the cursor of the entry it is at.
THEOREM PullInvariant == Spec => []PullInv
BY PullInvInit, PullInvStep, PTL DEF Spec

-----------------------------------------------------------------------------
\* PullWorkflow and AtomicTreeDownloader keep their variables' types.
THEOREM PullTyping == Spec => []PullTypeOK
<1>1. PullInv => PullTypeOK
  <2> SUFFICES ASSUME PullInv PROVE PullTypeOK
    OBVIOUS
  <2>1. Tables /\ output \in [Outputs -> Outcomes]
    BY DEF PullInv
  <2>2. \A o \in Outputs : output[o] \in {None, Foreign} \/ output[o].version \in Versions
    BY <2>1 DEF Outcomes, Published, Tables
  <2>3. ASSUME NEW p \in Pulls
        PROVE  /\ cursor[p] = None \/ cursor[p] \in [version : Versions, ordinal : Nat]
               /\ item[p] = None \/ item[p] \in Ordinals(VersionOf[p])
               /\ part[p] \in {None, "empty", "good", "bad"}
               /\ tree[p] # None => DOMAIN tree[p] \subseteq Ordinals(VersionOf[p])
    <3>1. Count(p) \in Nat /\ Position(p) /\ Ordinals(VersionOf[p]) = 0..(Count(p) - 1)
      BY CountType DEF PullInv, Ordinals, Count
    <3>2. item[p] = None \/ item[p] \in 0..(Count(p) - 1)
      BY <2>1, <3>1 DEF Tables, Position
    <3>3. tree[p] # None => DOMAIN tree[p] \subseteq 0..(Count(p) - 1)
      BY HeldIsVerified DEF Verified
    <3> QED
      BY <2>1, <3>1, <3>2, <3>3 DEF Tables
  <2> QED
    BY <2>1, <2>2, <2>3 DEF PullTypeOK, Tables, Locations
<1> QED
  BY <1>1, PullInvariant, PTL

\* An output path never shows a part of a version, unverified bytes or a
\* version that is not READY, whatever pulls are interrupted or killed.
THEOREM PulledOutputsAreComplete == Spec => []OutputsAreComplete
<1>1. PullInv => OutputsAreComplete
  BY DEF PullInv, OutputsAreComplete, Outcomes, Published
<1> QED
  BY <1>1, PullInvariant, PTL

\* A pull that has ended has left no staging behind, unless it was killed, or hit
\* before begin recorded its directory, or hit again in its abort.
THEOREM StagingIsAccountedFor == Spec => []StagingIsAccounted
<1>1. PullInv => StagingIsAccounted
  BY DEF PullInv, StagingIsAccounted, Position, Staging
<1> QED
  BY <1>1, PullInvariant, PTL

\* The service's cursors lead every pull through its manifest in order.
THEOREM PlansFollow == Spec => []PlansFollowTheManifest
<1>1. PullInv => PlansFollowTheManifest
  <2> SUFFICES ASSUME PullInv, NEW p \in Pulls
               PROVE  /\ pc[p] = "plan" => Decoded(cursor[p], VersionOf[p]) = ordinal[p]
                      /\ pc[p] \in {"get", "place"} => item[p] = ordinal[p]
                      /\ pc[p] \in Staging => DOMAIN tree[p] = 0..(ordinal[p] - 1)
    BY DEF PlansFollowTheManifest, Staging
  <2>1. Position(p) /\ ordinal[p] \in Nat
    BY DEF PullInv, Tables
  <2>2. pc[p] = "plan" => Decoded(cursor[p], VersionOf[p]) = ordinal[p]
    BY <2>1, CursorsFollow DEF Position
  <2>3. pc[p] \in Staging => DOMAIN tree[p] = 0..(ordinal[p] - 1)
    BY <2>1 DEF Position, Placed, Verified
  <2> QED
    BY <2>1, <2>2, <2>3 DEF Position
<1> QED
  BY <1>1, PullInvariant, PTL

\* No pull replaces an output that appeared after begin looked.
THEOREM PullsReplaceNothing == Spec => NothingIsReplaced
<1>1. PullInv /\ [Next]_vars =>
        [\A o \in Outputs : output[o] # None => output'[o] \in {output[o], None}]_vars
  <2> SUFFICES ASSUME PullInv, Next, NEW o \in Outputs, output[o] # None
               PROVE  output'[o] \in {output[o], None}
    OBVIOUS
  <2>1. output \in [Outputs -> Outcomes]
    BY DEF PullInv
  <2>2. CASE \E v \in Versions : Publish(v)
    BY <2>2 DEF Publish
  <2>3. CASE \E x \in Outputs : Occupy(x) \/ Remove(x)
    BY <2>1, <2>3 DEF Occupy, Remove
  <2>4. ASSUME NEW p \in Pulls, OwnStep(p) PROVE output'[o] = output[o]
    BY <2>1, <2>4, StepOutput
  <2> QED
    BY <2>2, <2>3, <2>4 DEF Next, OwnStep
<1> QED
  BY <1>1, PullInvariant, PTL DEF Spec, NothingIsReplaced

\* A pull succeeds only by putting its own complete tree at an empty path.
THEOREM SuccessIsEarnedByPulls == Spec => SuccessIsEarned
<1>1. PullInv /\ [Next]_vars =>
        [\A p \in Pulls : pc[p] # "return" /\ pc'[p] = "return" =>
           /\ output[OutputOf[p]] = None
           /\ output'[OutputOf[p]] = Published(VersionOf[p], Complete(VersionOf[p]))]_vars
  <2> SUFFICES ASSUME PullInv, Next, NEW p \in Pulls, pc[p] # "return", pc'[p] = "return"
               PROVE  /\ output[OutputOf[p]] = None
                      /\ output'[OutputOf[p]] = Published(VersionOf[p], Complete(VersionOf[p]))
    OBVIOUS
  <2>1. output \in [Outputs -> Outcomes] /\ OutputOf[p] \in Outputs
    BY CountType DEF PullInv
  <2>2. ~(\E v \in Versions : Publish(v)) /\ ~(\E o \in Outputs : Occupy(o) \/ Remove(o))
    BY DEF Publish, Occupy, Remove
  <2>3. PICK q \in Pulls : OwnStep(q)
    BY <2>2 DEF Next, OwnStep
  <2>4. q = p
    BY <2>3, StepIsOwn
  <2> QED
    BY <2>1, <2>3, <2>4, StepOutput
<1> QED
  BY <1>1, PullInvariant, PTL DEF Spec, SuccessIsEarned
=============================================================================
