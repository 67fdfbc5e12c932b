---------------------------- MODULE LeaseTokens ----------------------------
(***************************************************************************)
(* What a lease promises when the transactions that use it interleave      *)
(* statement by statement.  A session has two leases: the admission lease  *)
(* serves its upload, the completion lease its completion.  Each grant of  *)
(* a lease is a new token; a live lease is never granted again; it is only *)
(* ever live in the stage it serves; and a session leaves a stage only by  *)
(* a hand-over, which ends the lease.                                      *)
(*                                                                         *)
(* UploadOwnership also asks that the lease be live as the session is      *)
(* handed over.  Here a lease may lapse between the statement that checks  *)
(* it and the commit: what remains is that its token is still the last.    *)
(***************************************************************************)
EXTENDS Naturals, TLAPS

CONSTANT Sessions

VARIABLES
    stage,   \* stage[s]: UPLOAD, COMPLETING or TERMINAL
    token,   \* token[l]: the last token granted of lease l
    live     \* the leases that have an owner

vars == <<stage, token, live>>

Kinds == {"admission", "completion"}
Leases == Kinds \X Sessions

\* The stage a lease serves, and where the session may go from there.
Serves(k) == IF k = "admission" THEN "UPLOAD" ELSE "COMPLETING"
Exits(k) == IF k = "admission" THEN {"COMPLETING", "TERMINAL"} ELSE {"UPLOAD", "TERMINAL"}

Init ==
    /\ stage = [s \in Sessions |-> "UPLOAD"]
    /\ token = [l \in Leases |-> 0]
    /\ live = {}

\* A new owner, whose lease may have run out by the time it is recorded.
Grant(k, s) ==
    /\ stage[s] = Serves(k)
    /\ <<k, s>> \notin live
    /\ token' = [token EXCEPT ![<<k, s>>] = @ + 1]
    /\ live' \in {live, live \cup {<<k, s>>}}
    /\ UNCHANGED stage

\* The last owner extends its lease, also one that ran out meanwhile.
Renew(k, s) ==
    /\ stage[s] = Serves(k)
    /\ token[<<k, s>>] > 0
    /\ live' = live \cup {<<k, s>>}
    /\ UNCHANGED <<stage, token>>

\* Leases run out, many at a time, or are released.
Lapse ==
    /\ live' \subseteq live
    /\ UNCHANGED <<stage, token>>

HandOver(k, s) ==
    /\ stage[s] = Serves(k)
    /\ token[<<k, s>>] > 0
    /\ \E next \in Exits(k) : stage' = [stage EXCEPT ![s] = next]
    /\ live' = live \ {<<k, s>>}
    /\ UNCHANGED token

Next ==
    \/ Lapse
    \/ \E k \in Kinds, s \in Sessions : Grant(k, s) \/ Renew(k, s) \/ HandOver(k, s)

Spec == Init /\ [][Next]_vars

-----------------------------------------------------------------------------
(***************************************************************************)
(* What follows, whoever implements it.                                    *)
(***************************************************************************)

\* A lease is live only in the stage it serves: a session never has a client
\* that uploads and a runner that completes it, and neither once it is over.
LiveInStage ==
    \A k \in Kinds, s \in Sessions : <<k, s>> \in live => stage[s] = Serves(k) /\ token[<<k, s>>] > 0

\* A live lease is not granted again, and no token is granted twice.
TokensGrantedOnce ==
    [][\A l \in Leases :
         token'[l] # token[l] => token'[l] = token[l] + 1 /\ l \notin live]_vars

\* A session leaves its stage with that stage's lease ended, and a session that
\* is over stays over.
StagesEndTheirLease ==
    [][\A s \in Sessions : stage'[s] # stage[s] =>
         \E k \in Kinds : /\ stage[s] = Serves(k) /\ stage'[s] \in Exits(k)
                          /\ \A j \in Kinds : <<j, s>> \notin live']_vars

LeaseInv ==
    /\ stage \in [Sessions -> {"UPLOAD", "COMPLETING", "TERMINAL"}]
    /\ token \in [Leases -> Nat]
    /\ live \in SUBSET Leases
    /\ LiveInStage

LEMMA LeaseInductive == LeaseInv /\ [Next]_vars => LeaseInv'
<1> SUFFICES ASSUME LeaseInv, [Next]_vars PROVE LeaseInv'
  OBVIOUS
<1>1. CASE Lapse
  BY <1>1 DEF LeaseInv, Lapse, LiveInStage
<1>2. ASSUME NEW k \in Kinds, NEW s \in Sessions, Grant(k, s) PROVE LeaseInv'
  <2>0. <<k, s>> \in Leases
    BY DEF Leases
  <2>1. token' \in [Leases -> Nat] /\ live' \in SUBSET Leases
    BY <1>2, <2>0 DEF LeaseInv, Grant
  <2>2. ASSUME NEW j \in Kinds, NEW r \in Sessions, <<j, r>> \in live'
        PROVE  stage'[r] = Serves(j) /\ token'[<<j, r>>] > 0
    <3>0. <<j, r>> \in Leases
      BY DEF Leases
    <3>1. CASE <<j, r>> = <<k, s>>
      BY <1>2, <2>0, <3>1 DEF LeaseInv, Grant
    <3>2. CASE <<j, r>> # <<k, s>>
      BY <1>2, <2>0, <2>2, <3>0, <3>2 DEF LeaseInv, Grant, LiveInStage
    <3> QED BY <3>1, <3>2
  <2> QED BY <1>2, <2>1, <2>2 DEF LeaseInv, Grant, LiveInStage
<1>3. ASSUME NEW k \in Kinds, NEW s \in Sessions, Renew(k, s) PROVE LeaseInv'
  <2>0. <<k, s>> \in Leases
    BY DEF Leases
  <2> QED BY <1>3, <2>0 DEF LeaseInv, Renew, LiveInStage
<1>4. ASSUME NEW k \in Kinds, NEW s \in Sessions, HandOver(k, s) PROVE LeaseInv'
  <2>1. stage' \in [Sessions -> {"UPLOAD", "COMPLETING", "TERMINAL"}]
    BY <1>4 DEF LeaseInv, HandOver, Exits
  <2>2. ASSUME NEW j \in Kinds, NEW r \in Sessions, <<j, r>> \in live'
        PROVE  stage'[r] = Serves(j) /\ token'[<<j, r>>] > 0
    <3>1. <<j, r>> \in live /\ <<j, r>> # <<k, s>>
      BY <1>4, <2>2 DEF HandOver
    <3>2. stage[r] = Serves(j) /\ token[<<j, r>>] > 0
      BY <3>1 DEF LeaseInv, LiveInStage
    <3>3. r # s
      BY <1>4, <3>1, <3>2 DEF HandOver, Kinds, Serves
    <3> QED BY <1>4, <3>2, <3>3 DEF LeaseInv, HandOver
  <2> QED BY <1>4, <2>1, <2>2 DEF LeaseInv, HandOver, LiveInStage
<1>5. CASE UNCHANGED vars
  BY <1>5 DEF LeaseInv, LiveInStage, vars
<1> QED BY <1>1, <1>2, <1>3, <1>4, <1>5 DEF Next

\* Whatever keeps to these steps has no lease that is live out of its stage.
THEOREM LeasesServeTheirStage == Spec => []LeaseInv
<1>1. Init => LeaseInv
  BY DEF Init, LeaseInv, LiveInStage
<1> QED BY <1>1, LeaseInductive, PTL DEF Spec

\* ... and grants each token once, and none while the lease is live.
THEOREM TokensAreGrantedOnce == Spec => TokensGrantedOnce
<1>1. ASSUME LeaseInv, [Next]_vars, NEW l \in Leases, token'[l] # token[l]
      PROVE  token'[l] = token[l] + 1 /\ l \notin live
  <2>1. PICK k \in Kinds, s \in Sessions : Grant(k, s)
    BY <1>1 DEF Next, Lapse, Renew, HandOver, vars
  <2>2. l = <<k, s>>
    BY <1>1, <2>1 DEF Grant, LeaseInv
  <2> QED BY <1>1, <2>1, <2>2 DEF Grant, LeaseInv
<1>2. LeaseInv /\ [Next]_vars =>
        [\A l \in Leases :
           token'[l] # token[l] => token'[l] = token[l] + 1 /\ l \notin live]_vars
  BY <1>1
<1> QED BY <1>2, LeasesServeTheirStage, PTL DEF Spec, TokensGrantedOnce

\* ... and ends both leases of a session as it moves it on.
THEOREM StagesEndLeases == Spec => StagesEndTheirLease
<1>1. ASSUME LeaseInv, [Next]_vars, NEW s \in Sessions, stage'[s] # stage[s]
      PROVE  \E k \in Kinds : /\ stage[s] = Serves(k) /\ stage'[s] \in Exits(k)
                              /\ \A j \in Kinds : <<j, s>> \notin live'
  <2>1. PICK k \in Kinds, r \in Sessions : HandOver(k, r)
    BY <1>1 DEF Next, Lapse, Renew, Grant, vars
  <2>2. r = s /\ stage[s] = Serves(k) /\ stage'[s] \in Exits(k)
    BY <1>1, <2>1 DEF HandOver, LeaseInv
  <2>3. ASSUME NEW j \in Kinds PROVE <<j, s>> \notin live'
    <3>1. CASE j = k
      BY <2>1, <2>2, <3>1 DEF HandOver
    <3>2. CASE j # k
      <4>1. <<j, s>> \notin live
        BY <1>1, <2>2, <3>2 DEF LeaseInv, LiveInStage, Serves, Kinds
      <4> QED BY <2>1, <4>1 DEF HandOver
    <3> QED BY <3>1, <3>2
  <2> QED BY <2>2, <2>3
<1>2. LeaseInv /\ [Next]_vars =>
        [\A s \in Sessions : stage'[s] # stage[s] =>
           \E k \in Kinds : /\ stage[s] = Serves(k) /\ stage'[s] \in Exits(k)
                            /\ \A j \in Kinds : <<j, s>> \notin live']_vars
  BY <1>1
<1> QED BY <1>2, LeasesServeTheirStage, PTL DEF Spec, StagesEndTheirLease
=============================================================================
