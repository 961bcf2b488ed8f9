--------------------------- MODULE WatermarkProofs ---------------------------
(***************************************************************************)
(* What pkg/revlag's comments promise of the watermark, proved for every   *)
(* set of keys, every revision bound and every commit-time bound.          *)
(***************************************************************************)
EXTENDS Watermark, WellFoundedInduction, TLAPS

(***************************************************************************)
(* The loop of indexedLocked finds a least in-flight revision: a non-empty *)
(* set of naturals has one.                                                *)
(***************************************************************************)
LEMMA MinExists ==
  ASSUME NEW S \in SUBSET Nat, S # {}
  PROVE  Min(S) \in S /\ \A y \in S : Min(S) <= y
<1>1. \E x \in S : \A y \in S : ~ (<<y, x>> \in OpToRel(<, Nat))
  BY WFMin, NatLessThanWellFounded, Zenon
<1>2. PICK x \in S : \A y \in S : ~ (<<y, x>> \in OpToRel(<, Nat))
  BY <1>1
<1>3. ASSUME NEW y \in S, y < x PROVE FALSE
  <2>1. <<y, x>> \in {ss \in Nat \X Nat : ss[1] < ss[2]}
    BY <1>3
  <2> QED
    BY <2>1, <1>2, Zenon DEF OpToRel
<1>4. \A y \in S : x <= y
  BY <1>3
<1> QED
  BY <1>4 DEF Min

(***************************************************************************)
(* advanceCoveredLocked's loop keeps the greatest drained revision it      *)
(* accepts: a non-empty set of revisions has one.                          *)
(***************************************************************************)
LEMMA MaxExists ==
  ASSUME NEW S \in SUBSET Revs, S # {}
  PROVE  Max(S) \in S /\ \A y \in S : Max(S) >= y
<1> DEFINE T == {MaxRev - y : y \in S}
<1>1. T \in SUBSET Nat /\ T # {}
  <2>1. \A y \in S : MaxRev - y \in Nat
    BY RevAssumption DEF Revs
  <2> QED
    BY <2>1
<1>2. Min(T) \in T /\ \A y \in T : Min(T) <= y
  BY <1>1, MinExists
<1> HIDE DEF T
<1>3. PICK m \in S : Min(T) = MaxRev - m
  BY <1>2 DEF T
<1>4. \A y \in S : MaxRev - y \in T
  BY DEF T
<1>5. \A y \in S : m >= y
  BY <1>2, <1>3, <1>4, RevAssumption DEF Revs
<1> QED
  BY <1>5 DEF Max

(***************************************************************************)
(* indexedLocked: the floor lies right below the oldest revision in flight *)
(* and is observedHigh when there is none.                                 *)
(***************************************************************************)
LEMMA FloorLemma ==
  ASSUME NEW p, DOMAIN p \subseteq Revs, NEW high \in 0..MaxRev
  PROVE  /\ IndexedOf(p, high) \in 0..MaxRev
         /\ DOMAIN p = {} => IndexedOf(p, high) = high
         /\ DOMAIN p # {} => IndexedOf(p, high) + 1 \in DOMAIN p
         /\ \A r \in DOMAIN p : IndexedOf(p, high) < r
<1>1. CASE DOMAIN p = {}
  BY <1>1 DEF IndexedOf
<1>2. CASE DOMAIN p # {}
  <2>1. DOMAIN p \in SUBSET Nat
    BY RevAssumption DEF Revs
  <2>2. Min(DOMAIN p) \in DOMAIN p /\ \A y \in DOMAIN p : Min(DOMAIN p) <= y
    BY <1>2, <2>1, MinExists
  <2>3. IndexedOf(p, high) = Min(DOMAIN p) - 1
    BY <1>2 DEF IndexedOf
  <2>4. Min(DOMAIN p) \in 1..MaxRev
    BY <2>2 DEF Revs
  <2> QED
    BY <1>2, <2>2, <2>3, <2>4, RevAssumption DEF Revs
<1> QED
  BY <1>1, <1>2

-----------------------------------------------------------------------------
(***************************************************************************)
(* What ties the watermark to the watch: in-flight records are delivered   *)
(* ones, observedHigh is the newest delivery, and commit times follow      *)
(* revisions.                                                              *)
(***************************************************************************)
Ledger ==
  /\ \A r \in DOMAIN pending : pending[r] = delivered[r]
  /\ \A r \in DOMAIN delivered : r <= observedHigh
  /\ observedHigh = 0 => observedHighAt = 0
  /\ observedHigh # 0 => /\ observedHigh \in DOMAIN delivered
                         /\ observedHighAt = delivered[observedHigh].commitAt
  /\ \A r, s \in DOMAIN delivered :
       r <= s => delivered[r].commitAt <= delivered[s].commitAt

IInv == TypeOK /\ Ledger /\ NeverNewer /\ ExactWhenCaughtUp

THEOREM InitIInv == Init => IInv
<1> SUFFICES ASSUME Init PROVE IInv
  OBVIOUS
<1> USE RevAssumption, AtAssumption DEF Init, New
<1>1. TypeOK
  BY DEF TypeOK, Times, Inflight, Revs
<1>2. Ledger
  BY DEF Ledger
<1>3. Indexed = 0
  BY DEF Indexed, IndexedOf
<1>4. NeverNewer
  BY <1>3 DEF NeverNewer
<1>5. ExactWhenCaughtUp
  BY DEF ExactWhenCaughtUp
<1> QED
  BY <1>1, <1>2, <1>4, <1>5 DEF IInv

(***************************************************************************)
(* A delivery keeps the invariant and never lowers the floor.              *)
(***************************************************************************)
LEMMA DeliverStep ==
  ASSUME IInv, NEW r \in Revs, NEW k \in Keys, NEW t \in Times, Deliver(r, k, t)
  PROVE  /\ IInv'
         /\ Indexed' >= Indexed /\ coveredRev' = coveredRev /\ coveredAt' = coveredAt
<1> USE RevAssumption, AtAssumption
<1>0. r \in Nat /\ r # 0 /\ r <= MaxRev
  BY DEF Revs
<1>1. /\ observedHigh' = r /\ observedHighAt' = t
      /\ pending' = [x \in DOMAIN pending \cup {r} |->
                       IF x = r THEN [key |-> k, commitAt |-> t] ELSE pending[x]]
      /\ delivered' = [x \in DOMAIN delivered \cup {r} |->
                       IF x = r THEN [key |-> k, commitAt |-> t] ELSE delivered[x]]
      /\ UNCHANGED <<coveredRev, coveredAt>>
      /\ r > observedHigh /\ t >= LatestAt
  BY <1>0 DEF Deliver, Observe
<1>2. TypeOK'
  BY <1>0, <1>1 DEF IInv, TypeOK, Inflight, Revs
<1>3. r \notin DOMAIN delivered
  BY <1>0, <1>1 DEF IInv, TypeOK, Ledger, Revs
<1>4. Ledger'
  <2>1. \A x \in DOMAIN delivered : delivered[x].commitAt <= t
    <3> SUFFICES ASSUME NEW x \in DOMAIN delivered PROVE delivered[x].commitAt <= t
      OBVIOUS
    <3>1. observedHigh # 0 /\ x <= observedHigh /\ x \in Nat
      BY DEF IInv, TypeOK, Ledger, Revs
    <3>2. delivered[x].commitAt <= delivered[observedHigh].commitAt
      BY <3>1 DEF IInv, Ledger
    <3>3. delivered[x].commitAt \in Nat /\ delivered[observedHigh].commitAt \in Nat
      BY <3>1 DEF IInv, TypeOK, Ledger, Inflight, Times
    <3> QED
      BY <1>1, <3>1, <3>2, <3>3 DEF LatestAt, Times
  <2>2. \A x \in DOMAIN delivered : x <= r
    BY <1>0, <1>1 DEF IInv, TypeOK, Ledger, Revs
  <2>3. \A x, y \in DOMAIN delivered' :
          x <= y => delivered'[x].commitAt <= delivered'[y].commitAt
    <3> SUFFICES ASSUME NEW x \in DOMAIN delivered', NEW y \in DOMAIN delivered', x <= y
                 PROVE  delivered'[x].commitAt <= delivered'[y].commitAt
      OBVIOUS
    <3>1. CASE y = r
      BY <1>1, <2>1, <3>1 DEF Times
    <3>2. CASE y # r
      BY <1>0, <1>1, <1>3, <2>2, <3>2 DEF IInv, TypeOK, Ledger, Revs
    <3> QED
      BY <3>1, <3>2
  <2>4. \A x \in DOMAIN pending' : pending'[x] = delivered'[x]
    BY <1>1, <1>3 DEF IInv, TypeOK, Ledger
  <2>5. \A x \in DOMAIN delivered' : x <= observedHigh'
    BY <1>0, <1>1, <2>2
  <2>6. r \in DOMAIN delivered' /\ t = delivered'[r].commitAt
    BY <1>1
  <2> QED
    BY <1>0, <1>1, <2>3, <2>4, <2>5, <2>6 DEF Ledger
<1>5. Indexed' >= Indexed /\ Indexed \in Nat /\ Indexed' \in Nat
  <2>1. DOMAIN pending \subseteq Revs /\ DOMAIN pending' \subseteq Revs
    BY <1>2 DEF IInv, TypeOK
  <2>2. observedHigh \in 0..MaxRev /\ observedHigh' \in 0..MaxRev
    BY <1>2 DEF IInv, TypeOK
  <2>3. /\ Indexed \in 0..MaxRev
        /\ DOMAIN pending = {} => Indexed = observedHigh
        /\ \A x \in DOMAIN pending : Indexed < x
    BY <2>1, <2>2, FloorLemma DEF Indexed
  <2>4. /\ Indexed' \in 0..MaxRev
        /\ DOMAIN pending' # {} => Indexed' + 1 \in DOMAIN pending'
    BY <2>1, <2>2, FloorLemma DEF Indexed
  <2>5. Indexed' + 1 \in DOMAIN pending \cup {r}
    BY <1>1, <2>4
  <2>6. Indexed < r
    <3>1. CASE DOMAIN pending = {}
      BY <1>0, <1>1, <2>3, <3>1 DEF IInv, TypeOK
    <3>2. CASE DOMAIN pending # {}
      <4>1. PICK x \in DOMAIN pending : TRUE
        BY <3>2
      <4>2. x <= observedHigh /\ x \in Nat
        BY DEF IInv, TypeOK, Ledger, Revs
      <4> QED
        BY <1>0, <1>1, <2>2, <2>3, <4>2
    <3> QED
      BY <3>1, <3>2
  <2> QED
    BY <2>3, <2>4, <2>5, <2>6
<1>6. NeverNewer'
  BY <1>0, <1>1, <1>3, <1>5 DEF IInv, TypeOK, NeverNewer, Ledger, Revs
<1>7. ExactWhenCaughtUp'
  BY <1>1 DEF ExactWhenCaughtUp
<1> QED
  BY <1>1, <1>2, <1>4, <1>5, <1>6, <1>7 DEF IInv

(***************************************************************************)
(* A completion, of any revision ever delivered, keeps the invariant and   *)
(* never lowers the floor or the covered pair.                             *)
(***************************************************************************)
LEMMA FinishStep ==
  ASSUME IInv, NEW d \in Revs, Finish(d)
  PROVE  /\ IInv'
         /\ Indexed' >= Indexed /\ coveredRev' >= coveredRev /\ coveredAt' >= coveredAt
<1> USE RevAssumption, AtAssumption
<1> DEFINE drained == Drained(delivered[d].key, d)
           rest == Without(pending, drained)
<1>1. UNCHANGED <<delivered, observedHigh, observedHighAt>>
  BY DEF Finish, Complete
<1>2. CASE drained = {}
  <2>1. UNCHANGED vars
    BY <1>1, <1>2 DEF Finish, Complete, vars, wmVars
  <2>2. Indexed' = Indexed /\ Indexed \in Nat
    BY <2>1, FloorLemma DEF vars, wmVars, Indexed, IndexedOf, IInv, TypeOK
  <2> QED
    BY <2>1, <2>2 DEF vars, wmVars, IInv, TypeOK, Ledger, NeverNewer,
                      ExactWhenCaughtUp, Times, Indexed, IndexedOf
<1>3. CASE drained # {}
  <2>1. pending' = rest /\ AdvanceCovered(drained)
    BY <1>3 DEF Finish, Complete
  <2>2. drained \subseteq DOMAIN pending /\ DOMAIN pending \subseteq Revs
    BY DEF Drained, IInv, TypeOK
  <2>3. /\ DOMAIN rest = DOMAIN pending \ drained
        /\ \A x \in DOMAIN rest : rest[x] = pending[x]
    BY DEF Without
  <2> DEFINE floor == IndexedOf(rest, observedHigh)
             under == {x \in drained : x <= floor /\ x > coveredRev}
  <2> HIDE DEF drained, rest
  <2>4. /\ Indexed \in 0..MaxRev
        /\ DOMAIN pending = {} => Indexed = observedHigh
        /\ \A x \in DOMAIN pending : Indexed < x
    BY <2>2, FloorLemma DEF Indexed, IInv, TypeOK
  <2>5. /\ floor \in 0..MaxRev
        /\ DOMAIN rest = {} => floor = observedHigh
        /\ DOMAIN rest # {} => floor + 1 \in DOMAIN rest
        /\ \A x \in DOMAIN rest : floor < x
    BY <2>2, <2>3, FloorLemma DEF IInv, TypeOK
  <2>6. Indexed' = floor
    BY <1>1, <2>1 DEF Indexed
  <2> HIDE DEF floor
  <2>7. floor >= Indexed
    <3>1. \A x \in DOMAIN pending : x <= observedHigh /\ x \in Nat
      BY DEF IInv, TypeOK, Ledger, Revs
    <3>2. CASE DOMAIN rest = {}
      BY <1>3, <2>2, <2>4, <2>5, <3>1, <3>2 DEF IInv, TypeOK
    <3>3. CASE DOMAIN rest # {}
      BY <2>3, <2>4, <2>5, <3>3
    <3> QED
      BY <3>2, <3>3
  <2>8. /\ coveredRev' \in 0..MaxRev /\ coveredRev' >= coveredRev
        /\ coveredRev' <= floor /\ coveredRev' \notin DOMAIN rest
        /\ \/ coveredRev' = coveredRev /\ coveredAt' = coveredAt
           \/ coveredRev' \in DOMAIN delivered /\ coveredAt' = delivered[coveredRev'].commitAt
        /\ DOMAIN rest = {} => coveredRev' = observedHigh /\ coveredAt' = observedHighAt
    <3>1. coveredRev <= Indexed /\ coveredRev \notin DOMAIN pending /\ coveredRev \in 0..MaxRev
      BY DEF IInv, TypeOK, NeverNewer
    <3>2. CASE DOMAIN rest = {}
      <4>1. /\ coveredRev' = IF observedHigh > coveredRev THEN observedHigh ELSE coveredRev
            /\ coveredAt' = IF observedHigh > coveredRev THEN observedHighAt ELSE coveredAt
        BY <2>1, <3>2 DEF AdvanceCovered, rest
      <4>2. PICK x \in DOMAIN pending : TRUE
        BY <1>3, <2>2
      <4>3. Indexed < x /\ x <= observedHigh /\ x \in Nat /\ observedHigh \in 0..MaxRev
        BY <2>4 DEF IInv, TypeOK, Ledger, Revs
      <4>4. observedHigh > coveredRev
        BY <2>4, <3>1, <4>3
      <4>5. observedHigh \in DOMAIN delivered /\ observedHighAt = delivered[observedHigh].commitAt
        BY <3>1, <4>3, <4>4 DEF IInv, Ledger
      <4> QED
        BY <2>5, <3>1, <3>2, <4>1, <4>3, <4>4, <4>5
    <3>3. CASE DOMAIN rest # {}
      <4>1. /\ coveredRev' = IF under = {} THEN coveredRev ELSE Max(under)
            /\ coveredAt' = IF under = {} THEN coveredAt ELSE pending[Max(under)].commitAt
        BY <2>1, <3>3 DEF AdvanceCovered, rest, floor
      <4>2. CASE under = {}
        BY <2>3, <2>4, <2>5, <2>7, <3>1, <3>3, <4>1, <4>2
      <4>3. CASE under # {}
        <5>1. Max(under) \in under
          BY <2>2, <4>3, MaxExists
        <5>2. /\ Max(under) \in drained /\ Max(under) <= floor /\ Max(under) > coveredRev
          BY <5>1
        <5>3. /\ Max(under) \in DOMAIN delivered /\ Max(under) \in 1..MaxRev
              /\ pending[Max(under)] = delivered[Max(under)]
          BY <2>2, <5>2 DEF IInv, TypeOK, Ledger, Revs
        <5> QED
          BY <2>3, <3>1, <3>3, <4>1, <4>3, <5>2, <5>3
      <4> QED
        BY <4>2, <4>3
    <3> QED
      BY <3>2, <3>3
  <2>9. coveredAt' >= coveredAt /\ coveredAt' \in Times
    <3>1. CASE coveredRev' = coveredRev /\ coveredAt' = coveredAt
      BY <3>1 DEF IInv, TypeOK, Times
    <3>2. CASE coveredRev' \in DOMAIN delivered /\ coveredAt' = delivered[coveredRev'].commitAt
      <4>1. coveredAt' \in Times
        BY <3>2 DEF IInv, TypeOK, Inflight
      <4>2. CASE coveredRev = 0
        BY <4>1, <4>2 DEF IInv, NeverNewer, Times
      <4>3. CASE coveredRev # 0
        BY <2>8, <3>2, <4>1, <4>3 DEF IInv, TypeOK, NeverNewer, Ledger, Times
      <4> QED
        BY <4>1, <4>2, <4>3
    <3> QED
      BY <2>8, <3>1, <3>2
  <2>10. TypeOK'
    <3>1. pending' \in [DOMAIN pending' -> Inflight]
      BY <2>1, <2>3 DEF IInv, TypeOK, rest, Without
    <3> QED
      BY <1>1, <2>1, <2>3, <2>8, <2>9, <3>1 DEF IInv, TypeOK
  <2>11. Ledger'
    BY <1>1, <2>1, <2>3 DEF IInv, Ledger
  <2>12. NeverNewer'
    BY <1>1, <2>1, <2>6, <2>8, <2>10 DEF IInv, TypeOK, NeverNewer, Revs
  <2>13. ExactWhenCaughtUp'
    BY <1>1, <2>1, <2>8 DEF ExactWhenCaughtUp
  <2> QED
    BY <2>6, <2>7, <2>8, <2>9, <2>10, <2>11, <2>12, <2>13 DEF IInv
<1> QED
  BY <1>2, <1>3

-----------------------------------------------------------------------------
\* Every step preserves the invariant.
LEMMA StepIInv == ASSUME IInv, [Next]_vars PROVE IInv'
<1>1. ASSUME NEW r \in Revs, NEW k \in Keys, NEW t \in Times, Deliver(r, k, t)
      PROVE  IInv'
  BY <1>1, DeliverStep
<1>2. ASSUME NEW r \in Revs, Finish(r) PROVE IInv'
  BY <1>2, FinishStep
<1>3. CASE UNCHANGED vars
  BY <1>3 DEF vars, wmVars, IInv, TypeOK, Ledger, NeverNewer, ExactWhenCaughtUp,
              Indexed, IndexedOf
<1> QED
  BY <1>1, <1>2, <1>3 DEF Next

(***************************************************************************)
(* The invariant behind every reading of the watermark, for every caller   *)
(* that delivers in ascending order and completes delivered revisions.     *)
(***************************************************************************)
THEOREM WatermarkInvariant == Spec => []IInv
<1>1. Init => IInv
  BY InitIInv
<1>2. IInv /\ [Next]_vars => IInv'
  BY StepIInv
<1> QED
  BY <1>1, <1>2, PTL DEF Spec

(***************************************************************************)
(* The reported commit time is the commit time of a delivered revision at  *)
(* or below the floor, so a staleness bound computed from it is never too  *)
(* small.                                                                  *)
(***************************************************************************)
THEOREM StalenessNeverUnderReported == Spec => []NeverNewer
<1>1. IInv => NeverNewer
  BY DEF IInv
<1> QED
  BY <1>1, WatermarkInvariant, PTL

(***************************************************************************)
(* With nothing in flight the covered pair is the newest delivery.         *)
(***************************************************************************)
THEOREM CaughtUpIsExact == Spec => []ExactWhenCaughtUp
<1>1. IInv => ExactWhenCaughtUp
  BY DEF IInv
<1> QED
  BY <1>1, WatermarkInvariant, PTL

(***************************************************************************)
(* Neither the floor nor the covered pair ever moves back.                 *)
(***************************************************************************)
THEOREM FloorNeverMovesBack == Spec => FloorMonotonic
<1> DEFINE Forward == /\ Indexed' >= Indexed /\ coveredRev' >= coveredRev
                      /\ coveredAt' >= coveredAt
<1>1. IInv /\ [Next]_vars => [Forward]_vars
  <2> SUFFICES ASSUME IInv, Next PROVE Forward
    OBVIOUS
  <2>0. coveredRev \in Nat /\ coveredAt \in Nat
    BY DEF IInv, TypeOK, Times
  <2>1. ASSUME NEW r \in Revs, NEW k \in Keys, NEW t \in Times, Deliver(r, k, t)
        PROVE  Forward
    BY <2>0, <2>1, DeliverStep
  <2>2. ASSUME NEW r \in Revs, Finish(r) PROVE Forward
    BY <2>2, FinishStep
  <2> QED
    BY <2>1, <2>2 DEF Next
<1> QED
  BY <1>1, WatermarkInvariant, PTL DEF Spec, FloorMonotonic
=============================================================================
