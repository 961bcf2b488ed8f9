------------------------------ MODULE Watermark ------------------------------
(***************************************************************************)
(* pkg/revlag: the low-water-of-pending watermark a KV-watch pipeline uses *)
(* to answer "have I caught up with the latest committed write, and how    *)
(* old is the view I serve?".                                              *)
(*                                                                         *)
(* The watch goroutine Observes every delivered revision; pool workers     *)
(* Complete them, in any order, one key at a time.  Every method holds the *)
(* one mutex from its first to its last access, so each is one action.     *)
(* Commit times are natural numbers and 0 is Go's zero time ("unknown").   *)
(***************************************************************************)
EXTENDS Integers, FiniteSetsExt

CONSTANTS Keys,     \* the watched keys
          MaxRev,   \* bound: highest revision the bucket ever commits
          MaxAt     \* bound: highest commit time

ASSUME RevAssumption == MaxRev \in Nat
ASSUME AtAssumption == MaxAt \in Nat

VARIABLES observedHigh,     \* highest revision ever delivered
          observedHighAt,   \* and its commit time
          pending,          \* in-flight revision -> [key, commitAt]
          coveredRev,       \* newest revision known observed and covered
          coveredAt,        \* and its commit time
          delivered         \* history: every delivered revision -> [key, commitAt]

wmVars == <<observedHigh, observedHighAt, pending, coveredRev, coveredAt>>
vars == <<wmVars, delivered>>

Revs == 1..MaxRev
Times == 0..MaxAt
Inflight == [key : Keys, commitAt : Times]

\* Mutant: the empty-map early return is forgotten; the all-ones start value leaks.
IndexedOf_NoEmptyCase(p, high) ==
  IF DOMAIN p = {} THEN MaxRev + 1 ELSE Min(DOMAIN p) - 1

\* indexedLocked over a given pending map and high mark.
IndexedOf(p, high) == IF DOMAIN p = {} THEN high ELSE Min(DOMAIN p) - 1

Indexed == IndexedOf(pending, observedHigh)

Without(p, drained) == [r \in DOMAIN p \ drained |-> p[r]]

New ==
  /\ observedHigh = 0 /\ observedHighAt = 0
  /\ pending = [r \in {} |-> 0]
  /\ coveredRev = 0 /\ coveredAt = 0

(***************************************************************************)
(* Observe: r = 0 ("no revision") is ignored.                              *)
(***************************************************************************)
Observe(r, key, commitAt) ==
  IF r = 0 THEN UNCHANGED wmVars
  ELSE /\ observedHigh' = IF r > observedHigh THEN r ELSE observedHigh
       /\ observedHighAt' = IF r > observedHigh THEN commitAt ELSE observedHighAt
       /\ pending' = [x \in DOMAIN pending \cup {r} |->
                        IF x = r THEN [key |-> key, commitAt |-> commitAt]
                        ELSE pending[x]]
       /\ UNCHANGED <<coveredRev, coveredAt>>

Drained(key, rev) == {r \in DOMAIN pending : pending[r].key = key /\ r <= rev}

\* Mutant: the newest drained revision counts although an older one is in flight.
AdvanceCovered_NoFloor(drained) ==
  /\ coveredRev' = IF Max(drained) > coveredRev THEN Max(drained) ELSE coveredRev
  /\ coveredAt' = IF Max(drained) > coveredRev THEN pending[Max(drained)].commitAt
                  ELSE coveredAt

\* Mutant: no caught-up case, only the drained revisions under the floor count.
AdvanceCovered_NoCaughtUp(drained) ==
  LET floor == IndexedOf(Without(pending, drained), observedHigh)
      under == {r \in drained : r <= floor /\ r > coveredRev}
  IN /\ coveredRev' = IF under = {} THEN coveredRev ELSE Max(under)
     /\ coveredAt' = IF under = {} THEN coveredAt ELSE pending[Max(under)].commitAt

(***************************************************************************)
(* advanceCoveredLocked, over the state after the drain: with nothing left *)
(* in flight the newest covered revision is observedHigh itself, otherwise *)
(* it is the newest of the drained revisions under the new floor.          *)
(***************************************************************************)
AdvanceCovered(drained) ==
  LET rest == Without(pending, drained)
      under == {r \in drained : r <= IndexedOf(rest, observedHigh) /\ r > coveredRev}
  IN IF DOMAIN rest = {}
     THEN /\ coveredRev' = IF observedHigh > coveredRev THEN observedHigh ELSE coveredRev
          /\ coveredAt' = IF observedHigh > coveredRev THEN observedHighAt ELSE coveredAt
     ELSE /\ coveredRev' = IF under = {} THEN coveredRev ELSE Max(under)
          /\ coveredAt' = IF under = {} THEN coveredAt ELSE pending[Max(under)].commitAt

Complete(key, rev) ==
  LET drained == Drained(key, rev)
  IN /\ IF drained = {} THEN UNCHANGED <<pending, coveredRev, coveredAt>>
        ELSE /\ pending' = Without(pending, drained)
             /\ AdvanceCovered(drained)
     /\ UNCHANGED <<observedHigh, observedHighAt>>

-----------------------------------------------------------------------------
(***************************************************************************)
(* The callers.  OrderedConsumer delivers revisions in ascending order,    *)
(* skipping purged ones, and commit times follow revision order.  A worker *)
(* completes with a revision that was delivered for its key, possibly one  *)
(* that was drained already.                                               *)
(***************************************************************************)
LatestAt == IF observedHigh = 0 THEN 0 ELSE delivered[observedHigh].commitAt

Deliver(r, key, commitAt) ==
  /\ r > observedHigh
  /\ commitAt >= LatestAt
  /\ Observe(r, key, commitAt)
  /\ delivered' = [x \in DOMAIN delivered \cup {r} |->
                     IF x = r THEN [key |-> key, commitAt |-> commitAt]
                     ELSE delivered[x]]

Finish(r) ==
  /\ r \in DOMAIN delivered
  /\ Complete(delivered[r].key, r)
  /\ UNCHANGED delivered

Init == New /\ delivered = [r \in {} |-> 0]

Next ==
  \/ \E r \in Revs, k \in Keys, t \in Times : Deliver(r, k, t)
  \/ \E r \in Revs : Finish(r)

Spec == Init /\ [][Next]_vars

-----------------------------------------------------------------------------
(***************************************************************************)
(* Every field has the type the struct declares; the in-flight map is a    *)
(* part of what was delivered.                                             *)
(***************************************************************************)
TypeOK ==
  /\ observedHigh \in 0..MaxRev /\ observedHighAt \in Times
  /\ coveredRev \in 0..MaxRev /\ coveredAt \in Times
  /\ DOMAIN pending \subseteq DOMAIN delivered
  /\ DOMAIN delivered \subseteq Revs
  /\ pending \in [DOMAIN pending -> Inflight]
  /\ delivered \in [DOMAIN delivered -> Inflight]

(***************************************************************************)
(* "commitAt may be older than the floor's true coverage but never newer"  *)
(* (IndexedAt): no delivered revision above the floor, and none still in   *)
(* flight, lends its commit time to the floor, and the time reported       *)
(* is the commit time of a revision that really was delivered.             *)
(***************************************************************************)
NeverNewer ==
  /\ coveredRev <= Indexed
  /\ coveredRev \notin DOMAIN pending
  /\ IF coveredRev = 0 THEN coveredAt = 0
     ELSE coveredRev \in DOMAIN delivered /\ coveredAt = delivered[coveredRev].commitAt

(***************************************************************************)
(* "collapses to exact whenever the pipeline catches up" (coveredRev): with *)
(* nothing in flight the reported pair is the newest delivered revision.   *)
(***************************************************************************)
ExactWhenCaughtUp ==
  DOMAIN pending = {} => coveredRev = observedHigh /\ coveredAt = observedHighAt

(***************************************************************************)
(* "makes Indexed() monotonic non-decreasing", which the single covered    *)
(* pair relies on: neither a delivery nor an out-of-order completion moves *)
(* the floor, or the commit time paired with it, back.                     *)
(***************************************************************************)
FloorMonotonic == [][Indexed' >= Indexed /\ coveredRev' >= coveredRev
                     /\ coveredAt' >= coveredAt]_vars
=============================================================================
