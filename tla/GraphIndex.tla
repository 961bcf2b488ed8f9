------------------------------ MODULE GraphIndex ------------------------------
(***************************************************************************)
(* processor/graph-index: derives the relationship, predicate and name     *)
(* indexes from ENTITY_STATES and reports how far it has come.             *)
(*                                                                         *)
(* The watch goroutine observes every delivered revision in the watermark  *)
(* and hands the key to the coalescer or straight to the keyed dispatcher; *)
(* one worker per lane re-reads the authoritative entity, replaces the     *)
(* rows the entity owns and completes the revision; a repair loop          *)
(* re-submits entities whose writes failed; a status computation reads all *)
(* of that without a common lock and publishes the readiness envelope.     *)
(*                                                                         *)
(* Data abstraction.  What an index family holds for an entity is          *)
(* represented by the newest ENTITY_STATES revision all its rows are known *)
(* to reflect: a clean replacement moves it to the revision that was read, *)
(* a failed one leaves a mixture of old and new rows, hence the old bound. *)
(* Commit times are the revisions themselves.  The envelope keeps what a   *)
(* gate acts on: Ready, the target it was computed for, BootstrapComplete. *)
(***************************************************************************)
EXTENDS Integers, Sequences, FiniteSets

CONSTANTS Keys,
          Families,      \* index families written per entity
          Lanes,         \* keyedDispatcher lanes, one worker each
          LaneOf,        \* Keys -> Lanes, the FNV hash
          Coalesce,      \* CoalesceMs > 0
          Readers,       \* concurrent status computations (heartbeat, queries)
          Kinds,         \* what a commit may store: see KindSet
          None,          \* "nothing", a model value
          MaxRev,        \* bound: commits to ENTITY_STATES
          LaneSize,      \* lane channel capacity
          MaxFaults,     \* bound: failing KV calls
          MaxRestarts    \* bound: process restarts

\* "unreadable": the stored value fails the entity-state contract;
\* "mismatch": its id is not its key.
KindSet == {"put", "del", "unreadable", "mismatch"}

Work == [key : Keys, rev : 0..MaxRev]

ASSUME IndexAssumption ==
  /\ LaneOf \in [Keys -> Lanes] /\ Kinds \subseteq KindSet /\ Coalesce \in BOOLEAN
  /\ {MaxRev, LaneSize} \subseteq Nat \ {0} /\ MaxFaults \in Nat /\ MaxRestarts \in Nat
  /\ None \notin Work /\ Families # {}

VARIABLES
  log,               \* ENTITY_STATES: the committed entries, revision = position
  rows,              \* Keys -> Families -> revision the stored rows reflect
  observedHigh, observedHighAt, pending, coveredRev, coveredAt, delivered,
  startSeq,          \* history: last committed revision when the watch opened
  bootstrapTarget, initialEnumerationComplete, indexBootstrapped,
  watcher,           \* the watch goroutine: where it is and the work it submits
  coalescer,         \* Keys -> greatest pending revision, 0 = absent
  batch,             \* work detached by fire and not yet submitted
  lanes,             \* Lanes -> queued work
  worker,            \* Lanes -> None or the work in hand
  failedEntities, resetState,
  reader,            \* Readers -> the status computation in progress
  status,            \* the last published envelope
  faults, restarts

WM == INSTANCE Watermark WITH MaxAt <- MaxRev

wm == <<observedHigh, observedHighAt, pending, coveredRev, coveredAt, delivered>>
boot == <<startSeq, bootstrapTarget, initialEnumerationComplete>>
queues == <<watcher, coalescer, batch, lanes>>
outcome == <<rows, failedEntities, resetState, faults>>
statusVars == <<reader, status, indexBootstrapped>>
vars == <<log, restarts, worker, wm, boot, queues, outcome, statusVars>>

LastSeq == Len(log)

\* The newest revision of key at or below seq, 0 if there is none.
LastOf(key, seq) ==
  LET mine == {r \in 1..seq : log[r].key = key}
  IN IF mine = {} THEN 0 ELSE CHOOSE r \in mine : \A s \in mine : s <= r

Superseded(r) == LastOf(log[r].key, LastSeq) > r

Receiving == [pc |-> "receive", work |-> None]
IdleReader == [pc |-> "idle", indexed |-> 0, target |-> 0]
NoStatus == [ready |-> FALSE, target |-> 0, bootstrapComplete |-> FALSE]

(***************************************************************************)
(* Start: a new process opens the watch over whatever is stored.           *)
(***************************************************************************)
Fresh(seq) ==
  /\ observedHigh' = 0 /\ observedHighAt' = 0 /\ coveredRev' = 0 /\ coveredAt' = 0
  /\ pending' = [r \in {} |-> 0] /\ delivered' = [r \in {} |-> 0]
  /\ startSeq' = seq /\ bootstrapTarget' = 0
  /\ initialEnumerationComplete' = FALSE /\ indexBootstrapped' = FALSE
  /\ watcher' = Receiving /\ coalescer' = [k \in Keys |-> 0] /\ batch' = {}
  /\ lanes' = [l \in Lanes |-> <<>>] /\ worker' = [l \in Lanes |-> None]
  /\ failedEntities' = {} /\ resetState' = FALSE
  /\ reader' = [q \in Readers |-> IdleReader] /\ status' = NoStatus

Init ==
  /\ WM!New /\ delivered = [r \in {} |-> 0]
  /\ log \in {<<>>} \cup {<<[key |-> k, kind |-> d]>> : k \in Keys, d \in Kinds}
  /\ rows = [k \in Keys |-> [f \in Families |-> 0]]
  /\ startSeq = Len(log) /\ bootstrapTarget = 0
  /\ initialEnumerationComplete = FALSE /\ indexBootstrapped = FALSE
  /\ watcher = Receiving /\ coalescer = [k \in Keys |-> 0] /\ batch = {}
  /\ lanes = [l \in Lanes |-> <<>>] /\ worker = [l \in Lanes |-> None]
  /\ failedEntities = {} /\ resetState = FALSE
  /\ reader = [q \in Readers |-> IdleReader] /\ status = NoStatus
  /\ faults = 0 /\ restarts = 0

\* Stop or a crash loses every queue; the index buckets survive.
Restart ==
  /\ restarts < MaxRestarts
  /\ restarts' = restarts + 1
  /\ Fresh(LastSeq)
  /\ UNCHANGED <<log, rows, faults>>

\* graph-ingest commits a state, or a tombstone, of key.
Commit(key, kind) ==
  /\ LastSeq < MaxRev
  /\ log' = Append(log, [key |-> key, kind |-> kind])
  /\ UNCHANGED <<restarts, worker, wm, boot, queues, outcome, statusVars>>

-----------------------------------------------------------------------------
(***************************************************************************)
(* watchEntityStates.  The ordered consumer delivers in ascending order    *)
(* and skips only revisions a later one of the same key superseded.        *)
(* Observe and the coalescer take different locks, but no other goroutine  *)
(* can tell their order: a fire in between does not see the key, and a     *)
(* completion in between does not reach the new revision.                  *)
(***************************************************************************)
CanDeliver(r) ==
  /\ r > observedHigh
  /\ \A s \in (observedHigh + 1)..(r - 1) : Superseded(s)

Receive(r) ==
  LET e == log[r]
      work == [key |-> e.key, rev |-> r]
      queued == e.kind # "del" /\ Coalesce
  IN /\ watcher.pc = "receive"
     /\ CanDeliver(r)
     /\ WM!Observe(r, e.key, r)
     /\ delivered' = [x \in DOMAIN delivered \cup {r} |->
                        IF x = r THEN [key |-> e.key, commitAt |-> r] ELSE delivered[x]]
     /\ coalescer' = [coalescer EXCEPT ![e.key] =
                        IF e.kind = "del" THEN 0
                        ELSE IF queued /\ r > @ THEN r ELSE @]
     /\ watcher' = IF queued THEN Receiving ELSE [pc |-> "submit", work |-> work]
     /\ UNCHANGED <<log, restarts, worker, boot, batch, lanes, outcome, statusVars>>

\* The nil entry: every entity that existed at watch start was delivered.
ReceiveSentinel ==
  /\ watcher.pc = "receive" /\ ~initialEnumerationComplete
  /\ \A k \in Keys : LastOf(k, startSeq) > 0 =>
       \E r \in DOMAIN delivered : delivered[r].key = k
  /\ bootstrapTarget' = observedHigh
  /\ watcher' = [Receiving EXCEPT !.pc = "sentinel"]
  /\ UNCHANGED <<log, restarts, worker, wm, startSeq, initialEnumerationComplete,
                 coalescer, batch, lanes, outcome, statusVars>>

RaiseEnumerated ==
  /\ watcher.pc = "sentinel"
  /\ initialEnumerationComplete' = TRUE
  /\ watcher' = Receiving
  /\ UNCHANGED <<log, restarts, worker, wm, startSeq, bootstrapTarget,
                 coalescer, batch, lanes, outcome, statusVars>>

\* Mutant: the lane channel has no capacity.
Submit_Unbounded(work) ==
  lanes' = [lanes EXCEPT ![LaneOf[work.key]] = Append(@, work)]

\* keyedDispatcher.Submit: a blocking send into the key's lane.
Submit(work) ==
  LET l == LaneOf[work.key]
  IN /\ Len(lanes[l]) < LaneSize
     /\ lanes' = [lanes EXCEPT ![l] = Append(@, work)]

WatcherSubmit ==
  /\ watcher.pc = "submit"
  /\ Submit(watcher.work)
  /\ watcher' = Receiving
  /\ UNCHANGED <<log, restarts, worker, wm, boot, coalescer, batch, outcome, statusVars>>

\* Mutant: the pending map is replaced although only one key was detached.
Fire_LosesKeys ==
  /\ batch = {}
  /\ \E k \in Keys : coalescer[k] > 0 /\ batch' = {[key |-> k, rev |-> coalescer[k]]}
  /\ coalescer' = [k \in Keys |-> 0]
  /\ UNCHANGED <<log, restarts, worker, wm, boot, watcher, lanes, outcome, statusVars>>

\* revisionCoalescer.fire: one goroutine, so not while a batch is being submitted.
Fire ==
  /\ batch = {}
  /\ \E k \in Keys : coalescer[k] > 0
  /\ batch' = {w \in Work : w.rev > 0 /\ coalescer[w.key] = w.rev}
  /\ coalescer' = [k \in Keys |-> 0]
  /\ UNCHANGED <<log, restarts, worker, wm, boot, watcher, lanes, outcome, statusVars>>

\* processEntityBatch, in map iteration order.
SubmitBatch(work) ==
  /\ work \in batch
  /\ Submit(work)
  /\ batch' = batch \ {work}
  /\ UNCHANGED <<log, restarts, worker, wm, boot, watcher, coalescer, outcome, statusVars>>

\* repairFailedEntities: reconciliation work that completes no revision.
Repair(k) ==
  /\ k \in failedEntities
  /\ Submit([key |-> k, rev |-> 0])
  /\ UNCHANGED <<log, restarts, worker, wm, boot, watcher, coalescer, batch, outcome, statusVars>>

-----------------------------------------------------------------------------
(***************************************************************************)
(* processEntityWork: reconcileEntity, then Complete.                      *)
(***************************************************************************)
Take(l) ==
  /\ worker[l] = None /\ lanes[l] # <<>>
  /\ lanes' = [lanes EXCEPT ![l] = Tail(@)]
  /\ worker' = [worker EXCEPT ![l] =
       [key |-> Head(lanes[l]).key, rev |-> Head(lanes[l]).rev, pc |-> "read",
        src |-> 0, todo |-> Families, bad |-> FALSE]]
  /\ UNCHANGED <<log, restarts, wm, boot, watcher, coalescer, batch, outcome, statusVars>>

Fail == faults < MaxFaults /\ faults' = faults + 1

\* The authoritative read of reconcileEntity and the contract checks on the value.
ReadEntity(l) ==
  LET w == worker[l]
      src == LastOf(w.key, LastSeq)
      kind == IF src = 0 THEN "del" ELSE log[src].kind
  IN /\ w # None /\ w.pc = "read"
     /\ \/ \* the Get fails: readiness is withheld, the revision completes
           /\ Fail
           /\ failedEntities' = failedEntities \cup {w.key}
           /\ worker' = [worker EXCEPT ![l].pc = "complete"]
           /\ UNCHANGED resetState
        \/ /\ kind \in {"put", "del"}
           /\ worker' = [worker EXCEPT ![l].pc = "write", ![l].src = src]
           /\ UNCHANGED <<failedEntities, resetState, faults>>
        \/ \* a listing of the owned rows fails: nothing is deleted
           /\ kind = "del" /\ Fail
           /\ worker' = [worker EXCEPT ![l].pc = "write", ![l].src = src,
                                       ![l].todo = {}, ![l].bad = TRUE]
           /\ UNCHANGED <<failedEntities, resetState>>
        \/ /\ kind = "unreadable"
           /\ resetState' = TRUE
           /\ worker' = [worker EXCEPT ![l].pc = "complete"]
           /\ UNCHANGED <<failedEntities, faults>>
        \/ \* never completed: the watermark must not claim it was applied
           /\ kind = "mismatch"
           /\ resetState' = TRUE
           /\ failedEntities' = failedEntities \cup {w.key}
           /\ worker' = [worker EXCEPT ![l] = None]
           /\ UNCHANGED faults
     /\ UNCHANGED <<log, restarts, wm, boot, queues, rows, statusVars>>

(***************************************************************************)
(* One index family: every row the entity owns there is brought to the     *)
(* state that was read, or some row could not be written.  The put path    *)
(* (applyEntityIndexPlan, reconcileOwnedRows) is retried as a whole, so    *)
(* its outcome is that of the last attempt; the delete path is not.        *)
(***************************************************************************)
Deleted(src) == src = 0 \/ log[src].kind = "del"

FamilyOutcome(l, f) ==
  /\ \/ /\ rows' = [rows EXCEPT ![worker[l].key][f] = worker[l].src]
        /\ worker' = [worker EXCEPT ![l].todo = @ \ {f}]
        /\ UNCHANGED faults
     \/ /\ Fail
        /\ worker' = [worker EXCEPT ![l].todo = @ \ {f}, ![l].bad = TRUE]
        /\ UNCHANGED rows
  /\ UNCHANGED <<log, restarts, wm, boot, queues, failedEntities, resetState, statusVars>>

ReplaceFamily(l, f) ==
  /\ worker[l] # None /\ worker[l].pc = "write" /\ f \in worker[l].todo
  /\ ~Deleted(worker[l].src) /\ FamilyOutcome(l, f)

ClearFamily(l, f) ==
  /\ worker[l] # None /\ worker[l].pc = "write" /\ f \in worker[l].todo
  /\ Deleted(worker[l].src) /\ FamilyOutcome(l, f)

\* Mutant: the failure marker is cleared whatever the writes returned.
Settle_ClearsAlways(l) ==
  LET w == worker[l]
  IN /\ w # None /\ w.pc = "write" /\ w.todo = {}
     /\ failedEntities' = failedEntities \ {w.key}
     /\ worker' = [worker EXCEPT ![l].pc = "complete"]
     /\ UNCHANGED <<log, restarts, wm, boot, queues, rows, resetState, faults, statusVars>>

\* markEntityFailed or clearEntityFailed once every family was tried.
Settle(l) ==
  LET w == worker[l]
  IN /\ w # None /\ w.pc = "write" /\ w.todo = {}
     /\ failedEntities' = IF w.bad THEN failedEntities \cup {w.key}
                          ELSE failedEntities \ {w.key}
     /\ worker' = [worker EXCEPT ![l].pc = "complete"]
     /\ UNCHANGED <<log, restarts, wm, boot, queues, rows, resetState, faults, statusVars>>

\* Mutant: completion is not key-scoped, every revision up to rev is drained.
CompleteWork_AllKeys(l) ==
  LET w == worker[l]
  IN /\ w # None /\ w.pc = "complete"
     /\ pending' = WM!Without(pending, 1..w.rev)
     /\ worker' = [worker EXCEPT ![l] = None]
     /\ UNCHANGED <<log, restarts, observedHigh, observedHighAt, coveredRev, coveredAt,
                    delivered, boot, queues, outcome, statusVars>>

CompleteWork(l) ==
  LET w == worker[l]
  IN /\ w # None /\ w.pc = "complete"
     /\ IF w.rev > 0 THEN WM!Complete(w.key, w.rev) /\ UNCHANGED delivered
        ELSE UNCHANGED wm
     /\ worker' = [worker EXCEPT ![l] = None]
     /\ UNCHANGED <<log, restarts, boot, queues, outcome, statusVars>>

-----------------------------------------------------------------------------
(***************************************************************************)
(* computeIndexStatus: resetState, the watermark, the stream's LastSeq and *)
(* the failure count are read one after the other.                         *)
(***************************************************************************)
Publish(q, ready, target, bootstrapped) ==
  /\ indexBootstrapped' = bootstrapped
  /\ status' = [ready |-> ready, target |-> target, bootstrapComplete |-> bootstrapped]
  /\ reader' = [reader EXCEPT ![q] = IdleReader]

StatusReset(q) ==
  /\ reader[q].pc = "idle"
  /\ IF resetState
     THEN Publish(q, FALSE, 0, indexBootstrapped)
     ELSE reader' = [reader EXCEPT ![q].pc = "watermark"] /\ UNCHANGED <<status, indexBootstrapped>>
  /\ UNCHANGED <<log, restarts, worker, wm, boot, queues, outcome>>

\* Mutant: the highest delivered revision is taken for the applied floor.
StatusWatermark_Observed(q) ==
  /\ reader[q].pc = "watermark"
  /\ reader' = [reader EXCEPT ![q].pc = "target", ![q].indexed = observedHigh]
  /\ UNCHANGED <<log, restarts, worker, wm, boot, queues, outcome, status, indexBootstrapped>>

StatusWatermark(q) ==
  /\ reader[q].pc = "watermark"
  /\ reader' = [reader EXCEPT ![q].pc = "target", ![q].indexed = WM!Indexed]
  /\ UNCHANGED <<log, restarts, worker, wm, boot, queues, outcome, status, indexBootstrapped>>

StatusTarget(q) ==
  /\ reader[q].pc = "target"
  /\ \/ /\ reader' = [reader EXCEPT ![q].pc = "publish", ![q].target = LastSeq]
        /\ UNCHANGED <<status, indexBootstrapped, faults>>
     \/ \* BucketLastSeq fails
        /\ Fail
        /\ Publish(q, FALSE, 0, indexBootstrapped)
  /\ UNCHANGED <<log, restarts, worker, wm, boot, queues, rows, failedEntities, resetState>>

\* Mutant: the end of the enumeration alone counts as the finished build.
InitialBuildApplied_Enumerated(indexed) == initialEnumerationComplete

\* initialBuildApplied, reading the flag before the target.
InitialBuildApplied(indexed) == initialEnumerationComplete /\ indexed >= bootstrapTarget

\* ComputeIndexStatus, applyKnownIncompleteOverrides and latchBootstrap.
StatusPublish(q) ==
  LET caughtUp == reader[q].target > 0 /\ reader[q].indexed >= reader[q].target
      empty == reader[q].target = 0 /\ initialEnumerationComplete
      ready == (caughtUp \/ empty) /\ failedEntities = {}
  IN /\ reader[q].pc = "publish"
     /\ Publish(q, ready, reader[q].target,
                indexBootstrapped \/ ready \/ InitialBuildApplied(reader[q].indexed))
     /\ UNCHANGED <<log, restarts, worker, wm, boot, queues, outcome>>

-----------------------------------------------------------------------------
StatusStep(q) == StatusReset(q) \/ StatusWatermark(q) \/ StatusTarget(q) \/ StatusPublish(q)

WorkerStep(l) ==
  \/ Take(l) \/ ReadEntity(l) \/ Settle(l) \/ CompleteWork(l)
  \/ \E f \in Families : ReplaceFamily(l, f) \/ ClearFamily(l, f)

Next ==
  \/ \E k \in Keys, d \in Kinds : Commit(k, d)
  \/ \E r \in 1..LastSeq : Receive(r)
  \/ ReceiveSentinel \/ RaiseEnumerated \/ WatcherSubmit \/ Fire
  \/ \E w \in batch : SubmitBatch(w)
  \/ \E k \in Keys : Repair(k)
  \/ \E l \in Lanes : WorkerStep(l)
  \/ \E q \in Readers : StatusStep(q)
  \/ Restart

Spec == Init /\ [][Next]_vars

(***************************************************************************)
(* Every goroutine keeps running.  A send blocked on a full lane is served *)
(* in arrival order by the Go channel, hence strong fairness for the       *)
(* submitters; nothing obliges a commit, a fault or a restart to happen.   *)
(***************************************************************************)
Fairness ==
  /\ WF_vars(\E r \in 1..LastSeq : Receive(r)) /\ SF_vars(WatcherSubmit)
  /\ WF_vars(ReceiveSentinel) /\ WF_vars(RaiseEnumerated)
  /\ WF_vars(Fire) /\ SF_vars(\E w \in batch : SubmitBatch(w))
  /\ \A k \in Keys : SF_vars(Repair(k))
  /\ \A l \in Lanes : WF_vars(WorkerStep(l))

FairSpec == Spec /\ Fairness

-----------------------------------------------------------------------------
(* Properties                                                              *)

\* Every variable has its type, and no lane channel holds more than its capacity:
\* the watcher, the coalescer and the repair loop block on a full lane.
TypeOK ==
  /\ \A r \in DOMAIN log : log[r] \in [key : Keys, kind : KindSet]
  /\ rows \in [Keys -> [Families -> 0..MaxRev]]
  /\ WM!TypeOK
  /\ startSeq \in 0..MaxRev /\ bootstrapTarget \in 0..MaxRev
  /\ {initialEnumerationComplete, indexBootstrapped, resetState} \subseteq BOOLEAN
  /\ watcher \in [pc : {"receive", "submit", "sentinel"}, work : Work \cup {None}]
  /\ coalescer \in [Keys -> 0..MaxRev] /\ batch \subseteq Work
  /\ \A l \in Lanes : /\ Len(lanes[l]) <= LaneSize
                      /\ \A i \in 1..Len(lanes[l]) : lanes[l][i] \in Work
                      /\ worker[l] # None => worker[l].key \in Keys
  /\ failedEntities \subseteq Keys
  /\ \A q \in Readers : reader[q].pc \in {"idle", "watermark", "target", "publish"}
  /\ status \in [ready : BOOLEAN, target : 0..MaxRev, bootstrapComplete : BOOLEAN]

(***************************************************************************)
(* The honest-readiness promise of the envelope: a Ready answer for target *)
(* T means that every index family of every entity reflects a revision at  *)
(* least as new as the entity's newest one at or below T, whatever was     *)
(* being delivered, coalesced, retried or restarted while the four inputs  *)
(* of the answer were read.                                                *)
(***************************************************************************)
ReadyIsHonest ==
  status.ready =>
    \A k \in Keys, f \in Families : rows[k][f] >= LastOf(k, status.target)

(***************************************************************************)
(* A completed revision is in the index or known not to be: processEntity- *)
(* Work may complete a revision whose writes failed only because the       *)
(* failure was recorded first, and a later success is what clears it.      *)
(***************************************************************************)
NoSilentStaleness ==
  \A r \in DOMAIN delivered \ DOMAIN pending :
    \/ \A f \in Families : rows[delivered[r].key][f] >= r
    \/ delivered[r].key \in failedEntities
    \/ resetState

(***************************************************************************)
(* bootstrap_complete is raised by a finished initial build only: every    *)
(* entity stored when the watch opened is indexed, or recorded as failed.  *)
(***************************************************************************)
BootstrapIsHonest ==
  indexBootstrapped =>
    \A k \in Keys :
      \/ \A f \in Families : rows[k][f] >= LastOf(k, startSeq)
      \/ k \in failedEntities
      \/ resetState

(***************************************************************************)
(* The pipeline uses the watermark as pkg/revlag requires: every step      *)
(* leaves it alone, delivers in ascending order, completes a revision that *)
(* was delivered for its key, or starts over with an empty one (a restart).*)
(***************************************************************************)
UsesWatermark == WM!Init /\ [][UNCHANGED WM!vars \/ WM!Next \/ WM!Init']_vars

(***************************************************************************)
(* Every committed state is eventually indexed: no queue strands a         *)
(* revision, and the repair loop heals what a fault left stale.            *)
(***************************************************************************)
EventuallyIndexed ==
  <>[](/\ DOMAIN pending = {} /\ failedEntities = {}
       /\ \A k \in Keys, f \in Families : rows[k][f] = LastOf(k, LastSeq))
=============================================================================
