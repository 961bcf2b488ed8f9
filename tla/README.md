# TLA+ verification of semstreams

semstreams is a stream-processing framework around a knowledge graph kept in
NATS JetStream. Entities live in one key/value bucket, `ENTITY_STATES`; the
graph-ingest component writes it, index components watch it and derive further
buckets, and everything else asks those components for answers. This directory
holds TLA+ models of the parts where concurrency, redelivery, restarts and
stale reads decide whether the graph is right: the write path (graph-ingest),
the read model (graph-index), the libraries they stand on (the keyed worker
pool, the revision watermark, the in-memory graph view), and three consumers of
work that must survive crashes and redeliveries: the agent loop with its record
and its terminal owner, the request lane of the model component and the executor
of gated plans.

Paths below are relative to the repository root; every modelled definition is
tied to its source lines in `PROJECT.json` under `map`.

    tlc -workers 2 -config MCLibraries.cfg MCLibraries      # one run
    tlapm WatermarkProofs.tla                               # one proof module

## 1. The system

### Components

| component | state it keeps | operations | talks to |
|---|---|---|---|
| graph-ingest, Graphable lane (`processor/graph-ingest/keyed_ingest.go`) | lane queues, memory and durable redelivery guard | consume, guard, merge, stamp, acknowledge | JetStream consumers, `ENTITY_STATES`, guard bucket |
| graph-ingest, entity store (`component.go`, `canonical_mutations.go`, `mutation_runtime.go`, `query.go`, `poison_inventory.go`) | query cache and its generation, poison inventory, boot sweep | create, append, reconcile, delete, merge, exact and batch query | `ENTITY_STATES` |
| graph-index, pipeline (`processor/graph-index/component.go`, `revision_coalescer.go`, `keyed_dispatcher.go`, `owner_reconcile.go`) | watermark, coalescer, lanes, failed set, reset latch | watch, coalesce, reconcile, repair | `ENTITY_STATES` watch, index buckets |
| graph-index, readiness (`processor/graph-index/watermark.go`) | bootstrap target, enumeration flag, bootstrap latch | compute and publish the status envelope | readiness bucket, gate consumers |
| watermark (`pkg/revlag`) | highest observed revision, in-flight map, covered pair | Observe, Complete, Indexed, IndexedAt | used by graph-index and graph-embedding |
| keyed pool (`pkg/dispatch`) | lane channels, stop state | Submit, SubmitBlocking, Stop | used by graph-ingest and gated-dag |
| readiness gate, graph-query (`graph/`, `processor/graph-query`) | cached status | gate, query | graph-index status |
| graph view (`pkg/graphview`) | projection, poison records, coalesced deltas, subscriptions | Start, Stop, apply, fan out, SnapshotAndSubscribe, Unsubscribe | a KV bucket's watch, local subscribers |
| gated DAG (`pkg/gateddag`, `processor/gated-dag`) | in-flight hints, dispatch queue, phase of the fan-out; markers and claims in the graph | evaluate, claim, dispatch, unclaim, detect stalls | `ENTITY_STATES` through the mutation API, dispatch stream |
| request lane of agentic-model (`processor/agentic-model`, `internal/deliverylane`, `natsclient/delivery_settlement.go`) | admission latch, fatal result, consume handle; responses on the retained stream | deliver, heartbeat, settle, latch, drain, Start, Stop | durable consumer, language model, response stream |
| agent loop (`processor/agentic-loop`) | loops held in memory; loop record, terminal marker, retained requests, terminal events | birth, answer, retry, cancel, commit of a terminal, rebuild | task, response and signal consumers, loop bucket, request stream, graph |
| lifecycle manager, rules (`pkg/lifecycle`, `processor/rule`) | phases, cooldowns | transitions, evaluation | `ENTITY_STATES` through the mutation API |
| natsclient | connection, KV wrappers | CAS retry, requests | NATS |
| service and component managers | run state | start, stop | everything |
| adapters, parsers, vocabularies, algorithms | little or none | per-message transformation | |

`PROJECT.json` lists all of them with their status.

### How they interact

    JetStream streams --consume--> keyed lanes --merge (CAS)--> ENTITY_STATES
                                        |                          |    ^
                                   guard bucket          watch ----+    |
                                                          |             |
            requests --canonical verbs, queries-----------|-------------+
                                                          v
                          watcher -> coalescer -> lanes -> index buckets
                             |                     |
                             +---- watermark ------+----> readiness envelope

### Which behaviours are hard

* Redelivery: JetStream delivers a message again after a Nak, an expired
  acknowledgement wait or a restart, in any order with respect to its
  successors, while the merge is last-writer-wins per predicate.
* Completion out of order: index workers finish revisions in any order and the
  status must still name a floor below which everything is applied.
* Torn reads: a status is computed from four sources, read one after the other
  while all of them change.
* Partial failure: some index families of an entity are written, others are
  not; the commit landed and the stamp did not; the write landed and its answer
  was lost.
* Restarts: queues, caches, guard tiers and inventories are in memory, the
  buckets are not.
* Shutdown: submitters, lanes, the stop coordinator and several callers of
  Stop wait for one another.
* Two settlements of one delivery: the work, the heartbeat, the context of the
  delivery and a panic race to decide it, and a request whose response was
  stored without an acknowledgement comes back.
* One loop, several holders: two processes and three lanes each hold a copy of a
  loop in memory, publish before they record, and end it in different ways at
  the same time.
* Snapshot and deltas: a subscriber attaches between two ticks while writes are
  applied, the watch dies, and Start, Stop and Unsubscribe overlap.
* Claims: a crash between claim and publish, a publish whose outcome is unknown,
  a rollback that fails, and a pass over entities read one after another.
* Caching: readers repopulate a cache that writers invalidate; poison is
  detected on one revision and recorded after another was written.

The list with lines and covering properties is `hazards` in `PROJECT.json`.

### What makes each part correct

* Watermark: the reported commit time is never newer than the coverage it is
  reported for, is exact when nothing is in flight, and the floor is monotonic.
* graph-index: a completed revision is in every index family or known not to
  be; Ready and bootstrap-complete are honest; every commit is indexed in the end.
* graph-ingest lane: an acknowledged arrival is never overwritten by an older
  one of its stream; nothing is acknowledged past a stamp that is not durable;
  every message is settled; the indexing profile is kept.
* Entity store: no cached value is older than an answered write; the poison
  inventory neither keeps a record of a repaired entity nor loses one of a
  poisoned entity.
* Keyed pool: accepted work runs once, in order, and before Stop reports
  success; Stop ends.
* Graph view: snapshot plus deltas is the view, no subscriber goes back, no view
  without a watcher is served, Stop leaves nothing running, writes reach
  subscribers.
* Request lane: a request leaves the stream only with its answer retained, is
  answered again only where a publish stayed in doubt or processes overlapped, and a
  loss of control is on record before anything acts on it.
* Agent loop: how it ended is decided once, its record never goes back, an
  acknowledged task has its loop, no awaited answer is acknowledged unused.
* Gated DAG: prerequisites first, one dispatch per unit, every unit whose
  prerequisites are done ends, and a unit that cannot is reported.

## 2. The modules

### Watermark (`pkg/revlag/watermark.go`)

The five fields of the struct are the variables, and `delivered` is a history
variable. Every method holds the mutex throughout and is one action: `Observe`,
`Complete` (with `Drained`, `AdvanceCovered`) and the pure `Indexed`. `Deliver`
and `Finish` are the callers: the ordered consumer delivers ascending revisions
with non-decreasing commit times, and workers complete delivered revisions in
any order, also more than once. Commit times are naturals, 0 being Go's zero
time.

### GraphIndex (`processor/graph-index`)

One action per step of each goroutine:

| goroutine | actions |
|---|---|
| watcher | `Receive`, `ReceiveSentinel`, `RaiseEnumerated`, `WatcherSubmit` |
| coalescer | `Fire`, `SubmitBatch` |
| repair loop | `Repair` |
| lane worker | `Take`, `ReadEntity`, `ReplaceFamily` / `ClearFamily`, `Settle`, `CompleteWork` |
| status computation | `StatusReset`, `StatusWatermark`, `StatusTarget`, `StatusPublish` |
| environment | `Commit`, `Restart` |

The module instantiates `Watermark` (`WM`) and calls its `Observe`, `Complete`
and `Indexed`. `UsesWatermark` states, as a refinement up to restarts, that every
step of the pipeline leaves the watermark alone, is a step of `Watermark` or, in a
restart, starts over with an empty one. What is proved of the watermark therefore
holds for graph-index (section 5).

Abstractions:

* What an index family stores for an entity is the newest revision that all its
  rows are known to reflect. A clean replacement moves that bound to the
  revision that was read; a failed one leaves a mixture of rows and the old bound.
* The alias index is written outside owner reconciliation and is not a family.
* `buildEntityIndexPlan` cannot fail on a state that passed the contract: the
  index keys of contract-valid parts stay under the 1024-byte key budget.
* The retries of `applyEntityIndexPlan` are one outcome, that of the last attempt.
* Two repairs of one entity may be queued at once; the code's tick interval only
  makes that rarer.

### KeyedPool (`pkg/dispatch/keyed_pool.go`)

A caller submits one item, itself. `Enter` is the locked stopped check with the
submit counter, `Send` and `GiveUp` are the cases of the select; `Receive`,
`RunOne`, `SeeDrain` and `Exit` are the lane loop; `CallStop`, `CloseDrain`,
`CloseStopDone` and `StopReturns` are Stop and its coordinator. A select with
several ready cases takes any of them. `CancelRun` and `CancelCaller` cancel the
two contexts at any time. `accepted` and `processed` are history variables.

### GraphIngest (`processor/graph-ingest/keyed_ingest.go` and the merge)

`Consume` is the JetStream callback, `Take` to `Acknowledge` the lane
goroutine, one action per KV call: guard read, merge, durable stamp, memory
stamp and acknowledgement. A call may fail before or after its effect. An
entity is the map from a predicate to the message its triples came from, and
`Merge` is `MergeTriples` plus the indexing-profile rule of
`mergeEntityOnLane`. `Repair` is the operator who removes poisoned bytes. The
model of JetStream is external: first deliveries follow the stream, an
unsettled message may be delivered again, at most `MaxDeliver` times, and the
server keeps the first settlement.

### EntityStore (`processor/graph-ingest`, one key)

Requests run concurrently, a step per access to shared state; `proc[p]` holds
where a request is, the revision it read or uses as proof, the revision it
expects or has committed, and the cache generation it captured. The shared
state is the stored entry, the query cache with its generation and the key's
record in the poison inventory.

| operation | path |
|---|---|
| batch query | `LookupCache`, `LoadGen`, `Get`, `ValidRead`, `Repopulate` |
| exact query | `Get`, `ValidRead` |
| create | `Create`, `Clear`, `Invalidate` |
| merge of the lane | `Merge`, `ClearLookup`, `ClearGet`, `Clear`, `Invalidate` |
| append | `AppendTriples`, then as the merge, or `Get`, `ValidRead` if nothing was new |
| reconcile, delete | `Get`, `ValidRead`, `Reconcile` / `Delete`, `Clear`, `Invalidate` |
| detection of poison | `Record`, `RecordInvalidate`, `Verify`, `Drop`; after a failed CAS cycle first `Classify` |
| boot sweep | `Get` and the detection, by the worker `Sweep` |

Abstractions: one key (keys share neither cache entries nor records; the
generation is shared by all keys in the code, and other keys' bumps only prevent
repopulation); a value is its revision and whether it decodes; `UpdateWithRetry`
is one step, since a losing attempt re-reads; the suffix index and the hierarchy
inference, refreshed after the commit on a best-effort basis, are left out. As
the comment at `invalidateEntityCacheEntry` requires, a KV read sees every
earlier acknowledged write.

### GraphView (`pkg/graphview/view.go`, `subscription.go`)

A step is a critical section of the projection's or of a subscription's mutex,
or a channel operation. A value is the revision that wrote it; what the decoder
makes of a write is its kind.

| goroutine | actions |
|---|---|
| caller of Start | `Start`, `OpenFails` / `OpenSucceeds`, `AdmitWatcher` |
| watcher | `ProcessEntry` (with `Apply`, `ApplySkip`), `MarkCaughtUp`, `FailClosed`, `FailTerminates`, `WatcherExits` |
| ticker | `FanOut` (with `Enqueued`), `TickerExits` |
| caller of Stop | `Stop`, `StopTerminates`, `StopCancels`, `StopReturns` |
| delivery goroutine of a subscription | `RunWakes`, `Take`, `RunSends`, `RunEnds`, `RunDetaches`, `RunDetached` |
| subscriber | `Attach`, `Receive`, `CancelSub`, `Unsubscribe`, `Unsubscribed` |
| bucket (external) | `Write`, `LoseWatch`, `CancelStart` |

`copy` is a history variable: what a subscriber makes of its snapshot and its
deltas.

### ModelLane (`processor/agentic-model`, `internal/deliverylane`, `natsclient/delivery_settlement.go`)

The server delivers one request at a time; the callback admits it and starts the
work goroutine, and whichever of the work's decision, a failed heartbeat, the end
of the delivery's context or a panic comes first settles it. The work parses,
looks for a retained response, calls the model and publishes. An outcome that is
neither acknowledged nor retried latches the lane; the observer drains the
consume handle once, racing Stop and Start. Every branch the code has for a
failure is a step that spends one of `MaxFaults`; a crash loses everything but
the two streams. What is in the request and what the model answers is left out,
as are throttling and streaming.

`publishResponse` carries no message id, so publication is at-least-once. A publish
without acknowledgement (`Unacknowledged`) puts the response on the `wire`, from where it
`Lands` at once, at any later time or never. Other processes on the same durable consumer
take requests as well, in coarser steps: `OtherTakes` is the delivery with the retained
read, `OtherAnswers` the publish with the settlement, `OtherEnds` a crash or a latched lane,
and `others` counts those between the two. `doubts` is a history variable that counts how
often a second response to a request became possible: at each publish without
acknowledgement, and at each retained read that finds nothing while another process is past
its own.

### GatedDag (`pkg/gateddag`, `processor/gated-dag`)

`EvalReads`, `EvalDecides`, `EvalSubmits` and `EvalEnds` are one pass of
`reEvaluate` under its mutex: the units are read one by one while they change,
then the brain (`DeriveStatus`, `Evaluate`, `Stalled`) decides over what was
read, then dispatches are submitted to the bounded queue. `Take`, `Claim`,
`Publish`, `Unclaim` and `ClearHint` are a dispatch worker; `Crash` and `Start`
lose and rebuild everything but the graph and the stream. The consumer that runs
units, the duplicate window of the stream and the operator who resets a unit are
external. A claim is fresh or older than `stranded_after`. Each unit's history
(dispatches stored, completed, reset, a repeated publish outside the window) is
what the properties speak of; `eval.done`, also history, holds the units that were done,
and not reset, at some moment of the running pass.

### AgentLoop (`processor/agentic-loop`)

One loop, several processes. Durable are the loop record (`Create` at birth,
compare-and-swap afterwards), the marker `COMPLETE_<loop>` (`Create` only), the
request stream and the terminal events. `mem[p]` is what a process holds: the
loop's state, the request its copy names, the request it waits for and the record
revision it observed; "no loop" is the released state. `op[p][l]` is where a lane of
the process is.

| lane | actions |
|---|---|
| task | `classifyRedeliveredTask`, `HandleTask`, `WriteSpawnIdentity`, `createLoopState`, `terminateOversizedBirth`, `publishFirstRequest` |
| response | `settleResponseWithoutLoop`, `restoreLoopFromEvidence`, `orderResponse`, `settleRequest`, `HandleModelResponse`, `persistHandlerResult`, `publishNextRequest`, `stampPublishedRequest`, `writeLoopRecord` |
| cancel | `handleCancelSignal`, `settleUncancellableLoop`, `adoptDurableCancel`, `writeRecordCancelled` |
| any lane | `createTerminalMarker`, `publishTerminal`, `persistTerminal` (the terminal owner), `settleTerminalGuard`, `ReadFails` |
| environment | `Deliver`, `LeaseEnds`, `Crash`, `Model` |

A call that leaves the process is a step, and so is each access to the shared
memory that the code makes under its own lock: `orderResponse` is `GetLoop` of
`HandleModelResponse`, `settleRequest` its `OutstandingRequest` and `SettleRequest`, and
another lane may change or release the loop in between. A handler returns nil (`Ack`), a
plain error (`Retry`), a permanent one (`Terminate`: a record above the payload ceiling at
birth) or a fatal one (`Quarantine`, which also latches the lane, as
`internal/deliverylane` does). A failing KV call or publish takes effect or not; the
code treats it as unknown. A record, marker or retained request that cannot be read is
retried (`ReadFails`), at any time and at no cost in faults.

Abstractions: the loop has two requests, the first and
the retry of a truncated answer, and what they say is left out; a model answer is
complete or truncated, and every answer may fail the loop, which stands for an error, a
deadline and an iteration limit; the requests in `Repeated` may be answered again once
their answer was settled, with another outcome, as ModelLane allows. The stamp of a
terminal on the graph belongs to the publish of its event; there is one cancel. A read of
the record followed by a compare-and-swap against the revision read is one step (in
`settleResponseWithoutLoop` and `writeRecordCancelled`), and the swap that loses is the
alternative that retries. A compare-and-swap needs a revision that the process has seen:
revision 0, no record, is refused before the call. `createTerminalMarker` has an arm for a
deployment without a loop bucket and an outcome without an event, which none of the three
lanes reaches and which is left out. The calls of tools, approvals and later turns are not
modelled.

### Suites

Two modules put components that share no state into one run: `MCLibraries` the
watermark, the view, the request lane and the gated DAG for their safety, and
`MCProgress` the keyed pool, the view, the request lane, the DAG, the ingest lane and
the index pipeline for what must eventually happen. The variable `focus`, chosen in the
initial state, says which one runs while the others stay in their initial states. The
states are the states of each component in turn, never products of them, and a property
of one component is asked while that component runs. In `MCProgress` the fairness of the
pool is part of the specification and that of each other component is the hypothesis of
its property. The constants of the components are constants of `MCLibraries`, with what
the proofs need of them in `SuiteAssumption`; `EveryWrite` and `Chain` are the values that
its configuration gives to the writes of the view and the plan. `MCIndex` does the same with two configurations of GraphIndex, on the same
variables. The entity store, the ingest lane and the agent loop have runs of their own.
The suites state no interaction; the one refinement between components is
`UsesWatermark`.

## 3. The runs

Every run finishes within minutes on two cores. `pass` runs find no violation;
for each of their properties `PROJECT.json` names a mutated definition (a dropped
guard, a missing reset, an off-by-one) under which the same run finds one.

| run | instance | checks |
|---|---|---|
| `libraries` | watermark: 2 keys, 5 revisions, 3 commit times; view: 2 keys, 3 writes of every kind, 1 subscription, 1 ending; lane: 2 requests, one malformed, 2 deliveries, 2 faults, other processes on the consumer; DAG: 2 units in a chain, 1 worker, queue of 1, 1 fault, 1 reset | `NeverNewer`, `ExactWhenCaughtUp`, `FloorMonotonic`; `ComponentsTypeOK`; `SnapshotExact`, `NeverStale`, `NoFrozenView`; `AckedIsAnswered`, `RepeatedOnlyInDoubt`, `FatalIsDeclared`; `DependencyOrder`, `OnceEach` |
| `progress` | pool: 3 callers on one lane of depth 1 (2 blocking, 2 with the same key), an idle lane, 1 stopper; view: 2 writes; lane: 1 fault; DAG: both failure policies, 1 fault, no reset; ingest lane: undecodable, invalid and two valid messages, 2 faults, 3 deliveries; index pipeline: 2 keys on one lane, coalescing, 2 commits, 1 fault, 1 restart; each fair | `LaneOrder`, `StopMeansDrained`, `NothingStranded`; `StopCompletes`; `NothingHangs`, `Converges`; `LaneProgress`; `AllFlow`; `IngestSettles`; `EventuallyIndexed` |
| `index` | pipeline: 2 keys on one lane of capacity 1, coalescing, puts, deletes and unreadable states, 3 commits, 1 fault; readiness: 2 keys with a lane each, a status computation, puts, deletes and mismatched identities, 2 commits, 1 fault, 1 restart | `TypeOK`, `NoSilentStaleness`, `ReadyIsHonest`, `BootstrapIsHonest`, `UsesWatermark` |
| `ready_race` | 1 key, puts and unreadable states, a heartbeat | violates `ReadyIsHonest` |
| `ingest` | 3 valid and 1 refused message of 2 streams for one entity, poisoned at start, 2 deliveries each, memory tier of 1, 2 faults, 1 restart | `TypeOK`, `MemNeverAhead`, `AckedNotRegressed`, `AckedIsCovered`, `ProfileImmutable` |
| `agent_loop` | 2 processes, 2 requests, the first answered any number of times, a cancel, unreadable records at any time, 1 fault of any kind (KV call, publish, graph birth, oversized record, expired lease, crash) | `CommitOrder`, `TaskNotLost`, `AnswerNotLost`, `RecordForward` |
| `ingest_poison` | 2 messages of one stream, poisoned entity, no fault | violates `ArrivalNotDestroyed` |
| `pool_backstop` | the pool with one stopper | violates `StopUnblocksSubmit` |
| `entity_store` | 2 requests of every kind and the boot sweep, 4 revisions, 1 fault, 1 restart | `TypeOK`, `CacheCoherent`, `NoStrandedRecord`, `RepoisonKept` |
| `entity_delete` | 2 requests (create, delete, batch query), 4 revisions, no fault | violates `DeleteRepairs` |
| `stranded` | the DAG with 1 fault, no reset | violates `StrandedSurfaces` |
| `agent_intake` | the loop with 1 process and a failing graph birth | violates `IntakeOpen` |

### What the properties say

* `NeverNewer`, `ExactWhenCaughtUp`, `FloorMonotonic`: a staleness computed from
  the watermark is never under-reported, is exact when caught up, and does not
  jump back.
* `NoSilentStaleness`: the worker completes a revision even when its writes
  failed; that is sound only because the failure (or the reset latch) is on
  record first and only a later success removes it.
* `ReadyIsHonest`: a published Ready for target T means that every family of
  every entity reflects its newest revision at or below T, although the inputs
  of the answer were read at four different moments.
* `BootstrapIsHonest`: the latch is raised only by a finished initial build. The run has
  one status computation at a time; two that overlap are covered by the theorem
  `BootstrapNeverLies`, for any number of them.
* `EventuallyIndexed`: no queue strands a revision and the repair loop heals.
* `MemNeverAhead`, `AckedIsCovered`, `AckedNotRegressed`: the memory tier is
  never ahead of the durable one; what is acknowledged is covered by a durable
  stamp; hence no eviction, restart or redelivery lets an older message of a
  stream overwrite an acknowledged newer one. Between a commit whose stamp
  failed and its own redelivery an older message can still be applied over it;
  `AckedNotRegressed` is about acknowledged messages and does not exclude that.
* `ProfileImmutable`: the indexing profile an entity was created with survives
  every later arrival.
* `IngestSettles`: with fewer faults than deliveries and no poisoned state every
  message ends acknowledged or terminated.
* `LaneOrder`: per lane, accepted = processed, then the item in hand, then the
  buffer; through panics, drains and aborts. `NothingStranded`,
  `StopMeansDrained`: a submit that passed the stopped check before Stop is
  drained before Stop returns nil. `StopCompletes`: Stop ends.
* `SnapshotExact`: what a subscriber holds once the deltas on their way have
  arrived is what the projection holds, for every key and any tick, attach and
  apply in between. `NeverStale`: no delta on its way is older than what the
  subscriber knows. `NoFrozenView`: a live view and every attached subscription
  have a watcher; a Stop that returned left no goroutine and no open watch.
  `NothingHangs`, `Converges`: Stop returns, ended subscriptions close, and a
  subscriber of a view that stays live comes to hold the bucket's values.
* `AckedIsAnswered`: an acknowledged request has its response on the stream, through
  lost publish acknowledgements, failed heartbeats, redeliveries and crashes; a
  terminated request was malformed. `RepeatedOnlyInDoubt`: there may be a second
  response, as `openspec/specs/agentic-model/spec.md` says ("PubAck uncertainty MAY
  repeat the response"), but the responses of a request, on the stream or still on
  their way, exceed one by no more than its `doubts`: publishes without
  acknowledgement, and retained reads that overlapped another process. A redelivery, a
  failed settlement or a restart after the answer was stored repeats nothing.
  `FatalIsDeclared`: health reports the loss of control before the observer acts,
  a latched lane runs no work, the handle is drained once. `LaneProgress`: the lane
  always comes to rest.
* `DependencyOrder`: no unit is dispatched before its prerequisites completed, and
  no fan-out is complete before its units are, although a pass reads its units at
  different moments. A prerequisite that was reset before the pass began does not
  count: each prerequisite of what a pass submits was done, and not reset, at some
  moment of that very pass. One that is reset after the pass read it still counts, as
  in the code, which reads each entity once. `OnceEach`: a unit never reset has at most one stored
  dispatch, as long as the duplicate window outlives the repetition of a failed
  publish. `AllFlow`: a unit whose prerequisites are done ends, unless the policy
  holds it back or a fault left its claim with nothing behind it.
* `CommitOrder`: whichever processes and lanes end a loop, every terminal event is of
  the kind the marker holds, and no record turns terminal before an event is out.
  Revision 1 is left out: a cancel that lands between HandleTask and the Create of the
  record is written by the birth itself, ahead of its marker and event, and a crash in
  between leaves what the comment above `commitTerminal` calls impossible, "a terminal
  record whose event was never published". No property covers that hazard.
* `TaskNotLost`: an acknowledged task has a record, and the request a live record names
  is on the stream, through failed births, refused births and crashes.
* `AnswerNotLost`: without a fault, an answer is acknowledged under a live record that
  waits for it only while the process that ended the loop commits that, or once that end
  was published. The second case is real and needs no fault. A cancel ends the loop in
  memory and creates its marker; an answer in work on the same process has its transition
  refused, `handleLoopFailure` releases the loop, and the redelivered answer restores it
  live from the record. The cancel, whose marker was its own, then renders the record
  from that live memory (`terminal_owner.go:189-198`) and releases the loop, between the
  answer's `GetLoop` and its `OutstandingRequest`; the answer is acknowledged as "already
  applied", and the record stays live under a cancelled marker and event. With a fault
  the property does not hold before the event either: an answer that meets a loop being cancelled is retried, comes back as
  "already applied" because its outstanding mark is gone, and is acknowledged; if the
  commit of the cancel then fails, the live record waits for an answer nobody will
  deliver again.
* `RecordForward`: a loop that ended never runs again and its record never names an
  older request, whichever process writes it.
* `CacheCoherent`: once a writer has answered, no cached value is older than its
  commit, however slow the readers are.
* `NoStrandedRecord`: with all requests over and no failed call, an entity whose
  stored value was written through the API has no poison record.
* `RepoisonKept`: a proof of validity for an older revision never erases the
  record of poison that is still stored.

### Bounds and why they are enough

* Two keys are what an ordering between entities needs; sharing a lane
  exercises blocking and queueing, a lane each exercises parallel workers. Three
  commits allow update, delete and recreate of one key around another key's
  revision.
* A lane capacity of 1 makes every submitter block; a memory tier of 1 with two
  streams makes every second stamp evict.
* Two deliveries of a message allow it to come back after its successor was
  applied; two faults allow a failed stamp followed by a lost acknowledgement. The
  liveness instance has a third delivery, so that faults never use up all of them.
* Three writes to a view let a key be set, removed and set again around an attach;
  one ending is a loss, a cancellation, a Stop or an Unsubscribe, each of which
  races the rest of the view; two writes are enough for a subscriber to miss one.
* Two faults in the request lane allow a response without its acknowledgement
  followed by a failed heartbeat or a crash on the redelivery.
* A chain of two units is the smallest plan with an order; one fault may be the
  crash, the failed claim, publish or rollback or the lost message, and the reset
  makes the finished prerequisite dispatchable again under a dispatched dependent.
* Two processes and three lanes give every pair of racing writers of a loop; two
  requests are the smallest loop that moves on; one fault of each kind, at every call,
  is what the comments of the code reason about, and a second one multiplies the states
  beyond what can be searched.
* Two requests plus the sweep give every pair of racing operations on a key;
  four revisions allow poison, repair, re-poison and another repair. The
  invariants that matter are proved without these bounds (section 5).
* Five revisions in the watermark leave room for a gap below, inside and above
  the drained set.
* Symmetry: keys together with their lanes, serving goroutines of the store and
  processes of the loop are interchangeable; it is used only for invariants and
  step properties, never for liveness.
* `CHECK_DEADLOCK FALSE` everywhere: a bounded instance stops when its commits,
  messages and requests are used up, and an idle system has nothing to do.

### Fairness

* GraphIndex: weak fairness for each goroutine (the Go scheduler runs what can
  run and KV calls return), strong fairness for the watcher, the coalescer and
  the repair loop when they submit, because a Go channel serves blocked senders
  in arrival order. Commits, faults and restarts are never forced.
* GraphIngest: weak fairness for the lanes; strong fairness for a delivery,
  because JetStream delivers what it stores and redelivers what is not settled,
  and a callback blocked on a full lane gets a place in turn.
* GraphView: weak fairness for each goroutine once it exists and for a subscriber
  that reads its channel. Nobody has to write, stop, cancel or unsubscribe.
* ModelLane: weak fairness for delivery, lease expiry, callback, work, observer,
  drain and the steps of Start and Stop once called; no fault is forced.
* GatedDag: weak fairness for the pass (the backstop ticker fires), each worker, the
  consumer and the passing of the duplicate window; strong fairness for the worker
  that waits for the evaluation mutex, which Go hands to waiters in turn. Nothing
  forces a restart.
* KeyedPool: weak fairness for submitters inside the select, lanes, the
  coordinator and Stop's select. Nobody has to cancel a context or call Submit
  or Stop, and Process is assumed to return.

## 4. Where code and documentation disagree

| run | what happens |
|---|---|
| `ready_race` | `computeIndexStatus` tests the reset latch before it reads the watermark. An unreadable state latches the reset without marking the entity failed and its revision completes, so a computation already past the test publishes Ready for a revision no index holds. `openspec/specs/graph-index-readiness/spec.md` requires that every committed revision was applied. The next heartbeat withdraws the answer. |
| `ingest_poison` | An arrival refused by a poisoned entity is Nak'd; if a later arrival of its stream is applied after the repair, the guard takes the redelivery for a stale one and acknowledges it unapplied. `openspec/specs/graph-ingest/spec.md` says such arrivals are redelivered, not destroyed. |
| `pool_backstop` | Stop's coordinator waits for the submitters before it closes `drainCh`, so the closing does not wake a SubmitBlocking parked on a lane whose goroutine has gone; the comment in `keyed_pool.go` calls it a backstop that does. |
| `entity_delete` | `handleCanonicalDelete` decodes the stored state first, so the delete of a poisoned entity is refused and the inventory keeps it; the specification describes exactly this delete as the repair. |
| `stranded` | `Stalled` (`pkg/gateddag/gateddag.go`) answers nil as long as the brain finds a dispatchable unit, and a unit stranded behind its claim is one, because the brain knows markers and no claims. The executor's age gate then has nothing to report, however old the claim is. `openspec/specs/gated-dag-dispatch/spec.md` requires that the unit is reported as stalled. |
| `agent_intake` | When the graph birth of a loop fails, the loop is committed as failed: marker, event, then the record. The record is created only after the graph birth, so there is no revision to write against, `writeLoopRecord` fails as fatal, the task is quarantined and the task lane of the process is latched. The comment above `handleSpawnIdentityFailure` says that task intake continues unaffected, and that the failure is preserved in the loop's record. The repository's test of this runs without a loop bucket, where the write is skipped. |

Two comments of the gated DAG processor also disagree with their code, without a
property at stake: `executor.go:424-428` says a claim is not rolled back when the
publish fails, and `claimThenDispatch` unclaims; `reader.go:147-153` says
referential stubs are excluded, and `extractGraph` excludes nothing.

In each of these runs TLC's trace is the scenario; `findings` in `PROJECT.json`
quotes the lines.

## 5. The proofs

Eight modules hold theorems, checked by TLAPS (SMT and Zenon, LS4 for the temporal
steps). They hold for every set of keys, processes, lanes or goroutines and every value
of the bounds. Each follows the same plan: an inductive invariant `IInv`, a lemma per
action or group of actions that preserves it, lemmas for what a step that moves one
goroutine leaves alone, and the properties as consequences of `IInv`. TLC finds every
`IInv` to hold on the instances of section 3 as well.

| module | theorem | states |
|---|---|---|
| WatermarkProofs | `WatermarkInvariant`, `StalenessNeverUnderReported`, `CaughtUpIsExact`, `FloorNeverMovesBack` | `[]IInv`, `[]NeverNewer`, `[]ExactWhenCaughtUp`, `FloorMonotonic` |
| KeyedPoolProofs | `PoolInvariant`, `LanesKeepOrder`, `NothingIsStranded`, `StopDrains` | `[]IInv`, `[]LaneOrder`, `[]NothingStranded`, `[]StopMeansDrained` |
| GraphIngestProofs | `IngestInvariant`, `IngestTypes`, `TiersNeverDiverge`, `AcksAreCovered`, `AcksAreKept`, `ProfileIsKept` | `[]IInv`, `[]TypeOK`, `[]MemNeverAhead`, `[]AckedIsCovered`, `[]AckedNotRegressed`, `ProfileImmutable` |
| EntityStoreProofs | `StoreInvariant`, `StoreTypes`, `CacheIsCoherent`, `RepoisonIsKept`, `RecordsAreErased` | `[]IInv`, `[]TypeOK`, `[]CacheCoherent`, `RepoisonKept`, `[]NoStrandedRecord` |
| GraphViewProofs | `ViewInvariant`, `ViewSafe` | `[]IInv`, and `[]` of `TypeOK`, `SnapshotExact`, `NeverStale`, `NoFrozenView` |
| LibrariesProofs | `LaneInvariant`, `DagInvariant`, `SuiteInvariant` | `[]LaneInv`, `[]DagInv`, `[]SuiteInv` |
| | `AcksAreAnswered`, `RepeatsAreInDoubt`, `LossIsDeclared` | `[]AckedIsAnswered`, `[]RepeatedOnlyInDoubt`, `[]FatalIsDeclared` |
| | `DispatchKeepsOrder`, `DispatchedOnce` | `[]DependencyOrder`, `[]OnceEach` |
| | `SnapshotIsExact`, `SubscriberNeverGoesBack`, `ViewIsNeverFrozen` | `[]SnapshotExact`, `[]NeverStale`, `[]NoFrozenView` |
| | `ComponentTypes`, `SuiteWatermark` | `[]ComponentsTypeOK`; the suite implements `Watermark`, with its properties |
| AgentLoopProofs | `LoopInvariant`, `LoopTypes`, `EndsAreDecidedOnce`, `TasksAreNotLost`, `RecordsGoForward`, `CalmInvariant`, `AnswersAreNotLost` | `[]IInv`, `[]TypeOK`, `[]CommitOrder`, `[]TaskNotLost`, `RecordForward`, `[]Calm`, `[]AnswerNotLost` |
| GraphIndexProofs | `IndexInvariant`, `IndexTypes`, `CompletedIsKnown`, `BootstrapNeverLies`, `ReadyNeverLies`, `PipelineUsesWatermark`, `WatermarkIsSound` | `[]IInv`, `[]TypeOK`, `[]NoSilentStaleness`, `[]BootstrapIsHonest`, `[]ReadyIsHonest` (with a hypothesis, below), `UsesWatermark`, the watermark's invariants across restarts |

The names in the last column are those of the component's module. The run `libraries`
checks the properties of the view, the lane and the DAG under the same names while that
component runs, and the theorems of LibrariesProofs are about that run's specification;
those of the lane and the DAG state the component's own specification as well. With these
every invariant and every step property of a passing run is proved, `ReadyIsHonest` under
the hypothesis given below.

### WatermarkProofs

Assumptions: `RevAssumption`, `AtAssumption` (the bounds are naturals). The
inductive invariant is

    IInv == TypeOK /\ Ledger /\ NeverNewer /\ ExactWhenCaughtUp

`NeverNewer` is not inductive alone: a completion takes its commit time from the
in-flight map or from `observedHighAt`, so `Ledger` is needed. It says that the
in-flight entries are the delivered ones, that no revision above `observedHigh`
was delivered, that `observedHighAt` is the newest delivery's time, and that
commit times follow revisions. The two step lemmas (`DeliverStep`,
`FinishStep`) rest on `FloorLemma`, what the low-water mark is over any finite
map, which in turn rests on the existence of minima and maxima in `Revs`.

### KeyedPoolProofs

Assumption: `PoolAssumption` (every key has a lane, the buffers have room for one).

    IInv == TypeOK /\ Mapped /\ HoldsItem /\ LaneOrder /\ OkIsAccepted /\ StopOrder

`StopOrder` is the argument of `Stop`: `stopped` is set first, `drainCh` is closed when
no submitter is left and none can enter, a lane drains only after that, with a live run
context it leaves only with an empty buffer, and `stopDone` and the nil of a Stop come
after the last lane. `NothingStranded` and `StopMeansDrained` follow from it and
`LaneOrder`.

### GraphIngestProofs

Assumption: `IngestAssumption` (a sequence number names one message of a stream, an entity
has one lane, capacities are positive).

    IInv == Types /\ MemNeverAhead /\ Admitted /\ Stamped /\ Covered /\ HeldKept /\ LandedKept

The obvious argument, that the durable stamp of a key only grows, is wrong: a Put that
failed after it landed leaves the memory tier behind the durable one, and the next message
the memory tier admits stamps lower. What never falls below an acknowledged message is the
stamp the guard reads, the memory tier's entry if there is one and the durable one
otherwise. `Covered` says that this stamp, and the durable one, stand at or above every
acknowledged message; `Admitted`, that a message past the guard is newer than the stamp;
`Stamped`, that a message about to be acknowledged is the durable stamp. `HeldKept` and
`LandedKept` say what that protects: the predicates of a committed message show nothing
older of its stream. `AckedNotRegressed` follows.

### EntityStoreProofs

Assumption: `StoreAssumption` (the sweep is not one of the serving goroutines,
the bounds are naturals). The inductive invariant is

    IInv == TypeOK /\ CacheCoherent /\ ReaderFresh /\ ProofHolds

* `ReaderFresh`: a reader past its KV read whose captured generation is still the
  current one has read nothing older than the newest answered commit. This is
  the argument of the generation counter: an answered commit has bumped it, so a
  reader that read before that commit holds an older generation and its
  repopulation is refused.
* `ProofHolds`: a proof of validity that names the stored revision means the
  stored bytes are good. Proofs are taken from a read that decoded or from the
  writer's own commit, and a later write changes the revision.

`RepoisonIsKept` follows: a guarded drop that erases a record of the stored revision
would need a proof naming that revision, and by `ProofHolds` the bytes would then be good.

`RecordsAreErased` has an invariant of its own on top, `Owed`: as long as no call has
failed, a record next to a valid state of the mutation API is somebody's to erase.
Somebody is a goroutine that is about to verify the record it made, that holds a proof of
the stored revision or of a missing key, or that committed and has not looked for a
record yet. Every commit creates such a goroutine, so the debt survives whoever loses it.

### GraphViewProofs

Assumption: `ViewAssumption` (finitely many keys, writes of those keys, natural bounds),
stated in the theorems.

    IInv == Stored /\ Watched /\ Projected /\ Tasks /\ Lifecycle
            /\ Copied /\ Subscribed /\ Exact

A change of a key travels to a subscriber through four places: the window of the view, the
buffer of the subscription, the batch its goroutine has in hand, and the channel. The heart
of the proof is `Ordered`, in `Subscribed`: what the subscriber knows, then what the channel,
the hand, the buffer and the window hold for a key, are in the order of their revisions and
none is newer than what was applied. Each step moves one place into the next, and a newer
delta replaces an older one only within a place. `NeverStale` is `Ordered` read directly.
`Exact` says that the last delta on its way, in that order, is what the projection holds; an
attach starts it by comparing the sequence number of the window with the one of the
snapshot. `Watched` gives the revisions of the watch in rising order, above what was applied:
for the live watch because the store numbers its writes, for the replay because it lists
the keys by revision. That the replay can be listed at all is a counting argument over the
finite set of written keys (`Rank`, `Nth`). `Lifecycle` says which goroutines exist in
which state of the view; `NoFrozenView` follows.

### LibrariesProofs

Assumption: `SuiteAssumption` (that of the view; bounds of the lane; a plan names its own
units, so `DependsOn \in [Units -> SUBSET Units]`, and may have cycles, whose units are then
never dispatched). TLC evaluates it on the instance. The module has three parts.

The request lane:

    LaneCore == LaneShape /\ WorkJoined /\ Grounded /\ Lane!AckedIsAnswered
                /\ Latched /\ HandleBound
    LaneInv == LaneCore /\ Tally

`Grounded` ties the decision of the work to the response stream: an acknowledgement is
decided only once a response is retained, and a termination only for a malformed request.
`Tally` is what `RepeatsAreInDoubt` needs beyond its own statement: a process past its
retained read, here or elsewhere, counts like a response it has still to send, and so does
a response on the wire; together they exceed one by no more than the doubts, and the
responses on the wire are themselves doubts. A read that finds nothing retained may
therefore start one more. `Latched` is the order close, record, buffer,
react, drain; `HandleBound` says when the consume handle is live.

The gated DAG:

    DagCore == DagShape /\ DagOrdered /\ \A u \in Units : DagOnce(u)
    DagInv == DagCore /\ DagRecent

`DagOrdered`: whatever names a unit as completed, the graph or what a pass read of it, it
has completed, and everything on its way to the stream was selected with its
prerequisites done. A pass reads its units at different moments, which is harmless
because completion is never taken back in the history. `DagRecent` is about resets, which
do take it back in the graph: the units done now, those the pass read as done and the
prerequisites of what it selected are among those done at some moment of the pass, and a
pass that ended leaves nothing it read to the next. `DagOnce(u)` says where the evidence
of a dispatch is: one job at a time, a hint against a pass that read the unit before it
was claimed, the claim once the publish was acknowledged, the duplicate window while its
outcome is unknown.

The suite:

    SuiteInv == IInv /\ ViewP!IInv /\ LaneInv /\ LaneTypes /\ DagInv /\ DagTypes

`IInv` is the watermark's and `ViewP` the instance of GraphViewProofs; a step of the suite is
a step of one component and a stutter of the others. `LaneTypes` and `DagTypes` add what the
type invariants ask beyond the safety argument: the queue of the executor stays within its
size, and a unit that runs has its dispatch on the stream, so that the consumer's
acknowledgement never removes what is not there.

### AgentLoopProofs

    IInv == Shape /\ Durable /\ Messages
            /\ \A p \in Procs : MemInv(p)
            /\ \A p \in Procs, l \in Lanes : OpInv(p, l)

`MemInv` is what the memory of a process may claim of the record (a revision it has seen,
and at the record's own revision no older request and no live state of an ended loop);
`OpInv` what each lane has read and still has to do at every point of its handler. The
compare-and-swap then carries the proof: a write goes through only from the record's
revision, where memory is known to be right. The attempt to prove it showed that the
model let a process that has seen no record write at revision 0; the code refuses that
before the call, and the model was corrected.

`AnswersAreNotLost` has an invariant of its own on top, which speaks only of behaviours
before a first fault and before a terminal event is out:

    Calm == faults \in Nat /\ (faults = 0 /\ events = {} => Smooth)
    Smooth == Exclusive /\ Born /\ Counted /\ Settled /\ \A p \in Procs : Steady(p)

* `Exclusive`: a lane is at work in one process at a time, on a message that is out. Faults
  (an ended lease) are what breaks this.
* `Born`: once a request is retained the task is settled and no task lane works, so no
  process holds a loop without a revision.
* `Counted`: the revision of a live record is the number of its request. A cancel that
  finds the loop restored under its feet breaks this, but only after its event.
* `Steady(p)`: what memory, the cancel lane and the response lane of a process know of each
  other between their calls. A process that waits for an answer under a live loop has that
  request outstanding; one that holds an ended loop has a lane committing it; one that
  retries still stands at the record's first request; between `GetLoop` and
  `OutstandingRequest` of an answer the loop stays held, as only a commit past its event
  would release it there.
* `Settled`: the answer to the retry is settled only under an ended record; the first answer
  under an ended record, under the retry, or while a process that knows the record's
  revision is about to write the end (`Ending`).

The step that needs all of it is an answer that meets a loop its own process has just
cancelled: it is acknowledged as "already applied" under a live record, and `Exclusive` and
`Counted` are why the cancel then publishes its end. The weaker goal is what the split of
`HandleModelResponse` into its locked accesses left of a stronger one: without the
disjunct for a published end TLC finds the trace described in section 3.

`LoopTypes` assumes `MaxFaults \in Nat`; the other theorems assume nothing of the constants.

### GraphIndexProofs

Assumption: `IndexAssumption` (naturals, a positive lane capacity and bound on revisions,
one lane for each key, at least one family). The invariant has a part for each thing a reader would ask about:

* `Marks`, `Queued`: what was delivered, what is in flight and what the queues hold is
  work of this process for its own lane, and a revision that was not delivered is
  superseded.
* `Working`: between its read and its settlement a worker holds a source no older than
  its work, than the rows of its entity and than every revision completed for it. This is
  why two queued revisions of one entity, or a repair behind a newer write, cannot take
  an index back; it needs that an entity has one lane.
* `Indexed(k)`: every completed revision of an entity is in all families, or the entity is
  in the failed set, or the reset latch excuses it.
* `Enumerated`: when the watch's sentinel is received every entity of the start has been
  delivered at or below the bootstrap target.
* `Reading`: a status computation reads the floor before the target, and what is at or
  below a floor stays completed; a target at or below the floor is therefore covered.

`ReadyNeverLies` has the hypothesis that no stored value is unreadable. The run
`ready_race` shows that without it `ReadyIsHonest` is false, and why.
`PipelineUsesWatermark` proves the refinement step by step, and `WatermarkIsSound`
carries the invariants of WatermarkProofs over to the pipeline, by instantiating that
module, across restarts. `IndexTypes` uses the latter for the types of the watermark's
fields. The proof needed one more assumption than TLC's instances showed: at least one
revision.

### Only model-checked

* Everything under fairness (`StopCompletes`, `NothingHangs`, `Converges`,
  `LaneProgress`, `AllFlow`, `IngestSettles`, `EventuallyIndexed`): liveness and ENABLED are
  out of the prover's reach.
* The six violations: they are about instances, and each trace is the argument.

No module uses RECURSIVE operators, so that all of them stay open to proof.

## 6. Not modelled

* The layout of index rows, keys and payloads; metrics, logging, error texts.
* The suffix index and the hierarchy inference of graph-ingest: best-effort
  writes after the commit.
* Prefix pages and suffix resolution: single reads without shared state.
* Identity mismatches in the entity store (they are in GraphIndex): the record
  they make is dropped by its own verification.
* A second detection of a recorded entity does not invalidate the cache, so a value
  cached between a repair and a re-poison is served until it is evicted. The cache
  promises read-after-write for the mutation API only, and `CacheCoherent` is about
  that promise. The clear of a delete drops a record of a later poison; the record
  comes back with the next read.
* The tool, approval and continuation lanes of the agent loop, its timeout sweeper,
  spawned loops and context compaction; tool executors, dispatch and governance.
* Throttling, streaming and model selection of agentic-model; the settlement-only
  consumers of natsclient.
* The lifecycle manager, the rule processor, the readiness gate, the worker pool and
  buffers, the service manager: state of their own, still to be modelled (section 7).
* graph-query, graph-clustering, the embedding, spatial and temporal indexes: the
  watch pattern of GraphIndex around computation over large data.
* The NATS client and server, used as external services.
* A deployment of the agent loop without a loop bucket: the arms that skip the marker and
  the record.
* Adapters, parsers, vocabularies, registries, graph algorithms and calls of
  language models: no protocol state, or pure computation over large data.

## 7. Plan

Done: Watermark, GraphIndex, KeyedPool, GraphIngest, EntityStore, GraphView, ModelLane,
GatedDag, AgentLoop (task, response and cancel lanes), the suites, and proofs of every
invariant and step property the passing runs check.

Next modules, in this order:

1. AgentLoop: tool results and approvals, which add a second kind of outstanding work
   to the loop, and continuations of a loop that ended.
2. `Lifecycle` (`pkg/lifecycle`): revision-fenced phase transitions, with an
   abstract specification of a phase graph that the manager implements.
3. `RuleFence` (`processor/rule`): revision fence and cooldown of evaluations.
4. `ReadinessGate` (`graph/readiness_gate.go`, graph-query, graph-ingest
   readiness): consumers of the status GraphIndex publishes, composed with it.
5. `WorkerPool` and `Buffer` (`pkg/worker`, `pkg/buffer`), the service manager's
   start and stop.

Next theorems:

1. An abstract specification of the entity store's cache (a register that never goes back
   behind an answered write), implemented by EntityStore.
2. AgentLoop: what remains of `AnswerNotLost` after a fault, when an ended lease lets two
   processes work on one answer, and after the end was published; what a record born
   terminal (revision 1) still promises.
3. The invariants of the modules to come.
