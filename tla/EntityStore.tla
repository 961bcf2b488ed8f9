----------------------------- MODULE EntityStore -----------------------------
(***************************************************************************)
(* processor/graph-ingest around one ENTITY_STATES key: the canonical      *)
(* mutation verbs, the merge of the Graphable lane and the queries run     *)
(* concurrently and share the stored entry, the query cache with its       *)
(* invalidation generation, and the poison inventory.  Keys do not share   *)
(* anything: the inventory size that the clear paths test first is zero    *)
(* exactly when no key has a record.                                       *)
(*                                                                         *)
(* A stored value is its revision and whether it decodes ("good") or not   *)
(* ("poison"); "absent" is a tombstone or nothing.  UpdateWithRetry is one *)
(* step: a losing attempt re-reads and starts over.  A test of the         *)
(* inventory size followed by a drop is one step too: whichever of the two *)
(* decides is where it happens.  The suffix index, refreshed after the     *)
(* commit on a best-effort basis, is not part of this state.               *)
(***************************************************************************)
EXTENDS Integers

CONSTANTS Procs,        \* goroutines serving requests and lanes
          Ops,          \* the operations they run: see OpSet
          MaxRev,       \* bound: revisions of the key
          MaxFaults,    \* bound: failing KV calls
          MaxRestarts   \* bound: process restarts

OpSet == {"query", "read", "create", "merge", "append", "reconcile", "delete"}

Sweep == "sweep"
Workers == Procs \cup {Sweep}

ASSUME StoreAssumption ==
  /\ Ops \subseteq OpSet /\ Sweep \notin Procs
  /\ MaxRev \in Nat \ {0} /\ MaxFaults \in Nat /\ MaxRestarts \in Nat

VARIABLES
  entry,     \* the stored entry: [rev, kind, api], api = written by a verb or the merge
  cached,    \* revision of the value in entityCache, 0 = no value
  cacheGen,
  poison,    \* revision in the key's inventory record, 0 = no record
  proc,      \* Workers -> [op, pc, rev, own, gen]: see Idle
  acked,     \* history: newest revision whose writer has answered
  faults, restarts

vars == <<entry, cached, cacheGen, poison, proc, acked, faults, restarts>>

Steps == {"idle", "cache", "gen", "get", "validRead", "repopulate", "create", "rmw", "cas",
          "lookup", "clearGet", "clear", "invalidate", "record", "recordInvalidate",
          "verify", "classify", "drop", "lost"}

\* rev: the revision read or used as proof; own: the revision the request
\* expects, then the one it committed; gen: the captured generation.
Idle == [op |-> "none", pc |-> "idle", rev |-> 0, own |-> 0, gen |-> 0]

Init ==
  /\ entry \in [rev : {1}, kind : {"good", "poison", "absent"}, api : {FALSE}]
  /\ cached = 0 /\ cacheGen = 0 /\ poison = 0 /\ acked = 0 /\ faults = 0 /\ restarts = 0
  /\ proc = [p \in Workers |-> IF p = Sweep THEN [Idle EXCEPT !.pc = "get"] ELSE Idle]

At(p, pc) == proc[p].pc = pc
Done(p) == proc' = [proc EXCEPT ![p] = Idle]
Move(p, pc, rev, own, gen) ==
  proc' = [proc EXCEPT ![p] = [op |-> proc[p].op, pc |-> pc, rev |-> rev, own |-> own, gen |-> gen]]
GoWith(p, pc, rev) == Move(p, pc, rev, proc[p].own, proc[p].gen)
GoTo(p, pc) == GoWith(p, pc, proc[p].rev)

-----------------------------------------------------------------------------
(* What the steps do to the shared state                                   *)

Write(kind) ==
  /\ entry.rev < MaxRev
  /\ entry' = [rev |-> entry.rev + 1, kind |-> kind, api |-> TRUE]

\* invalidateEntityCacheEntry: bump and drop under one lock.
InvalidateCache == cacheGen' = cacheGen + 1 /\ cached' = 0

\* Mutant: the revision guard is missing.
DropRecord_Unguarded(proof) == poison' = 0

\* dropEntityPoisonRecord: a proof older than the record keeps it, 0 is "gone".
DropRecord(proof) == poison' = IF proof # 0 /\ poison > proof THEN poison ELSE 0

-----------------------------------------------------------------------------
(* Requests and the batch query                                            *)

FirstStep(op) ==
  CASE op = "query" -> "cache"
    [] op = "create" -> "create"
    [] op \in {"merge", "append"} -> "rmw"
    [] OTHER -> "get"

\* Requests are served once the boot sweep is over; one that lost its watch
\* leaves the queries closed.
Start(p, op) ==
  /\ At(p, "idle") /\ p # Sweep
  /\ At(Sweep, "idle") \/ (At(Sweep, "lost") /\ op \notin {"query", "read"})
  /\ \E expected \in 1..entry.rev :
       proc' = [proc EXCEPT ![p] =
         [op |-> op, pc |-> FirstStep(op), rev |-> 0, gen |-> 0,
          own |-> IF op \in {"reconcile", "delete"} THEN expected ELSE 0]]
  /\ UNCHANGED <<entry, cached, cacheGen, poison, acked, faults, restarts>>

LookupCache(p) ==
  /\ At(p, "cache")
  /\ IF cached # 0 THEN Done(p) ELSE GoTo(p, "gen")
  /\ UNCHANGED <<entry, cached, cacheGen, poison, acked, faults, restarts>>

LoadGen(p) ==
  /\ At(p, "gen")
  /\ Move(p, "get", proc[p].rev, proc[p].own, cacheGen)
  /\ UNCHANGED <<entry, cached, cacheGen, poison, acked, faults, restarts>>

\* The KV read of the queries, of fetchEntityState and of the boot sweep.
Get(p) ==
  /\ At(p, "get")
  /\ CASE entry.kind = "absent" -> Done(p)
       [] entry.kind = "poison" -> GoWith(p, "record", entry.rev)
       [] OTHER -> IF p = Sweep THEN Done(p) ELSE GoWith(p, "validRead", entry.rev)
  /\ UNCHANGED <<entry, cached, cacheGen, poison, acked, faults, restarts>>

(***************************************************************************)
(* A value that decoded clears a stale record; then the batch query        *)
(* repopulates, the exact read and a duplicate-only append answer, and a   *)
(* reconcile or delete goes on if the revision is the one it expects.      *)
(***************************************************************************)
ValidRead(p) ==
  /\ At(p, "validRead") /\ DropRecord(proc[p].rev)
  /\ \/ proc[p].op = "query" /\ GoTo(p, "repopulate")
     \/ proc[p].op \in {"read", "append"} /\ Done(p)
     \/ proc[p].op \in {"reconcile", "delete"} /\ proc[p].rev # proc[p].own /\ Done(p)
     \/ proc[p].op \in {"reconcile", "delete"} /\ proc[p].rev = proc[p].own /\ GoTo(p, "cas")
     \/ proc[p].op = "reconcile" /\ proc[p].rev = proc[p].own /\ Done(p)
  /\ UNCHANGED <<entry, cached, cacheGen, acked, faults, restarts>>

\* Mutant: the value is cached whatever happened since it was read.
Repopulate_Always(p) ==
  /\ At(p, "repopulate")
  /\ cached' = proc[p].rev /\ Done(p)
  /\ UNCHANGED <<entry, cacheGen, poison, acked, faults, restarts>>

\* repopulateEntityCacheEntry
Repopulate(p) ==
  /\ At(p, "repopulate")
  /\ cached' = IF cacheGen = proc[p].gen THEN proc[p].rev ELSE cached
  /\ Done(p)
  /\ UNCHANGED <<entry, cacheGen, poison, acked, faults, restarts>>

-----------------------------------------------------------------------------
(* Commits                                                                 *)

\* A commit: its revision is the next one, and proof is what the clear goes by.
Committed(p, pc, proof) == Move(p, pc, proof, entry.rev + 1, proc[p].gen)

\* handleCanonicalCreate and createEntityWithReceipt
Create(p) ==
  /\ At(p, "create")
  /\ IF entry.kind = "absent" THEN Write("good") /\ Committed(p, "clear", entry.rev + 1)
     ELSE Done(p) /\ UNCHANGED entry
  /\ UNCHANGED <<cached, cacheGen, poison, acked, faults, restarts>>

\* mergeEntityOnLane: the CAS cycle creates or merges.  A poisoned state fails the
\* write gate unless the merge replaces what is wrong with it.
Merge(p) ==
  /\ At(p, "rmw") /\ proc[p].op = "merge"
  /\ \/ entry.kind = "poison" /\ GoTo(p, "classify") /\ UNCHANGED entry
     \/ Write("good") /\ Committed(p, "lookup", entry.rev + 1)
  /\ UNCHANGED <<cached, cacheGen, poison, acked, faults, restarts>>

\* addTriplesLane and addTripleLane: an append needs an entity, and one that adds
\* nothing commits nothing and reads the revision back.
AppendTriples(p) ==
  /\ At(p, "rmw") /\ proc[p].op = "append"
  /\ \/ entry.kind = "poison" /\ GoTo(p, "classify") /\ UNCHANGED entry
     \/ entry.kind = "absent" /\ Done(p) /\ UNCHANGED entry
     \/ entry.kind # "absent" /\ GoTo(p, "get") /\ UNCHANGED entry
     \/ entry.kind = "good" /\ Write("good") /\ Committed(p, "lookup", entry.rev + 1)
  /\ UNCHANGED <<cached, cacheGen, poison, acked, faults, restarts>>

\* A revision-fenced write goes through only on the revision it expects.
Fits(p) == entry.kind # "absent" /\ entry.rev = proc[p].own

\* handleCanonicalReconcile, the fenced Update.
Reconcile(p) ==
  /\ At(p, "cas") /\ proc[p].op = "reconcile"
  /\ IF Fits(p) THEN Write("good") /\ Committed(p, "clear", entry.rev + 1)
     ELSE Done(p) /\ UNCHANGED entry
  /\ UNCHANGED <<cached, cacheGen, poison, acked, faults, restarts>>

\* handleCanonicalDelete and deleteEntityAtRevision: the clear needs no proof.
Delete(p) ==
  /\ At(p, "cas") /\ proc[p].op = "delete"
  /\ IF Fits(p) THEN Write("absent") /\ Committed(p, "clear", 0)
     ELSE Done(p) /\ UNCHANGED entry
  /\ UNCHANGED <<cached, cacheGen, poison, acked, faults, restarts>>

\* clearEntityPoisonOnCommit without a revision: a record is worth a re-read.
ClearLookup(p) ==
  /\ At(p, "lookup")
  /\ GoTo(p, IF poison = 0 THEN "invalidate" ELSE "clearGet")
  /\ UNCHANGED <<entry, cached, cacheGen, poison, acked, faults, restarts>>

ClearGet(p) ==
  /\ At(p, "clearGet")
  /\ IF entry.kind = "good" THEN GoWith(p, "clear", entry.rev) ELSE GoTo(p, "invalidate")
  /\ UNCHANGED <<entry, cached, cacheGen, poison, acked, faults, restarts>>

\* clearEntityPoisonOnCommit with a revision, clearEntityPoisonOnDelete.
Clear(p) ==
  /\ At(p, "clear") /\ DropRecord(proc[p].rev) /\ GoTo(p, "invalidate")
  /\ UNCHANGED <<entry, cached, cacheGen, acked, faults, restarts>>

\* The last step of every writer; then it answers.
Invalidate(p) ==
  /\ At(p, "invalidate") /\ InvalidateCache /\ Done(p)
  /\ acked' = IF proc[p].own > acked THEN proc[p].own ELSE acked
  /\ UNCHANGED <<entry, poison, faults, restarts>>

-----------------------------------------------------------------------------
(* The poison inventory                                                    *)

\* Mutant: one past the failing revision, where the refused write would have gone.
Record_NextRevision(p) ==
  /\ At(p, "record")
  /\ poison' = proc[p].rev + 1 /\ Done(p)
  /\ UNCHANGED <<entry, cached, cacheGen, acked, faults, restarts>>

\* recordEntityPoison: a known entity keeps its newest failing revision.
Record(p) ==
  LET new == poison = 0
  IN /\ At(p, "record")
     /\ poison' = IF proc[p].rev >= poison THEN proc[p].rev ELSE poison
     /\ IF new THEN GoTo(p, "recordInvalidate") ELSE Done(p)
     /\ UNCHANGED <<entry, cached, cacheGen, acked, faults, restarts>>

RecordInvalidate(p) ==
  /\ At(p, "recordInvalidate") /\ InvalidateCache /\ GoTo(p, "verify")
  /\ UNCHANGED <<entry, poison, acked, faults, restarts>>

\* Mutant: a new record is not verified against the current bytes.
Verify_Skipped(p) ==
  /\ At(p, "verify") /\ Done(p)
  /\ UNCHANGED <<entry, cached, cacheGen, poison, acked, faults, restarts>>

\* verifyEntityPoisonRecord
Verify(p) ==
  /\ At(p, "verify")
  /\ CASE entry.kind = "poison" -> Done(p)
       [] entry.kind = "absent" -> GoWith(p, "drop", 0)
       [] OTHER -> GoWith(p, "drop", entry.rev)
  /\ UNCHANGED <<entry, cached, cacheGen, poison, acked, faults, restarts>>

\* classifyStoredStateRMWError and inventoryEntityPoisonAtCurrentRevision
Classify(p) ==
  /\ At(p, "classify")
  /\ CASE entry.kind = "absent" -> Done(p)
       [] entry.kind = "poison" -> GoWith(p, "record", entry.rev)
       [] OTHER -> GoWith(p, "drop", entry.rev)
  /\ UNCHANGED <<entry, cached, cacheGen, poison, acked, faults, restarts>>

Drop(p) ==
  /\ At(p, "drop") /\ DropRecord(proc[p].rev) /\ Done(p)
  /\ UNCHANGED <<entry, cached, cacheGen, acked, faults, restarts>>

-----------------------------------------------------------------------------
(* The environment                                                         *)

\* A KV call fails.  A failed write may have landed; the re-read of a clear and
\* of a verification is given up, anything else ends the request or the sweep.
Fail(p) ==
  /\ faults < MaxFaults /\ faults' = faults + 1
  /\ proc[p].pc \in {"get", "verify", "classify", "clearGet", "create", "rmw", "cas"}
  /\ CASE At(p, "clearGet") -> GoTo(p, "invalidate")
       [] p = Sweep /\ At(p, "get") -> GoTo(p, "lost")
       [] OTHER -> Done(p)
  /\ \/ UNCHANGED entry
     \/ At(p, "create") /\ entry.kind = "absent" /\ Write("good")
     \/ /\ At(p, "rmw") /\ Write("good")
        /\ entry.kind = "good" \/ proc[p].op = "merge"
     \/ At(p, "cas") /\ Fits(p) /\ Write(IF proc[p].op = "delete" THEN "absent" ELSE "good")
  /\ UNCHANGED <<cached, cacheGen, poison, acked, restarts>>

\* LRU capacity and TTL.
Evict ==
  /\ cached # 0 /\ cached' = 0
  /\ UNCHANGED <<entry, cacheGen, poison, proc, acked, faults, restarts>>

\* Bytes replaced or removed outside the mutation API: a restore, an older
\* writer, an operator on the bucket.
OutOfBand(kind) ==
  /\ entry.rev < MaxRev
  /\ entry' = [rev |-> entry.rev + 1, kind |-> kind, api |-> FALSE]
  /\ UNCHANGED <<cached, cacheGen, poison, proc, acked, faults, restarts>>

\* A new process: empty cache and inventory, and the boot sweep runs first.
Restart ==
  /\ restarts < MaxRestarts /\ restarts' = restarts + 1
  /\ cached' = 0 /\ cacheGen' = 0 /\ poison' = 0
  /\ proc' = [p \in Workers |-> IF p = Sweep THEN [Idle EXCEPT !.pc = "get"] ELSE Idle]
  /\ UNCHANGED <<entry, acked, faults>>

Next ==
  \/ \E p \in Procs, op \in Ops : Start(p, op)
  \/ \E p \in Workers :
       \/ LookupCache(p) \/ LoadGen(p) \/ Get(p) \/ ValidRead(p) \/ Repopulate(p)
       \/ Create(p) \/ Merge(p) \/ AppendTriples(p) \/ Reconcile(p) \/ Delete(p)
       \/ ClearLookup(p) \/ ClearGet(p) \/ Clear(p) \/ Invalidate(p)
       \/ Record(p) \/ RecordInvalidate(p) \/ Verify(p) \/ Classify(p) \/ Drop(p)
       \/ Fail(p)
  \/ \E kind \in {"good", "poison", "absent"} : OutOfBand(kind)
  \/ Evict \/ Restart

Spec == Init /\ [][Next]_vars

-----------------------------------------------------------------------------
(* Properties                                                              *)

\* The fields have their types, and neither the cache nor the inventory nor an
\* answer names a revision the bucket has not issued.
TypeOK ==
  /\ entry \in [rev : 1..MaxRev, kind : {"good", "poison", "absent"}, api : BOOLEAN]
  /\ cached \in 0..entry.rev /\ poison \in 0..entry.rev /\ acked \in 0..entry.rev
  /\ cacheGen \in Nat /\ faults \in 0..MaxFaults /\ restarts \in 0..MaxRestarts
  /\ proc \in [Workers -> [op : OpSet \cup {"none"}, pc : Steps,
                           rev : 0..entry.rev, own : 0..entry.rev, gen : 0..cacheGen]]

\* The read-after-write contract of invalidateEntityCacheEntry: once a writer has
\* answered, no cached value is older than its commit, whatever slow readers,
\* other writers, detections, failures and evictions did meanwhile.
CacheCoherent == cached # 0 => cached >= acked

\* A record left behind names real poison: when every request is over, an entity
\* whose current value was written by a verb or a merge has no record, although
\* its poison may have been detected before the repair and recorded after it.
NoStrandedRecord ==
  (poison # 0 /\ faults = 0 /\ \A p \in Workers : At(p, "idle")) =>
    entry.kind = "poison" \/ ~entry.api

\* "a re-poison after the proof must not be erased": while the recorded revision
\* is the stored one, only a drop that saw the key deleted, or a restart, erases
\* the record.
RepoisonKept ==
  [][(poison # 0 /\ poison' = 0 /\ entry.kind = "poison" /\ entry.rev = poison) =>
       \/ \E p \in Workers : proc[p].pc \in {"clear", "drop"} /\ proc[p].rev = 0
       \/ restarts' # restarts]_vars

\* graph-ingest/spec.md, "operator repair recovers Health without restart": an
\* operator deletes an inventoried entity through the canonical delete verb.  A
\* delete that names the inventoried revision, still the stored one, is not
\* refused because of what is stored.
DeleteRepairs ==
  \A p \in Procs : proc[p].op = "delete" /\ At(p, "record") =>
                    ~(proc[p].own = proc[p].rev /\ poison = proc[p].rev)
=============================================================================
