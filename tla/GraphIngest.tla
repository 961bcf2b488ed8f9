----------------------------- MODULE GraphIngest -----------------------------
(***************************************************************************)
(* processor/graph-ingest, the Graphable lane: JetStream messages are      *)
(* decoded by the consume callback, queued on the lane of their entity,    *)
(* passed through the two-tier redelivery guard, merged into ENTITY_STATES *)
(* and acknowledged.                                                       *)
(*                                                                         *)
(* A message is [stream, seq, entity, preds, shape].  An entity is a map   *)
(* from predicate to the message its current triples came from.            *)
(* UpdateWithRetry is one step here: a losing attempt re-reads and re-runs *)
(* the merge.  A failing call may fail before or after its effect.         *)
(*                                                                         *)
(* JetStream (external): first deliveries follow the stream, and an        *)
(* unacknowledged message is redelivered, after a Nak or when AckWait      *)
(* expires while a copy still waits in a lane, at most MaxDeliver times in *)
(* all.  A Nak therefore changes nothing a redelivery needs.               *)
(***************************************************************************)
EXTENDS Integers, Sequences, FiniteSets

CONSTANTS Entities, Streams, Preds,
          Profile,       \* the entity.indexing.profile predicate, one of Preds
          Floor,         \* the profile stamped when nobody declares one
          Msgs,          \* the messages the input streams hold
          Lanes,
          LaneOf,        \* Entities -> Lanes, the pool's key hash
          QueueDepth,    \* ingestLaneQueueDepth
          GuardCapacity, \* ingestGuardMemMaxPerLane
          InitPoison,    \* entities whose resident state is poisoned at start
          None,
          MaxDeliver,    \* the consumer's delivery limit
          MaxFaults,     \* bound: failing KV calls, panics and lost acks
          MaxCrashes     \* bound: process restarts

\* "undecodable": no metadata or payload; "invalid": refused by its own
\* contract or by the authority gate.
Shapes == {"valid", "undecodable", "invalid"}

ASSUME IngestAssumption ==
  /\ Msgs \subseteq [stream : Streams, seq : Nat \ {0}, entity : Entities,
                     preds : SUBSET Preds, shape : Shapes]
  /\ \A m, n \in Msgs : m.stream = n.stream /\ m.seq = n.seq => m = n
  /\ LaneOf \in [Entities -> Lanes] /\ InitPoison \subseteq Entities
  /\ QueueDepth \in Nat \ {0} /\ GuardCapacity \in Nat \ {0} /\ MaxDeliver \in Nat \ {0}
  /\ MaxFaults \in Nat /\ MaxCrashes \in Nat
  /\ Profile \in Preds /\ None \notin Msgs /\ Floor \notin Msgs \cup {None}

VARIABLES
  phase,      \* Msgs -> "stored", "out" (delivered, unsettled), "acked", "termed"
  delivered,  \* Msgs -> deliveries made so far
  stopping,   \* cleanup has cancelled the submit context
  lanes,      \* Lanes -> queued messages
  worker,     \* Lanes -> [msg, pc], the item the lane goroutine holds
  mem,        \* Lanes -> in-memory guard tier: set of [key, seq]
  durable,    \* guard bucket: <<entity, stream>> -> last applied sequence, 0 = none
  state,      \* ENTITY_STATES: Entities -> Preds -> message or None
  poisoned,   \* entities whose resident state fails the contract
  landed,     \* history: messages acknowledged on the success path
  faults, crashes

vars == <<phase, delivered, stopping, lanes, worker, mem, durable, state, poisoned, landed, faults, crashes>>

GuardKeys == Entities \X Streams
guardKey(m) == <<m.entity, m.stream>>
Idle == [msg |-> None, pc |-> "idle"]

\* laneGuard.get: at most one entry per key.
Cached(l, key) == {g \in mem[l] : g.key = key}

\* Mutant: a cache miss counts as never applied.
LastApplied_CacheOnly(l, key) ==
  IF Cached(l, key) # {} THEN (CHOOSE g \in Cached(l, key) : TRUE).seq ELSE 0

\* The sequence the guard compares with: the cached stamp, else the durable one.
LastApplied(l, key) ==
  IF Cached(l, key) # {} THEN (CHOOSE g \in Cached(l, key) : TRUE).seq ELSE durable[key]

\* Mutant: a full cache grows.
GuardSets_NoEviction(l, key, seq) ==
  {{g \in mem[l] : g.key # key} \cup {[key |-> key, seq |-> seq]}}

\* laneGuard.set: an arbitrary entry leaves a full cache.
GuardSets(l, key, seq) ==
  LET others == {g \in mem[l] : g.key # key}
      new == [key |-> key, seq |-> seq]
  IN IF Cached(l, key) = {} /\ Cardinality(mem[l]) >= GuardCapacity
     THEN {(others \ {g}) \cup {new} : g \in others}
     ELSE {others \cup {new}}

Init ==
  /\ phase = [m \in Msgs |-> "stored"] /\ delivered = [m \in Msgs |-> 0]
  /\ stopping = FALSE
  /\ lanes = [l \in Lanes |-> <<>>] /\ worker = [l \in Lanes |-> Idle]
  /\ mem = [l \in Lanes |-> {}] /\ durable = [k \in GuardKeys |-> 0]
  /\ state = [e \in Entities |-> [p \in Preds |-> None]]
  /\ poisoned = InitPoison
  /\ landed = {} /\ faults = 0 /\ crashes = 0

-----------------------------------------------------------------------------
Fail == faults < MaxFaults /\ faults' = faults + 1

\* The server keeps the first settlement of a message.
Settled(m, as) == [phase EXCEPT ![m] = IF @ \in {"acked", "termed"} THEN @ ELSE as]

\* Ack or Term; a lost acknowledgement leaves the message to be redelivered.
Settle(m, as) ==
  \/ phase' = Settled(m, as) /\ UNCHANGED faults
  \/ Fail /\ phase' = Settled(m, "out")

(***************************************************************************)
(* The consume callback: an undecodable message is acknowledged and        *)
(* dropped, any other waits for a place in its lane; a submit that fails   *)
(* because the component stops is Nak'd, which leaves the message out.     *)
(***************************************************************************)
Consume(m) ==
  LET l == LaneOf[m.entity]
  IN /\ \/ phase[m] = "out" /\ delivered[m] < MaxDeliver
        \/ /\ phase[m] = "stored"
           /\ \A n \in Msgs : n.stream = m.stream /\ n.seq < m.seq => phase[n] # "stored"
     /\ delivered' = [delivered EXCEPT ![m] = @ + 1]
     /\ \/ m.shape = "undecodable" /\ Settle(m, "acked") /\ UNCHANGED lanes
        \/ /\ m.shape # "undecodable"
           /\ \/ Len(lanes[l]) < QueueDepth /\ lanes' = [lanes EXCEPT ![l] = Append(@, m)]
              \/ stopping /\ UNCHANGED lanes
           /\ phase' = [phase EXCEPT ![m] = "out"] /\ UNCHANGED faults
     /\ UNCHANGED <<stopping, worker, mem, durable, state, poisoned, landed, crashes>>

Take(l) ==
  /\ worker[l].pc = "idle" /\ lanes[l] # <<>>
  /\ worker' = [worker EXCEPT ![l] = [msg |-> Head(lanes[l]), pc |-> "guard"]]
  /\ lanes' = [lanes EXCEPT ![l] = Tail(@)]
  /\ UNCHANGED <<delivered, stopping, phase, mem, durable, state, poisoned, landed, faults, crashes>>

Done(l) == worker' = [worker EXCEPT ![l] = Idle]
GoTo(l, pc) == worker' = [worker EXCEPT ![l].pc = pc]

\* Mutant: a refused message is Nak'd and comes back.
Refuse_Naks(l) ==
  /\ worker[l].pc = "guard" /\ worker[l].msg.shape = "invalid"
  /\ Done(l)
  /\ UNCHANGED <<phase, delivered, stopping, lanes, mem, durable, state, poisoned, landed,
                 faults, crashes>>

\* prepareFactProjection refuses the candidate before any guard I/O.
Refuse(l) ==
  /\ worker[l].pc = "guard" /\ worker[l].msg.shape = "invalid"
  /\ Settle(worker[l].msg, "termed") /\ Done(l)
  /\ UNCHANGED <<delivered, stopping, lanes, mem, durable, state, poisoned, landed, crashes>>

\* ingestGuardStale: the cached stamp if there is one, else the durable stamp,
\* which warms the cache.
Guard(l) ==
  LET m == worker[l].msg
      key == guardKey(m)
      hit == Cached(l, key) # {}
      last == LastApplied(l, key)
  IN /\ worker[l].pc = "guard" /\ m.shape = "valid"
     /\ \/ \* the durable read fails: Nak
           ~hit /\ Fail /\ Done(l) /\ UNCHANGED <<phase, mem>>
        \/ /\ IF hit \/ last = 0 THEN UNCHANGED mem
              ELSE \E g \in GuardSets(l, key, last) : mem' = [mem EXCEPT ![l] = g]
           /\ IF m.seq <= last
              THEN Settle(m, "acked") /\ Done(l)
              ELSE GoTo(l, "apply") /\ UNCHANGED <<phase, faults>>
     /\ UNCHANGED <<delivered, stopping, lanes, durable, state, poisoned, landed, crashes>>

\* Mutant: the profile is merged like any other predicate.
Merge_Reprofiles(old, m) ==
  [p \in Preds |-> IF p \in m.preds THEN m
                  ELSE IF p = Profile /\ old[p] = None THEN Floor ELSE old[p]]

(***************************************************************************)
(* MergeTriples: the arrival wins on every predicate it carries and leaves *)
(* the others alone.  The indexing profile is set by the write that        *)
(* creates the entity, to its declaration or to the floor, and then kept.  *)
(***************************************************************************)
Merge(old, m) ==
  [p \in Preds |->
     IF p = Profile /\ old[p] # None THEN old[p]
     ELSE IF p \in m.preds THEN m
     ELSE IF p = Profile THEN Floor
     ELSE old[p]]

\* The CAS commit; one that passes the write gate also ends a poisoning.
Committed(m) ==
  /\ state' = [state EXCEPT ![m.entity] = Merge(@, m)]
  /\ poisoned' = poisoned \ {m.entity}

\* mergeEntityOnLane: a poisoned resident state refuses the write (Nak) unless the
\* arrival replaces what is wrong with it.
Apply(l) ==
  LET m == worker[l].msg
  IN /\ worker[l].pc = "apply"
     /\ \/ Committed(m) /\ GoTo(l, "stamp") /\ UNCHANGED <<phase, faults>>
        \/ /\ m.entity \in poisoned /\ Done(l)
           /\ UNCHANGED <<phase, state, poisoned, faults>>
        \/ \* a transient failure or a panic, before or after the commit: Nak
           /\ Fail /\ Done(l) /\ UNCHANGED phase
           /\ Committed(m) \/ UNCHANGED <<state, poisoned>>
        \/ \* a fatal or invalid-class failure: Term
           /\ m.entity \notin poisoned /\ Fail /\ Done(l)
           /\ phase' = Settled(m, "termed") /\ UNCHANGED <<state, poisoned>>
     /\ UNCHANGED <<delivered, stopping, lanes, mem, durable, landed, crashes>>

\* Mutant: the message is acknowledged although its stamp may not be durable.
Stamp_IgnoresFailure(l) ==
  LET m == worker[l].msg
      stamped == [durable EXCEPT ![guardKey(m)] = m.seq]
  IN /\ worker[l].pc = "stamp" /\ GoTo(l, "ack")
     /\ \/ durable' = stamped /\ UNCHANGED faults
        \/ Fail /\ durable' \in {durable, stamped}
     /\ UNCHANGED <<delivered, stopping, phase, lanes, mem, state, poisoned, landed, crashes>>

\* ingestGuardStampDurable, a Put that may land although it reports failure (Nak).
Stamp(l) ==
  LET m == worker[l].msg
      stamped == [durable EXCEPT ![guardKey(m)] = m.seq]
  IN /\ worker[l].pc = "stamp"
     /\ \/ durable' = stamped /\ GoTo(l, "ack") /\ UNCHANGED faults
        \/ Fail /\ durable' \in {durable, stamped} /\ Done(l)
     /\ UNCHANGED <<delivered, stopping, phase, lanes, mem, state, poisoned, landed, crashes>>

\* The memory tier follows the durable one, then the message is acknowledged.
Acknowledge(l) ==
  LET m == worker[l].msg
  IN /\ worker[l].pc = "ack"
     /\ \E g \in GuardSets(l, guardKey(m), m.seq) : mem' = [mem EXCEPT ![l] = g]
     /\ Settle(m, "acked") /\ Done(l)
     /\ landed' = landed \cup {m}
     /\ UNCHANGED <<delivered, stopping, lanes, durable, state, poisoned, crashes>>

\* The operator removes the poisoned bytes; the next arrival recreates the entity.
Repair(e) ==
  /\ e \in poisoned
  /\ poisoned' = poisoned \ {e}
  /\ state' = [state EXCEPT ![e] = [p \in Preds |-> None]]
  /\ UNCHANGED <<delivered, stopping, phase, lanes, worker, mem, durable, landed, faults, crashes>>

\* cleanup cancels the submit context; the lanes go on draining.
Stop ==
  /\ ~stopping /\ crashes < MaxCrashes /\ stopping' = TRUE
  /\ UNCHANGED <<phase, delivered, lanes, worker, mem, durable, state, poisoned, landed,
                 faults, crashes>>

\* The process ends, by a crash or after Stop, and a new one starts: the lanes
\* and the memory tier are lost.
Restart ==
  /\ crashes < MaxCrashes /\ crashes' = crashes + 1 /\ stopping' = FALSE
  /\ lanes' = [l \in Lanes |-> <<>>] /\ worker' = [l \in Lanes |-> Idle]
  /\ mem' = [l \in Lanes |-> {}]
  /\ UNCHANGED <<phase, delivered, durable, state, poisoned, landed, faults>>

LaneStep(l) ==
  Take(l) \/ Refuse(l) \/ Guard(l) \/ Apply(l) \/ Stamp(l) \/ Acknowledge(l)

Next ==
  \/ \E m \in Msgs : Consume(m)
  \/ \E l \in Lanes : LaneStep(l)
  \/ \E e \in Entities : Repair(e)
  \/ Stop \/ Restart

Spec == Init /\ [][Next]_vars

(***************************************************************************)
(* A lane goroutine keeps running; JetStream delivers what it has stored   *)
(* and, until its limit, what is out; a callback that waits for a full     *)
(* lane gets the next free place some time.                                *)
(***************************************************************************)
Fairness ==
  /\ \A l \in Lanes : WF_vars(LaneStep(l))
  /\ \A m \in Msgs : SF_vars(Consume(m))

FairSpec == Spec /\ Fairness

-----------------------------------------------------------------------------
(* Properties                                                              *)

\* Every variable has its type; a message waits only in the lane of its entity, no
\* message is delivered more than MaxDeliver times, and the memory tier of a lane
\* holds one entry per key and never more than ingestGuardMemMaxPerLane.
TypeOK ==
  /\ phase \in [Msgs -> {"stored", "out", "acked", "termed"}]
  /\ delivered \in [Msgs -> 0..MaxDeliver] /\ stopping \in BOOLEAN
  /\ \A l \in Lanes :
       /\ lanes[l] \in Seq({m \in Msgs : LaneOf[m.entity] = l}) /\ Len(lanes[l]) <= QueueDepth
       /\ \/ worker[l] = Idle
          \/ worker[l].msg \in Msgs /\ worker[l].pc \in {"guard", "apply", "stamp", "ack"}
       /\ mem[l] \subseteq [key : GuardKeys, seq : Nat \ {0}]
       /\ Cardinality(mem[l]) <= GuardCapacity
       /\ \A g, h \in mem[l] : g.key = h.key => g = h
  /\ durable \in [GuardKeys -> Nat]
  /\ state \in [Entities -> [Preds -> Msgs \cup {None, Floor}]]
  /\ poisoned \subseteq Entities /\ landed \subseteq Msgs
  /\ faults \in 0..MaxFaults /\ crashes \in 0..MaxCrashes

\* The cached stamp is never ahead of the durable one ("the two tiers never
\* diverge", keyed_ingest.go), so losing the cache admits nothing new.
MemNeverAhead ==
  \A l \in Lanes : \A g \in mem[l] : g.seq <= durable[g.key]

\* A message that was applied, stamped and acknowledged is never overwritten by
\* an older message of its stream, whatever was evicted, redelivered, failed or
\* restarted in between.
AckedNotRegressed ==
  \A m \in landed : \A p \in m.preds \ {Profile} :
    LET now == state[m.entity][p]
    IN now \in Msgs /\ now.stream = m.stream => now.seq >= m.seq

\* An acknowledged message is covered by the durable stamp of its entity and
\* stream: nothing is acknowledged past an unpersisted stamp.
AckedIsCovered ==
  \A m \in Msgs : phase[m] = "acked" /\ m.shape = "valid" => durable[guardKey(m)] >= m.seq

\* The profile an entity was created with survives every later arrival; only
\* deleting the entity removes it.
ProfileImmutable ==
  [][\A e \in Entities : state[e][Profile] # None /\ e \notin poisoned
       => state'[e][Profile] = state[e][Profile]]_vars

\* With fewer faults than deliveries and no restart, every message is settled.
AllSettled == <>(\A m \in Msgs : phase[m] \in {"acked", "termed"})

\* graph-ingest/spec.md, "Resident-poison arrivals are redelivered, not
\* destroyed": a valid arrival is acknowledged only if it was applied, whether or
\* not its entity was poisoned when it first arrived.
ArrivalNotDestroyed ==
  \A m \in Msgs : m.shape = "valid" /\ phase[m] = "acked" => m \in landed
=============================================================================
