-------------------------- MODULE GraphIngestProofs --------------------------
(***************************************************************************)
(* The Graphable lane of graph-ingest, proved for every set of entities,   *)
(* streams, messages and lanes and every capacity, fault and crash bound:  *)
(* the redelivery guard covers what was acknowledged, and no older message *)
(* of a stream overwrites an acknowledged one.                             *)
(*                                                                         *)
(* The durable stamp alone is not monotone: a Put that landed although it  *)
(* failed leaves the memory tier behind it, and the next message the       *)
(* memory tier admits stamps over it.  What never moves back below an      *)
(* acknowledged message is the stamp the guard reads, the cached one if    *)
(* there is one and the durable one otherwise; the invariant is about it.  *)
(***************************************************************************)
EXTENDS GraphIngest, FiniteSetTheorems, SequenceTheorems, TLAPS

\* The messages of a lane.
OfLane(l) == {m \in Msgs : LaneOf[m.entity] = l}

\* A worker goroutine between messages or at a step of one.
Workers == [msg : Msgs \cup {None}, pc : {"idle", "guard", "apply", "stamp", "ack"}]

\* TypeOK by parts, with the domains of the maps, the lane of the message a worker
\* holds and the finiteness of the memory tiers.
RunOK ==
  /\ phase \in [Msgs -> {"stored", "out", "acked", "termed"}]
  /\ delivered \in [Msgs -> 0..MaxDeliver] /\ stopping \in BOOLEAN
  /\ \A m \in Msgs : phase[m] = "stored" => delivered[m] = 0
  /\ faults \in 0..MaxFaults /\ crashes \in 0..MaxCrashes

LanesOK ==
  /\ lanes \in [Lanes -> Seq(Msgs)]
  /\ \A l \in Lanes : lanes[l] \in Seq(OfLane(l)) /\ Len(lanes[l]) <= QueueDepth

WorkersOK ==
  /\ worker \in [Lanes -> Workers]
  /\ \A l \in Lanes : worker[l] = Idle \/ (worker[l].pc # "idle" /\ worker[l].msg \in OfLane(l))

MemOK ==
  /\ mem \in [Lanes -> SUBSET [key : GuardKeys, seq : Nat \ {0}]]
  /\ \A l \in Lanes :
       /\ IsFiniteSet(mem[l]) /\ Cardinality(mem[l]) <= GuardCapacity
       /\ \A g, h \in mem[l] : g.key = h.key => g = h
       /\ \A g \in mem[l] : LaneOf[g.key[1]] = l

StoreOK ==
  /\ durable \in [GuardKeys -> Nat]
  /\ state \in [Entities -> [Preds -> Msgs \cup {None, Floor}]]
  /\ poisoned \subseteq Entities /\ landed \subseteq Msgs

Types == RunOK /\ LanesOK /\ WorkersOK /\ MemOK /\ StoreOK

\* The guard of lane l, as ingestGuardStale reads it, stands below n ...
Below(l, key, n) ==
  /\ \A g \in mem[l] : g.key = key => g.seq < n
  /\ (\A g \in mem[l] : g.key # key) => durable[key] < n

\* ... or at n and above, and stays there when the cache is lost.
AtLeast(l, key, n) ==
  /\ \A g \in mem[l] : g.key = key => g.seq >= n
  /\ durable[key] >= n

\* A message that passed the guard is newer than what the guard of its lane knows,
\* until it is stamped.
Admitted ==
  \A l \in Lanes : worker[l].pc \in {"apply", "stamp"} =>
    Below(l, guardKey(worker[l].msg), worker[l].msg.seq)

\* A message about to be acknowledged is the durable stamp of its key.
Stamped ==
  \A l \in Lanes : worker[l].pc = "ack" =>
    /\ durable[guardKey(worker[l].msg)] = worker[l].msg.seq
    /\ \A g \in mem[l] : g.key = guardKey(worker[l].msg) => g.seq < worker[l].msg.seq

\* The guard stands at or above every message that was acknowledged or that
\* reached the acknowledgement on the success path.
Covered ==
  \A m \in Msgs : (phase[m] = "acked" /\ m.shape = "valid") \/ m \in landed =>
    AtLeast(LaneOf[m.entity], guardKey(m), m.seq)

\* No predicate of m shows an older message of its stream.
Kept(m) ==
  \A p \in m.preds \ {Profile} :
    state[m.entity][p] \in Msgs /\ state[m.entity][p].stream = m.stream
      => state[m.entity][p].seq >= m.seq

\* What a worker has committed is still there when it acknowledges.
HeldKept == \A l \in Lanes : worker[l].pc \in {"stamp", "ack"} => Kept(worker[l].msg)

LandedKept == \A m \in landed : Kept(m)

IInv == Types /\ MemNeverAhead /\ Admitted /\ Stamped /\ Covered /\ HeldKept /\ LandedKept

-----------------------------------------------------------------------------
(* laneGuard.                                                              *)

\* What set puts into the cache: the new entry and entries of other keys, within
\* the capacity.
LEMMA GuardSetsProps ==
  ASSUME Types, NEW l \in Lanes, NEW key \in GuardKeys, NEW seq \in Nat \ {0},
         LaneOf[key[1]] = l, NEW s \in GuardSets(l, key, seq)
  PROVE  /\ [key |-> key, seq |-> seq] \in s
         /\ \A g \in s : g = [key |-> key, seq |-> seq] \/ (g \in mem[l] /\ g.key # key)
         /\ s \subseteq [key : GuardKeys, seq : Nat \ {0}]
         /\ \A g, h \in s : g.key = h.key => g = h
         /\ \A g \in s : LaneOf[g.key[1]] = l
         /\ IsFiniteSet(s) /\ Cardinality(s) <= GuardCapacity
<1> DEFINE new == [key |-> key, seq |-> seq]
           others == {g \in mem[l] : g.key # key}
<1>1. /\ mem[l] \subseteq [key : GuardKeys, seq : Nat \ {0}] /\ IsFiniteSet(mem[l])
      /\ Cardinality(mem[l]) <= GuardCapacity /\ \A g, h \in mem[l] : g.key = h.key => g = h
      /\ \A g \in mem[l] : LaneOf[g.key[1]] = l
  BY DEF Types, MemOK
<1>2. GuardCapacity \in Nat /\ Cardinality(mem[l]) \in Nat
  BY <1>1, FS_CardinalityType, IngestAssumption
<1>3. /\ IsFiniteSet(others) /\ Cardinality(others) \in Nat
      /\ Cardinality(others) <= Cardinality(mem[l])
      /\ Cached(l, key) # {} => Cardinality(others) < Cardinality(mem[l])
  <2>1. others \subseteq mem[l]
    OBVIOUS
  <2>2. Cached(l, key) # {} => others # mem[l]
    BY DEF Cached
  <2> QED
    BY <1>1, <2>1, <2>2, FS_Subset, FS_CardinalityType
<1>4. PICK keep \in SUBSET others :
         s = keep \cup {new} /\ Cardinality(keep) < GuardCapacity
  <2>1. CASE Cached(l, key) = {} /\ Cardinality(mem[l]) >= GuardCapacity
    <3>1. PICK g \in others : s = (others \ {g}) \cup {new}
      BY <2>1 DEF GuardSets
    <3>2. Cardinality(others \ {g}) = Cardinality(others) - 1
      BY <1>3, <3>1, FS_RemoveElement
    <3> QED
      BY <1>1, <1>2, <1>3, <3>1, <3>2
  <2>2. CASE ~(Cached(l, key) = {} /\ Cardinality(mem[l]) >= GuardCapacity)
    <3>1. s = others \cup {new}
      BY <2>2 DEF GuardSets
    <3>2. Cardinality(others) < GuardCapacity
      BY <1>1, <1>2, <1>3, <2>2
    <3> QED
      BY <3>1, <3>2
  <2> QED
    BY <2>1, <2>2
<1>5. IsFiniteSet(keep) /\ Cardinality(keep) \in Nat
  BY <1>3, FS_Subset, FS_CardinalityType
<1>6. IsFiniteSet(s) /\ Cardinality(s) <= GuardCapacity
  <2>1. IsFiniteSet(keep \cup {new}) /\ Cardinality(keep \cup {new}) =
           IF new \in keep THEN Cardinality(keep) ELSE Cardinality(keep) + 1
    BY <1>5, FS_AddElement
  <2> QED
    BY <1>2, <1>4, <1>5, <2>1
<1>7. new \in [key : GuardKeys, seq : Nat \ {0}] /\ new.key = key
  OBVIOUS
<1> QED
  BY <1>1, <1>4, <1>6, <1>7

\* What ingestGuardStale compares with.
LEMMA LastAppliedIs ==
  ASSUME Types, NEW l \in Lanes, NEW key \in GuardKeys
  PROVE  /\ \A g \in mem[l] : g.key = key => LastApplied(l, key) = g.seq
         /\ (\A g \in mem[l] : g.key # key) =>
              Cached(l, key) = {} /\ LastApplied(l, key) = durable[key]
         /\ LastApplied(l, key) \in Nat
<1>1. /\ mem[l] \subseteq [key : GuardKeys, seq : Nat \ {0}]
      /\ \A g, h \in mem[l] : g.key = h.key => g = h
  BY DEF Types, MemOK
<1>2. ASSUME NEW g \in mem[l], g.key = key PROVE LastApplied(l, key) = g.seq
  <2>1. Cached(l, key) = {g}
    BY <1>1, <1>2 DEF Cached
  <2> QED
    BY <2>1 DEF LastApplied
<1>3. ASSUME \A g \in mem[l] : g.key # key
      PROVE  Cached(l, key) = {} /\ LastApplied(l, key) = durable[key]
  BY <1>3 DEF Cached, LastApplied
<1>4. durable[key] \in Nat
  BY DEF Types, StoreOK
<1> QED
  BY <1>1, <1>2, <1>3, <1>4

LEMMA HeldKey ==
  ASSUME Types, NEW l \in Lanes, worker[l].pc # "idle"
  PROVE  /\ worker[l].msg \in Msgs /\ LaneOf[worker[l].msg.entity] = l
         /\ guardKey(worker[l].msg) \in GuardKeys /\ LaneOf[guardKey(worker[l].msg)[1]] = l
         /\ worker[l].msg.seq \in Nat \ {0}
         /\ worker[l].msg.entity \in Entities /\ worker[l].msg.preds \subseteq Preds
<1>1. worker[l].msg \in Msgs /\ LaneOf[worker[l].msg.entity] = l
  BY DEF Types, WorkersOK, OfLane, Idle
<1> QED
  BY <1>1, IngestAssumption DEF guardKey, GuardKeys

-----------------------------------------------------------------------------
(* Types.                                                                  *)

\* A worker that finishes its message, and one that goes on with it.
LEMMA WorkerMoves ==
  ASSUME Types, NEW l \in Lanes
  PROVE  /\ Done(l) =>
              /\ worker' \in [Lanes -> Workers]
              /\ worker'[l] = Idle /\ worker'[l].pc = "idle"
              /\ \A k \in Lanes : k # l => worker'[k] = worker[k]
         /\ \A pc \in {"apply", "stamp", "ack"} : GoTo(l, pc) =>
              /\ worker' \in [Lanes -> Workers]
              /\ worker'[l].msg = worker[l].msg /\ worker'[l].pc = pc
              /\ \A k \in Lanes : k # l => worker'[k] = worker[k]
<1>1. worker \in [Lanes -> Workers]
  BY DEF Types, WorkersOK
<1>2. ASSUME Done(l)
      PROVE  /\ worker' \in [Lanes -> Workers]
             /\ worker'[l] = Idle /\ worker'[l].pc = "idle"
             /\ \A k \in Lanes : k # l => worker'[k] = worker[k]
  BY <1>1, <1>2 DEF Done, Idle, Workers
<1>3. ASSUME NEW pc \in {"apply", "stamp", "ack"}, GoTo(l, pc)
      PROVE  /\ worker' \in [Lanes -> Workers]
             /\ worker'[l].msg = worker[l].msg /\ worker'[l].pc = pc
             /\ \A k \in Lanes : k # l => worker'[k] = worker[k]
  BY <1>1, <1>3 DEF GoTo, Workers
<1> QED
  BY <1>2, <1>3

\* A settlement keeps the type of phase and changes one message.
LEMMA SettledProps ==
  ASSUME Types, NEW m \in Msgs, NEW outcome \in {"out", "acked", "termed"}
  PROVE  /\ Settled(m, outcome) \in [Msgs -> {"stored", "out", "acked", "termed"}]
         /\ \A n \in Msgs : n # m => Settled(m, outcome)[n] = phase[n]
         /\ Settled(m, outcome)[m] \in {phase[m], outcome} \ {"stored"}
BY DEF Settled, Types, RunOK

LEMMA SettleProps ==
  ASSUME Types, NEW m \in Msgs, NEW outcome \in {"acked", "termed"}, Settle(m, outcome)
  PROVE  /\ phase' \in [Msgs -> {"stored", "out", "acked", "termed"}]
         /\ \A n \in Msgs : n # m => phase'[n] = phase[n]
         /\ phase'[m] \in {phase[m], outcome, "out"} \ {"stored"}
         /\ faults' \in 0..MaxFaults
<1>1. faults \in 0..MaxFaults /\ MaxFaults \in Nat
  BY IngestAssumption DEF Types, RunOK
<1>2. PICK to \in {outcome, "out"} : phase' = Settled(m, to)
  BY DEF Settle
<1>3. faults' \in 0..MaxFaults
  BY <1>1 DEF Settle, Fail
<1>4. /\ Settled(m, to) \in [Msgs -> {"stored", "out", "acked", "termed"}]
      /\ \A n \in Msgs : n # m => Settled(m, to)[n] = phase[n]
      /\ Settled(m, to)[m] \in {phase[m], to} \ {"stored"}
  BY SettledProps
<1> QED
  BY <1>2, <1>3, <1>4

\* The parts make up TypeOK.
LEMMA TypesAreTypeOK == Types => TypeOK
<1> SUFFICES ASSUME Types PROVE TypeOK
  OBVIOUS
<1>1. ASSUME NEW l \in Lanes
      PROVE  /\ lanes[l] \in Seq({m \in Msgs : LaneOf[m.entity] = l})
             /\ Len(lanes[l]) <= QueueDepth
  BY DEF Types, LanesOK, OfLane
<1>2. ASSUME NEW l \in Lanes
      PROVE  \/ worker[l] = Idle
             \/ worker[l].msg \in Msgs /\ worker[l].pc \in {"guard", "apply", "stamp", "ack"}
  BY DEF Types, WorkersOK, OfLane, Workers
<1>3. ASSUME NEW l \in Lanes
      PROVE  /\ mem[l] \subseteq [key : GuardKeys, seq : Nat \ {0}]
             /\ Cardinality(mem[l]) <= GuardCapacity
             /\ \A g, h \in mem[l] : g.key = h.key => g = h
  BY DEF Types, MemOK
<1> QED
  BY <1>1, <1>2, <1>3, Zenon DEF Types, RunOK, StoreOK, TypeOK

LEMMA InitTypes == Init => Types
<1> SUFFICES ASSUME Init PROVE Types
  OBVIOUS
<1> USE IngestAssumption DEF Init
<1>1. RunOK
  <2>1. stopping \in BOOLEAN
    BY Zenon
  <2> QED
    BY <2>1 DEF RunOK
<1>2. LanesOK
  BY EmptySeq DEF LanesOK
<1>3. WorkersOK
  BY DEF WorkersOK, Workers, Idle
<1>4. MemOK
  <2>1. \A l \in Lanes : mem[l] = {}
    OBVIOUS
  <2>2. IsFiniteSet({}) /\ Cardinality({}) = 0
    BY FS_EmptySet
  <2> QED
    BY <2>1, <2>2 DEF MemOK
<1>5. StoreOK
  BY DEF StoreOK
<1> QED
  BY <1>1, <1>2, <1>3, <1>4, <1>5 DEF Types

\* A delivery.
LEMMA ConsumeTypes ==
  ASSUME Types, NEW m \in Msgs, Consume(m)
  PROVE  Types'
<1> USE IngestAssumption
<1> DEFINE l == LaneOf[m.entity]
<1>0. l \in Lanes /\ m \in OfLane(l)
  BY DEF OfLane
<1>1. UNCHANGED <<stopping, worker, mem, durable, state, poisoned, landed, crashes>>
  BY DEF Consume
<1>2. WorkersOK' /\ MemOK' /\ StoreOK'
  BY <1>1 DEF Types, WorkersOK, MemOK, StoreOK
<1>3. delivered[m] < MaxDeliver /\ delivered' = [delivered EXCEPT ![m] = @ + 1]
  BY DEF Consume, Types, RunOK
<1>4. /\ phase' \in [Msgs -> {"stored", "out", "acked", "termed"}]
      /\ phase'[m] # "stored" /\ \A n \in Msgs : n # m => phase'[n] = phase[n]
      /\ faults' \in 0..MaxFaults
  <2>1. CASE Settle(m, "acked")
    BY <2>1, SettleProps
  <2>2. CASE phase' = [phase EXCEPT ![m] = "out"] /\ UNCHANGED faults
    BY <2>2 DEF Types, RunOK
  <2> QED
    BY <2>1, <2>2 DEF Consume
<1>5. RunOK'
  <2>1. delivered' \in [Msgs -> 0..MaxDeliver] /\ \A n \in Msgs : n # m => delivered'[n] = delivered[n]
    BY <1>3 DEF Types, RunOK
  <2> QED
    BY <1>1, <1>4, <2>1 DEF Types, RunOK
<1>6. LanesOK'
  <2>1. CASE UNCHANGED lanes
    BY <2>1 DEF Types, LanesOK
  <2>2. CASE Len(lanes[l]) < QueueDepth /\ lanes' = [lanes EXCEPT ![l] = Append(@, m)]
    <3>1. /\ Append(lanes[l], m) \in Seq(OfLane(l)) /\ Append(lanes[l], m) \in Seq(Msgs)
          /\ Len(Append(lanes[l], m)) = Len(lanes[l]) + 1 /\ Len(lanes[l]) \in Nat
      BY <1>0, AppendProperties, LenProperties DEF Types, LanesOK
    <3>2. /\ lanes'[l] = Append(lanes[l], m) /\ lanes' \in [Lanes -> Seq(Msgs)]
          /\ \A k \in Lanes : k # l => lanes'[k] = lanes[k]
      BY <2>2, <1>0, <3>1 DEF Types, LanesOK
    <3>3. Len(lanes'[l]) <= QueueDepth
      BY <2>2, <3>1, <3>2
    <3> QED
      BY <1>0, <3>1, <3>2, <3>3 DEF Types, LanesOK
  <2> QED
    BY <2>1, <2>2 DEF Consume
<1> QED
  BY <1>2, <1>5, <1>6 DEF Types

\* The steps of a worker leave its lane's queue, the deliveries and the crashes alone.
LEMMA WorkerTypes ==
  ASSUME Types, NEW l \in Lanes, Refuse(l) \/ Guard(l) \/ Apply(l) \/ Stamp(l) \/ Acknowledge(l)
  PROVE  /\ WorkersOK' /\ LanesOK' /\ RunOK'
         /\ worker[l].pc # "idle" /\ worker'[l].pc # "idle" => worker'[l].msg = worker[l].msg
         /\ \A k \in Lanes : k # l => worker'[k] = worker[k]
         /\ UNCHANGED <<delivered, stopping, lanes, crashes>>
<1> USE IngestAssumption
<1>1. worker[l].pc # "idle" /\ UNCHANGED <<delivered, stopping, lanes, crashes>>
  BY DEF Refuse, Guard, Apply, Stamp, Acknowledge
<1>2. worker[l].msg \in Msgs /\ worker[l].msg \in OfLane(l)
  BY <1>1, HeldKey DEF OfLane
<1>3. Done(l) \/ \E pc \in {"apply", "stamp", "ack"} : GoTo(l, pc)
  BY DEF Refuse, Guard, Apply, Stamp, Acknowledge
<1>4. /\ worker' \in [Lanes -> Workers]
      /\ worker'[l] = Idle \/ (worker'[l].pc # "idle" /\ worker'[l].msg = worker[l].msg)
      /\ worker'[l].pc # "idle" => worker'[l].msg = worker[l].msg
      /\ \A k \in Lanes : k # l => worker'[k] = worker[k]
  BY <1>3, WorkerMoves
<1>5. WorkersOK'
  BY <1>2, <1>4 DEF Types, WorkersOK, OfLane
<1>6. LanesOK'
  BY <1>1 DEF Types, LanesOK
<1>7. /\ phase' \in [Msgs -> {"stored", "out", "acked", "termed"}] /\ faults' \in 0..MaxFaults
      /\ \A n \in Msgs : phase'[n] = "stored" => phase[n] = "stored"
  <2>1. CASE \E outcome \in {"acked", "termed"} : Settle(worker[l].msg, outcome)
    BY <2>1, <1>2, SettleProps
  <2>2. CASE UNCHANGED phase /\ (UNCHANGED faults \/ Fail)
    BY <2>2 DEF Types, RunOK, Fail
  <2>3. CASE phase' = Settled(worker[l].msg, "termed") /\ Fail
    <3>1. faults' \in 0..MaxFaults
      BY <2>3 DEF Types, RunOK, Fail
    <3>2. /\ Settled(worker[l].msg, "termed") \in [Msgs -> {"stored", "out", "acked", "termed"}]
          /\ \A n \in Msgs : n # worker[l].msg => Settled(worker[l].msg, "termed")[n] = phase[n]
          /\ Settled(worker[l].msg, "termed")[worker[l].msg] # "stored"
      BY <1>2, SettledProps
    <3> QED
      BY <2>3, <3>1, <3>2
  <2> QED
    BY <2>1, <2>2, <2>3 DEF Refuse, Guard, Apply, Stamp, Acknowledge
<1>8. RunOK'
  BY <1>1, <1>7 DEF Types, RunOK
<1> QED
  BY <1>1, <1>4, <1>5, <1>6, <1>8

-----------------------------------------------------------------------------
(* The guard.                                                              *)

\* The part of IInv that is about the guard and what it protects.
Guarded == MemNeverAhead /\ Admitted /\ Stamped /\ Covered /\ HeldKept /\ LandedKept

\* Two messages of a lane that share no key, and a worker's message of another lane.
LEMMA KeysOfLanes ==
  ASSUME Types, NEW l \in Lanes, NEW k \in Lanes, k # l,
         worker[l].pc # "idle", worker[k].pc # "idle"
  PROVE  guardKey(worker[l].msg) # guardKey(worker[k].msg)
         /\ worker[l].msg.entity # worker[k].msg.entity
<1>1. LaneOf[worker[l].msg.entity] = l /\ LaneOf[worker[k].msg.entity] = k
  BY HeldKey
<1> QED
  BY <1>1 DEF guardKey

\* Steps that neither write nor acknowledge: no worker gets further than the guard.
LEMMA QuietKeeps ==
  ASSUME Types, Guarded,
         UNCHANGED <<mem, durable, state, landed>>,
         \A n \in Msgs : phase'[n] = "acked" /\ n.shape = "valid" => phase[n] = "acked",
         \A l \in Lanes : worker'[l].pc \in {"apply", "stamp", "ack"} => worker'[l] = worker[l]
  PROVE  Guarded'
<1>1. MemNeverAhead' /\ LandedKept'
  BY DEF Guarded, MemNeverAhead, LandedKept, Kept
<1>2. Admitted'
  BY DEF Guarded, Admitted, Below, guardKey
<1>3. Stamped'
  BY DEF Guarded, Stamped, guardKey
<1>4. Covered'
  BY DEF Guarded, Covered, AtLeast, guardKey
<1>5. HeldKept'
  BY DEF Guarded, HeldKept, Kept
<1> QED
  BY <1>1, <1>2, <1>3, <1>4, <1>5 DEF Guarded

\* What a newer message of the stream means for a landed one.
LEMMA NewerThanCovered ==
  ASSUME Types, Guarded, NEW l \in Lanes, worker[l].pc \in {"apply", "stamp"},
         NEW n \in Msgs, guardKey(n) = guardKey(worker[l].msg),
         n \in landed \/ (phase[n] = "acked" /\ n.shape = "valid")
  PROVE  n.seq < worker[l].msg.seq
<1> DEFINE m == worker[l].msg
           key == guardKey(m)
<1>1. /\ m \in Msgs /\ LaneOf[m.entity] = l /\ key \in GuardKeys
      /\ m.seq \in Nat /\ n.seq \in Nat
  BY HeldKey, IngestAssumption
<1>2. n.entity = m.entity
  BY DEF guardKey
<1>3. AtLeast(l, key, n.seq)
  BY <1>1, <1>2 DEF Guarded, Covered
<1>4. Below(l, key, m.seq)
  BY DEF Guarded, Admitted
<1>5. durable[key] \in Nat /\ \A g \in mem[l] : g.seq \in Nat
  BY <1>1 DEF Types, StoreOK, MemOK
<1>6. CASE \A g \in mem[l] : g.key # key
  BY <1>1, <1>3, <1>4, <1>5, <1>6 DEF AtLeast, Below
<1>7. CASE \E g \in mem[l] : g.key = key
  BY <1>1, <1>3, <1>4, <1>5, <1>7 DEF AtLeast, Below
<1> QED
  BY <1>6, <1>7

\* A cache that takes one more entry keeps its type.
Caches(l, key, seq) == \E s \in GuardSets(l, key, seq) : mem' = [mem EXCEPT ![l] = s]

LEMMA MemTakes ==
  ASSUME Types, NEW l \in Lanes, NEW key \in GuardKeys, NEW seq \in Nat \ {0},
         LaneOf[key[1]] = l, Caches(l, key, seq)
  PROVE  /\ MemOK' /\ \A k \in Lanes : k # l => mem'[k] = mem[k]
         /\ [key |-> key, seq |-> seq] \in mem'[l]
         /\ \A g \in mem'[l] : (g.key = key /\ g.seq = seq) \/ (g \in mem[l] /\ g.key # key)
<1>1. PICK s \in GuardSets(l, key, seq) : mem' = [mem EXCEPT ![l] = s]
  BY DEF Caches
<1>2. /\ [key |-> key, seq |-> seq] \in s
      /\ \A g \in s : g = [key |-> key, seq |-> seq] \/ (g \in mem[l] /\ g.key # key)
      /\ s \subseteq [key : GuardKeys, seq : Nat \ {0}]
      /\ \A g, h \in s : g.key = h.key => g = h
      /\ \A g \in s : LaneOf[g.key[1]] = l
      /\ IsFiniteSet(s) /\ Cardinality(s) <= GuardCapacity
  BY GuardSetsProps
<1>3. /\ mem' \in [Lanes -> SUBSET [key : GuardKeys, seq : Nat \ {0}]]
      /\ mem'[l] = s /\ \A k \in Lanes : k # l => mem'[k] = mem[k]
  BY <1>1, <1>2 DEF Types, MemOK
<1>4. MemOK'
  BY <1>2, <1>3 DEF Types, MemOK
<1> QED
  BY <1>2, <1>3, <1>4

\* The guard passes a message, or acknowledges one it covers.
LEMMA GuardKeeps ==
  ASSUME Types, Guarded, NEW l \in Lanes, Guard(l)
  PROVE  Types' /\ Guarded'
<1> DEFINE m == worker[l].msg
           key == guardKey(m)
           last == LastApplied(l, key)
<1>1. /\ worker[l].pc = "guard" /\ m.shape = "valid"
      /\ UNCHANGED <<durable, state, poisoned, landed>>
  BY DEF Guard
<1>2. /\ m \in Msgs /\ LaneOf[m.entity] = l /\ key \in GuardKeys /\ LaneOf[key[1]] = l
      /\ m.seq \in Nat \ {0}
  BY <1>1, HeldKey
<1>3. /\ WorkersOK' /\ LanesOK' /\ RunOK' /\ StoreOK'
      /\ worker'[l].pc # "idle" => worker'[l].msg = m
      /\ \A k \in Lanes : k # l => worker'[k] = worker[k]
  <2>1. StoreOK'
    BY <1>1 DEF Types, StoreOK
  <2> QED
    BY <1>1, <2>1, WorkerTypes, Zenon
<1>4. /\ \A g \in mem[l] : g.key = key => last = g.seq
      /\ (\A g \in mem[l] : g.key # key) => Cached(l, key) = {} /\ last = durable[key]
      /\ last \in Nat
  BY <1>2, LastAppliedIs
<1>5. CASE UNCHANGED <<phase, mem>> /\ Done(l)
  <2>1. MemOK'
    BY <1>5 DEF Types, MemOK
  <2>2. worker'[l].pc = "idle"
    BY <1>5, WorkerMoves
  <2>3. Guarded'
    BY <1>1, <1>3, <1>5, <2>2, QuietKeeps
  <2> QED
    BY <1>3, <2>1, <2>3 DEF Types
<1>6. CASE /\ IF Cached(l, key) # {} \/ last = 0 THEN UNCHANGED mem
              ELSE \E g \in GuardSets(l, key, last) : mem' = [mem EXCEPT ![l] = g]
           /\ IF m.seq <= last
              THEN Settle(m, "acked") /\ Done(l)
              ELSE GoTo(l, "apply") /\ UNCHANGED <<phase, faults>>
  <2>1. /\ MemOK' /\ \A k \in Lanes : k # l => mem'[k] = mem[k]
        /\ \A g \in mem'[l] : g \in mem[l] \/ (g.key = key /\ g.seq = last /\ last = durable[key])
        /\ \A g \in mem'[l] : g.key = key => g.seq = last
        /\ (\A g \in mem'[l] : g.key # key) => last = durable[key]
    <3>1. CASE Cached(l, key) # {} \/ last = 0
      <4>1. UNCHANGED mem
        BY <1>6, <3>1
      <4> QED
        BY <1>4, <4>1 DEF Types, MemOK
    <3>2. CASE Cached(l, key) = {} /\ last # 0
      <4>1. last = durable[key]
        BY <1>4, <3>2 DEF Cached
      <4>2. Caches(l, key, last)
        BY <1>6, <3>2 DEF Caches
      <4>3. last \in Nat \ {0}
        BY <1>4, <3>2
      <4>4. /\ MemOK' /\ \A k \in Lanes : k # l => mem'[k] = mem[k]
            /\ [key |-> key, seq |-> last] \in mem'[l]
            /\ \A g \in mem'[l] : (g.key = key /\ g.seq = last) \/ (g \in mem[l] /\ g.key # key)
        BY <1>2, <4>2, <4>3, MemTakes
      <4>5. [key |-> key, seq |-> last].key = key
        OBVIOUS
      <4> QED
        BY <4>1, <4>4, <4>5
    <3> QED
      BY <3>1, <3>2
  <2>2. durable[key] \in Nat /\ \A g \in mem[l] : g.seq <= durable[g.key]
    BY <1>2 DEF Guarded, MemNeverAhead, Types, StoreOK
  <2>3. last <= durable[key]
    BY <1>4, <2>2
  <2>4. MemNeverAhead'
    BY <1>1, <2>1, <2>2 DEF Guarded, MemNeverAhead
  <2>5. \A k \in Lanes, j \in GuardKeys, n \in Nat : AtLeast(k, j, n) => AtLeast(k, j, n)'
    BY <1>1, <2>1 DEF AtLeast
  <2>6. /\ worker'[l].pc \in {"idle", "apply"} /\ (worker'[l].pc = "apply" => last < m.seq)
        /\ \A n \in Msgs : n # m => phase'[n] = phase[n]
        /\ phase'[m] = "acked" => phase[m] = "acked" \/ m.seq <= last
    <3>1. CASE m.seq <= last
      <4>1. Settle(m, "acked") /\ Done(l)
        BY <1>6, <3>1
      <4> QED
        BY <1>2, <3>1, <4>1, SettleProps, WorkerMoves
    <3>2. CASE ~(m.seq <= last)
      <4>1. GoTo(l, "apply") /\ UNCHANGED phase
        BY <1>6, <3>2
      <4> QED
        BY <1>2, <1>4, <3>2, <4>1, WorkerMoves
    <3> QED
      BY <3>1, <3>2
  <2>7. Covered'
    <3> SUFFICES ASSUME NEW n \in Msgs, (phase'[n] = "acked" /\ n.shape = "valid") \/ n \in landed
                 PROVE  AtLeast(LaneOf[n.entity], guardKey(n), n.seq)'
      BY <1>1 DEF Covered, guardKey, AtLeast
    <3>1. LaneOf[n.entity] \in Lanes /\ guardKey(n) \in GuardKeys /\ n.seq \in Nat
      BY IngestAssumption DEF guardKey, GuardKeys
    <3>2. CASE (phase[n] = "acked" /\ n.shape = "valid") \/ n \in landed
      BY <3>1, <3>2, <2>5 DEF Guarded, Covered
    <3>3. CASE n = m /\ m.seq <= last
      BY <1>1, <1>2, <1>4, <2>1, <2>2, <2>3, <3>3 DEF AtLeast
    <3> QED
      BY <3>2, <3>3, <2>6
  <2>8. Admitted'
    <3> SUFFICES ASSUME NEW k \in Lanes, worker'[k].pc \in {"apply", "stamp"}
                 PROVE  Below(k, guardKey(worker[k].msg), worker[k].msg.seq)' 
      BY DEF Admitted, Below, guardKey
    <3>1. CASE k = l
      BY <1>1, <1>2, <1>3, <1>4, <2>1, <2>6, <3>1 DEF Below, guardKey
    <3>2. CASE k # l
      BY <1>1, <1>3, <2>1, <3>2 DEF Below, guardKey, Guarded, Admitted
    <3> QED
      BY <3>1, <3>2
  <2>9. Stamped'
    BY <1>1, <1>3, <2>1, <2>6 DEF Guarded, Stamped, guardKey
  <2>10. HeldKept' /\ LandedKept'
    BY <1>1, <1>3, <2>6 DEF Guarded, HeldKept, LandedKept, Kept
  <2> QED
    BY <1>3, <2>1, <2>4, <2>7, <2>8, <2>9, <2>10 DEF Types, Guarded
<1> QED
  BY <1>5, <1>6 DEF Guard

\* The merge commits, or the attempt fails: only newer messages reach it.
LEMMA ApplyKeeps ==
  ASSUME Types, Guarded, NEW l \in Lanes, Apply(l)
  PROVE  Types' /\ Guarded'
<1> DEFINE m == worker[l].msg
           e == m.entity
<1>1. /\ worker[l].pc = "apply" /\ UNCHANGED <<mem, durable, landed>>
      /\ Committed(m) \/ UNCHANGED <<state, poisoned>>
      /\ Done(l) \/ (GoTo(l, "stamp") /\ Committed(m))
      /\ UNCHANGED phase \/ phase' = Settled(m, "termed")
  BY DEF Apply
<1>2. /\ m \in Msgs /\ e \in Entities /\ m.preds \subseteq Preds
      /\ m.seq \in Nat \ {0}
  BY <1>1, HeldKey
<1>3. /\ WorkersOK' /\ LanesOK' /\ RunOK'
      /\ worker'[l].pc # "idle" => worker'[l].msg = m
      /\ \A k \in Lanes : k # l => worker'[k] = worker[k]
  BY <1>1, WorkerTypes, Zenon
<1>4. worker'[l].pc \in {"idle", "stamp"} /\ (worker'[l].pc = "stamp" => Committed(m))
  BY <1>1, WorkerMoves
<1>5. /\ state' \in [Entities -> [Preds -> Msgs \cup {None, Floor}]]
      /\ poisoned' \subseteq Entities
      /\ \A d \in Entities : d # e => state'[d] = state[d]
      /\ Committed(m) => \A p \in Preds \ {Profile} :
           state'[e][p] = IF p \in m.preds THEN m ELSE state[e][p]
  <2>1. CASE Committed(m)
    <3>1. Merge(state[e], m) \in [Preds -> Msgs \cup {None, Floor}]
      BY <1>2 DEF Merge, Types, StoreOK
    <3>2. \A p \in Preds \ {Profile} :
             Merge(state[e], m)[p] = IF p \in m.preds THEN m ELSE state[e][p]
      BY DEF Merge
    <3>3. state' = [state EXCEPT ![e] = Merge(state[e], m)] /\ poisoned' = poisoned \ {e}
      BY <2>1 DEF Committed
    <3>4. state'[e] = Merge(state[e], m) /\ \A d \in Entities : d # e => state'[d] = state[d]
      BY <1>2, <3>3 DEF Types, StoreOK
    <3> QED
      BY <1>2, <3>1, <3>2, <3>3, <3>4 DEF Types, StoreOK
  <2>2. CASE ~Committed(m)
    BY <1>1, <2>2 DEF Types, StoreOK
  <2> QED
    BY <2>1, <2>2
<1>6. Types'
  <2>1. MemOK'
    BY <1>1 DEF Types, MemOK
  <2>2. StoreOK'
    BY <1>1, <1>5 DEF Types, StoreOK
  <2> QED
    BY <1>3, <2>1, <2>2 DEF Types
<1>7. \A n \in Msgs : phase'[n] = "acked" => phase[n] = "acked"
  <2>1. CASE UNCHANGED phase
    BY <2>1
  <2>2. CASE phase' = Settled(m, "termed")
    <3>1. /\ \A n \in Msgs : n # m => Settled(m, "termed")[n] = phase[n]
          /\ Settled(m, "termed")[m] \in {phase[m], "termed"}
      BY <1>2, SettledProps
    <3> QED
      BY <2>2, <3>1
  <2> QED
    BY <1>1, <2>1, <2>2
<1>8. MemNeverAhead' /\ Covered'
  BY <1>1, <1>7 DEF Guarded, MemNeverAhead, Covered, AtLeast, guardKey
<1>9. Admitted'
  BY <1>1, <1>3, <1>4 DEF Guarded, Admitted, Below, guardKey
<1>10. Stamped'
  BY <1>1, <1>3, <1>4 DEF Guarded, Stamped, guardKey
<1>11. HeldKept'
  <2> SUFFICES ASSUME NEW k \in Lanes, worker'[k].pc \in {"stamp", "ack"}
               PROVE  Kept(worker[k].msg)'
    BY DEF HeldKept
  <2>1. CASE k = l
    <3>1. worker'[k].msg = m /\ Committed(m)
      BY <1>3, <1>4, <2>1
    <3>2. \A p \in m.preds \ {Profile} : state'[e][p] = m
      BY <1>2, <1>5, <3>1
    <3>3. m.seq >= m.seq
      BY <1>2
    <3> QED
      BY <3>1, <3>2, <3>3 DEF Kept
  <2>2. CASE k # l
    <3>1. worker'[k] = worker[k] /\ worker[k].pc # "idle" /\ Kept(worker[k].msg)
      BY <1>3, <2>2 DEF Guarded, HeldKept
    <3>2. worker[k].msg.entity \in Entities /\ worker[k].msg.entity # e
      BY <1>1, <2>2, <3>1, HeldKey, KeysOfLanes
    <3> QED
      BY <1>5, <3>1, <3>2 DEF Kept
  <2> QED
    BY <2>1, <2>2
<1>12. LandedKept'
  <2> SUFFICES ASSUME NEW n \in landed PROVE Kept(n)'
    BY <1>1 DEF LandedKept
  <2>1. n \in Msgs /\ n.entity \in Entities /\ n.preds \subseteq Preds /\ n.seq \in Nat /\ Kept(n)
    BY IngestAssumption DEF Types, StoreOK, Guarded, LandedKept
  <2>2. CASE n.entity # e \/ ~Committed(m)
    BY <1>1, <1>5, <2>1, <2>2 DEF Kept
  <2>3. CASE n.entity = e /\ Committed(m)
    <3> SUFFICES ASSUME NEW p \in n.preds \ {Profile}, state'[e][p] \in Msgs,
                        state'[e][p].stream = n.stream
                 PROVE  state'[e][p].seq >= n.seq
      BY <2>3 DEF Kept
    <3>1. CASE p \in m.preds
      <4>1. state'[e][p] = m
        BY <1>5, <2>1, <2>3, <3>1
      <4>2. guardKey(n) = guardKey(m)
        BY <2>3, <4>1 DEF guardKey
      <4>3. n.seq < m.seq
        BY <1>1, <2>1, <4>2, NewerThanCovered
      <4> QED
        BY <1>2, <2>1, <4>1, <4>3
    <3>2. CASE p \notin m.preds
      <4>1. state'[e][p] = state[e][p]
        BY <1>5, <2>1, <2>3, <3>2
      <4> QED
        BY <2>1, <2>3, <4>1 DEF Kept
    <3> QED
      BY <3>1, <3>2
  <2> QED
    BY <2>2, <2>3
<1> QED
  BY <1>6, <1>8, <1>9, <1>10, <1>11, <1>12 DEF Guarded

\* The durable stamp: it replaces one the lane's guard stands below or one no cached
\* entry has seen.
LEMMA StampKeeps ==
  ASSUME Types, Guarded, NEW l \in Lanes, Stamp(l)
  PROVE  Types' /\ Guarded'
<1> DEFINE m == worker[l].msg
           key == guardKey(m)
<1>1. /\ worker[l].pc = "stamp" /\ UNCHANGED <<phase, mem, state, poisoned, landed>>
      /\ durable' = [durable EXCEPT ![key] = m.seq] \/ (UNCHANGED durable /\ Done(l))
      /\ Done(l) \/ GoTo(l, "ack")
  BY DEF Stamp
<1>2. /\ m \in Msgs /\ key \in GuardKeys /\ LaneOf[key[1]] = l /\ m.seq \in Nat \ {0}
  BY <1>1, HeldKey
<1>3. /\ WorkersOK' /\ LanesOK' /\ RunOK'
      /\ worker'[l].pc # "idle" => worker'[l].msg = m
      /\ \A k \in Lanes : k # l => worker'[k] = worker[k]
  BY <1>1, WorkerTypes, Zenon
<1>4. worker'[l].pc \in {"idle", "ack"}
  BY <1>1, WorkerMoves
<1>5. /\ durable' \in [GuardKeys -> Nat]
      /\ \A j \in GuardKeys : j # key => durable'[j] = durable[j]
      /\ worker'[l].pc = "ack" => durable'[key] = m.seq
      /\ durable'[key] \in {durable[key], m.seq}
  BY <1>1, <1>2, WorkerMoves DEF Types, StoreOK
<1>6. Types'
  <2>1. MemOK' /\ StoreOK'
    BY <1>1, <1>5 DEF Types, MemOK, StoreOK
  <2> QED
    BY <1>3, <2>1 DEF Types
<1>7. /\ \A g \in mem[l] : g.key = key => g.seq < m.seq
      /\ \A k \in Lanes : \A g \in mem[k] :
           /\ g.key \in GuardKeys /\ g.seq \in Nat /\ g.seq <= durable[g.key]
           /\ k # l => g.key # key
  BY <1>1, <1>2 DEF Guarded, Admitted, Below, MemNeverAhead, Types, MemOK
<1>8. MemNeverAhead'
  BY <1>1, <1>2, <1>5, <1>7 DEF MemNeverAhead
<1>9. Admitted'
  <2> SUFFICES ASSUME NEW k \in Lanes, worker'[k].pc \in {"apply", "stamp"}
               PROVE  Below(k, guardKey(worker[k].msg), worker[k].msg.seq)'
    BY DEF Admitted, Below, guardKey
  <2>1. k # l /\ worker'[k] = worker[k] /\ worker[k].pc # "idle"
    BY <1>3, <1>4
  <2>2. guardKey(worker[k].msg) \in GuardKeys /\ guardKey(worker[k].msg) # key
    BY <1>1, <2>1, HeldKey, KeysOfLanes
  <2>3. Below(k, guardKey(worker[k].msg), worker[k].msg.seq)
    BY <2>1 DEF Guarded, Admitted
  <2> QED
    BY <1>1, <1>5, <2>1, <2>2, <2>3 DEF Below, guardKey
<1>10. Stamped'
  <2> SUFFICES ASSUME NEW k \in Lanes, worker'[k].pc = "ack"
               PROVE  /\ durable'[guardKey(worker'[k].msg)] = worker'[k].msg.seq
                      /\ \A g \in mem[k] : g.key = guardKey(worker'[k].msg) => g.seq < worker'[k].msg.seq
    BY <1>1 DEF Stamped, guardKey
  <2>1. CASE k = l
    BY <1>3, <1>5, <1>7, <2>1
  <2>2. CASE k # l
    <3>1. worker'[k] = worker[k] /\ worker[k].pc = "ack"
      BY <1>3, <2>2
    <3>2. guardKey(worker[k].msg) \in GuardKeys /\ guardKey(worker[k].msg) # key
      BY <1>1, <2>2, <3>1, HeldKey, KeysOfLanes
    <3> QED
      BY <1>5, <3>1, <3>2 DEF Guarded, Stamped
  <2> QED
    BY <2>1, <2>2
<1>11. Covered'
  <2> SUFFICES ASSUME NEW n \in Msgs, (phase[n] = "acked" /\ n.shape = "valid") \/ n \in landed
               PROVE  AtLeast(LaneOf[n.entity], guardKey(n), n.seq)'
    BY <1>1 DEF Covered, guardKey, AtLeast
  <2>1. guardKey(n) \in GuardKeys /\ n.seq \in Nat
    BY IngestAssumption DEF guardKey, GuardKeys
  <2>2. AtLeast(LaneOf[n.entity], guardKey(n), n.seq)
    BY DEF Guarded, Covered
  <2>3. guardKey(n) = key => n.seq < m.seq
    BY <1>1, NewerThanCovered
  <2> QED
    BY <1>1, <1>2, <1>5, <2>1, <2>2, <2>3 DEF AtLeast
<1>12. HeldKept' /\ LandedKept'
  BY <1>1, <1>3, <1>4 DEF Guarded, HeldKept, LandedKept, Kept
<1> QED
  BY <1>6, <1>8, <1>9, <1>10, <1>11, <1>12 DEF Guarded

\* The cache follows the durable stamp and the message is acknowledged.
LEMMA AcknowledgeKeeps ==
  ASSUME Types, Guarded, NEW l \in Lanes, Acknowledge(l)
  PROVE  Types' /\ Guarded'
<1> DEFINE m == worker[l].msg
           key == guardKey(m)
<1>1. /\ worker[l].pc = "ack" /\ UNCHANGED <<durable, state, poisoned>>
      /\ Caches(l, key, m.seq) /\ Settle(m, "acked") /\ Done(l)
      /\ landed' = landed \cup {m}
  BY DEF Acknowledge, Caches
<1>2. /\ m \in Msgs /\ key \in GuardKeys /\ LaneOf[key[1]] = l /\ LaneOf[m.entity] = l
      /\ m.seq \in Nat \ {0}
  BY <1>1, HeldKey
<1>3. /\ WorkersOK' /\ LanesOK' /\ RunOK'
      /\ \A k \in Lanes : k # l => worker'[k] = worker[k]
  BY <1>1, WorkerTypes, Zenon
<1>4. worker'[l].pc = "idle"
  BY <1>1, WorkerMoves
<1>5. /\ MemOK' /\ \A k \in Lanes : k # l => mem'[k] = mem[k]
      /\ \A g \in mem'[l] : (g.key = key /\ g.seq = m.seq) \/ (g \in mem[l] /\ g.key # key)
  <2>1. Caches(l, key, m.seq)
    BY <1>1
  <2>2. key \in GuardKeys /\ LaneOf[key[1]] = l /\ m.seq \in Nat \ {0}
    BY <1>2
  <2>3. /\ MemOK' /\ \A k \in Lanes : k # l => mem'[k] = mem[k]
        /\ [key |-> key, seq |-> m.seq] \in mem'[l]
        /\ \A g \in mem'[l] : (g.key = key /\ g.seq = m.seq) \/ (g \in mem[l] /\ g.key # key)
    BY <2>1, <2>2, MemTakes
  <2> QED
    BY <2>3
<1>6. Types'
  <2>1. StoreOK'
    BY <1>1, <1>2 DEF Types, StoreOK
  <2> QED
    BY <1>3, <1>5, <2>1 DEF Types
<1>7. \A n \in Msgs : n # m => phase'[n] = phase[n]
  BY <1>1, <1>2, SettleProps
<1>8. durable[key] = m.seq /\ \A g \in mem[l] : g.seq <= durable[g.key]
  BY <1>1 DEF Guarded, Stamped, MemNeverAhead
<1>9. MemNeverAhead'
  BY <1>1, <1>2, <1>5, <1>8 DEF Guarded, MemNeverAhead
<1>10. Admitted'
  BY <1>1, <1>3, <1>4, <1>5 DEF Guarded, Admitted, Below, guardKey
<1>11. Stamped'
  BY <1>1, <1>3, <1>4, <1>5 DEF Guarded, Stamped, guardKey
<1>12. Covered'
  <2> SUFFICES ASSUME NEW n \in Msgs, (phase'[n] = "acked" /\ n.shape = "valid") \/ n \in landed'
               PROVE  AtLeast(LaneOf[n.entity], guardKey(n), n.seq)'
    BY DEF Covered, guardKey, AtLeast
  <2>1. CASE n = m
    BY <1>1, <1>2, <1>5, <1>8, <2>1 DEF AtLeast
  <2>2. CASE n # m
    <3>1. AtLeast(LaneOf[n.entity], guardKey(n), n.seq)
      BY <1>1, <1>7, <2>2 DEF Guarded, Covered
    <3>2. LaneOf[n.entity] \in Lanes
      BY IngestAssumption
    <3> QED
      BY <1>1, <1>5, <1>8, <3>1, <3>2 DEF AtLeast
  <2> QED
    BY <2>1, <2>2
<1>13. HeldKept'
  BY <1>1, <1>3, <1>4 DEF Guarded, HeldKept, Kept
<1>14. LandedKept'
  <2>1. Kept(m)
    BY <1>1 DEF Guarded, HeldKept
  <2> QED
    BY <1>1, <2>1 DEF Guarded, LandedKept, Kept
<1> QED
  BY <1>6, <1>9, <1>10, <1>11, <1>12, <1>13, <1>14 DEF Guarded

\* A message is delivered, taken from a lane or refused.
LEMMA IntakeKeeps ==
  ASSUME Types, Guarded,
         (\E m \in Msgs : Consume(m)) \/ (\E l \in Lanes : Take(l) \/ Refuse(l))
  PROVE  Types' /\ Guarded'
<1>1. ASSUME NEW m \in Msgs, Consume(m) PROVE Types' /\ Guarded'
  <2>1. UNCHANGED <<worker, mem, durable, state, landed>>
    BY <1>1 DEF Consume
  <2>2. \A n \in Msgs : phase'[n] = "acked" /\ n.shape = "valid" => phase[n] = "acked"
    <3>1. CASE m.shape = "undecodable" /\ Settle(m, "acked")
      BY <3>1, SettleProps
    <3>2. CASE phase' = [phase EXCEPT ![m] = "out"]
      BY <3>2 DEF Types, RunOK
    <3> QED
      BY <1>1, <3>1, <3>2 DEF Consume
  <2> QED
    BY <1>1, <2>1, <2>2, ConsumeTypes, QuietKeeps
<1>2. ASSUME NEW l \in Lanes, Take(l) PROVE Types' /\ Guarded'
  <2>1. /\ worker[l].pc = "idle" /\ lanes[l] # <<>>
        /\ worker' = [worker EXCEPT ![l] = [msg |-> Head(lanes[l]), pc |-> "guard"]]
        /\ lanes' = [lanes EXCEPT ![l] = Tail(lanes[l])]
        /\ UNCHANGED <<delivered, stopping, phase, mem, durable, state, poisoned, landed, faults, crashes>>
    BY <1>2 DEF Take
  <2>2. lanes[l] \in Seq(OfLane(l)) /\ lanes[l] \in Seq(Msgs) /\ Len(lanes[l]) <= QueueDepth
    BY DEF Types, LanesOK
  <2>3. /\ Head(lanes[l]) \in OfLane(l) /\ Tail(lanes[l]) \in Seq(OfLane(l))
        /\ Tail(lanes[l]) \in Seq(Msgs) /\ Len(Tail(lanes[l])) = Len(lanes[l]) - 1
    BY <2>1, <2>2, HeadTailProperties
  <2>4. Head(lanes[l]) \in Msgs /\ Len(lanes[l]) \in Nat /\ QueueDepth \in Nat
    BY <2>2, <2>3, LenProperties, IngestAssumption DEF OfLane
  <2>5. /\ lanes' \in [Lanes -> Seq(Msgs)] /\ lanes'[l] = Tail(lanes[l])
        /\ \A k \in Lanes : k # l => lanes'[k] = lanes[k]
    BY <2>1, <2>3 DEF Types, LanesOK
  <2>6. Len(lanes'[l]) <= QueueDepth
    BY <2>2, <2>3, <2>4, <2>5
  <2>7. LanesOK'
    BY <2>3, <2>5, <2>6 DEF Types, LanesOK
  <2>8. /\ worker'[l].pc = "guard" /\ worker'[l].msg = Head(lanes[l])
        /\ worker' \in [Lanes -> Workers] /\ \A k \in Lanes : k # l => worker'[k] = worker[k]
    BY <2>1, <2>4 DEF Types, WorkersOK, Workers
  <2>9. WorkersOK'
    BY <2>3, <2>8 DEF Types, WorkersOK
  <2>10. RunOK' /\ MemOK' /\ StoreOK'
    BY <2>1 DEF Types, RunOK, MemOK, StoreOK
  <2>11. Guarded'
    BY <2>1, <2>8, QuietKeeps
  <2> QED
    BY <2>7, <2>9, <2>10, <2>11 DEF Types
<1>3. ASSUME NEW l \in Lanes, Refuse(l) PROVE Types' /\ Guarded'
  <2>1. /\ worker[l].pc = "guard" /\ UNCHANGED <<mem, durable, state, poisoned, landed>>
        /\ Settle(worker[l].msg, "termed") /\ Done(l)
    BY <1>3 DEF Refuse
  <2>2. WorkersOK' /\ LanesOK' /\ RunOK' /\ \A k \in Lanes : k # l => worker'[k] = worker[k]
    BY <1>3, WorkerTypes, Zenon
  <2>3. MemOK' /\ StoreOK'
    BY <2>1 DEF Types, MemOK, StoreOK
  <2>4. worker'[l].pc = "idle"
    BY <2>1, WorkerMoves
  <2>5. \A n \in Msgs : phase'[n] = "acked" => phase[n] = "acked"
    BY <2>1, HeldKey, SettleProps
  <2> QED
    BY <2>1, <2>2, <2>3, <2>4, <2>5, QuietKeeps DEF Types
<1> QED
  BY <1>1, <1>2, <1>3

\* The operator's repair, a stop and a restart.
LEMMA OutsideKeeps ==
  ASSUME Types, Guarded, (\E e \in Entities : Repair(e)) \/ Stop \/ Restart
  PROVE  Types' /\ Guarded'
<1>1. ASSUME NEW e \in Entities, Repair(e) PROVE Types' /\ Guarded'
  <2>1. /\ state' = [state EXCEPT ![e] = [p \in Preds |-> None]] /\ poisoned' = poisoned \ {e}
        /\ UNCHANGED <<delivered, stopping, phase, lanes, worker, mem, durable, landed, faults, crashes>>
    BY <1>1 DEF Repair
  <2>2. /\ state' \in [Entities -> [Preds -> Msgs \cup {None, Floor}]]
        /\ \A d \in Entities, p \in Preds : state'[d][p] \in {state[d][p], None}
    BY <2>1 DEF Types, StoreOK
  <2>3. Types'
    BY <2>1, <2>2 DEF Types, RunOK, LanesOK, WorkersOK, MemOK, StoreOK
  <2>4. \A m \in Msgs : Kept(m) => Kept(m)'
    <3> SUFFICES ASSUME NEW m \in Msgs, Kept(m), NEW p \in m.preds \ {Profile},
                        state'[m.entity][p] \in Msgs, state'[m.entity][p].stream = m.stream
                 PROVE  state'[m.entity][p].seq >= m.seq
      BY DEF Kept
    <3>1. m.entity \in Entities /\ p \in Preds /\ None \notin Msgs
      BY IngestAssumption
    <3>2. state'[m.entity][p] = state[m.entity][p]
      BY <2>2, <3>1
    <3> QED
      BY <3>2 DEF Kept
  <2>5. HeldKept'
    <3>1. \A l \in Lanes : worker[l].pc \in {"stamp", "ack"} =>
             worker[l].msg \in Msgs /\ Kept(worker[l].msg)
      BY HeldKey DEF Guarded, HeldKept
    <3> QED
      BY <2>1, <2>4, <3>1 DEF HeldKept, Kept
  <2>6. LandedKept'
    BY <2>1, <2>4 DEF Guarded, LandedKept, Types, StoreOK
  <2>7. MemNeverAhead' /\ Admitted' /\ Stamped' /\ Covered'
    BY <2>1 DEF Guarded, MemNeverAhead, Admitted, Stamped, Covered, Below, AtLeast, guardKey
  <2> QED
    BY <2>3, <2>5, <2>6, <2>7 DEF Guarded
<1>2. CASE Stop
  <2>1. /\ stopping' \in BOOLEAN
        /\ UNCHANGED <<phase, delivered, lanes, worker, mem, durable, state, poisoned, landed, faults, crashes>>
    BY <1>2, Zenon DEF Stop
  <2>2. Types'
    BY <2>1 DEF Types, RunOK, LanesOK, WorkersOK, MemOK, StoreOK
  <2> QED
    BY <2>1, <2>2, QuietKeeps
<1>3. CASE Restart
  <2>1. /\ lanes' = [l \in Lanes |-> <<>>] /\ worker' = [l \in Lanes |-> Idle]
        /\ mem' = [l \in Lanes |-> {}]
        /\ UNCHANGED <<phase, delivered, durable, state, poisoned, landed, faults>>
    BY <1>3 DEF Restart
  <2>2. stopping' \in BOOLEAN
    BY <1>3, Zenon DEF Restart
  <2>3. crashes' \in 0..MaxCrashes
    BY <1>3, IngestAssumption DEF Restart, Types, RunOK
  <2>4. RunOK' /\ StoreOK'
    BY <2>1, <2>2, <2>3 DEF Types, RunOK, StoreOK
  <2>5. LanesOK'
    BY <2>1, EmptySeq, IngestAssumption DEF LanesOK
  <2>6. WorkersOK' /\ \A l \in Lanes : worker'[l].pc = "idle"
    BY <2>1 DEF WorkersOK, Workers, Idle
  <2>7. MemOK' /\ \A l \in Lanes : mem'[l] = {}
    <3>1. IsFiniteSet({}) /\ Cardinality({}) = 0
      BY FS_EmptySet
    <3>2. \A l \in Lanes : mem'[l] = {}
      BY <2>1
    <3> QED
      BY <2>1, <3>1, <3>2, IngestAssumption DEF MemOK
  <2>8. Covered'
    <3>1. \A n \in Msgs : LaneOf[n.entity] \in Lanes
      BY IngestAssumption
    <3> QED
      BY <2>1, <2>7, <3>1 DEF Guarded, Covered, AtLeast, guardKey
  <2>9. MemNeverAhead' /\ Admitted' /\ Stamped' /\ HeldKept'
    BY <2>6, <2>7 DEF MemNeverAhead, Admitted, Stamped, HeldKept
  <2>10. LandedKept'
    BY <2>1 DEF Guarded, LandedKept, Kept
  <2> QED
    BY <2>4, <2>5, <2>6, <2>7, <2>8, <2>9, <2>10 DEF Types, Guarded
<1> QED
  BY <1>1, <1>2, <1>3

-----------------------------------------------------------------------------
LEMMA InitIInv == Init => IInv
<1> SUFFICES ASSUME Init PROVE IInv
  OBVIOUS
<1>1. Types
  BY InitTypes
<1>2. MemNeverAhead /\ Admitted /\ Stamped /\ HeldKept
  BY DEF Init, Idle, MemNeverAhead, Admitted, Stamped, HeldKept
<1>3. Covered /\ LandedKept
  BY DEF Init, Covered, LandedKept
<1> QED
  BY <1>1, <1>2, <1>3 DEF IInv

LEMMA NextKeeps == IInv /\ [Next]_vars => IInv'
<1> SUFFICES ASSUME IInv, [Next]_vars PROVE IInv'
  OBVIOUS
<1>1. Types /\ Guarded
  BY DEF IInv, Guarded
<1>2. CASE UNCHANGED vars
  <2>1. Types'
    BY <1>1, <1>2 DEF vars, Types, RunOK, LanesOK, WorkersOK, MemOK, StoreOK
  <2>2. Guarded'
    BY <1>1, <1>2, QuietKeeps DEF vars
  <2> QED
    BY <2>1, <2>2 DEF IInv, Guarded
<1>3. CASE Next
  <2>1. Types' /\ Guarded'
    BY <1>1, <1>3, IntakeKeeps, GuardKeeps, ApplyKeeps, StampKeeps, AcknowledgeKeeps, OutsideKeeps
       DEF Next, LaneStep
  <2> QED
    BY <2>1 DEF IInv, Guarded
<1> QED
  BY <1>2, <1>3

(***************************************************************************)
(* The inductive invariant, and the type invariant with it: the lanes, the *)
(* deliveries and the memory tiers stay within their limits.               *)
(***************************************************************************)
THEOREM IngestInvariant == Spec => []IInv
<1> QED
  BY InitIInv, NextKeeps, PTL DEF Spec

THEOREM IngestTypes == Spec => []TypeOK
<1>1. IInv => TypeOK
  BY TypesAreTypeOK DEF IInv
<1> QED
  BY IngestInvariant, <1>1, PTL

(***************************************************************************)
(* The memory tier of the redelivery guard is never ahead of the durable   *)
(* one.                                                                    *)
(***************************************************************************)
THEOREM TiersNeverDiverge == Spec => []MemNeverAhead
<1>1. IInv => MemNeverAhead
  BY DEF IInv
<1> QED
  BY IngestInvariant, <1>1, PTL

(***************************************************************************)
(* No message is acknowledged past an unpersisted stamp.                   *)
(***************************************************************************)
THEOREM AcksAreCovered == Spec => []AckedIsCovered
<1>1. IInv => AckedIsCovered
  BY DEF IInv, Covered, AtLeast, AckedIsCovered
<1> QED
  BY IngestInvariant, <1>1, PTL

(***************************************************************************)
(* No older message of a stream overwrites an acknowledged one, through    *)
(* evictions, redeliveries, failing calls and restarts.                    *)
(***************************************************************************)
THEOREM AcksAreKept == Spec => []AckedNotRegressed
<1>1. IInv => AckedNotRegressed
  BY DEF IInv, LandedKept, Kept, AckedNotRegressed
<1> QED
  BY IngestInvariant, <1>1, PTL

(***************************************************************************)
(* The indexing profile an entity was created with survives every later    *)
(* arrival.                                                                *)
(***************************************************************************)
THEOREM ProfileIsKept == Spec => ProfileImmutable
<1> DEFINE Keeps == \A e \in Entities : state[e][Profile] # None /\ e \notin poisoned
                      => state'[e][Profile] = state[e][Profile]
<1>1. Types /\ [Next]_vars => Keeps
  <2> SUFFICES ASSUME Types, [Next]_vars PROVE Keeps
    OBVIOUS
  <2>1. CASE UNCHANGED state
    BY <2>1
  <2>2. ASSUME NEW m \in Msgs, Committed(m) PROVE Keeps
    <3>1. state' = [state EXCEPT ![m.entity] = Merge(state[m.entity], m)]
      BY <2>2 DEF Committed
    <3>2. state[m.entity][Profile] # None =>
             Merge(state[m.entity], m)[Profile] = state[m.entity][Profile]
      BY IngestAssumption DEF Merge
    <3> QED
      BY <3>1, <3>2 DEF Types, StoreOK
  <2>3. ASSUME NEW e \in Entities, Repair(e) PROVE Keeps
    BY <2>3 DEF Repair, Types, StoreOK
  <2>4. ASSUME NEW l \in Lanes, Apply(l) PROVE Keeps
    <3>1. worker[l].msg \in Msgs
      BY <2>4, HeldKey DEF Apply
    <3> QED
      BY <2>1, <2>2, <2>4, <3>1 DEF Apply
  <2> QED
    BY <2>1, <2>3, <2>4 DEF Next, LaneStep, vars, Consume, Take, Refuse, Guard, Stamp, Acknowledge,
       Stop, Restart
<1>2. IInv => Types
  BY DEF IInv
<1> QED
  BY <1>1, <1>2, IngestInvariant, PTL DEF Spec, ProfileImmutable
=============================================================================
