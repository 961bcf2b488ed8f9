-------------------------- MODULE EntityStoreProofs --------------------------
(***************************************************************************)
(* The entity store, proved for every number of serving goroutines,        *)
(* revisions, faults and restarts: the invalidation generation keeps the   *)
(* query cache coherent, the revision guard of the poison inventory keeps  *)
(* a re-poison, and as long as no KV call fails the clears of the writers  *)
(* and the verification of a new record leave no record behind.            *)
(***************************************************************************)
EXTENDS EntityStore, TLAPS

\* The state of one goroutine, between a revision and a generation bound.
ProcState(rev, gen) ==
  [op : OpSet \cup {"none"}, pc : Steps, rev : 0..rev, own : 0..rev, gen : 0..gen]

\* A reader whose captured generation is still current has read nothing older
\* than the newest answered commit: what repopulateEntityCacheEntry relies on.
ReaderFresh ==
  \A p \in Workers :
    proc[p].pc \in {"validRead", "repopulate"} /\ proc[p].gen = cacheGen =>
      proc[p].rev >= acked

\* A proof of validity that names the stored revision is a proof about the stored
\* bytes: what dropEntityPoisonRecord relies on.
ProofHolds ==
  \A p \in Workers :
    /\ proc[p].pc = "validRead" => proc[p].rev # 0
    /\ proc[p].pc \in {"validRead", "clear", "drop"} /\ proc[p].rev = entry.rev =>
         entry.kind = "good"

\* Goroutine p still has to erase whatever record there is: it is about to verify a
\* new record, or holds a proof of the stored revision or of a missing key, or has
\* committed and not yet looked for a record.
Erases(p) ==
  \/ proc[p].pc \in {"recordInvalidate", "verify"}
  \/ proc[p].pc \in {"clear", "drop"} /\ proc[p].rev \in {0, entry.rev}
  \/ proc[p].pc \in {"lookup", "clearGet"} /\ entry.kind = "good"

\* A record next to a valid state of the mutation API is somebody's to erase.
Owed ==
  faults = 0 /\ poison # 0 /\ entry.api /\ entry.kind # "poison" =>
    \E p \in Workers : Erases(p)

IInv == TypeOK /\ CacheCoherent /\ ReaderFresh /\ ProofHolds

-----------------------------------------------------------------------------
(***************************************************************************)
(* A goroutine that moves keeps every other one's state, and the bounds of *)
(* its state only grow: the revision and the generation never move back.   *)
(***************************************************************************)
LEMMA ProcsKeepType ==
  ASSUME NEW rev \in Nat, NEW gen \in Nat, NEW rev2 \in Nat, NEW gen2 \in Nat,
         rev <= rev2, gen <= gen2,
         proc \in [Workers -> ProcState(rev, gen)],
         NEW p \in Workers, NEW s \in ProcState(rev2, gen2)
  PROVE  [proc EXCEPT ![p] = s] \in [Workers -> ProcState(rev2, gen2)]
<1>1. \A q \in Workers : proc[q] \in ProcState(rev2, gen2)
  BY DEF ProcState
<1> QED
  BY <1>1

(***************************************************************************)
(* The boot state, and the state after a restart.                          *)
(***************************************************************************)
LEMMA InitIInv == Init => IInv
<1> SUFFICES ASSUME Init PROVE IInv
  OBVIOUS
<1> USE StoreAssumption DEF Init
<1>1. \A p \in Workers : /\ proc[p] \in ProcState(entry.rev, cacheGen)
                         /\ proc[p].pc \in {"idle", "get"}
  BY DEF Idle, ProcState, OpSet, Steps
<1>2. proc \in [Workers -> ProcState(entry.rev, cacheGen)]
  BY <1>1
<1>3. entry \in [rev : 1..MaxRev, kind : {"good", "poison", "absent"}, api : BOOLEAN]
  <2>1. 1 \in 1..MaxRev
    OBVIOUS
  <2> QED
    BY <2>1
<1>4. /\ cached \in 0..entry.rev /\ poison \in 0..entry.rev /\ acked \in 0..entry.rev
      /\ cacheGen \in Nat /\ faults \in 0..MaxFaults /\ restarts \in 0..MaxRestarts
  BY <1>3
<1>5. TypeOK
  BY <1>2, <1>3, <1>4 DEF TypeOK, ProcState
<1>6. CacheCoherent /\ ReaderFresh /\ ProofHolds
  BY <1>1 DEF CacheCoherent, ReaderFresh, ProofHolds
<1> QED
  BY <1>5, <1>6 DEF IInv

(***************************************************************************)
(* One goroutine moves.  The state s it moves to must be in type, and where *)
(* it holds a reading or a proof, that must be a current one; the others   *)
(* keep theirs because a new commit has a new revision and a new answer a  *)
(* new generation.                                                         *)
(***************************************************************************)
LEMMA OneMoves ==
  ASSUME IInv, NEW p \in Workers, NEW s \in ProcState(entry'.rev, cacheGen'),
         proc' = [proc EXCEPT ![p] = s],
         entry' \in [rev : 1..MaxRev, kind : {"good", "poison", "absent"}, api : BOOLEAN],
         entry' = entry \/ entry'.rev > entry.rev,
         cached' \in 0..entry'.rev, poison' \in 0..entry'.rev, acked' \in 0..entry'.rev,
         cacheGen' \in Nat, faults' \in 0..MaxFaults, restarts' \in 0..MaxRestarts,
         \/ cacheGen' = cacheGen /\ acked' = acked
         \/ cacheGen' > cacheGen,
         cached' # 0 => cached' >= acked',
         s.pc \in {"validRead", "repopulate"} /\ s.gen = cacheGen' => s.rev >= acked',
         s.pc = "validRead" => s.rev # 0,
         s.pc \in {"validRead", "clear", "drop"} /\ s.rev = entry'.rev => entry'.kind = "good"
  PROVE  IInv'
<1> USE StoreAssumption
<1>1. /\ entry.rev \in Nat /\ entry'.rev \in Nat /\ entry.rev <= entry'.rev
      /\ cacheGen \in Nat /\ cacheGen <= cacheGen' /\ acked \in Nat
      /\ proc \in [Workers -> ProcState(entry.rev, cacheGen)]
  BY DEF IInv, TypeOK, ProcState
<1>2. proc' \in [Workers -> ProcState(entry'.rev, cacheGen')]
  BY <1>1, ProcsKeepType
<1>3. TypeOK'
  BY <1>2 DEF TypeOK, ProcState
<1>4. CacheCoherent'
  BY DEF CacheCoherent
<1>5. \A q \in Workers : q # p => proc'[q] = proc[q]
  BY <1>1
<1>6. proc'[p] = s
  BY <1>1
<1>7. \A q \in Workers : /\ proc[q].rev \in 0..entry.rev
                         /\ proc[q].gen \in 0..cacheGen
  BY <1>1 DEF ProcState
<1>8. ReaderFresh'
  <2> SUFFICES ASSUME NEW q \in Workers,
                      proc'[q].pc \in {"validRead", "repopulate"},
                      proc'[q].gen = cacheGen'
               PROVE  proc'[q].rev >= acked'
    BY DEF ReaderFresh
  <2>1. CASE q = p
    BY <2>1, <1>6
  <2>2. CASE q # p
    BY <2>2, <1>1, <1>5, <1>7 DEF IInv, ReaderFresh
  <2> QED
    BY <2>1, <2>2
<1>9. ProofHolds'
  <2> SUFFICES ASSUME NEW q \in Workers
               PROVE  /\ proc'[q].pc = "validRead" => proc'[q].rev # 0
                      /\ proc'[q].pc \in {"validRead", "clear", "drop"}
                           /\ proc'[q].rev = entry'.rev => entry'.kind = "good"
    BY DEF ProofHolds
  <2>1. CASE q = p
    BY <2>1, <1>6
  <2>2. CASE q # p
    BY <2>2, <1>1, <1>5, <1>7 DEF IInv, ProofHolds
  <2> QED
    BY <2>1, <2>2
<1> QED
  BY <1>3, <1>4, <1>8, <1>9 DEF IInv

-----------------------------------------------------------------------------
\* What the proofs use of TypeOK, for one goroutine and the shared state.
LEMMA Typed ==
  ASSUME IInv, NEW p \in Workers
  PROVE  /\ proc[p].op \in OpSet \cup {"none"} /\ proc[p].pc \in Steps
         /\ proc[p].rev \in 0..entry.rev /\ proc[p].own \in 0..entry.rev
         /\ proc[p].gen \in 0..cacheGen /\ cacheGen \in Nat
         /\ entry.rev \in Nat /\ entry.rev # 0 /\ entry.rev <= MaxRev
         /\ entry.kind \in {"good", "poison", "absent"}
         /\ entry \in [rev : 1..MaxRev, kind : {"good", "poison", "absent"}, api : BOOLEAN]
         /\ cached \in 0..entry.rev /\ poison \in 0..entry.rev /\ acked \in 0..entry.rev
         /\ faults \in 0..MaxFaults /\ restarts \in 0..MaxRestarts
         /\ cached # 0 => cached >= acked
         /\ Idle \in ProcState(entry.rev, cacheGen)
         /\ Idle.pc = "idle"
BY StoreAssumption DEF IInv, TypeOK, CacheCoherent, ProcState, Idle, Steps

(***************************************************************************)
(* A goroutine moves and the shared state stays as it is, but for the      *)
(* inventory record and the count of faults.                               *)
(***************************************************************************)
LEMMA LocalMove ==
  ASSUME IInv, NEW p \in Workers, NEW s \in ProcState(entry.rev, cacheGen),
         proc' = [proc EXCEPT ![p] = s],
         poison' \in 0..entry.rev, faults' \in 0..MaxFaults,
         UNCHANGED <<entry, cached, cacheGen, acked, restarts>>,
         s.pc \in {"validRead", "repopulate"} /\ s.gen = cacheGen => s.rev >= acked,
         s.pc = "validRead" => s.rev # 0,
         s.pc \in {"validRead", "clear", "drop"} /\ s.rev = entry.rev => entry.kind = "good"
  PROVE  IInv'
<1>1. /\ entry' = entry /\ cached' = cached /\ cacheGen' = cacheGen /\ acked' = acked
      /\ restarts' = restarts
  OBVIOUS
<1> QED
  BY <1>1, Typed, OneMoves

(***************************************************************************)
(* LocalMove for the ways an action moves its goroutine.                   *)
(***************************************************************************)
LEMMA LocalDone ==
  ASSUME IInv, NEW p \in Workers, Done(p),
         poison' \in 0..entry.rev, faults' \in 0..MaxFaults,
         UNCHANGED <<entry, cached, cacheGen, acked, restarts>>
  PROVE  IInv'
<1>1. Idle \in ProcState(entry.rev, cacheGen) /\ Idle.pc = "idle"
  BY Typed
<1> QED
  BY <1>1, LocalMove DEF Done

LEMMA LocalGo ==
  ASSUME IInv, NEW p \in Workers, NEW pc \in Steps,
         NEW rev \in 0..entry.rev, NEW gen \in 0..cacheGen,
         Move(p, pc, rev, proc[p].own, gen),
         poison' \in 0..entry.rev, faults' \in 0..MaxFaults,
         UNCHANGED <<entry, cached, cacheGen, acked, restarts>>,
         pc \in {"validRead", "repopulate"} /\ gen = cacheGen => rev >= acked,
         pc = "validRead" => rev # 0,
         pc \in {"validRead", "clear", "drop"} /\ rev = entry.rev => entry.kind = "good"
  PROVE  IInv'
<1> DEFINE s == [op |-> proc[p].op, pc |-> pc, rev |-> rev, own |-> proc[p].own, gen |-> gen]
<1>1. s \in ProcState(entry.rev, cacheGen) /\ s.pc = pc /\ s.rev = rev /\ s.gen = gen
  BY Typed DEF ProcState
<1>2. proc' = [proc EXCEPT ![p] = s]
  BY DEF Move
<1> HIDE DEF s
<1> QED
  BY <1>1, <1>2, LocalMove

-----------------------------------------------------------------------------
(* Requests, the query and the reads                                       *)

LEMMA StartStep ==
  ASSUME IInv, NEW p \in Procs, NEW op \in Ops, Start(p, op)
  PROVE  IInv'
<1>1. p \in Workers /\ op \in OpSet
  BY StoreAssumption DEF Workers
<1>2. PICK expected \in 1..entry.rev :
        proc' = [proc EXCEPT ![p] =
          [op |-> op, pc |-> FirstStep(op), rev |-> 0, gen |-> 0,
           own |-> IF op \in {"reconcile", "delete"} THEN expected ELSE 0]]
  BY DEF Start
<1> DEFINE own == IF op \in {"reconcile", "delete"} THEN expected ELSE 0
           s == [op |-> op, pc |-> FirstStep(op), rev |-> 0, gen |-> 0, own |-> own]
<1>3. FirstStep(op) \in {"cache", "create", "rmw", "get"}
  BY DEF FirstStep
<1>4. own \in 0..entry.rev
  BY <1>1, Typed
<1>5. proc' = [proc EXCEPT ![p] = s]
  BY <1>2
<1> HIDE DEF own
<1>6. s \in ProcState(entry.rev, cacheGen) /\ s.pc = FirstStep(op)
  BY <1>1, <1>3, <1>4, Typed DEF ProcState, Steps
<1> HIDE DEF s
<1> QED
  BY <1>1, <1>3, <1>5, <1>6, Typed, LocalMove DEF Start

LEMMA ReadStep ==
  ASSUME IInv, NEW p \in Workers,
         LookupCache(p) \/ LoadGen(p) \/ Get(p) \/ ValidRead(p)
  PROVE  IInv'
<1> USE Typed
<1>1. CASE LookupCache(p)
  BY <1>1, LocalDone, LocalGo DEF LookupCache, GoTo, GoWith, Steps
<1>2. CASE LoadGen(p)
  BY <1>2, LocalGo DEF LoadGen, Steps
<1>3. CASE Get(p)
  BY <1>3, LocalDone, LocalGo DEF Get, GoWith, Steps
<1>4. CASE ValidRead(p)
  <2>1. /\ poison' \in 0..entry.rev /\ proc[p].pc = "validRead"
        /\ UNCHANGED <<entry, cached, cacheGen, acked, faults, restarts>>
    BY <1>4 DEF ValidRead, DropRecord, At
  <2>2. proc[p].gen = cacheGen => proc[p].rev >= acked
    BY <2>1 DEF IInv, ReaderFresh
  <2>3. Done(p) \/ GoTo(p, "repopulate") \/ GoTo(p, "cas")
    BY <1>4 DEF ValidRead
  <2> QED
    BY <2>1, <2>2, <2>3, LocalDone, LocalGo DEF GoTo, GoWith, Steps
<1> QED
  BY <1>1, <1>2, <1>3, <1>4

(***************************************************************************)
(* A value is cached only under the generation captured before it was      *)
(* read: nothing newer was answered in between.                            *)
(***************************************************************************)
LEMMA RepopulateStep ==
  ASSUME IInv, NEW p \in Workers, Repopulate(p)
  PROVE  IInv'
<1>1. /\ proc' = [proc EXCEPT ![p] = Idle]
      /\ entry' = entry /\ cacheGen' = cacheGen /\ poison' = poison /\ acked' = acked
      /\ faults' = faults /\ restarts' = restarts
  BY DEF Repopulate, Done
<1>2. proc[p].pc = "repopulate" /\ (proc[p].gen = cacheGen => proc[p].rev >= acked)
  BY DEF Repopulate, At, IInv, ReaderFresh
<1>3. cached' \in 0..entry.rev /\ (cached' # 0 => cached' >= acked)
  BY <1>2, Typed DEF Repopulate
<1> QED
  BY <1>1, <1>3, Typed, OneMoves

-----------------------------------------------------------------------------
(* Commits                                                                 *)

\* A new revision is stored, by whichever goroutine moves.
LEMMA WriteMove ==
  ASSUME IInv, NEW p \in Workers, NEW kind \in {"good", "poison", "absent"}, Write(kind),
         NEW s \in ProcState(entry.rev + 1, cacheGen), proc' = [proc EXCEPT ![p] = s],
         faults' \in 0..MaxFaults, UNCHANGED <<cached, cacheGen, poison, acked, restarts>>,
         s.pc \notin {"validRead", "repopulate", "drop"},
         s.pc = "clear" /\ s.rev = entry.rev + 1 => kind = "good"
  PROVE  IInv'
<1> USE StoreAssumption
<1>1. entry.rev < MaxRev /\ entry' = [rev |-> entry.rev + 1, kind |-> kind, api |-> TRUE]
  BY DEF Write
<1>2. /\ entry'.rev = entry.rev + 1 /\ entry'.kind = kind /\ entry'.rev > entry.rev
      /\ entry'.rev \in 1..MaxRev
  BY <1>1, Typed
<1>3. entry' \in [rev : 1..MaxRev, kind : {"good", "poison", "absent"}, api : BOOLEAN]
  BY <1>1, <1>2
<1>4. /\ cached' = cached /\ cacheGen' = cacheGen /\ poison' = poison /\ acked' = acked
      /\ restarts' = restarts
  OBVIOUS
<1>5. cached' \in 0..entry'.rev /\ poison' \in 0..entry'.rev /\ acked' \in 0..entry'.rev
  BY <1>2, <1>4, Typed
<1>6. s \in ProcState(entry'.rev, cacheGen')
  BY <1>2, <1>4
<1> QED
  BY <1>2, <1>3, <1>4, <1>5, <1>6, Typed, OneMoves

\* A commit leaves its own revision as the proof, or none after a delete.
LEMMA CommitMove ==
  ASSUME IInv, NEW p \in Workers, NEW kind \in {"good", "absent"}, Write(kind),
         NEW pc \in {"clear", "lookup"}, NEW proof \in {0, entry.rev + 1},
         Committed(p, pc, proof), proof = 0 \/ kind = "good",
         UNCHANGED <<cached, cacheGen, poison, acked, faults, restarts>>
  PROVE  IInv'
<1> DEFINE s == [op |-> proc[p].op, pc |-> pc, rev |-> proof, own |-> entry.rev + 1,
                 gen |-> proc[p].gen]
<1>1. s \in ProcState(entry.rev + 1, cacheGen) /\ s.pc = pc /\ s.rev = proof
  BY Typed DEF ProcState, Steps
<1>2. proc' = [proc EXCEPT ![p] = s]
  BY DEF Committed, Move
<1> HIDE DEF s
<1>3. faults' \in 0..MaxFaults
  BY Typed
<1>4. s.pc \notin {"validRead", "repopulate", "drop"}
  BY <1>1
<1>5. s.pc = "clear" /\ s.rev = entry.rev + 1 => kind = "good"
  BY <1>1, Typed
<1> QED
  BY <1>1, <1>2, <1>3, <1>4, <1>5, WriteMove

LEMMA CommitStep ==
  ASSUME IInv, NEW p \in Workers,
         Create(p) \/ Merge(p) \/ AppendTriples(p) \/ Reconcile(p) \/ Delete(p)
  PROVE  IInv'
<1> USE Typed
<1>1. CASE Create(p)
  <2>1. CASE entry.kind = "absent"
    BY <1>1, <2>1, CommitMove DEF Create
  <2>2. CASE entry.kind # "absent"
    BY <1>1, <2>2, LocalDone DEF Create
  <2> QED
    BY <2>1, <2>2
<1>2. CASE Merge(p)
  <2>1. CASE Write("good") /\ Committed(p, "lookup", entry.rev + 1)
    BY <1>2, <2>1, CommitMove DEF Merge
  <2>2. CASE GoTo(p, "classify") /\ UNCHANGED entry
    BY <1>2, <2>2, LocalGo DEF Merge, GoTo, GoWith, Steps
  <2> QED
    BY <1>2, <2>1, <2>2 DEF Merge
<1>3. CASE AppendTriples(p)
  <2>1. CASE Write("good") /\ Committed(p, "lookup", entry.rev + 1)
    BY <1>3, <2>1, CommitMove DEF AppendTriples
  <2>2. CASE UNCHANGED entry /\ (Done(p) \/ GoTo(p, "classify") \/ GoTo(p, "get"))
    BY <1>3, <2>2, LocalDone, LocalGo DEF AppendTriples, GoTo, GoWith, Steps
  <2> QED
    BY <1>3, <2>1, <2>2 DEF AppendTriples
<1>4. CASE Reconcile(p)
  <2>1. CASE Fits(p)
    BY <1>4, <2>1, CommitMove DEF Reconcile
  <2>2. CASE ~ Fits(p)
    BY <1>4, <2>2, LocalDone DEF Reconcile
  <2> QED
    BY <2>1, <2>2
<1>5. CASE Delete(p)
  <2>1. CASE Fits(p)
    BY <1>5, <2>1, CommitMove DEF Delete
  <2>2. CASE ~ Fits(p)
    BY <1>5, <2>2, LocalDone DEF Delete
  <2> QED
    BY <2>1, <2>2
<1> QED
  BY <1>1, <1>2, <1>3, <1>4, <1>5

\* The steps between a commit and its answer.
LEMMA ClearStep ==
  ASSUME IInv, NEW p \in Workers, ClearLookup(p) \/ ClearGet(p) \/ Clear(p)
  PROVE  IInv'
<1> USE Typed
<1>1. CASE ClearLookup(p)
  <2>1. GoTo(p, "invalidate") \/ GoTo(p, "clearGet")
    BY <1>1 DEF ClearLookup
  <2> QED
    BY <1>1, <2>1, LocalGo DEF ClearLookup, GoTo, GoWith, Steps
<1>2. CASE ClearGet(p)
  BY <1>2, LocalGo DEF ClearGet, GoTo, GoWith, Steps
<1>3. CASE Clear(p)
  <2>1. poison' \in 0..entry.rev
    BY <1>3 DEF Clear, DropRecord
  <2> QED
    BY <1>3, <2>1, LocalGo DEF Clear, GoTo, GoWith, Steps
<1> QED
  BY <1>1, <1>2, <1>3

\* invalidateEntityCacheEntry empties the cache and outdates every open reader.
LEMMA InvalidateStep ==
  ASSUME IInv, NEW p \in Workers, Invalidate(p) \/ RecordInvalidate(p)
  PROVE  IInv'
<1> USE Typed
<1>1. /\ cacheGen' = cacheGen + 1 /\ cached' = 0
      /\ entry' = entry /\ poison' = poison /\ faults' = faults /\ restarts' = restarts
  BY DEF Invalidate, RecordInvalidate, InvalidateCache
<1>2. acked' \in 0..entry.rev
  BY DEF Invalidate, RecordInvalidate
<1>3. /\ cached' \in 0..entry'.rev /\ poison' \in 0..entry'.rev /\ acked' \in 0..entry'.rev
      /\ cacheGen' \in Nat /\ cacheGen' > cacheGen
  BY <1>1, <1>2
<1>4. CASE proc' = [proc EXCEPT ![p] = Idle]
  <2>1. Idle \in ProcState(entry.rev, cacheGen') /\ Idle.pc = "idle"
    BY <1>1 DEF ProcState, Idle, Steps
  <2> QED
    BY <1>3, <1>1, <1>4, <2>1, OneMoves
<1>5. CASE GoTo(p, "verify")
  <2> DEFINE s == [op |-> proc[p].op, pc |-> "verify", rev |-> proc[p].rev,
                   own |-> proc[p].own, gen |-> proc[p].gen]
  <2>1. s \in ProcState(entry.rev, cacheGen') /\ s.pc = "verify"
    BY <1>1 DEF ProcState, Steps
  <2>2. proc' = [proc EXCEPT ![p] = s]
    BY <1>5 DEF GoTo, GoWith, Move
  <2> HIDE DEF s
  <2> QED
    BY <1>3, <1>1, <2>1, <2>2, OneMoves
<1> QED
  BY <1>4, <1>5 DEF Invalidate, RecordInvalidate, Done

-----------------------------------------------------------------------------
(* The poison inventory                                                    *)

\* A drop goes by a revision just read and decoded, or by a missing key.
LEMMA InventoryStep ==
  ASSUME IInv, NEW p \in Workers, Record(p) \/ Verify(p) \/ Classify(p) \/ Drop(p)
  PROVE  IInv'
<1> USE Typed
<1>1. CASE Record(p)
  <2>1. poison' \in 0..entry.rev
    BY <1>1 DEF Record
  <2>2. Done(p) \/ GoTo(p, "recordInvalidate")
    BY <1>1 DEF Record
  <2> QED
    BY <1>1, <2>1, <2>2, LocalDone, LocalGo DEF Record, GoTo, GoWith, Steps
<1>2. CASE Verify(p)
  BY <1>2, LocalDone, LocalGo DEF Verify, GoWith, Steps
<1>3. CASE Classify(p)
  BY <1>3, LocalDone, LocalGo DEF Classify, GoWith, Steps
<1>4. CASE Drop(p)
  <2>1. poison' \in 0..entry.rev
    BY <1>4 DEF Drop, DropRecord
  <2> QED
    BY <1>4, <2>1, LocalDone DEF Drop
<1> QED
  BY <1>1, <1>2, <1>3, <1>4

-----------------------------------------------------------------------------
(* The environment                                                         *)

\* A failed call ends the request whether or not its write landed.
LEMMA FailStep ==
  ASSUME IInv, NEW p \in Workers, Fail(p)
  PROVE  IInv'
<1> USE Typed, StoreAssumption
<1>1. faults' \in 0..MaxFaults /\ UNCHANGED <<cached, cacheGen, poison, acked, restarts>>
  BY DEF Fail
<1>2. Done(p) \/ GoTo(p, "invalidate") \/ GoTo(p, "lost")
  BY DEF Fail
<1>3. CASE UNCHANGED entry
  BY <1>1, <1>2, <1>3, LocalDone, LocalGo DEF GoTo, GoWith, Steps
<1>4. CASE ~ UNCHANGED entry
  <2>1. PICK kind \in {"good", "absent"} : Write(kind)
    BY <1>4 DEF Fail
  <2>2. proc' = [proc EXCEPT ![p] = Idle]
    BY <1>4 DEF Fail, Done, At
  <2>3. Idle \in ProcState(entry.rev + 1, cacheGen) /\ Idle.pc = "idle"
    BY DEF ProcState, Idle, Steps
  <2> QED
    BY <1>1, <2>1, <2>2, <2>3, WriteMove
<1> QED
  BY <1>3, <1>4

\* Nobody moves: a cached value goes away, or the bytes change out of band.
LEMMA OutsideStep ==
  ASSUME IInv, Evict \/ \E kind \in {"good", "poison", "absent"} : OutOfBand(kind)
  PROVE  IInv'
<1> USE StoreAssumption
<1>1. Sweep \in Workers
  BY DEF Workers
<1>2. /\ proc \in [Workers -> ProcState(entry.rev, cacheGen)]
      /\ proc[Sweep] \in ProcState(entry.rev, cacheGen)
  BY <1>1 DEF IInv, TypeOK, ProcState
<1>3. /\ proc' = [proc EXCEPT ![Sweep] = proc[Sweep]]
      /\ cacheGen' = cacheGen /\ poison' = poison /\ acked' = acked
      /\ faults' = faults /\ restarts' = restarts
  BY <1>2 DEF Evict, OutOfBand
<1>4. /\ entry' \in [rev : 1..MaxRev, kind : {"good", "poison", "absent"}, api : BOOLEAN]
      /\ entry' = entry \/ entry'.rev > entry.rev
      /\ cached' = cached \/ cached' = 0
  <2>1. CASE Evict
    BY <1>1, <2>1, Typed DEF Evict
  <2>2. ASSUME NEW kind \in {"good", "poison", "absent"}, OutOfBand(kind)
        PROVE  <1>4
    <3>1. entry.rev < MaxRev /\ entry' = [rev |-> entry.rev + 1, kind |-> kind, api |-> FALSE]
      BY <2>2 DEF OutOfBand
    <3>2. entry.rev + 1 \in 1..MaxRev /\ entry.rev + 1 > entry.rev
      BY <1>1, <3>1, Typed
    <3> QED
      BY <2>2, <3>1, <3>2 DEF OutOfBand
  <2> QED
    BY <2>1, <2>2
<1>5. /\ proc[Sweep].rev \in 0..entry.rev /\ entry.rev \in Nat /\ entry'.rev \in Nat
      /\ entry'.rev >= entry.rev
      /\ cached' \in 0..entry'.rev /\ poison' \in 0..entry'.rev /\ acked' \in 0..entry'.rev
      /\ cached' # 0 => cached' >= acked'
  BY <1>1, <1>3, <1>4, Typed
<1>6. proc[Sweep] \in ProcState(entry'.rev, cacheGen')
  BY <1>2, <1>3, <1>5 DEF ProcState
<1>7. /\ proc[Sweep].pc \in {"validRead", "repopulate"} /\ proc[Sweep].gen = cacheGen' =>
           proc[Sweep].rev >= acked'
      /\ proc[Sweep].pc = "validRead" => proc[Sweep].rev # 0
      /\ proc[Sweep].pc \in {"validRead", "clear", "drop"} /\ proc[Sweep].rev = entry'.rev =>
           entry'.kind = "good"
  BY <1>1, <1>3, <1>4, <1>5 DEF IInv, ReaderFresh, ProofHolds
<1> QED
  BY <1>1, <1>3, <1>4, <1>5, <1>6, <1>7, Typed, OneMoves

\* A new process has an empty cache and inventory and no open request.
LEMMA RestartStep ==
  ASSUME IInv, Restart
  PROVE  IInv'
<1> USE StoreAssumption
<1>1. /\ cached' = 0 /\ cacheGen' = 0 /\ poison' = 0 /\ entry' = entry /\ acked' = acked
      /\ faults' = faults /\ restarts' = restarts + 1 /\ restarts < MaxRestarts
      /\ proc' = [p \in Workers |-> IF p = Sweep THEN [Idle EXCEPT !.pc = "get"] ELSE Idle]
  BY DEF Restart
<1>2. \A p \in Workers : /\ proc'[p] \in ProcState(entry.rev, 0)
                         /\ proc'[p].pc \in {"idle", "get"}
  <2>1. Sweep \in Workers
    BY DEF Workers
  <2> QED
    BY <1>1, <2>1, Typed DEF Idle, ProcState, Steps
<1>3. proc' \in [Workers -> ProcState(entry.rev, 0)]
  BY <1>1, <1>2
<1>4. TypeOK'
  BY <1>1, <1>3 DEF IInv, TypeOK, ProcState
<1>5. CacheCoherent' /\ ReaderFresh' /\ ProofHolds'
  BY <1>1, <1>2 DEF CacheCoherent, ReaderFresh, ProofHolds
<1> QED
  BY <1>4, <1>5 DEF IInv

LEMMA NextIInv == IInv /\ [Next]_vars => IInv'
<1> SUFFICES ASSUME IInv, [Next]_vars PROVE IInv'
  OBVIOUS
<1>1. CASE UNCHANGED vars
  BY <1>1 DEF vars, IInv, TypeOK, CacheCoherent, ReaderFresh, ProofHolds
<1>2. ASSUME NEW p \in Procs, NEW op \in Ops, Start(p, op) PROVE IInv'
  BY <1>2, StartStep
<1>3. ASSUME NEW p \in Workers,
             \/ LookupCache(p) \/ LoadGen(p) \/ Get(p) \/ ValidRead(p) \/ Repopulate(p)
             \/ Create(p) \/ Merge(p) \/ AppendTriples(p) \/ Reconcile(p) \/ Delete(p)
             \/ ClearLookup(p) \/ ClearGet(p) \/ Clear(p) \/ Invalidate(p)
             \/ Record(p) \/ RecordInvalidate(p) \/ Verify(p) \/ Classify(p) \/ Drop(p)
             \/ Fail(p)
      PROVE  IInv'
  BY <1>3, ReadStep, RepopulateStep, CommitStep, ClearStep, InvalidateStep, InventoryStep,
     FailStep
<1>4. CASE Evict \/ \E kind \in {"good", "poison", "absent"} : OutOfBand(kind)
  BY <1>4, OutsideStep
<1>5. CASE Restart
  BY <1>5, RestartStep
<1> QED
  BY <1>1, <1>2, <1>3, <1>4, <1>5 DEF Next

-----------------------------------------------------------------------------
(***************************************************************************)
(* Who erases a record.  A step that changes neither the stored state nor  *)
(* makes a record where none was keeps every other goroutine's debt, so    *)
(* only the one that moves has to be looked at.                            *)
(***************************************************************************)
LEMMA OthersOwe ==
  ASSUME IInv, Owed, NEW p \in Workers, NEW s,
         proc' = [proc EXCEPT ![p] = s], entry' = entry, faults' = faults,
         poison' # 0 => poison # 0,
         Erases(p) => Erases(p)'
  PROVE  Owed'
<1> SUFFICES ASSUME faults' = 0, poison' # 0, entry'.api, entry'.kind # "poison"
             PROVE  \E q \in Workers : Erases(q)'
  BY DEF Owed
<1>1. PICK q \in Workers : Erases(q)
  BY DEF Owed
<1>2. CASE q = p
  BY <1>1, <1>2
<1>3. CASE q # p
  <2>1. proc'[q] = proc[q]
    BY <1>3
  <2> QED
    BY <1>1, <2>1 DEF Erases
<1> QED
  BY <1>2, <1>3

\* Where a goroutine is after it moved, and what it goes by.
LEMMA Moved ==
  ASSUME IInv, NEW p \in Workers, NEW pc, NEW rev, NEW own, NEW gen,
         Move(p, pc, rev, own, gen)
  PROVE  proc'[p].pc = pc /\ proc'[p].rev = rev
<1>1. p \in DOMAIN proc
  BY DEF IInv, TypeOK
<1> DEFINE s == [op |-> proc[p].op, pc |-> pc, rev |-> rev, own |-> own, gen |-> gen]
<1>2. proc'[p] = s
  BY <1>1 DEF Move
<1> QED
  BY <1>2

\* A goroutine that owes nothing, or nothing any more, may move anywhere.
LEMMA FreeMoves ==
  ASSUME IInv, Owed, NEW p \in Workers,
         \/ LookupCache(p) \/ LoadGen(p) \/ Get(p) \/ ValidRead(p) \/ Repopulate(p)
         \/ Invalidate(p) \/ Classify(p)
  PROVE  Owed'
<1>1. proc[p].pc \in {"cache", "gen", "get", "validRead", "repopulate", "invalidate",
                      "classify"}
  BY DEF LookupCache, LoadGen, Get, ValidRead, Repopulate, Invalidate, Classify, At
<1>2. ~Erases(p)
  BY <1>1 DEF Erases
<1>3. PICK s : proc' = [proc EXCEPT ![p] = s]
  BY DEF LookupCache, LoadGen, Get, ValidRead, Repopulate, Invalidate, Classify, Done, GoTo,
         GoWith, Move
<1>4. entry' = entry /\ faults' = faults
  BY DEF LookupCache, LoadGen, Get, ValidRead, Repopulate, Invalidate, Classify
<1>5. poison' # 0 => poison # 0
  BY DEF LookupCache, LoadGen, Get, ValidRead, Repopulate, Invalidate, Classify, DropRecord
<1> QED
  BY <1>2, <1>3, <1>4, <1>5, OthersOwe

(***************************************************************************)
(* A commit through the API makes its own goroutine owe the erasure.       *)
(***************************************************************************)
LEMMA CommitsOwe ==
  ASSUME IInv, Owed, NEW p \in Workers,
         Create(p) \/ Merge(p) \/ AppendTriples(p) \/ Reconcile(p) \/ Delete(p)
  PROVE  Owed'
<1> USE DEF Create, Merge, AppendTriples, Reconcile, Delete
<1>1. proc[p].pc \in {"create", "rmw", "cas"}
  BY DEF At
<1>2. faults' = faults /\ poison' = poison
  OBVIOUS
<1>3. CASE entry' = entry
  <2>1. ~Erases(p)
    BY <1>1 DEF Erases
  <2>2. PICK s : proc' = [proc EXCEPT ![p] = s]
    BY DEF Done, GoTo, GoWith, Committed, Move
  <2> QED
    BY <1>2, <1>3, <2>1, <2>2, OthersOwe
<1>4. ASSUME NEW kind, NEW pc, NEW proof, Write(kind), Committed(p, pc, proof),
             \/ pc = "clear" /\ proof \in {0, entry.rev + 1}
             \/ pc = "lookup" /\ kind = "good"
      PROVE  Owed'
  <2>1. entry' = [rev |-> entry.rev + 1, kind |-> kind, api |-> TRUE]
    BY <1>4 DEF Write
  <2>2. proc'[p].pc = pc /\ proc'[p].rev = proof
    BY <1>4, Moved DEF Committed
  <2>3. Erases(p)'
    BY <1>4, <2>1, <2>2 DEF Erases
  <2> QED
    BY <2>3 DEF Owed
<1>5. ASSUME entry' # entry
      PROVE  \E kind, pc, proof :
               /\ Write(kind) /\ Committed(p, pc, proof)
               /\ \/ pc = "clear" /\ proof \in {0, entry.rev + 1}
                  \/ pc = "lookup" /\ kind = "good"
  <2>1. CASE Create(p) \/ Reconcile(p)
    BY <1>5, <2>1
  <2>2. CASE Merge(p) \/ AppendTriples(p)
    BY <1>5, <2>2
  <2>3. CASE Delete(p)
    BY <1>5, <2>3
  <2> QED
    BY <2>1, <2>2, <2>3
<1> QED
  BY <1>3, <1>4, <1>5

(***************************************************************************)
(* The steps of a clear and of a verification hand the debt on until the   *)
(* record is gone.  A record that is new is verified by who made it.       *)
(***************************************************************************)
LEMMA ClearsPay ==
  ASSUME IInv, Owed, NEW p \in Workers,
         ClearLookup(p) \/ ClearGet(p) \/ RecordInvalidate(p)
  PROVE  Owed'
<1> USE DEF ClearLookup, ClearGet, RecordInvalidate
<1>1. entry' = entry /\ faults' = faults /\ poison' = poison
  OBVIOUS
<1>2. PICK pc, rev : GoWith(p, pc, rev) /\ ((poison' # 0 /\ Erases(p)) =>
                       \/ pc = "verify"
                       \/ pc = "clear" /\ rev = entry.rev
                       \/ pc = "clearGet" /\ entry.kind = "good")
  BY DEF GoTo, Erases, At
<1>3. proc'[p].pc = pc /\ proc'[p].rev = rev
  BY <1>2, Moved DEF GoWith
<1>4. CASE poison' = 0
  BY <1>4 DEF Owed
<1>5. CASE poison' # 0
  <2>1. Erases(p) => Erases(p)'
    BY <1>1, <1>2, <1>3, <1>5 DEF Erases
  <2>2. PICK s : proc' = [proc EXCEPT ![p] = s]
    BY <1>2 DEF GoWith, Move
  <2> QED
    BY <1>1, <2>1, <2>2, OthersOwe
<1> QED
  BY <1>4, <1>5

LEMMA DropsPay ==
  ASSUME IInv, Owed, NEW p \in Workers,
         Clear(p) \/ Drop(p)
  PROVE  Owed'
<1> USE DEF Clear, Drop
<1>1. entry' = entry /\ faults' = faults /\ DropRecord(proc[p].rev)
      /\ proc[p].pc \in {"clear", "drop"}
  BY DEF At
<1>2. PICK s : proc' = [proc EXCEPT ![p] = s]
  BY DEF Done, GoTo, GoWith, Move
<1>3. poison' # 0 => poison # 0
  BY <1>1 DEF DropRecord
<1>4. CASE Erases(p)
  <2>1. proc[p].rev = 0 \/ proc[p].rev >= poison
    <3>1. poison \in Nat /\ entry.rev \in Nat /\ poison <= entry.rev
      BY StoreAssumption DEF IInv, TypeOK
    <3> QED
      BY <1>1, <1>4, <3>1 DEF Erases
  <2>2. poison' = 0
    BY <1>1, <2>1, Typed DEF DropRecord, IInv, TypeOK
  <2> QED
    BY <2>2 DEF Owed
<1>5. CASE ~Erases(p)
  BY <1>1, <1>2, <1>3, <1>5, OthersOwe
<1> QED
  BY <1>4, <1>5

LEMMA VerifyPays ==
  ASSUME IInv, Owed, NEW p \in Workers, Verify(p)
  PROVE  Owed'
<1> USE DEF Verify
<1>1. entry' = entry /\ faults' = faults /\ poison' = poison
  OBVIOUS
<1>2. CASE entry.kind = "poison"
  BY <1>1, <1>2 DEF Owed
<1>3. CASE entry.kind # "poison"
  <2>1. PICK rev \in {0, entry.rev} : GoWith(p, "drop", rev)
    BY <1>3
  <2>2. proc'[p].pc = "drop" /\ proc'[p].rev = rev
    BY <2>1, Moved DEF GoWith
  <2>3. Erases(p)'
    BY <1>1, <2>2 DEF Erases
  <2> QED
    BY <2>3 DEF Owed
<1> QED
  BY <1>2, <1>3

LEMMA RecordOwes ==
  ASSUME IInv, Owed, NEW p \in Workers, Record(p)
  PROVE  Owed'
<1> USE DEF Record
<1>1. entry' = entry /\ faults' = faults
  OBVIOUS
<1>2. CASE poison = 0
  <2>1. proc'[p].pc = "recordInvalidate"
    BY <1>2, Moved DEF GoTo, GoWith
  <2>2. Erases(p)'
    BY <2>1 DEF Erases
  <2> QED
    BY <2>2 DEF Owed
<1>3. CASE poison # 0
  <2>1. ~Erases(p)
    BY DEF Erases, At
  <2>2. PICK s : proc' = [proc EXCEPT ![p] = s]
    BY <1>3 DEF Done
  <2> QED
    BY <1>1, <1>3, <2>1, <2>2, OthersOwe
<1> QED
  BY <1>2, <1>3

LEMMA OwedNext == IInv /\ Owed /\ [Next]_vars => Owed'
<1> SUFFICES ASSUME IInv, Owed, [Next]_vars PROVE Owed'
  OBVIOUS
<1>1. CASE UNCHANGED vars
  BY <1>1 DEF vars, Owed, Erases
<1>2. ASSUME NEW p \in Procs, NEW op \in Ops, Start(p, op) PROVE Owed'
  <2>1. p \in Workers /\ ~Erases(p)
    BY <1>2 DEF Workers, Start, Erases, At
  <2>2. PICK s : proc' = [proc EXCEPT ![p] = s]
    BY <1>2 DEF Start
  <2> QED
    BY <1>2, <2>1, <2>2, OthersOwe DEF Start
<1>3. ASSUME NEW p \in Workers,
             \/ LookupCache(p) \/ LoadGen(p) \/ Get(p) \/ ValidRead(p) \/ Repopulate(p)
             \/ Create(p) \/ Merge(p) \/ AppendTriples(p) \/ Reconcile(p) \/ Delete(p)
             \/ ClearLookup(p) \/ ClearGet(p) \/ Clear(p) \/ Invalidate(p)
             \/ Record(p) \/ RecordInvalidate(p) \/ Verify(p) \/ Classify(p) \/ Drop(p)
      PROVE  Owed'
  BY <1>3, FreeMoves, CommitsOwe, ClearsPay, DropsPay, VerifyPays, RecordOwes
<1>4. ASSUME NEW p \in Workers, Fail(p) PROVE Owed'
  <2>1. faults' = faults + 1 /\ faults \in Nat
    BY <1>4, StoreAssumption DEF Fail, IInv, TypeOK
  <2> QED
    BY <2>1 DEF Owed
<1>5. CASE Evict
  BY <1>5 DEF Evict, Owed, Erases
<1>6. ASSUME NEW kind, OutOfBand(kind) PROVE Owed'
  BY <1>6 DEF OutOfBand, Owed
<1>7. CASE Restart
  BY <1>7 DEF Restart, Owed
<1> QED
  BY <1>1, <1>2, <1>3, <1>4, <1>5, <1>6, <1>7 DEF Next

-----------------------------------------------------------------------------
(* The theorems                                                            *)

(***************************************************************************)
(* The inductive invariant holds in every reachable state, for any number  *)
(* of goroutines, revisions, faults and restarts.                          *)
(***************************************************************************)
THEOREM StoreInvariant == Spec => []IInv
<1> QED
  BY InitIInv, NextIInv, PTL DEF Spec

(***************************************************************************)
(* Every field keeps its type, and neither the cache nor the inventory nor *)
(* an answer names a revision ENTITY_STATES has not issued.                *)
(***************************************************************************)
THEOREM StoreTypes == Spec => []TypeOK
<1>1. IInv => TypeOK
  BY DEF IInv
<1> QED
  BY <1>1, StoreInvariant, PTL

(***************************************************************************)
(* Read after write: no value cached by a slow batch query is older than a *)
(* commit that has been answered (invalidateEntityCacheEntry and           *)
(* repopulateEntityCacheEntry).                                            *)
(***************************************************************************)
THEOREM CacheIsCoherent == Spec => []CacheCoherent
<1>1. IInv => CacheCoherent
  BY DEF IInv
<1> QED
  BY <1>1, StoreInvariant, PTL

(***************************************************************************)
(* dropEntityPoisonRecord's guard: while the recorded revision is stored,  *)
(* no proof of validity erases the record; only a drop that goes by a      *)
(* missing key, or a new process, does.                                    *)
(***************************************************************************)
THEOREM RepoisonIsKept == Spec => RepoisonKept
<1> DEFINE A == (poison # 0 /\ poison' = 0 /\ entry.kind = "poison" /\ entry.rev = poison) =>
                  \/ \E p \in Workers : proc[p].pc \in {"clear", "drop"} /\ proc[p].rev = 0
                  \/ restarts' # restarts
<1>1. IInv /\ [Next]_vars => [A]_vars
  <2> SUFFICES ASSUME IInv, Next, poison # 0, poison' = 0, entry.kind = "poison",
                      entry.rev = poison
               PROVE  \/ \E p \in Workers : proc[p].pc \in {"clear", "drop"} /\ proc[p].rev = 0
                      \/ restarts' # restarts
    BY DEF vars
  <2>1. ASSUME NEW p \in Workers, DropRecord(proc[p].rev),
               proc[p].pc \in {"validRead", "clear", "drop"}
        PROVE  proc[p].pc \in {"clear", "drop"} /\ proc[p].rev = 0
    BY <2>1, Typed DEF DropRecord, IInv, ProofHolds
  <2>2. ASSUME NEW p \in Workers, ValidRead(p) \/ Clear(p) \/ Drop(p)
        PROVE  proc[p].pc \in {"clear", "drop"} /\ proc[p].rev = 0
    BY <2>1, <2>2 DEF ValidRead, Clear, Drop, At
  <2>3. ASSUME NEW p \in Workers, Record(p)
        PROVE  FALSE
    BY <2>3, Typed DEF Record
  <2>4. CASE Restart
    <3>1. restarts' = restarts + 1 /\ restarts \in Nat
      BY <2>4, StoreAssumption DEF Restart, IInv, TypeOK
    <3> QED
      BY <3>1
  <2>5. ASSUME poison' = poison
        PROVE  FALSE
    BY <2>5
  <2> QED
    BY <2>2, <2>3, <2>4, <2>5
       DEF Next, Start, LookupCache, LoadGen, Get, Repopulate, Create, Merge, AppendTriples,
           Reconcile, Delete, ClearLookup, ClearGet, Invalidate, RecordInvalidate, Verify, Classify, Fail, Evict, OutOfBand
<1> QED
  BY <1>1, StoreInvariant, PTL DEF Spec, RepoisonKept

(***************************************************************************)
(* Without a failed KV call, a record that is left when every request is   *)
(* over names poison, or a state that somebody outside the mutation API    *)
(* wrote: a detection that records a poison already repaired verifies its  *)
(* record, and every commit looks for one.                                 *)
(***************************************************************************)
THEOREM RecordsAreErased == Spec => []NoStrandedRecord
<1>1. Init => Owed
  BY DEF Init, Owed
<1>2. IInv /\ Owed => NoStrandedRecord
  BY DEF Owed, Erases, NoStrandedRecord, At
<1> QED
  BY <1>1, <1>2, OwedNext, StoreInvariant, PTL DEF Spec
=============================================================================
