-------------------------- MODULE GraphIndexProofs --------------------------
(***************************************************************************)
(* Proofs about GraphIndex, for any entities, families, lanes, readers,    *)
(* commits, faults and restarts: what is completed is indexed or known not *)
(* to be, the bootstrap flag is honest, and so is Ready as long as every   *)
(* stored value can be read; and the pipeline uses the watermark the way   *)
(* its proofs assume.                                                      *)
(***************************************************************************)
EXTENDS GraphIndex, TLAPS, WellFoundedInduction

\* The proofs about the watermark, for the pipeline's watermark.
WP == INSTANCE WatermarkProofs WITH MaxAt <- MaxRev

Entry == [key : Keys, kind : Kinds]
InHands == [key : Keys, rev : 0..MaxRev, pc : {"read", "write", "complete"}, src : 0..MaxRev,
            todo : SUBSET Families, bad : BOOLEAN]

\* LastOf over a given log.
Top(S) == IF S = {} THEN 0 ELSE CHOOSE r \in S : \A s \in S : s <= r
LastIn(lg, k, seq) == Top({r \in 1..seq : lg[r].key = k})

\* The shape of the state.
Shape ==
  /\ log \in Seq(Entry) /\ Len(log) <= MaxRev
  /\ rows \in [Keys -> [Families -> 0..MaxRev]]
  /\ observedHigh \in 0..Len(log) /\ startSeq \in 0..Len(log)
  /\ watcher \in [pc : {"receive", "submit", "sentinel"}, work : Work \cup {None}]
  /\ coalescer \in [Keys -> 0..MaxRev] /\ batch \subseteq Work
  /\ lanes \in [Lanes -> Seq(Work)]
  /\ worker \in [Lanes -> {None} \cup InHands]
  /\ failedEntities \subseteq Keys
  /\ reader \in [Readers -> [pc : {"idle", "watermark", "target", "publish"},
                             indexed : 0..MaxRev, target : 0..MaxRev]]

\* What was delivered is in the log, what is in flight was delivered, and a revision
\* below the highest one that was not delivered is superseded.
Marks ==
  /\ \A r \in DOMAIN delivered :
       r \in 1..observedHigh /\ delivered[r] = [key |-> log[r].key, commitAt |-> r]
  /\ \A r \in DOMAIN pending : r \in DOMAIN delivered /\ pending[r].key = delivered[r].key
  /\ observedHigh # 0 => observedHigh \in DOMAIN delivered
  /\ \A s \in 1..observedHigh :
       s \in DOMAIN delivered \/ \E t \in 1..Len(log) : t > s /\ log[t].key = log[s].key

\* Work is for a revision this process was delivered, or repairs.
Genuine(w) == w.rev # 0 => w.rev \in DOMAIN delivered /\ delivered[w.rev].key = w.key

\* No queue holds work of another lane or of another process.
Queued ==
  /\ watcher.pc = "submit" => watcher.work \in Work /\ Genuine(watcher.work)
  /\ \A k \in Keys : coalescer[k] # 0 =>
       coalescer[k] \in DOMAIN delivered /\ delivered[coalescer[k]].key = k
  /\ \A w \in batch : Genuine(w)
  /\ \A l \in Lanes : \A i \in 1..Len(lanes[l]) :
       LaneOf[lanes[l][i].key] = l /\ Genuine(lanes[l][i])

\* The end of the enumeration: every entity stored at the start was delivered by then.
Enumerated ==
  initialEnumerationComplete \/ watcher.pc = "sentinel" =>
    /\ bootstrapTarget \in Nat
    /\ \A k \in Keys : LastIn(log, k, startSeq) > 0 =>
         \E r \in DOMAIN delivered : delivered[r].key = k /\ r <= bootstrapTarget

\* A stored value that cannot be read excuses what is not indexed.
Excused == resetState /\ "unreadable" \in Kinds

\* Entity k is indexed up to r and up to what the watch started on, or known not to be.
Known(k, r) ==
  \/ Excused \/ k \in failedEntities
  \/ \A f \in Families : rows[k][f] >= r /\ rows[k][f] >= LastIn(log, k, startSeq)

\* A worker writes what it read; that is no older than its work, than the rows and than
\* anything that was completed for its entity.
Sourced(w) ==
  /\ w.rev <= w.src /\ LastIn(log, w.key, startSeq) <= w.src
  /\ w.src <= LastIn(log, w.key, Len(log))
  /\ \A r \in DOMAIN delivered \ DOMAIN pending : delivered[r].key = w.key => r <= w.src
  /\ \A f \in Families : rows[w.key][f] <= w.src
  /\ \A f \in Families \ w.todo : w.bad \/ rows[w.key][f] = w.src

Working(w) ==
  /\ Genuine(w)
  /\ w.pc = "read" => w.todo = Families
  /\ w.pc = "write" => Sourced(w)
  /\ w.pc = "complete" => Known(w.key, w.rev)

InHand(l) == worker[l] # None => LaneOf[worker[l].key] = l /\ Working(worker[l])

\* What the index says of entity k.
Indexed(k) ==
  /\ \A f \in Families : rows[k][f] <= LastIn(log, k, Len(log))
  /\ \A r \in DOMAIN delivered \ DOMAIN pending : delivered[r].key = k => Known(k, r)
  /\ indexBootstrapped => Known(k, 0)
  /\ status.ready =>
       Excused \/ \A f \in Families : rows[k][f] >= LastIn(log, k, status.target)

\* A status computation: the floor it read stays a floor, and a target at or below the
\* floor was delivered and completed for every entity.
Reading(x) ==
  /\ x.pc \in {"target", "publish"} =>
       x.indexed <= observedHigh /\ \A r \in DOMAIN pending : r > x.indexed
  /\ x.pc = "publish" =>
       /\ startSeq <= x.target /\ x.target <= Len(log)
       /\ x.indexed >= x.target =>
            \A k \in Keys : LastIn(log, k, x.target) > 0 =>
              LastIn(log, k, x.target) \in DOMAIN delivered \ DOMAIN pending

\* The inductive invariant.
IInv ==
  /\ Shape /\ Marks /\ Queued /\ Enumerated
  /\ \A l \in Lanes : InHand(l)
  /\ \A k \in Keys : Indexed(k)
  /\ \A q \in Readers : Reading(reader[q])
  /\ status.ready => status.target \in 0..Len(log)

-----------------------------------------------------------------------------
(* The operators.                                                          *)

\* A non-empty set of naturals has a least element.
LEMMA Least ==
  ASSUME NEW S \in SUBSET Nat, S # {}
  PROVE  \E x \in S : \A y \in S : x <= y
  <1>1. \E x \in S : \A y \in S : ~ (<<y, x>> \in OpToRel(<, Nat))
    BY WFMin, NatLessThanWellFounded, Zenon
  <1>2. PICK x \in S : \A y \in S : ~ (<<y, x>> \in OpToRel(<, Nat))
    BY <1>1
  <1>3. ASSUME NEW y \in S, y < x PROVE FALSE
    <2>1. <<y, x>> \in {ss \in Nat \X Nat : ss[1] < ss[2]}
      BY <1>3
    <2> QED
      BY <2>1, <1>2, Zenon DEF OpToRel
  <1> QED
    BY <1>3

\* A non-empty set of revisions has a greatest one.
LEMMA Greatest ==
  ASSUME NEW n \in Nat, NEW S \in SUBSET (1..n), S # {}
  PROVE  \E x \in S : \A y \in S : y <= x
  <1> DEFINE T == {n - y : y \in S}
  <1>1. T \in SUBSET Nat /\ T # {}
    BY \A y \in S : n - y \in Nat
  <1>2. PICK t \in T : \A y \in T : t <= y
    BY <1>1, Least
  <1>3. PICK x \in S : t = n - x
    OBVIOUS
  <1>4. \A y \in S : n - y \in T
    OBVIOUS
  <1> HIDE DEF T
  <1>5. \A y \in S : y <= x
    BY <1>2, <1>3, <1>4
  <1> QED
    BY <1>5

\* The newest revision of an entity at or below seq.
LEMMA LastFacts ==
  ASSUME NEW lg \in Seq(Entry), NEW k, NEW seq \in 0..Len(lg)
  PROVE  /\ LastIn(lg, k, seq) \in 0..seq
         /\ LastIn(lg, k, seq) > 0 => lg[LastIn(lg, k, seq)].key = k
         /\ \A r \in 1..seq : lg[r].key = k => r <= LastIn(lg, k, seq)
  <1>1. PICK mine : mine = {r \in 1..seq : lg[r].key = k}
    OBVIOUS
  <1>2. mine \in SUBSET (1..seq) /\ seq \in Nat /\ LastIn(lg, k, seq) = Top(mine)
    BY <1>1 DEF LastIn
  <1>3. CASE mine = {}
    BY <1>1, <1>2, <1>3 DEF Top
  <1>4. CASE mine # {}
    <2>1. \E r \in mine : \A s \in mine : s <= r
      BY <1>2, <1>4, Greatest
    <2>2. Top(mine) \in mine /\ \A s \in mine : s <= Top(mine)
      BY <1>4, <2>1 DEF Top
    <2> QED
      BY <1>1, <1>2, <2>2
  <1> QED
    BY <1>3, <1>4

\* A commit changes nothing at or below the old end and does not lower the newest.
LEMMA LastGrows ==
  ASSUME NEW lg \in Seq(Entry), NEW e \in Entry, NEW k, NEW seq \in 0..Len(lg)
  PROVE  /\ LastIn(Append(lg, e), k, seq) = LastIn(lg, k, seq)
         /\ LastIn(lg, k, Len(lg)) <= LastIn(Append(lg, e), k, Len(Append(lg, e)))
  <1>1. PICK x : x = Append(lg, e)
    OBVIOUS
  <1>2. /\ x \in Seq(Entry) /\ Len(x) = Len(lg) + 1 /\ Len(lg) \in Nat /\ Len(x) \in 0..Len(x)
        /\ \A r \in 1..Len(lg) : x[r] = lg[r]
    BY <1>1
  <1>3. {r \in 1..seq : x[r].key = k} = {r \in 1..seq : lg[r].key = k}
    BY <1>2
  <1>4. LastIn(x, k, seq) = LastIn(lg, k, seq)
    BY <1>3 DEF LastIn
  <1>5. PICK a : a = LastIn(lg, k, Len(lg))
    OBVIOUS
  <1>6. PICK b : b = LastIn(x, k, Len(x))
    OBVIOUS
  <1>7. Len(lg) \in 0..Len(lg)
    BY <1>2
  <1>8. a \in 0..Len(lg) /\ (a > 0 => lg[a].key = k)
    BY <1>5, <1>7, LastFacts
  <1>9. b \in 0..Len(x) /\ \A r \in 1..Len(x) : x[r].key = k => r <= b
    BY <1>2, <1>6, LastFacts
  <1>10. a <= b
    BY <1>2, <1>8, <1>9
  <1> QED
    BY <1>1, <1>4, <1>5, <1>6, <1>10

\* A later end does not lower the newest revision.
LEMMA LastMonotone ==
  ASSUME NEW lg \in Seq(Entry), NEW k, NEW a \in 0..Len(lg), NEW b \in a..Len(lg)
  PROVE  LastIn(lg, k, a) <= LastIn(lg, k, b)
  <1>1. LastIn(lg, k, a) \in 0..a /\ (LastIn(lg, k, a) > 0 => lg[LastIn(lg, k, a)].key = k)
    BY LastFacts
  <1>2. /\ LastIn(lg, k, b) \in 0..b
        /\ \A r \in 1..b : lg[r].key = k => r <= LastIn(lg, k, b)
    BY LastFacts
  <1> QED
    BY <1>1, <1>2

-----------------------------------------------------------------------------
(* What survives a step of one process.                                    *)

\* Within one process lifetime nothing that was committed, delivered or found
\* unreadable is taken back, and only newer revisions enter the in-flight map.
Grows ==
  /\ log' = log \/ \E e \in Entry : log' = Append(log, e)
  /\ startSeq' = startSeq /\ observedHigh <= observedHigh'
  /\ resetState => resetState'
  /\ \A r \in DOMAIN delivered : r \in DOMAIN delivered' /\ delivered'[r] = delivered[r]
  /\ \A r \in DOMAIN pending' : r \in DOMAIN pending \/ (r \in Nat /\ r > observedHigh)

\* A step that does not touch what is known of entity k.
Spares(k) ==
  /\ rows'[k] = rows[k] /\ (k \in failedEntities' <=> k \in failedEntities)
  /\ \A r \in DOMAIN delivered' \ DOMAIN pending' : delivered'[r].key = k =>
       r \in DOMAIN delivered \ DOMAIN pending

LEMMA GrowsFacts ==
  ASSUME Shape, Grows
  PROVE  /\ log' \in Seq(Entry) /\ Len(log) \in Nat /\ Len(log') \in Nat
         /\ Len(log) <= Len(log') /\ \A r \in 1..Len(log) : log'[r] = log[r]
         /\ \A k, t : t \in 0..Len(log) => LastIn(log', k, t) = LastIn(log, k, t)
         /\ \A k : /\ LastIn(log', k, startSeq') = LastIn(log, k, startSeq)
                   /\ LastIn(log, k, Len(log)) <= LastIn(log', k, Len(log'))
                   /\ LastIn(log, k, Len(log)) \in Nat /\ LastIn(log', k, Len(log')) \in Nat
                   /\ LastIn(log, k, startSeq) \in Nat
  <1>1. log \in Seq(Entry) /\ Len(log) \in Nat /\ Len(log) \in 0..Len(log)
        /\ startSeq \in 0..Len(log) /\ startSeq' = startSeq
    BY DEF Shape, Grows
  <1>2. \A k : LastIn(log, k, Len(log)) \in Nat /\ LastIn(log, k, startSeq) \in Nat
    <2> TAKE k
    <2>1. LastIn(log, k, Len(log)) \in 0..Len(log)
      BY <1>1, LastFacts
    <2>2. LastIn(log, k, startSeq) \in 0..startSeq
      BY <1>1, LastFacts
    <2> QED
      BY <1>1, <2>1, <2>2
  <1>3. CASE log' = log
    <2>1. \A k : LastIn(log, k, Len(log)) <= LastIn(log', k, Len(log'))
      BY <1>2, <1>3
    <2> QED
      BY <1>1, <1>2, <1>3, <2>1
  <1>4. ASSUME NEW e \in Entry, log' = Append(log, e)
        PROVE  /\ log' \in Seq(Entry) /\ Len(log') \in Nat
               /\ Len(log) <= Len(log') /\ \A r \in 1..Len(log) : log'[r] = log[r]
               /\ \A k, t : t \in 0..Len(log) => LastIn(log', k, t) = LastIn(log, k, t)
               /\ \A k : /\ LastIn(log, k, Len(log)) <= LastIn(log', k, Len(log'))
                         /\ LastIn(log', k, Len(log')) \in Nat
    <2>1. /\ log' \in Seq(Entry) /\ Len(log') \in Nat
          /\ Len(log) <= Len(log') /\ \A r \in 1..Len(log) : log'[r] = log[r]
      BY <1>1, <1>4
    <2>2. \A k, t : t \in 0..Len(log) => LastIn(log', k, t) = LastIn(log, k, t)
      BY <1>1, <1>4, LastGrows
    <2>3. \A k : LastIn(log, k, Len(log)) <= LastIn(log', k, Len(log'))
      BY <1>1, <1>4, LastGrows
    <2>4. \A k : LastIn(log', k, Len(log')) \in Nat
      <3> TAKE k
      <3>1. Len(log') \in 0..Len(log')
        BY <2>1
      <3>2. LastIn(log', k, Len(log')) \in 0..Len(log')
        BY <2>1, <3>1, LastFacts
      <3> QED
        BY <3>2
    <2> QED
      BY <2>1, <2>2, <2>3, <2>4
  <1> QED
    BY <1>1, <1>2, <1>3, <1>4 DEF Grows

LEMMA KnownKept ==
  ASSUME Shape, Grows, NEW k \in Keys, NEW r, Spares(k)
  PROVE  Known(k, r) => Known(k, r)'
  <1>1. LastIn(log', k, startSeq') = LastIn(log, k, startSeq)
    BY GrowsFacts
  <1>2. Excused => Excused'
    BY DEF Excused, Grows
  <1> QED
    BY <1>1, <1>2 DEF Known, Spares

LEMMA GenuineKept ==
  ASSUME Grows, NEW w
  PROVE  Genuine(w) => Genuine(w)'
  BY DEF Grows, Genuine

LEMMA WorkingKept ==
  ASSUME Shape, Grows, NEW w \in InHands, Spares(w.key)
  PROVE  Working(w) => Working(w)'
  <1>1. w.key \in Keys /\ w.src \in Nat
    BY DEF InHands
  <1>2. Known(w.key, w.rev) => Known(w.key, w.rev)'
    BY <1>1, KnownKept
  <1>3. Sourced(w) => Sourced(w)'
    <2>1. LastIn(log', w.key, startSeq') = LastIn(log, w.key, startSeq)
      BY GrowsFacts
    <2>2. w.src <= LastIn(log, w.key, Len(log)) => w.src <= LastIn(log', w.key, Len(log'))
      <3>1. PICK a : a = LastIn(log, w.key, Len(log))
        OBVIOUS
      <3>2. PICK b : b = LastIn(log', w.key, Len(log'))
        OBVIOUS
      <3>3. a \in Nat /\ b \in Nat /\ a <= b
        BY <3>1, <3>2, GrowsFacts
      <3> QED
        BY <1>1, <3>1, <3>2, <3>3
    <2>3. ASSUME Sourced(w), NEW r \in DOMAIN delivered' \ DOMAIN pending',
                 delivered'[r].key = w.key
          PROVE  r <= w.src
      <3>1. r \in DOMAIN delivered \ DOMAIN pending /\ delivered'[r] = delivered[r]
        BY <2>3 DEF Spares, Grows
      <3> QED
        BY <2>3, <3>1 DEF Sourced
    <2> QED
      BY <2>1, <2>2, <2>3 DEF Sourced, Spares
  <1> QED
    BY <1>2, <1>3, GenuineKept DEF Working

LEMMA IndexedKept ==
  ASSUME IInv, Grows, NEW k \in Keys, Spares(k), UNCHANGED <<status, indexBootstrapped>>
  PROVE  Indexed(k)'
  <1>1. \A r : Known(k, r) => Known(k, r)'
    BY KnownKept DEF IInv
  <1>2. \A f \in Families : rows'[k][f] <= LastIn(log', k, Len(log'))
    <2> TAKE f \in Families
    <2>1. PICK a : a = LastIn(log, k, Len(log))
      OBVIOUS
    <2>2. PICK b : b = LastIn(log', k, Len(log'))
      OBVIOUS
    <2>3. a \in Nat /\ b \in Nat /\ a <= b
      BY <2>1, <2>2, GrowsFacts DEF IInv
    <2>4. rows[k][f] \in Nat /\ rows[k][f] <= a /\ rows'[k][f] = rows[k][f]
      BY <2>1 DEF IInv, Shape, Indexed, Spares
    <2> QED
      BY <2>2, <2>3, <2>4
  <1>3. ASSUME NEW r \in DOMAIN delivered' \ DOMAIN pending', delivered'[r].key = k
        PROVE  Known(k, r)'
    <2>1. r \in DOMAIN delivered \ DOMAIN pending /\ delivered'[r] = delivered[r]
      BY <1>3 DEF Spares, Grows
    <2> QED
      BY <1>1, <1>3, <2>1 DEF IInv, Indexed
  <1>4. indexBootstrapped' => Known(k, 0)'
    BY <1>1 DEF IInv, Indexed
  <1>5. ASSUME status'.ready
        PROVE  Excused' \/ \A f \in Families : rows'[k][f] >= LastIn(log', k, status'.target)
    <2>1. status.ready /\ status' = status
      BY <1>5
    <2>2. LastIn(log', k, status.target) = LastIn(log, k, status.target)
      BY <2>1, GrowsFacts DEF IInv
    <2>3. Excused \/ \A f \in Families : rows[k][f] >= LastIn(log, k, status.target)
      BY <2>1 DEF IInv, Indexed
    <2>4. Excused => Excused'
      BY DEF Excused, Grows
    <2> QED
      BY <2>1, <2>2, <2>3, <2>4 DEF Spares
  <1> QED
    BY <1>2, <1>3, <1>4, <1>5 DEF Indexed

LEMMA ReadingKept ==
  ASSUME IInv, Grows, observedHigh' \in Nat, NEW x, x.indexed \in Nat, x.target \in Nat
  PROVE  Reading(x) => Reading(x)'
  <1> SUFFICES ASSUME Reading(x) PROVE Reading(x)'
    OBVIOUS
  <1>1. observedHigh \in Nat /\ observedHigh <= observedHigh'
    BY DEF IInv, Shape, Grows
  <1>2. ASSUME x.pc \in {"target", "publish"}
        PROVE  x.indexed <= observedHigh' /\ \A r \in DOMAIN pending' : r > x.indexed
    <2>1. x.indexed <= observedHigh /\ \A r \in DOMAIN pending : r > x.indexed
      BY <1>2 DEF Reading
    <2>2. ASSUME NEW r \in DOMAIN pending' PROVE r > x.indexed
      <3>1. CASE r \in DOMAIN pending
        BY <2>1, <3>1
      <3>2. CASE r \in Nat /\ r > observedHigh
        BY <1>1, <2>1, <3>2
      <3> QED
        BY <3>1, <3>2 DEF Grows
    <2> QED
      BY <1>1, <2>1, <2>2
  <1>3. ASSUME x.pc = "publish"
        PROVE  /\ startSeq' <= x.target /\ x.target <= Len(log')
               /\ x.indexed >= x.target =>
                    \A k \in Keys : LastIn(log', k, x.target) > 0 =>
                      LastIn(log', k, x.target) \in DOMAIN delivered' \ DOMAIN pending'
    <2>1. startSeq <= x.target /\ x.target <= Len(log)
      BY <1>3 DEF Reading
    <2>2. Len(log) <= Len(log') /\ Len(log) \in Nat /\ Len(log') \in Nat /\ startSeq' = startSeq
      BY GrowsFacts DEF IInv, Grows
    <2>3. x.target \in 0..Len(log)
      BY <2>1, <2>2
    <2>4. ASSUME x.indexed >= x.target, NEW k \in Keys, LastIn(log', k, x.target) > 0
          PROVE  LastIn(log', k, x.target) \in DOMAIN delivered' \ DOMAIN pending'
      <3>1. PICK s : s = LastIn(log', k, x.target) /\ s = LastIn(log, k, x.target)
        BY <2>3, GrowsFacts DEF IInv
      <3>2. s \in DOMAIN delivered \ DOMAIN pending
        BY <1>3, <2>4, <3>1 DEF Reading
      <3>3. s \in 1..observedHigh
        BY <3>2 DEF IInv, Marks
      <3>4. ~(s > observedHigh)
        BY <1>1, <3>3
      <3> QED
        BY <3>1, <3>2, <3>4 DEF Grows
    <2> QED
      BY <2>1, <2>2, <2>4
  <1> QED
    BY <1>2, <1>3 DEF Reading

LEMMA QueuedKept ==
  ASSUME Queued, Grows, UNCHANGED queues
  PROVE  Queued'
  <1>1. watcher' = watcher /\ coalescer' = coalescer /\ batch' = batch /\ lanes' = lanes
    BY DEF queues
  <1>2. \A w : Genuine(w) => Genuine(w)'
    BY GenuineKept
  <1>3. watcher'.pc = "submit" => watcher'.work \in Work /\ Genuine(watcher.work)'
    BY <1>1 DEF Queued, Genuine, Grows
  <1>4. \A k \in Keys : coalescer'[k] # 0 =>
          coalescer'[k] \in DOMAIN delivered' /\ delivered'[coalescer'[k]].key = k
    BY <1>1 DEF Queued, Grows
  <1>5. \A w \in batch' : Genuine(w)'
    BY <1>1, <1>2 DEF Queued
  <1>6. \A l \in Lanes : \A i \in 1..Len(lanes'[l]) :
          LaneOf[lanes'[l][i].key] = l /\ Genuine(lanes[l][i])'
    BY <1>1 DEF Queued, Genuine, Grows
  <1> QED
    BY <1>3, <1>4, <1>5, <1>6 DEF Queued

LEMMA EnumeratedKept ==
  ASSUME IInv, Grows, UNCHANGED <<bootstrapTarget, initialEnumerationComplete>>,
         watcher'.pc = "sentinel" => watcher.pc = "sentinel"
  PROVE  Enumerated'
  <1>1. \A k \in Keys : LastIn(log', k, startSeq') = LastIn(log, k, startSeq)
    BY GrowsFacts DEF IInv
  <1>2. ASSUME NEW k \in Keys,
               \E r \in DOMAIN delivered : delivered[r].key = k /\ r <= bootstrapTarget
        PROVE  \E r \in DOMAIN delivered' : delivered'[r].key = k /\ r <= bootstrapTarget'
    BY <1>2 DEF Grows
  <1> QED
    BY <1>1, <1>2 DEF IInv, Enumerated

LEMMA MarksKept ==
  ASSUME IInv, Grows, UNCHANGED <<observedHigh, delivered>>,
         \A r \in DOMAIN pending' : r \in DOMAIN pending /\ pending'[r] = pending[r]
  PROVE  Marks'
  <1>1. /\ Len(log) <= Len(log') /\ Len(log) \in Nat /\ Len(log') \in Nat
        /\ \A r \in 1..Len(log) : log'[r] = log[r]
    BY GrowsFacts DEF IInv
  <1>2. observedHigh \in 0..Len(log) /\ 1..observedHigh \subseteq 1..Len(log)
    BY <1>1 DEF IInv, Shape
  <1>3. \A r \in DOMAIN delivered' :
          r \in 1..observedHigh' /\ delivered'[r] = [key |-> log'[r].key, commitAt |-> r]
    BY <1>1, <1>2 DEF IInv, Marks
  <1>4. \A r \in DOMAIN pending' :
          r \in DOMAIN delivered' /\ pending'[r].key = delivered'[r].key
    BY DEF IInv, Marks
  <1>5. ASSUME NEW s \in 1..observedHigh, s \notin DOMAIN delivered
        PROVE  \E t \in 1..Len(log') : t > s /\ log'[t].key = log'[s].key
    <2>1. PICK t \in 1..Len(log) : t > s /\ log[t].key = log[s].key
      BY <1>5 DEF IInv, Marks
    <2>2. t \in 1..Len(log') /\ s \in 1..Len(log)
      BY <1>1, <1>2
    <2> QED
      BY <1>1, <2>1, <2>2
  <1> QED
    BY <1>3, <1>4, <1>5 DEF IInv, Marks

\* A step that touches no worker and no status computation.
LEMMA OutsideStep ==
  ASSUME IInv, Grows, \A k \in Keys : Spares(k),
         UNCHANGED <<worker, reader, status, indexBootstrapped>>,
         Shape', Marks', Queued', Enumerated'
  PROVE  IInv'
  <1>1. observedHigh' \in Nat
    BY DEF Shape
  <1>2. ASSUME NEW l \in Lanes PROVE InHand(l)'
    <2>1. CASE worker[l] = None
      BY <2>1 DEF InHand
    <2>2. CASE worker[l] # None
      <3>1. PICK w \in InHands : w = worker[l] /\ w = worker'[l]
        BY <2>2 DEF IInv, Shape
      <3>2. Working(w) /\ LaneOf[w.key] = l /\ w.key \in Keys
        BY <2>2, <3>1 DEF IInv, InHand, InHands
      <3>3. Working(w)'
        BY <3>2, WorkingKept DEF IInv
      <3> QED
        BY <3>1, <3>2, <3>3 DEF InHand
    <2> QED
      BY <2>1, <2>2
  <1>3. \A k \in Keys : Indexed(k)'
    BY IndexedKept
  <1>4. ASSUME NEW q \in Readers PROVE Reading(reader[q])'
    <2>1. PICK x : x = reader[q] /\ x = reader'[q] /\ x.indexed \in Nat /\ x.target \in Nat
      BY DEF IInv, Shape
    <2>2. Reading(x)
      BY <2>1 DEF IInv
    <2>3. Reading(x)'
      BY <1>1, <2>1, <2>2, ReadingKept
    <2> QED
      BY <2>1, <2>3 DEF Reading
  <1>5. status'.ready => status'.target \in 0..Len(log')
    <2>1. Len(log) <= Len(log') /\ Len(log) \in Nat /\ Len(log') \in Nat
      BY GrowsFacts DEF IInv
    <2> QED
      BY <2>1 DEF IInv
  <1> QED
    BY <1>2, <1>3, <1>4, <1>5 DEF IInv

\* A step of the worker of lane l.
LEMMA LaneStep ==
  ASSUME IInv, Grows, NEW l \in Lanes, \A k \in Keys : LaneOf[k] # l => Spares(k),
         \A j \in Lanes : j # l => worker'[j] = worker[j],
         UNCHANGED <<log, boot, statusVars>>, Shape', Marks', Queued', watcher' = watcher,
         InHand(l)', \A k \in Keys : LaneOf[k] = l => Indexed(k)'
  PROVE  IInv'
  <1>1. observedHigh' \in Nat /\ status' = status /\ reader' = reader
        /\ indexBootstrapped' = indexBootstrapped
    BY DEF Shape, statusVars
  <1>2. ASSUME NEW j \in Lanes, j # l PROVE InHand(j)'
    <2>1. CASE worker[j] = None
      BY <1>2, <2>1 DEF InHand
    <2>2. CASE worker[j] # None
      <3>1. PICK w \in InHands : w = worker[j] /\ w = worker'[j]
        BY <1>2, <2>2 DEF IInv, Shape
      <3>2. Working(w) /\ LaneOf[w.key] = j /\ w.key \in Keys
        BY <2>2, <3>1 DEF IInv, InHand, InHands
      <3>3. Spares(w.key)
        BY <1>2, <3>2
      <3>4. Working(w)'
        BY <3>2, <3>3, WorkingKept DEF IInv
      <3> QED
        BY <3>1, <3>2, <3>4 DEF InHand
    <2> QED
      BY <2>1, <2>2
  <1>3. ASSUME NEW k \in Keys PROVE Indexed(k)'
    BY <1>1, IndexedKept
  <1>4. ASSUME NEW q \in Readers PROVE Reading(reader[q])'
    <2>1. PICK x : x = reader[q] /\ x = reader'[q] /\ x.indexed \in Nat /\ x.target \in Nat
      BY <1>1 DEF IInv, Shape
    <2>2. Reading(x)
      BY <2>1 DEF IInv
    <2>3. Reading(x)'
      BY <1>1, <2>1, <2>2, ReadingKept
    <2> QED
      BY <2>1, <2>3 DEF Reading
  <1>5. Enumerated'
    BY EnumeratedKept DEF boot
  <1> QED
    BY <1>1, <1>2, <1>3, <1>4, <1>5 DEF IInv

\* A step that only moves work between the queues.
LEMMA StillGrows ==
  ASSUME Shape, UNCHANGED <<log, startSeq, observedHigh, delivered, pending>>,
         resetState => resetState'
  PROVE  Grows
  BY DEF Grows, Shape

LEMMA StillSpares ==
  ASSUME UNCHANGED <<rows, failedEntities, delivered, pending>>
  PROVE  \A k : Spares(k)
  BY DEF Spares

LEMMA StillMarks ==
  ASSUME IInv, UNCHANGED <<log, observedHigh, delivered, pending>>
  PROVE  Marks'
  BY DEF IInv, Marks

LEMMA QueueStep ==
  ASSUME IInv, UNCHANGED <<log, worker, wm, startSeq, outcome, statusVars>>,
         Shape', Queued', Enumerated'
  PROVE  IInv'
  <1>1. /\ UNCHANGED <<log, startSeq, observedHigh, delivered, pending, resetState>>
        /\ UNCHANGED <<rows, failedEntities, worker, reader, status, indexBootstrapped>>
    BY DEF wm, outcome, statusVars
  <1>2. Grows /\ \A k \in Keys : Spares(k)
    BY <1>1, StillGrows, StillSpares DEF IInv
  <1>3. Marks'
    BY <1>1, StillMarks
  <1> QED
    BY <1>1, <1>2, <1>3, OutsideStep

-----------------------------------------------------------------------------
(* A commit, the watch and the queues.                                     *)

LEMMA CommitStep ==
  ASSUME IInv, NEW key \in Keys, NEW kind \in Kinds, Commit(key, kind)
  PROVE  IInv'
  <1> USE IndexAssumption
  <1>1. PICK e \in Entry : log' = Append(log, e)
    BY DEF Commit, Entry
  <1>2. /\ UNCHANGED <<worker, queues, reader, status, indexBootstrapped>>
        /\ UNCHANGED <<observedHigh, delivered, pending, startSeq, bootstrapTarget>>
        /\ UNCHANGED <<initialEnumerationComplete, rows, failedEntities, resetState>>
        /\ Len(log) < MaxRev
    BY DEF Commit, wm, boot, outcome, statusVars, LastSeq
  <1>3. Grows
    BY <1>1, <1>2 DEF Grows, IInv, Shape
  <1>4. \A k \in Keys : Spares(k)
    BY <1>2, StillSpares
  <1>5. log' \in Seq(Entry) /\ Len(log') = Len(log) + 1 /\ Len(log) \in Nat
    BY <1>1 DEF IInv, Shape
  <1>6. Shape'
    <2>1. /\ log' \in Seq(Entry) /\ Len(log') <= MaxRev
          /\ observedHigh' \in 0..Len(log') /\ startSeq' \in 0..Len(log')
      BY <1>2, <1>5 DEF IInv, Shape
    <2> QED
      BY <1>2, <2>1 DEF IInv, Shape, queues
  <1>7. Marks'
    BY <1>2, <1>3, MarksKept
  <1>8. Queued'
    BY <1>2, <1>3, QueuedKept DEF IInv
  <1>9. Enumerated'
    BY <1>2, <1>3, EnumeratedKept DEF queues
  <1> QED
    BY <1>2, <1>3, <1>4, <1>6, <1>7, <1>8, <1>9, OutsideStep

\* A delivery is the newest one: everything it passes over is superseded.
LEMMA ReceiveStep ==
  ASSUME IInv, NEW r \in 1..LastSeq, Receive(r)
  PROVE  IInv'
  <1> USE IndexAssumption
  <1>1. PICK k \in Keys : k = log[r].key
    <2>1. log \in Seq(Entry) /\ r \in 1..Len(log)
      BY DEF IInv, Shape, LastSeq
    <2>2. log[r] \in Entry
      BY <2>1
    <2> QED
      BY <2>2 DEF Entry
  <1>2. r \in Nat /\ r > observedHigh /\ r # 0 /\ r \in 1..Len(log) /\ r \in 0..MaxRev
        /\ observedHigh \in Nat /\ Len(log) \in Nat
    BY DEF Receive, CanDeliver, IInv, Shape, LastSeq
  <1>3. /\ observedHigh' = r
        /\ pending' = [x \in DOMAIN pending \cup {r} |->
                         IF x = r THEN [key |-> k, commitAt |-> r] ELSE pending[x]]
        /\ delivered' = [x \in DOMAIN delivered \cup {r} |->
                           IF x = r THEN [key |-> k, commitAt |-> r] ELSE delivered[x]]
    BY <1>1, <1>2 DEF Receive, WM!Observe
  <1>4. /\ UNCHANGED <<log, worker, batch, lanes, reader, status, indexBootstrapped>>
        /\ UNCHANGED <<startSeq, bootstrapTarget, initialEnumerationComplete>>
        /\ UNCHANGED <<rows, failedEntities, resetState>>
    BY DEF Receive, boot, outcome, statusVars
  <1>5. r \notin DOMAIN delivered /\ r \notin DOMAIN pending
    BY <1>2 DEF IInv, Marks
  <1>6. Grows
    <2>1. \A x \in DOMAIN delivered : x \in DOMAIN delivered' /\ delivered'[x] = delivered[x]
      BY <1>3, <1>5
    <2>2. \A x \in DOMAIN pending' : x \in DOMAIN pending \/ (x \in Nat /\ x > observedHigh)
      BY <1>2, <1>3
    <2> QED
      BY <1>2, <1>3, <1>4, <2>1, <2>2 DEF Grows
  <1>7. \A j \in Keys : Spares(j)
    BY <1>3, <1>4 DEF Spares
  <1>8. PICK v \in {0, r, coalescer[k]} : coalescer' = [coalescer EXCEPT ![k] = v]
    BY <1>1, Zenon DEF Receive
  <1>9. watcher' = Receiving \/ watcher' = [pc |-> "submit", work |-> [key |-> k, rev |-> r]]
    BY <1>1 DEF Receive
  <1>10. Shape'
    <2>1. coalescer' \in [Keys -> 0..MaxRev]
      BY <1>1, <1>2, <1>8 DEF IInv, Shape
    <2>2. watcher' \in [pc : {"receive", "submit", "sentinel"}, work : Work \cup {None}]
      BY <1>1, <1>2, <1>9 DEF Receiving, Work
    <2>3. observedHigh' \in 0..Len(log')
      BY <1>2, <1>3, <1>4
    <2> QED
      BY <1>4, <2>1, <2>2, <2>3 DEF IInv, Shape
  <1>11. Marks'
    <2>1. \A x \in DOMAIN delivered' :
            x \in 1..observedHigh' /\ delivered'[x] = [key |-> log'[x].key, commitAt |-> x]
      <3> TAKE x \in DOMAIN delivered'
      <3>1. CASE x = r
        BY <1>1, <1>2, <1>3, <1>4, <3>1
      <3>2. CASE x # r
        BY <1>2, <1>3, <1>4, <3>2 DEF IInv, Marks
      <3> QED
        BY <3>1, <3>2
    <2>2. \A x \in DOMAIN pending' :
            x \in DOMAIN delivered' /\ pending'[x].key = delivered'[x].key
      BY <1>3 DEF IInv, Marks
    <2>3. observedHigh' \in DOMAIN delivered'
      BY <1>3
    <2>4. ASSUME NEW s \in 1..observedHigh', s \notin DOMAIN delivered'
          PROVE  \E t \in 1..Len(log') : t > s /\ log'[t].key = log'[s].key
      <3>1. s # r /\ s \notin DOMAIN delivered
        BY <1>3, <2>4
      <3>2. CASE s <= observedHigh
        BY <1>2, <1>3, <1>4, <2>4, <3>1, <3>2 DEF IInv, Marks
      <3>3. CASE s > observedHigh
        <4>1. s \in (observedHigh + 1)..(r - 1) /\ s \in 1..Len(log)
          BY <1>2, <1>3, <2>4, <3>1, <3>3
        <4>2. LastOf(log[s].key, Len(log)) > s
          BY <4>1 DEF Receive, CanDeliver, Superseded, LastSeq
        <4>3. PICK t : t = LastIn(log, log[s].key, Len(log))
          OBVIOUS
        <4>4. t = LastOf(log[s].key, Len(log))
          BY <4>3 DEF LastIn, LastOf, Top
        <4>5. t \in 0..Len(log) /\ (t > 0 => log[t].key = log[s].key)
          <5>1. log \in Seq(Entry) /\ Len(log) \in 0..Len(log)
            BY <1>2 DEF IInv, Shape
          <5> QED
            BY <4>3, <5>1, LastFacts
        <4> QED
          BY <1>2, <1>4, <4>1, <4>2, <4>4, <4>5
      <3> QED
        BY <1>2, <1>3, <2>4, <3>2, <3>3
    <2> QED
      BY <2>1, <2>2, <2>3, <2>4 DEF Marks
  <1>12. Queued'
    <2>1. r \in DOMAIN delivered' /\ delivered'[r].key = k
      BY <1>3
    <2>2. \A w : Genuine(w) => Genuine(w)'
      BY <1>6, GenuineKept
    <2>3. watcher'.pc = "submit" => watcher'.work \in Work /\ Genuine(watcher.work)'
      BY <1>1, <1>2, <1>9, <2>1 DEF Receiving, Genuine, Work
    <2>4. ASSUME NEW j \in Keys, coalescer'[j] # 0
          PROVE  coalescer'[j] \in DOMAIN delivered' /\ delivered'[coalescer'[j]].key = j
      <3>1. \/ j = k /\ coalescer'[j] = r
            \/ coalescer'[j] = coalescer[j]
        BY <1>8, <2>4 DEF IInv, Shape
      <3>2. coalescer[j] # 0 =>
              coalescer[j] \in DOMAIN delivered /\ delivered[coalescer[j]].key = j
        BY DEF IInv, Queued
      <3> QED
        BY <1>6, <2>1, <2>4, <3>1, <3>2 DEF Grows
    <2>5. \A w \in batch' : Genuine(w)'
      BY <1>4, <2>2 DEF IInv, Queued
    <2>6. \A l \in Lanes : \A i \in 1..Len(lanes'[l]) :
            LaneOf[lanes'[l][i].key] = l /\ Genuine(lanes[l][i])'
      BY <1>4, <1>6 DEF IInv, Queued, Genuine, Grows
    <2> QED
      BY <2>3, <2>4, <2>5, <2>6 DEF Queued
  <1>13. Enumerated'
    <2>1. watcher'.pc # "sentinel"
      BY DEF Receive, Receiving
    <2> QED
      BY <1>4, <1>6, <2>1, EnumeratedKept
  <1> QED
    BY <1>4, <1>6, <1>7, <1>10, <1>11, <1>12, <1>13, OutsideStep

\* Work goes into the lane of its entity.
LEMMA Submits ==
  ASSUME IInv, NEW w \in Work, Genuine(w), Submit(w), UNCHANGED delivered
  PROVE  /\ lanes' \in [Lanes -> Seq(Work)]
         /\ \A l \in Lanes : \A i \in 1..Len(lanes'[l]) :
              LaneOf[lanes'[l][i].key] = l /\ Genuine(lanes[l][i])'
  <1>1. PICK j \in Lanes : j = LaneOf[w.key]
    BY IndexAssumption DEF Work
  <1>2. lanes' = [lanes EXCEPT ![j] = Append(lanes[j], w)] /\ lanes \in [Lanes -> Seq(Work)]
    BY <1>1 DEF Submit, IInv, Shape
  <1>3. lanes' \in [Lanes -> Seq(Work)]
    BY <1>2
  <1>4. ASSUME NEW l \in Lanes, NEW i \in 1..Len(lanes'[l])
        PROVE  LaneOf[lanes'[l][i].key] = l /\ Genuine(lanes[l][i])'
    <2>1. CASE l # j
      BY <1>2, <1>4, <2>1 DEF IInv, Queued, Genuine
    <2>2. CASE l = j
      <3>1. PICK x \in Seq(Work) : x = lanes[j] /\ lanes'[j] = Append(x, w)
        BY <1>2
      <3>2. Len(x) \in Nat /\ i \in 1..(Len(x) + 1)
        BY <1>4, <2>2, <3>1
      <3>3. CASE i = Len(x) + 1
        BY <1>1, <2>2, <3>1, <3>2, <3>3 DEF Genuine
      <3>4. CASE i # Len(x) + 1
        <4>1. i \in 1..Len(x) /\ lanes'[j][i] = x[i]
          BY <3>1, <3>2, <3>4
        <4> QED
          BY <2>2, <3>1, <4>1 DEF IInv, Queued, Genuine
      <3> QED
        BY <3>3, <3>4
    <2> QED
      BY <2>1, <2>2
  <1> QED
    BY <1>3, <1>4

LEMMA SentinelStep ==
  ASSUME IInv, ReceiveSentinel \/ RaiseEnumerated
  PROVE  IInv'
  <1>1. /\ UNCHANGED <<log, worker, wm, startSeq, outcome, statusVars>>
        /\ UNCHANGED <<coalescer, batch, lanes>>
        /\ watcher' \in {Receiving, [Receiving EXCEPT !.pc = "sentinel"]}
    BY DEF ReceiveSentinel, RaiseEnumerated
  <1>2. UNCHANGED <<delivered, observedHigh, rows, failedEntities, reader>>
    BY <1>1 DEF wm, outcome, statusVars
  <1>3. Shape'
    BY <1>1, <1>2 DEF IInv, Shape, Receiving
  <1>4. Queued'
    <2>1. watcher'.pc # "submit"
      BY <1>1 DEF Receiving
    <2> QED
      BY <1>1, <1>2, <2>1 DEF IInv, Queued, Genuine
  <1>5. Enumerated'
    <2>1. CASE ReceiveSentinel
      <3>1. /\ bootstrapTarget' = observedHigh
            /\ \A k \in Keys : LastOf(k, startSeq) > 0 =>
                 \E r \in DOMAIN delivered : delivered[r].key = k
        BY <2>1 DEF ReceiveSentinel
      <3>2. \A k : LastOf(k, startSeq) = LastIn(log, k, startSeq)
        BY DEF LastOf, LastIn, Top
      <3>3. observedHigh \in Nat /\ \A r \in DOMAIN delivered : r <= observedHigh
        BY DEF IInv, Marks, Shape
      <3> QED
        BY <1>1, <1>2, <3>1, <3>2, <3>3 DEF Enumerated
    <2>2. CASE RaiseEnumerated
      <3>1. watcher.pc = "sentinel" /\ bootstrapTarget' = bootstrapTarget
        BY <2>2 DEF RaiseEnumerated
      <3> QED
        BY <1>1, <1>2, <3>1 DEF IInv, Enumerated
    <2> QED
      BY <2>1, <2>2
  <1> QED
    BY <1>1, <1>3, <1>4, <1>5, QueueStep

LEMMA WatcherSubmitStep ==
  ASSUME IInv, WatcherSubmit
  PROVE  IInv'
  <1>1. /\ UNCHANGED <<log, worker, wm, startSeq, outcome, statusVars>>
        /\ UNCHANGED <<coalescer, batch, boot>> /\ watcher' = Receiving
    BY DEF WatcherSubmit, boot
  <1>2. UNCHANGED <<delivered, observedHigh, rows, failedEntities, reader, startSeq, pending,
                    resetState, bootstrapTarget, initialEnumerationComplete>>
    BY <1>1 DEF wm, outcome, statusVars, boot
  <1>3. PICK w \in Work : Genuine(w) /\ Submit(w)
    BY DEF WatcherSubmit, IInv, Queued
  <1>4. /\ lanes' \in [Lanes -> Seq(Work)]
        /\ \A l \in Lanes : \A i \in 1..Len(lanes'[l]) :
             LaneOf[lanes'[l][i].key] = l /\ Genuine(lanes[l][i])'
    BY <1>2, <1>3, Submits
  <1>5. Shape'
    BY <1>1, <1>2, <1>4 DEF IInv, Shape, Receiving
  <1>6. Queued'
    <2>1. watcher'.pc # "submit"
      BY <1>1 DEF Receiving
    <2> QED
      BY <1>1, <1>2, <1>4, <2>1 DEF IInv, Queued, Genuine
  <1>7. Enumerated'
    <2>1. watcher'.pc # "sentinel" /\ Grows
      BY <1>1, <1>2, StillGrows DEF Receiving, IInv
    <2> QED
      BY <1>2, <2>1, EnumeratedKept
  <1> QED
    BY <1>1, <1>5, <1>6, <1>7, QueueStep

LEMMA FireStep ==
  ASSUME IInv, Fire
  PROVE  IInv'
  <1>1. /\ UNCHANGED <<log, worker, wm, startSeq, outcome, statusVars>>
        /\ UNCHANGED <<watcher, lanes, boot>> /\ coalescer' = [k \in Keys |-> 0]
        /\ batch' = {w \in Work : w.rev > 0 /\ coalescer[w.key] = w.rev}
    BY DEF Fire, boot
  <1>2. UNCHANGED <<delivered, observedHigh, rows, failedEntities, reader, startSeq, pending,
                    resetState, bootstrapTarget, initialEnumerationComplete>>
    BY <1>1 DEF wm, outcome, statusVars, boot
  <1>3. coalescer' \in [Keys -> 0..MaxRev] /\ batch' \subseteq Work
    BY <1>1, IndexAssumption
  <1>4. Shape'
    BY <1>1, <1>2, <1>3 DEF IInv, Shape
  <1>5. \A w \in batch' : Genuine(w)'
    BY <1>1, <1>2 DEF IInv, Queued, Genuine, Work
  <1>6. Queued'
    BY <1>1, <1>2, <1>5 DEF IInv, Queued, Genuine
  <1>7. Enumerated'
    <2>1. Grows
      BY <1>1, <1>2, StillGrows DEF IInv
    <2> QED
      BY <1>1, <1>2, <2>1, EnumeratedKept
  <1> QED
    BY <1>1, <1>4, <1>6, <1>7, QueueStep

\* The batch and the repair loop submit work that the lanes may hold.
LEMMA SubmitStep ==
  ASSUME IInv, NEW w \in Work, Genuine(w), Submit(w), batch' \subseteq batch,
         UNCHANGED <<log, restarts, worker, wm, boot, watcher, coalescer, outcome, statusVars>>
  PROVE  IInv'
  <1>1. UNCHANGED <<log, worker, wm, startSeq, outcome, statusVars>>
    BY DEF boot
  <1>2. UNCHANGED <<delivered, observedHigh, rows, failedEntities, reader, startSeq, pending,
                    resetState, bootstrapTarget, initialEnumerationComplete>>
    BY DEF wm, outcome, statusVars, boot
  <1>3. /\ lanes' \in [Lanes -> Seq(Work)]
        /\ \A l \in Lanes : \A i \in 1..Len(lanes'[l]) :
             LaneOf[lanes'[l][i].key] = l /\ Genuine(lanes[l][i])'
    BY <1>2, Submits
  <1>4. Shape'
    BY <1>1, <1>2, <1>3 DEF IInv, Shape
  <1>5. Queued'
    BY <1>1, <1>2, <1>3 DEF IInv, Queued, Genuine
  <1>6. Enumerated'
    <2>1. Grows
      BY <1>1, <1>2, StillGrows DEF IInv
    <2> QED
      BY <1>2, <2>1, EnumeratedKept
  <1> QED
    BY <1>1, <1>4, <1>5, <1>6, QueueStep

-----------------------------------------------------------------------------
(* The workers.                                                            *)

\* Lane l's worker goes on with w and touches entities of its lane only.
LEMMA WorkerMoves ==
  ASSUME IInv, NEW l \in Lanes, NEW w \in {None} \cup InHands,
         worker' = [worker EXCEPT ![l] = w],
         UNCHANGED <<log, boot, statusVars, queues, observedHigh, delivered>>,
         rows' \in [Keys -> [Families -> 0..MaxRev]], failedEntities' \subseteq Keys,
         resetState => resetState',
         \A r \in DOMAIN pending' : r \in DOMAIN pending /\ pending'[r] = pending[r],
         \A k \in Keys : LaneOf[k] # l => Spares(k),
         w # None => LaneOf[w.key] = l /\ Working(w)',
         \A k \in Keys : LaneOf[k] = l => Indexed(k)'
  PROVE  IInv'
  <1>1. Grows
    BY DEF Grows, IInv, Shape, boot
  <1>2. \A j \in Lanes : j # l => worker'[j] = worker[j]
    BY DEF IInv, Shape
  <1>3. worker' \in [Lanes -> {None} \cup InHands] /\ worker'[l] = w
    BY DEF IInv, Shape
  <1>4. Shape'
    BY <1>3 DEF IInv, Shape, boot, statusVars, queues
  <1>5. Marks'
    BY <1>1, MarksKept
  <1>6. Queued'
    BY <1>1, QueuedKept DEF IInv
  <1>7. InHand(l)'
    BY <1>3 DEF InHand
  <1>8. watcher' = watcher
    BY DEF queues
  <1> QED
    BY <1>1, <1>2, <1>4, <1>5, <1>6, <1>7, <1>8, LaneStep

\* What a worker has in hand.
LEMMA HandFacts ==
  ASSUME IInv, NEW l \in Lanes, worker[l] # None
  PROVE  \E w \in InHands : /\ w = worker[l] /\ w.key \in Keys /\ LaneOf[w.key] = l
                            /\ Working(w)
  <1>1. worker[l] \in InHands
    BY DEF IInv, Shape
  <1> QED
    BY <1>1 DEF IInv, InHand, InHands

LEMMA TakeStep ==
  ASSUME IInv, NEW l \in Lanes, Take(l)
  PROVE  IInv'
  <1> USE IndexAssumption
  <1>1. /\ UNCHANGED <<log, watcher, coalescer, batch, boot, statusVars>>
        /\ UNCHANGED <<observedHigh, delivered, pending, rows, failedEntities, resetState>>
    BY DEF Take, wm, outcome
  <1>2. PICK x \in Seq(Work) : x = lanes[l] /\ x # <<>>
    BY DEF Take, IInv, Shape
  <1>3. x[1] \in Work /\ Head(x) = x[1] /\ 1 \in 1..Len(x)
    BY <1>2
  <1>4. LaneOf[x[1].key] = l /\ Genuine(x[1])
    BY <1>2, <1>3 DEF IInv, Queued
  <1>5. PICK w : w = [key |-> x[1].key, rev |-> x[1].rev, pc |-> "read", src |-> 0,
                      todo |-> Families, bad |-> FALSE]
    OBVIOUS
  <1>6. w \in InHands /\ LaneOf[w.key] = l /\ w.pc = "read" /\ w.rev = x[1].rev
        /\ w.key = x[1].key /\ w.todo = Families
    BY <1>3, <1>4, <1>5 DEF InHands, Work
  <1>7. worker' = [worker EXCEPT ![l] = w] /\ lanes' = [lanes EXCEPT ![l] = Tail(x)]
    BY <1>2, <1>3, <1>5 DEF Take
  <1>8. Working(w)'
    <2>1. Genuine(w)'
      BY <1>1, <1>4, <1>6 DEF Genuine
    <2> QED
      BY <1>6, <2>1 DEF Working
  <1>9. worker' \in [Lanes -> {None} \cup InHands] /\ worker'[l] = w
        /\ \A j \in Lanes : j # l => worker'[j] = worker[j]
    BY <1>6, <1>7 DEF IInv, Shape
  <1>10. Tail(x) \in Seq(Work) /\ lanes' \in [Lanes -> Seq(Work)]
    BY <1>2, <1>7 DEF IInv, Shape
  <1>11. Shape'
    BY <1>1, <1>9, <1>10 DEF IInv, Shape, boot, statusVars
  <1>12. Grows /\ \A k \in Keys : Spares(k)
    BY <1>1, StillGrows, StillSpares DEF IInv, boot
  <1>13. Marks'
    BY <1>1, StillMarks
  <1>14. Queued'
    <2>1. ASSUME NEW j \in Lanes, NEW i \in 1..Len(lanes'[j])
          PROVE  LaneOf[lanes'[j][i].key] = j /\ Genuine(lanes[j][i])'
      <3>1. CASE j # l
        <4>1. lanes'[j] = lanes[j]
          BY <1>7, <3>1 DEF IInv, Shape
        <4> QED
          BY <1>1, <2>1, <4>1 DEF IInv, Queued, Genuine
      <3>2. CASE j = l
        <4>1. lanes'[l] = Tail(x)
          BY <1>7 DEF IInv, Shape
        <4>2. i + 1 \in 1..Len(x) /\ lanes'[l][i] = x[i + 1]
          BY <1>2, <2>1, <3>2, <4>1
        <4> QED
          BY <1>1, <1>2, <3>2, <4>2 DEF IInv, Queued, Genuine
      <3> QED
        BY <3>1, <3>2
    <2> QED
      BY <1>1, <2>1 DEF IInv, Queued, Genuine
  <1>15. InHand(l)'
    BY <1>6, <1>8, <1>9 DEF InHand
  <1>16. \A k \in Keys : Indexed(k)'
    BY <1>1, <1>12, IndexedKept DEF statusVars
  <1> QED
    BY <1>1, <1>9, <1>11, <1>12, <1>13, <1>14, <1>15, <1>16, LaneStep

\* What the authoritative read returns: nothing delivered for the entity is newer.
LEMMA SourceFacts ==
  ASSUME IInv, NEW k \in Keys, NEW s, s = LastOf(k, LastSeq)
  PROVE  /\ s \in 0..MaxRev /\ s \in Nat /\ s = LastIn(log, k, Len(log))
         /\ LastIn(log, k, startSeq) <= s /\ (s # 0 => log[s] \in Entry)
         /\ \A r \in DOMAIN delivered : delivered[r].key = k => r <= s
  <1> USE IndexAssumption
  <1>1. log \in Seq(Entry) /\ Len(log) \in Nat /\ Len(log) <= MaxRev /\ startSeq \in 0..Len(log)
        /\ observedHigh \in 0..Len(log)
    BY DEF IInv, Shape
  <1>2. s = LastIn(log, k, Len(log))
    BY DEF LastOf, LastIn, Top, LastSeq
  <1>3. Len(log) \in 0..Len(log) /\ Len(log) \in startSeq..Len(log)
    BY <1>1
  <1>4. s \in 0..Len(log) /\ \A r \in 1..Len(log) : log[r].key = k => r <= s
    BY <1>1, <1>2, <1>3, LastFacts
  <1>5. LastIn(log, k, startSeq) <= s
    BY <1>1, <1>2, <1>3, LastMonotone
  <1>6. s # 0 => log[s] \in Entry
    BY <1>1, <1>4
  <1>7. ASSUME NEW r \in DOMAIN delivered, delivered[r].key = k PROVE r <= s
    <2>1. r \in 1..observedHigh /\ delivered[r] = [key |-> log[r].key, commitAt |-> r]
      BY DEF IInv, Marks
    <2>2. log[r].key = k /\ r \in 1..Len(log)
      BY <1>1, <1>7, <2>1
    <2> QED
      BY <1>4, <2>2
  <1> QED
    BY <1>1, <1>2, <1>4, <1>5, <1>6, <1>7

\* Recording a failure, or that a value is unreadable, forgets nothing.
LEMMA IndexedMore ==
  ASSUME IInv, NEW k \in Keys, k \in failedEntities => k \in failedEntities',
         UNCHANGED <<log, startSeq, rows, delivered, pending, status, indexBootstrapped>>,
         resetState => resetState'
  PROVE  Indexed(k)' /\ \A r : Known(k, r) => Known(k, r)'
  <1>1. Excused => Excused'
    BY DEF Excused
  <1>2. \A r : Known(k, r) => Known(k, r)'
    BY <1>1 DEF Known
  <1>3. Indexed(k)'
    BY <1>1, <1>2 DEF IInv, Indexed
  <1> QED
    BY <1>2, <1>3

\* The authoritative read.
LEMMA ReadStep ==
  ASSUME IInv, NEW l \in Lanes, ReadEntity(l)
  PROVE  IInv'
  <1> USE IndexAssumption
  <1>1. worker[l] # None /\ worker[l].pc = "read"
    BY DEF ReadEntity
  <1>2. PICK w \in InHands : /\ w = worker[l] /\ w.key \in Keys /\ LaneOf[w.key] = l
                             /\ Working(w)
    BY <1>1, HandFacts
  <1>3. PICK s : s = LastOf(w.key, LastSeq)
    OBVIOUS
  <1>4. /\ s \in 0..MaxRev /\ s \in Nat /\ s = LastIn(log, w.key, Len(log))
        /\ LastIn(log, w.key, startSeq) <= s /\ (s # 0 => log[s] \in Entry)
        /\ \A r \in DOMAIN delivered : delivered[r].key = w.key => r <= s
    BY <1>2, <1>3, SourceFacts
  <1>5. /\ UNCHANGED <<log, boot, statusVars, queues, observedHigh, delivered, pending, rows>>
        /\ UNCHANGED <<startSeq, status, indexBootstrapped>>
    BY DEF ReadEntity, wm, statusVars, boot
  <1>6. PICK kind : kind = IF s = 0 THEN "del" ELSE log[s].kind
    OBVIOUS
  <1>7. kind = "unreadable" => "unreadable" \in Kinds
    BY <1>4, <1>6 DEF Entry
  <1>8. \/ /\ failedEntities' = failedEntities \cup {w.key} /\ resetState' = resetState
           /\ worker' = [worker EXCEPT ![l].pc = "complete"]
        \/ /\ failedEntities' = failedEntities /\ resetState' = resetState
           /\ worker' = [worker EXCEPT ![l].pc = "write", ![l].src = s]
        \/ /\ failedEntities' = failedEntities /\ resetState' = resetState
           /\ worker' = [worker EXCEPT ![l].pc = "write", ![l].src = s,
                                       ![l].todo = {}, ![l].bad = TRUE]
        \/ /\ kind = "unreadable" /\ resetState' = TRUE /\ failedEntities' = failedEntities
           /\ worker' = [worker EXCEPT ![l].pc = "complete"]
        \/ /\ resetState' = TRUE /\ failedEntities' = failedEntities \cup {w.key}
           /\ worker' = [worker EXCEPT ![l] = None]
    BY <1>2, <1>3, <1>6 DEF ReadEntity
  <1>9. /\ resetState => resetState'
        /\ failedEntities' = failedEntities \/ failedEntities' = failedEntities \cup {w.key}
    <2>1. resetState' = resetState \/ resetState' = TRUE
      BY <1>8, Zenon
    <2>2. failedEntities' = failedEntities \/ failedEntities' = failedEntities \cup {w.key}
      BY <1>8, Zenon
    <2> QED
      BY <2>1, <2>2
  <1>10. /\ rows' \in [Keys -> [Families -> 0..MaxRev]] /\ failedEntities' \subseteq Keys
         /\ \A r \in DOMAIN pending' : r \in DOMAIN pending /\ pending'[r] = pending[r]
         /\ \A k \in Keys : LaneOf[k] # l => Spares(k)
    <2>1. \A k \in Keys : LaneOf[k] # l => (k \in failedEntities' <=> k \in failedEntities)
      BY <1>2, <1>9
    <2> QED
      BY <1>2, <1>5, <1>9, <2>1 DEF IInv, Shape, Spares
  <1>11. \A k \in Keys : Indexed(k)'
    <2> TAKE k \in Keys
    <2>1. k \in failedEntities => k \in failedEntities'
      BY <1>9
    <2> QED
      BY <1>5, <1>9, <2>1, IndexedMore
  <1>12. Genuine(w) /\ Genuine(w)'
    BY <1>2, <1>5 DEF Working, Genuine
  <1>13. ASSUME NEW v \in InHands, v.key = w.key, v.rev = w.rev, v.pc = "complete",
                Excused' \/ w.key \in failedEntities'
         PROVE  Working(v)'
    <2>1. Genuine(v)'
      BY <1>12, <1>13 DEF Genuine
    <2>2. Known(v.key, v.rev)'
      BY <1>13 DEF Known
    <2> QED
      BY <1>13, <2>1, <2>2 DEF Working
  <1>14. ASSUME NEW v \in InHands, v.key = w.key, v.rev = w.rev, v.pc = "write", v.src = s,
                v.todo = Families \/ v.bad
         PROVE  Working(v)'
    <2>1. Genuine(v)'
      BY <1>12, <1>14 DEF Genuine
    <2>2. w.rev <= s
      BY <1>2, <1>4, <1>12 DEF Genuine, InHands
    <2>3. \A f \in Families : rows[w.key][f] <= s
      BY <1>2, <1>4 DEF IInv, Indexed
    <2>4. Sourced(v)'
      BY <1>4, <1>5, <1>14, <2>2, <2>3 DEF Sourced
    <2> QED
      BY <1>14, <2>1, <2>4 DEF Working
  <1>15. ASSUME NEW v \in {None} \cup InHands, worker' = [worker EXCEPT ![l] = v],
                v # None => LaneOf[v.key] = l /\ Working(v)'
         PROVE  IInv'
    BY <1>5, <1>9, <1>10, <1>11, <1>15, WorkerMoves
  <1>16. worker[l] = w /\ worker \in [Lanes -> {None} \cup InHands]
    BY <1>2 DEF IInv, Shape
  <1>17. ASSUME worker' = [worker EXCEPT ![l].pc = "complete"],
                Excused' \/ w.key \in failedEntities'
         PROVE  IInv'
    <2>1. PICK v : v = [w EXCEPT !.pc = "complete"]
      OBVIOUS
    <2>2. v \in InHands /\ v.key = w.key /\ v.rev = w.rev /\ v.pc = "complete"
      BY <1>2, <2>1 DEF InHands
    <2>3. worker' = [worker EXCEPT ![l] = v]
      BY <1>16, <1>17, <2>1
    <2>4. Working(v)'
      BY <1>13, <1>17, <2>2
    <2> QED
      BY <1>2, <1>15, <2>2, <2>3, <2>4
  <1>18. CASE worker' = [worker EXCEPT ![l].pc = "write", ![l].src = s]
    <2>1. PICK v : v = [w EXCEPT !.pc = "write", !.src = s]
      OBVIOUS
    <2>2. v \in InHands /\ v.key = w.key /\ v.rev = w.rev /\ v.pc = "write" /\ v.src = s
          /\ v.todo = w.todo
      BY <1>2, <1>4, <2>1 DEF InHands
    <2>3. worker' = [worker EXCEPT ![l] = v]
      BY <1>16, <1>18, <2>1
    <2>4. w.todo = Families
      BY <1>1, <1>2 DEF Working
    <2>5. Working(v)'
      BY <1>14, <2>2, <2>4
    <2> QED
      BY <1>2, <1>15, <2>2, <2>3, <2>5
  <1>19. CASE worker' = [worker EXCEPT ![l].pc = "write", ![l].src = s,
                                       ![l].todo = {}, ![l].bad = TRUE]
    <2>1. PICK v : v = [w EXCEPT !.pc = "write", !.src = s, !.todo = {}, !.bad = TRUE]
      OBVIOUS
    <2>2. v \in InHands /\ v.key = w.key /\ v.rev = w.rev /\ v.pc = "write" /\ v.src = s /\ v.bad
      BY <1>2, <1>4, <2>1 DEF InHands
    <2>3. worker' = [worker EXCEPT ![l] = v]
      BY <1>16, <1>19, <2>1
    <2>4. Working(v)'
      BY <1>14, <2>2
    <2> QED
      BY <1>2, <1>15, <2>2, <2>3, <2>4
  <1>20. CASE worker' = [worker EXCEPT ![l] = None]
    BY <1>15, <1>20
  <1>21. CASE /\ failedEntities' = failedEntities \cup {w.key}
              /\ worker' = [worker EXCEPT ![l].pc = "complete"]
    <2>1. w.key \in failedEntities'
      BY <1>21
    <2> QED
      BY <1>17, <1>21, <2>1
  <1>22. CASE /\ kind = "unreadable" /\ resetState' = TRUE
              /\ worker' = [worker EXCEPT ![l].pc = "complete"]
    <2>1. Excused'
      BY <1>7, <1>22 DEF Excused
    <2> QED
      BY <1>17, <1>22, <2>1
  <1> QED
    BY <1>8, <1>18, <1>19, <1>20, <1>21, <1>22, Zenon

\* Rows that are brought up to a newer revision.
LEMMA IndexedUp ==
  ASSUME IInv, NEW k \in Keys,
         UNCHANGED <<log, startSeq, delivered, pending, status, indexBootstrapped>>,
         UNCHANGED <<failedEntities, resetState>>,
         \A f \in Families : /\ rows'[k][f] \in Nat /\ rows[k][f] <= rows'[k][f]
                             /\ rows'[k][f] <= LastIn(log, k, Len(log))
  PROVE  Indexed(k)'
  <1>1. log \in Seq(Entry) /\ Len(log) \in Nat /\ startSeq \in 0..Len(log)
        /\ observedHigh \in Nat
    BY DEF IInv, Shape
  <1>2. \A f \in Families : rows[k][f] \in Nat
    BY DEF IInv, Shape
  <1>3. Excused' <=> Excused
    BY DEF Excused
  <1>4. ASSUME NEW r \in Nat, Known(k, r) PROVE Known(k, r)'
    <2>1. PICK a : a = LastIn(log, k, startSeq)
      OBVIOUS
    <2>2. a \in 0..startSeq
      BY <1>1, <2>1, LastFacts
    <2>3. a \in Nat /\ a = LastIn(log', k, startSeq')
      BY <1>1, <2>1, <2>2
    <2>4. ASSUME \A f \in Families : rows[k][f] >= r /\ rows[k][f] >= a
          PROVE  \A f \in Families : rows'[k][f] >= r /\ rows'[k][f] >= a
      BY <1>2, <2>3, <2>4
    <2> QED
      BY <1>3, <1>4, <2>1, <2>3, <2>4 DEF Known
  <1>5. \A r \in DOMAIN delivered' \ DOMAIN pending' : delivered'[r].key = k => Known(k, r)'
    <2> SUFFICES ASSUME NEW r \in DOMAIN delivered \ DOMAIN pending, delivered[r].key = k
                 PROVE  Known(k, r)'
      OBVIOUS
    <2>1. r \in Nat
      BY <1>1 DEF IInv, Marks
    <2> QED
      BY <1>4, <2>1 DEF IInv, Indexed
  <1>6. indexBootstrapped' => Known(k, 0)'
    BY <1>4 DEF IInv, Indexed
  <1>7. status'.ready =>
          Excused' \/ \A f \in Families : rows'[k][f] >= LastIn(log', k, status'.target)
    <2> SUFFICES ASSUME status.ready, ~Excused, NEW f \in Families
                 PROVE  rows'[k][f] >= LastIn(log, k, status.target)
      BY <1>3
    <2>1. PICK a : a = LastIn(log, k, status.target)
      OBVIOUS
    <2>2. status.target \in 0..Len(log)
      BY DEF IInv
    <2>3. a \in 0..status.target
      BY <1>1, <2>1, <2>2, LastFacts
    <2>4. a \in Nat
      BY <2>2, <2>3
    <2>5. rows[k][f] >= a
      BY <2>1 DEF IInv, Indexed
    <2> QED
      BY <1>2, <2>1, <2>4, <2>5
  <1> QED
    BY <1>5, <1>6, <1>7 DEF Indexed

\* One index family is brought to what was read, or not.
LEMMA FamilyStep ==
  ASSUME IInv, NEW l \in Lanes, NEW f \in Families, ReplaceFamily(l, f) \/ ClearFamily(l, f)
  PROVE  IInv'
  <1> USE IndexAssumption
  <1>1. worker[l] # None /\ worker[l].pc = "write" /\ f \in worker[l].todo /\ FamilyOutcome(l, f)
    BY DEF ReplaceFamily, ClearFamily
  <1>2. PICK w \in InHands : /\ w = worker[l] /\ w.key \in Keys /\ LaneOf[w.key] = l
                             /\ Working(w)
    BY <1>1, HandFacts
  <1>3. Sourced(w) /\ Genuine(w) /\ w.src \in 0..MaxRev /\ w.src \in Nat
    BY <1>1, <1>2 DEF Working, InHands
  <1>4. /\ UNCHANGED <<log, boot, statusVars, queues, observedHigh, delivered, pending>>
        /\ UNCHANGED <<startSeq, status, indexBootstrapped, failedEntities, resetState>>
    BY <1>1 DEF FamilyOutcome, wm, statusVars, boot
  <1>5. \/ /\ rows' = [rows EXCEPT ![w.key][f] = w.src]
           /\ worker' = [worker EXCEPT ![l].todo = @ \ {f}]
        \/ /\ rows' = rows
           /\ worker' = [worker EXCEPT ![l].todo = @ \ {f}, ![l].bad = TRUE]
    BY <1>1, <1>2 DEF FamilyOutcome
  <1>6. worker[l] = w /\ worker \in [Lanes -> {None} \cup InHands]
        /\ rows \in [Keys -> [Families -> 0..MaxRev]]
    BY <1>2 DEF IInv, Shape
  <1>7. Grows
    BY <1>4, StillGrows DEF IInv
  <1>8. /\ \A r \in DOMAIN pending' : r \in DOMAIN pending /\ pending'[r] = pending[r]
        /\ failedEntities' \subseteq Keys
    BY <1>4 DEF IInv, Shape
  <1>9. CASE /\ rows' = [rows EXCEPT ![w.key][f] = w.src]
             /\ worker' = [worker EXCEPT ![l].todo = @ \ {f}]
    <2>1. PICK v : v = [w EXCEPT !.todo = @ \ {f}]
      OBVIOUS
    <2>2. v \in InHands /\ v.key = w.key /\ v.rev = w.rev /\ v.pc = w.pc /\ v.src = w.src
          /\ v.todo = w.todo \ {f} /\ v.bad = w.bad
      BY <1>2, <2>1 DEF InHands
    <2>3. worker' = [worker EXCEPT ![l] = v]
      BY <1>6, <1>9, <2>1
    <2>4. /\ rows' \in [Keys -> [Families -> 0..MaxRev]]
          /\ \A k \in Keys : k # w.key => rows'[k] = rows[k]
          /\ rows'[w.key] = [rows[w.key] EXCEPT ![f] = w.src]
      BY <1>2, <1>3, <1>6, <1>9
    <2>5. /\ rows'[w.key][f] = w.src
          /\ \A g \in Families \ {f} : rows'[w.key][g] = rows[w.key][g]
      BY <1>2, <1>6, <2>4
    <2>6. \A k \in Keys : k # w.key => Spares(k)
      BY <1>4, <2>4 DEF Spares
    <2>7. Working(v)'
      <3>1. Genuine(v)'
        BY <1>3, <1>4, <2>2 DEF Genuine
      <3>2. \A g \in Families : rows'[w.key][g] <= w.src
        BY <1>3, <2>5 DEF Sourced
      <3>3. \A g \in Families \ v.todo : v.bad \/ rows'[w.key][g] = w.src
        BY <1>3, <2>2, <2>5 DEF Sourced
      <3>4. Sourced(v)'
        BY <1>3, <1>4, <2>2, <3>2, <3>3 DEF Sourced
      <3> QED
        BY <1>1, <1>2, <2>2, <3>1, <3>4 DEF Working
    <2>8. Indexed(w.key)'
      <3>1. PICK a : a = LastIn(log, w.key, Len(log))
        OBVIOUS
      <3>2. w.src <= a
        BY <1>3, <3>1 DEF Sourced
      <3>3. \A g \in Families : rows[w.key][g] <= w.src /\ rows[w.key][g] <= a
                                /\ rows[w.key][g] \in Nat
        BY <1>2, <1>3, <1>6, <3>1 DEF IInv, Indexed, Sourced
      <3>4. \A g \in Families : /\ rows'[w.key][g] \in Nat /\ rows[w.key][g] <= rows'[w.key][g]
                                /\ rows'[w.key][g] <= a
        BY <1>3, <2>5, <3>2, <3>3
      <3> QED
        BY <1>2, <1>4, <3>1, <3>4, IndexedUp
    <2>9. \A k \in Keys : Indexed(k)'
      BY <1>4, <1>7, <2>6, <2>8, IndexedKept
    <2>10. v # None => LaneOf[v.key] = l /\ Working(v)'
      BY <1>2, <2>2, <2>7
    <2> QED
      BY <1>2, <1>4, <1>8, <2>2, <2>3, <2>4, <2>6, <2>9, <2>10, WorkerMoves
  <1>10. CASE /\ rows' = rows
              /\ worker' = [worker EXCEPT ![l].todo = @ \ {f}, ![l].bad = TRUE]
    <2>1. PICK v : v = [w EXCEPT !.todo = @ \ {f}, !.bad = TRUE]
      OBVIOUS
    <2>2. v \in InHands /\ v.key = w.key /\ v.rev = w.rev /\ v.pc = w.pc /\ v.src = w.src /\ v.bad
      BY <1>2, <2>1 DEF InHands
    <2>3. worker' = [worker EXCEPT ![l] = v]
      BY <1>6, <1>10, <2>1
    <2>4. \A k \in Keys : Spares(k)
      BY <1>4, <1>10, StillSpares
    <2>5. Working(v)'
      <3>1. Genuine(v)'
        BY <1>3, <1>4, <2>2 DEF Genuine
      <3>2. Sourced(v)'
        BY <1>3, <1>4, <1>10, <2>2 DEF Sourced
      <3> QED
        BY <1>1, <1>2, <2>2, <3>1, <3>2 DEF Working
    <2>6. \A k \in Keys : Indexed(k)'
      BY <1>4, <1>7, <2>4, IndexedKept
    <2>7. v # None => LaneOf[v.key] = l /\ Working(v)'
      BY <1>2, <2>2, <2>5
    <2> QED
      BY <1>4, <1>6, <1>8, <1>10, <2>2, <2>3, <2>4, <2>6, <2>7, WorkerMoves
  <1> QED
    BY <1>5, <1>9, <1>10, Zenon

\* The failure mark is cleared only when every family reflects what was read.
LEMMA SettleStep ==
  ASSUME IInv, NEW l \in Lanes, Settle(l)
  PROVE  IInv'
  <1> USE IndexAssumption
  <1>1. worker[l] # None /\ worker[l].pc = "write" /\ worker[l].todo = {}
    BY DEF Settle
  <1>2. PICK w \in InHands : /\ w = worker[l] /\ w.key \in Keys /\ LaneOf[w.key] = l
                             /\ Working(w)
    BY <1>1, HandFacts
  <1>3. Sourced(w) /\ Genuine(w) /\ w.src \in Nat /\ w.rev \in Nat
    BY <1>1, <1>2, IndexAssumption DEF Working, InHands
  <1>4. /\ UNCHANGED <<log, boot, statusVars, queues, observedHigh, delivered, pending, rows>>
        /\ UNCHANGED <<startSeq, status, indexBootstrapped, resetState>>
    BY DEF Settle, wm, statusVars, boot
  <1>5. /\ failedEntities' = IF w.bad THEN failedEntities \cup {w.key}
                             ELSE failedEntities \ {w.key}
        /\ worker' = [worker EXCEPT ![l].pc = "complete"]
    BY <1>2 DEF Settle
  <1>6. worker[l] = w /\ worker \in [Lanes -> {None} \cup InHands]
        /\ rows \in [Keys -> [Families -> 0..MaxRev]]
    BY <1>2 DEF IInv, Shape
  <1>7. Grows
    BY <1>4, StillGrows DEF IInv
  <1>8. /\ \A r \in DOMAIN pending' : r \in DOMAIN pending /\ pending'[r] = pending[r]
        /\ failedEntities' \subseteq Keys
    BY <1>2, <1>4, <1>5 DEF IInv, Shape
  <1>9. \A k \in Keys : k # w.key => Spares(k)
    <2>1. \A k \in Keys : k # w.key => (k \in failedEntities' <=> k \in failedEntities)
      BY <1>5
    <2> QED
      BY <1>4, <2>1 DEF Spares
  <1>10. PICK v : v = [w EXCEPT !.pc = "complete"]
    OBVIOUS
  <1>11. v \in InHands /\ v.key = w.key /\ v.rev = w.rev /\ v.pc = "complete"
    BY <1>2, <1>10 DEF InHands
  <1>12. worker' = [worker EXCEPT ![l] = v]
    BY <1>5, <1>6, <1>10
  <1>13. ASSUME ~w.bad, NEW r \in Nat, r <= w.src PROVE Known(w.key, r)'
    <2>1. \A f \in Families : rows[w.key][f] = w.src
      BY <1>1, <1>2, <1>3, <1>13 DEF Sourced
    <2>2. PICK a : a = LastIn(log, w.key, startSeq)
      OBVIOUS
    <2>3. a <= w.src
      BY <1>3, <2>2 DEF Sourced
    <2>4. a \in Nat
      <3>1. log \in Seq(Entry) /\ startSeq \in 0..Len(log)
        BY DEF IInv, Shape
      <3>2. a \in 0..startSeq
        BY <2>2, <3>1, LastFacts
      <3> QED
        BY <3>2
    <2>5. \A f \in Families : rows'[w.key][f] >= r /\ rows'[w.key][f] >= a
      BY <1>3, <1>4, <1>13, <2>1, <2>3, <2>4
    <2> QED
      BY <1>4, <2>2, <2>5 DEF Known
  <1>14. ASSUME w.bad PROVE Indexed(w.key)' /\ Known(w.key, w.rev)'
    <2>1. w.key \in failedEntities'
      BY <1>5, <1>14
    <2>2. Indexed(w.key)'
      BY <1>2, <1>4, <2>1, IndexedMore
    <2>3. Known(w.key, w.rev)'
      BY <2>1 DEF Known
    <2> QED
      BY <2>2, <2>3
  <1>15. ASSUME ~w.bad PROVE Indexed(w.key)' /\ Known(w.key, w.rev)'
    <2>1. Known(w.key, w.rev)' /\ Known(w.key, 0)'
      BY <1>3, <1>13, <1>15 DEF Sourced
    <2>2. ASSUME NEW r \in DOMAIN delivered \ DOMAIN pending, delivered[r].key = w.key
          PROVE  Known(w.key, r)'
      <3>1. r \in Nat
        BY DEF IInv, Marks, Shape
      <3>2. r <= w.src
        BY <1>3, <2>2 DEF Sourced
      <3> QED
        BY <1>13, <1>15, <3>1, <3>2
    <2>3. Excused' <=> Excused
      BY <1>4 DEF Excused
    <2>4. Indexed(w.key)'
      BY <1>2, <1>4, <2>1, <2>2, <2>3 DEF IInv, Indexed
    <2> QED
      BY <2>1, <2>4
  <1>16. Indexed(w.key)' /\ Known(w.key, w.rev)'
    BY <1>14, <1>15
  <1>17. \A k \in Keys : Indexed(k)'
    BY <1>4, <1>7, <1>9, <1>16, IndexedKept
  <1>18. Working(v)'
    <2>1. Genuine(v)'
      BY <1>3, <1>4, <1>11 DEF Genuine
    <2> QED
      BY <1>11, <1>16, <2>1 DEF Working
  <1>19. v # None => LaneOf[v.key] = l /\ Working(v)'
    BY <1>2, <1>11, <1>18
  <1>20. rows' \in [Keys -> [Families -> 0..MaxRev]]
    BY <1>4, <1>6
  <1> QED
    BY <1>2, <1>4, <1>8, <1>9, <1>11, <1>12, <1>17, <1>19, <1>20, WorkerMoves

\* What completing a revision of key does to the in-flight map.
LEMMA CompleteFacts ==
  ASSUME NEW key, NEW rev, WM!Complete(key, rev)
  PROVE  /\ observedHigh' = observedHigh
         /\ \A r \in DOMAIN pending' : r \in DOMAIN pending /\ pending'[r] = pending[r]
         /\ \A r \in DOMAIN pending \ DOMAIN pending' : pending[r].key = key /\ r <= rev
  <1>1. CASE WM!Drained(key, rev) = {}
    BY <1>1 DEF WM!Complete
  <1>2. CASE WM!Drained(key, rev) # {}
    <2>1. pending' = WM!Without(pending, WM!Drained(key, rev)) /\ observedHigh' = observedHigh
      BY <1>2 DEF WM!Complete
    <2>2. pending' = [r \in DOMAIN pending \ WM!Drained(key, rev) |-> pending[r]]
      BY <2>1 DEF WM!Without
    <2>3. \A r \in WM!Drained(key, rev) : pending[r].key = key /\ r <= rev
      BY DEF WM!Drained
    <2> QED
      BY <2>1, <2>2, <2>3
  <1> QED
    BY <1>1, <1>2

\* A completion drains revisions that are known to be indexed or known not to be.
LEMMA CompleteStep ==
  ASSUME IInv, NEW l \in Lanes, CompleteWork(l)
  PROVE  IInv'
  <1> USE IndexAssumption
  <1>1. worker[l] # None /\ worker[l].pc = "complete"
    BY DEF CompleteWork
  <1>2. PICK w \in InHands : /\ w = worker[l] /\ w.key \in Keys /\ LaneOf[w.key] = l
                             /\ Working(w)
    BY <1>1, HandFacts
  <1>3. Known(w.key, w.rev) /\ w.rev \in Nat
    BY <1>1, <1>2 DEF Working, InHands
  <1>4. /\ UNCHANGED <<log, boot, statusVars, queues, rows, failedEntities, resetState>>
        /\ UNCHANGED <<startSeq, status, indexBootstrapped>>
        /\ worker' = [worker EXCEPT ![l] = None]
    BY DEF CompleteWork, outcome, statusVars, boot
  <1>5. /\ UNCHANGED <<delivered, observedHigh>>
        /\ \A r \in DOMAIN pending' : r \in DOMAIN pending /\ pending'[r] = pending[r]
        /\ \A r \in DOMAIN pending \ DOMAIN pending' : pending[r].key = w.key /\ r <= w.rev
    <2>1. CASE w.rev > 0
      <3>1. WM!Complete(w.key, w.rev) /\ delivered' = delivered
        BY <1>2, <2>1 DEF CompleteWork
      <3> QED
        BY <3>1, CompleteFacts
    <2>2. CASE ~(w.rev > 0)
      <3>1. UNCHANGED wm
        BY <1>2, <2>2 DEF CompleteWork
      <3> QED
        BY <3>1 DEF wm
    <2> QED
      BY <2>1, <2>2
  <1>6. Grows
    BY <1>4, <1>5 DEF Grows, IInv, Shape
  <1>7. \A k \in Keys : k # w.key => Spares(k)
    <2> SUFFICES ASSUME NEW k \in Keys, k # w.key,
                        NEW r \in DOMAIN delivered \ DOMAIN pending', delivered[r].key = k
                 PROVE  r \notin DOMAIN pending
      BY <1>4, <1>5 DEF Spares
    <2>1. r \in DOMAIN pending => pending[r].key = k
      BY DEF IInv, Marks
    <2> QED
      BY <1>5, <2>1
  <1>8. \A r : Known(w.key, r)' <=> Known(w.key, r)
    BY <1>4 DEF Known, Excused
  <1>9. Indexed(w.key)'
    <2>1. ASSUME NEW r \in DOMAIN delivered \ DOMAIN pending', delivered[r].key = w.key
          PROVE  Known(w.key, r)'
      <3>1. CASE r \notin DOMAIN pending
        BY <1>2, <1>8, <2>1, <3>1 DEF IInv, Indexed
      <3>2. CASE r \in DOMAIN pending
        <4>1. r <= w.rev /\ r \in Nat
          BY <1>5, <2>1, <3>2 DEF IInv, Marks, Shape
        <4>2. \A f \in Families : rows[w.key][f] \in Nat
          BY <1>2 DEF IInv, Shape
        <4>3. Known(w.key, r)
          BY <1>3, <4>1, <4>2 DEF Known
        <4> QED
          BY <1>8, <4>3
      <3> QED
        BY <3>1, <3>2
    <2>2. Excused' <=> Excused
      BY <1>4 DEF Excused
    <2> QED
      BY <1>2, <1>4, <1>5, <1>8, <2>1, <2>2 DEF IInv, Indexed
  <1>10. \A k \in Keys : Indexed(k)'
    BY <1>4, <1>6, <1>7, <1>9, IndexedKept
  <1>11. rows' \in [Keys -> [Families -> 0..MaxRev]] /\ failedEntities' \subseteq Keys
    BY <1>4 DEF IInv, Shape
  <1> QED
    BY <1>2, <1>4, <1>5, <1>7, <1>10, <1>11, WorkerMoves

-----------------------------------------------------------------------------
(* The status computations.                                                *)

Computations == [pc : {"idle", "watermark", "target", "publish"},
                 indexed : 0..MaxRev, target : 0..MaxRev]

LEMMA StatusMoves ==
  ASSUME IInv, NEW q \in Readers, NEW x \in Computations, reader' = [reader EXCEPT ![q] = x],
         UNCHANGED <<log, worker, wm, boot, queues, rows, failedEntities, resetState>>,
         Reading(x), \A k \in Keys : Indexed(k)',
         status'.ready => status'.target \in 0..Len(log)
  PROVE  IInv'
  <1>1. /\ UNCHANGED <<observedHigh, pending, delivered, startSeq, bootstrapTarget>>
        /\ UNCHANGED <<initialEnumerationComplete, watcher, coalescer, batch, lanes>>
    BY DEF wm, boot, queues
  <1>2. Shape'
    BY <1>1 DEF IInv, Shape, Computations
  <1>3. Marks' /\ Queued' /\ Enumerated'
    BY <1>1 DEF IInv, Marks, Queued, Enumerated, Genuine
  <1>4. ASSUME NEW l \in Lanes PROVE InHand(l)'
    BY <1>1 DEF IInv, InHand, Working, Sourced, Known, Excused, Genuine
  <1>5. ASSUME NEW p \in Readers PROVE Reading(reader[p])'
    <2>1. PICK y : y = reader'[p] /\ Reading(y)
      BY DEF IInv, Shape
    <2> QED
      BY <1>1, <2>1 DEF Reading
  <1> QED
    BY <1>2, <1>3, <1>4, <1>5 DEF IInv

\* An answer that withholds readiness says nothing new.
LEMMA WithheldStep ==
  ASSUME IInv, NEW q \in Readers, Publish(q, FALSE, 0, indexBootstrapped),
         UNCHANGED <<log, worker, wm, boot, queues, rows, failedEntities, resetState>>
  PROVE  IInv'
  <1> USE IndexAssumption
  <1>1. /\ UNCHANGED <<observedHigh, pending, delivered, startSeq, indexBootstrapped>>
        /\ reader' = [reader EXCEPT ![q] = IdleReader] /\ ~status'.ready
    BY DEF wm, boot, Publish
  <1>2. IdleReader \in Computations /\ Reading(IdleReader)
    BY DEF IdleReader, Computations, Reading
  <1>3. ASSUME NEW k \in Keys PROVE Indexed(k)'
    BY <1>1 DEF IInv, Indexed, Known, Excused
  <1> QED
    BY <1>1, <1>2, <1>3, StatusMoves

LEMMA StatusResetStep ==
  ASSUME IInv, NEW q \in Readers, StatusReset(q)
  PROVE  IInv'
  <1>1. UNCHANGED <<log, worker, wm, boot, queues, rows, failedEntities, resetState>>
    BY DEF StatusReset, outcome
  <1>2. CASE resetState
    BY <1>1, <1>2, WithheldStep DEF StatusReset
  <1>3. CASE ~resetState
    <2>1. /\ reader' = [reader EXCEPT ![q].pc = "watermark"]
          /\ UNCHANGED <<status, indexBootstrapped>>
      BY <1>3 DEF StatusReset
    <2>2. PICK x : x = [reader[q] EXCEPT !.pc = "watermark"]
      OBVIOUS
    <2>3. x \in Computations /\ x.pc = "watermark" /\ reader' = [reader EXCEPT ![q] = x]
      BY <2>1, <2>2 DEF IInv, Shape, Computations
    <2>4. Reading(x)
      BY <2>3 DEF Reading
    <2>5. ASSUME NEW k \in Keys PROVE Indexed(k)'
      BY <1>1, <2>1 DEF IInv, Indexed, Known, Excused, wm, boot
    <2>6. status'.ready => status'.target \in 0..Len(log)
      BY <2>1 DEF IInv
    <2> QED
      BY <1>1, <2>3, <2>4, <2>5, <2>6, StatusMoves
  <1> QED
    BY <1>2, <1>3

\* The floor: nothing at or below it is in flight.
LEMMA FloorFacts ==
  ASSUME IInv
  PROVE  /\ WM!Indexed \in 0..observedHigh /\ WM!Indexed <= observedHigh
         /\ \A r \in DOMAIN pending : r > WM!Indexed
  <1>1. observedHigh \in Nat /\ DOMAIN pending \in SUBSET (1..observedHigh)
    BY DEF IInv, Shape, Marks
  <1>2. CASE DOMAIN pending = {}
    BY <1>1, <1>2 DEF WM!Indexed, WM!IndexedOf
  <1>3. CASE DOMAIN pending # {}
    <2>1. PICK m : m = WM!Min(DOMAIN pending)
      OBVIOUS
    <2>2. DOMAIN pending \in SUBSET Nat
      BY <1>1
    <2>3. \E x \in DOMAIN pending : \A y \in DOMAIN pending : x <= y
      BY <1>3, <2>2, Least
    <2>4. m \in DOMAIN pending /\ \A y \in DOMAIN pending : m <= y
      BY <2>1, <2>3 DEF WM!Min
    <2>5. WM!Indexed = m - 1
      BY <1>3, <2>1 DEF WM!Indexed, WM!IndexedOf
    <2>6. m \in 1..observedHigh /\ \A y \in DOMAIN pending : y \in Nat
      BY <1>1, <2>4
    <2> QED
      BY <1>1, <2>4, <2>5, <2>6
  <1> QED
    BY <1>2, <1>3

LEMMA StatusWatermarkStep ==
  ASSUME IInv, NEW q \in Readers, StatusWatermark(q)
  PROVE  IInv'
  <1>1. /\ UNCHANGED <<log, worker, wm, boot, queues, rows, failedEntities, resetState>>
        /\ UNCHANGED <<status, indexBootstrapped>>
        /\ reader' = [reader EXCEPT ![q].pc = "target", ![q].indexed = WM!Indexed]
    BY DEF StatusWatermark, outcome
  <1>2. PICK a : a = WM!Indexed
    OBVIOUS
  <1>3. a \in 0..observedHigh /\ a <= observedHigh /\ \A r \in DOMAIN pending : r > a
    BY <1>2, FloorFacts
  <1>4. a \in 0..MaxRev
    BY <1>3, IndexAssumption DEF IInv, Shape
  <1>5. PICK x : x = [reader[q] EXCEPT !.pc = "target", !.indexed = a]
    OBVIOUS
  <1>6. x \in Computations /\ x.pc = "target" /\ x.indexed = a
        /\ reader' = [reader EXCEPT ![q] = x]
    BY <1>1, <1>2, <1>4, <1>5 DEF IInv, Shape, Computations
  <1>7. Reading(x)
    BY <1>3, <1>6 DEF Reading
  <1>8. ASSUME NEW k \in Keys PROVE Indexed(k)'
    BY <1>1 DEF IInv, Indexed, Known, Excused, wm, boot
  <1>9. status'.ready => status'.target \in 0..Len(log)
    BY <1>1 DEF IInv
  <1> QED
    BY <1>1, <1>6, <1>7, <1>8, <1>9, StatusMoves

\* The target is read after the floor, so a floor that reaches it covers every entity.
LEMMA StatusTargetStep ==
  ASSUME IInv, NEW q \in Readers, StatusTarget(q)
  PROVE  IInv'
  <1>1. UNCHANGED <<log, worker, wm, boot, queues, rows, failedEntities, resetState>>
        /\ reader[q].pc = "target"
    BY DEF StatusTarget
  <1>2. CASE Publish(q, FALSE, 0, indexBootstrapped)
    BY <1>1, <1>2, WithheldStep
  <1>3. CASE /\ reader' = [reader EXCEPT ![q].pc = "publish", ![q].target = LastSeq]
             /\ UNCHANGED <<status, indexBootstrapped>>
    <2>1. log \in Seq(Entry) /\ Len(log) \in 0..MaxRev /\ startSeq \in 0..Len(log)
          /\ observedHigh \in 0..Len(log) /\ Len(log) \in Nat /\ Len(log) \in 0..Len(log)
      BY IndexAssumption DEF IInv, Shape
    <2>2. PICK a \in Nat : a = reader[q].indexed
      BY IndexAssumption DEF IInv, Shape
    <2>3. a <= observedHigh /\ \A r \in DOMAIN pending : r > a
      BY <1>1, <2>2 DEF IInv, Reading
    <2>4. PICK x : x = [reader[q] EXCEPT !.pc = "publish", !.target = Len(log)]
      OBVIOUS
    <2>5. x \in Computations /\ x.pc = "publish" /\ x.indexed = a /\ x.target = Len(log)
          /\ reader' = [reader EXCEPT ![q] = x]
      BY <1>3, <2>1, <2>2, <2>4 DEF IInv, Shape, Computations, LastSeq
    <2>6. ASSUME a >= Len(log), NEW k \in Keys, LastIn(log, k, Len(log)) > 0
          PROVE  LastIn(log, k, Len(log)) \in DOMAIN delivered \ DOMAIN pending
      <3>1. PICK s : s = LastIn(log, k, Len(log))
        OBVIOUS
      <3>2. s \in 1..Len(log) /\ log[s].key = k
            /\ \A r \in 1..Len(log) : log[r].key = k => r <= s
        <4>1. s \in 0..Len(log) /\ (s > 0 => log[s].key = k)
              /\ \A r \in 1..Len(log) : log[r].key = k => r <= s
          BY <2>1, <3>1, LastFacts
        <4> QED
          BY <2>1, <2>6, <3>1, <4>1
      <3>3. s \in 1..observedHigh /\ a \in Nat /\ s <= a
        BY <2>1, <2>3, <2>6, <3>2
      <3>4. s \in DOMAIN delivered
        BY <3>2, <3>3 DEF IInv, Marks
      <3>5. s \notin DOMAIN pending
        BY <2>3, <3>3
      <3> QED
        BY <3>1, <3>4, <3>5
    <2>7. Reading(x)
      BY <2>1, <2>3, <2>5, <2>6 DEF Reading
    <2>8. ASSUME NEW k \in Keys PROVE Indexed(k)'
      BY <1>1, <1>3 DEF IInv, Indexed, Known, Excused, wm, boot
    <2>9. status'.ready => status'.target \in 0..Len(log)
      BY <1>3 DEF IInv
    <2> QED
      BY <1>1, <2>5, <2>7, <2>8, <2>9, StatusMoves
  <1> QED
    BY <1>2, <1>3 DEF StatusTarget

\* A caught-up target is covered for every entity without a recorded failure.
LEMMA CaughtUp ==
  ASSUME IInv, NEW x \in Computations, Reading(x), x.pc = "publish",
         x.target = 0 \/ x.indexed >= x.target, NEW k \in Keys, k \notin failedEntities, ~Excused
  PROVE  \A f \in Families : /\ rows[k][f] >= LastIn(log, k, x.target)
                             /\ rows[k][f] >= LastIn(log, k, startSeq)
  <1>1. log \in Seq(Entry) /\ startSeq \in 0..Len(log) /\ Len(log) \in Nat
    BY DEF IInv, Shape
  <1>2. x.target \in Nat /\ startSeq <= x.target /\ x.target <= Len(log)
    BY IndexAssumption DEF Computations, Reading
  <1>3. x.target \in 0..Len(log) /\ x.target \in startSeq..Len(log)
    BY <1>1, <1>2
  <1>4. PICK s : s = LastIn(log, k, x.target)
    OBVIOUS
  <1>5. PICK a : a = LastIn(log, k, startSeq)
    OBVIOUS
  <1>6. s \in 0..x.target
    BY <1>1, <1>3, <1>4, LastFacts
  <1>7. a \in 0..startSeq
    BY <1>1, <1>5, LastFacts
  <1>8. a <= s
    BY <1>1, <1>3, <1>4, <1>5, LastMonotone
  <1>9. \A f \in Families : rows[k][f] \in Nat
    BY DEF IInv, Shape
  <1>10. s \in Nat /\ a \in Nat
    BY <1>1, <1>2, <1>6, <1>7
  <1>11. CASE s = 0
    BY <1>4, <1>5, <1>8, <1>9, <1>10, <1>11
  <1>12. CASE s # 0
    <2>1. s > 0 /\ x.target # 0
      BY <1>2, <1>6, <1>10, <1>12
    <2>2. s \in DOMAIN delivered \ DOMAIN pending
      BY <1>4, <2>1 DEF Reading
    <2>3. delivered[s].key = log[s].key
      BY <2>2 DEF IInv, Marks
    <2>4. log[s].key = k
      BY <1>1, <1>3, <1>4, <2>1, LastFacts
    <2>5. Known(k, s)
      BY <2>2, <2>3, <2>4 DEF IInv, Indexed
    <2> QED
      BY <1>4, <1>5, <2>5 DEF Known
  <1> QED
    BY <1>11, <1>12

LEMMA StatusPublishStep ==
  ASSUME IInv, NEW q \in Readers, StatusPublish(q)
  PROVE  IInv'
  <1> USE IndexAssumption
  <1>1. UNCHANGED <<log, worker, wm, boot, queues, rows, failedEntities, resetState>>
    BY DEF StatusPublish, outcome
  <1>2. PICK x \in Computations : x = reader[q] /\ x.pc = "publish" /\ Reading(x)
    BY DEF StatusPublish, IInv, Shape, Computations
  <1>3. UNCHANGED <<observedHigh, pending, delivered, startSeq, bootstrapTarget>>
        /\ UNCHANGED initialEnumerationComplete
    BY <1>1 DEF wm, boot
  <1>4. reader' = [reader EXCEPT ![q] = IdleReader] /\ status'.target = x.target
    BY <1>2 DEF StatusPublish, Publish
  <1>5. ASSUME status'.ready
        PROVE  (x.target = 0 \/ x.indexed >= x.target) /\ failedEntities = {}
    BY <1>2, <1>5 DEF StatusPublish, Publish
  <1>6. ASSUME indexBootstrapped'
        PROVE  \/ indexBootstrapped \/ status'.ready
               \/ initialEnumerationComplete /\ x.indexed >= bootstrapTarget
    BY <1>2, <1>6 DEF StatusPublish, Publish, InitialBuildApplied
  <1>7. x.indexed \in Nat /\ x.target \in Nat /\ startSeq <= x.target /\ x.target <= Len(log)
        /\ log \in Seq(Entry) /\ startSeq \in 0..Len(log) /\ Len(log) \in Nat
    BY <1>2 DEF Computations, Reading, IInv, Shape
  <1>8. Excused' <=> Excused
    BY <1>1 DEF Excused
  <1>9. ASSUME NEW k \in Keys PROVE Indexed(k)'
    <2>1. \A r : Known(k, r)' <=> Known(k, r)
      BY <1>1, <1>3, <1>8 DEF Known
    <2>2. \A f \in Families : rows[k][f] \in Nat
      BY DEF IInv, Shape
    <2>3. ASSUME status'.ready
          PROVE  /\ Known(k, 0)
                 /\ Excused \/ \A f \in Families : rows[k][f] >= LastIn(log, k, x.target)
      <3>1. CASE Excused
        BY <3>1 DEF Known
      <3>2. CASE ~Excused
        <4>1. \A f \in Families : /\ rows[k][f] >= LastIn(log, k, x.target)
                                  /\ rows[k][f] >= LastIn(log, k, startSeq)
          BY <1>2, <1>5, <2>3, <3>2, CaughtUp
        <4>2. Known(k, 0)
          BY <2>2, <4>1 DEF Known
        <4> QED
          BY <4>1, <4>2
      <3> QED
        BY <3>1, <3>2
    <2>4. ASSUME initialEnumerationComplete, x.indexed >= bootstrapTarget
          PROVE  Known(k, 0)
      <3>1. PICK a : a = LastIn(log, k, startSeq)
        OBVIOUS
      <3>2. a \in 0..startSeq
        BY <1>7, <3>1, LastFacts
      <3>3. CASE a = 0
        BY <2>2, <3>1, <3>3 DEF Known
      <3>4. CASE a # 0
        <4>1. a > 0 /\ bootstrapTarget \in Nat
          BY <2>4, <3>2, <3>4 DEF IInv, Enumerated
        <4>2. PICK r \in DOMAIN delivered : delivered[r].key = k /\ r <= bootstrapTarget
          BY <2>4, <3>1, <4>1 DEF IInv, Enumerated
        <4>3. r \in Nat
          BY DEF IInv, Marks, Shape
        <4>4. r \notin DOMAIN pending
          <5>1. \A y \in DOMAIN pending : y > x.indexed
            BY <1>2 DEF Reading
          <5> QED
            BY <1>7, <2>4, <4>1, <4>2, <4>3, <5>1
        <4>5. Known(k, r)
          BY <4>2, <4>4 DEF IInv, Indexed
        <4> QED
          BY <2>2, <4>3, <4>5 DEF Known
      <3> QED
        BY <3>3, <3>4
    <2>5. indexBootstrapped' => Known(k, 0)'
      BY <1>6, <2>1, <2>3, <2>4 DEF IInv, Indexed
    <2>6. status'.ready =>
            Excused' \/ \A f \in Families : rows'[k][f] >= LastIn(log', k, status'.target)
      BY <1>1, <1>4, <1>8, <2>3
    <2>7. \A r \in DOMAIN delivered' \ DOMAIN pending' : delivered'[r].key = k => Known(k, r)'
      BY <1>3, <2>1 DEF IInv, Indexed
    <2>8. \A f \in Families : rows'[k][f] <= LastIn(log', k, Len(log'))
      BY <1>1 DEF IInv, Indexed
    <2> QED
      BY <2>5, <2>6, <2>7, <2>8 DEF Indexed
  <1>10. IdleReader \in Computations /\ Reading(IdleReader)
    BY DEF IdleReader, Computations, Reading
  <1>11. status'.ready => status'.target \in 0..Len(log)
    BY <1>4, <1>7
  <1> QED
    BY <1>1, <1>4, <1>9, <1>10, <1>11, StatusMoves

-----------------------------------------------------------------------------
(* Start and restart.                                                      *)

\* A process that has just started knows nothing; the index survived.
Started ==
  /\ log \in Seq(Entry) /\ Len(log) <= MaxRev /\ startSeq = Len(log)
  /\ rows \in [Keys -> [Families -> 0..MaxRev]]
  /\ \A k \in Keys, f \in Families : rows[k][f] <= LastIn(log, k, Len(log))
  /\ observedHigh = 0 /\ pending = [r \in {} |-> 0] /\ delivered = [r \in {} |-> 0]
  /\ initialEnumerationComplete = FALSE /\ indexBootstrapped = FALSE
  /\ watcher = Receiving /\ coalescer = [k \in Keys |-> 0] /\ batch = {}
  /\ lanes = [l \in Lanes |-> <<>>] /\ worker = [l \in Lanes |-> None]
  /\ failedEntities = {} /\ reader = [q \in Readers |-> IdleReader] /\ status = NoStatus

LEMMA StartState ==
  Started => IInv
  <1> SUFFICES ASSUME Started PROVE IInv
    OBVIOUS
  <1> USE IndexAssumption
  <1>1. DOMAIN pending = {} /\ DOMAIN delivered = {} /\ Len(log) \in Nat /\ ~status.ready
        /\ watcher.pc = "receive"
    BY DEF Started, NoStatus, Receiving
  <1>2. Shape
    <2>1. watcher \in [pc : {"receive", "submit", "sentinel"}, work : Work \cup {None}]
      BY DEF Started, Receiving
    <2>2. /\ coalescer \in [Keys -> 0..MaxRev] /\ batch \subseteq Work
          /\ lanes \in [Lanes -> Seq(Work)] /\ worker \in [Lanes -> {None} \cup InHands]
          /\ failedEntities \subseteq Keys
      BY DEF Started
    <2>3. reader \in [Readers -> [pc : {"idle", "watermark", "target", "publish"},
                                  indexed : 0..MaxRev, target : 0..MaxRev]]
      BY DEF Started, IdleReader
    <2> QED
      BY <1>1, <2>1, <2>2, <2>3 DEF Started, Shape
  <1>3. Marks /\ Enumerated
    BY <1>1 DEF Started, Marks, Enumerated
  <1>4. Queued
    BY <1>1 DEF Started, Queued
  <1>5. \A l \in Lanes : InHand(l)
    BY DEF Started, InHand
  <1>6. \A k \in Keys : Indexed(k)
    BY <1>1 DEF Started, Indexed
  <1>7. \A q \in Readers : Reading(reader[q])
    BY DEF Started, Reading, IdleReader
  <1> QED
    BY <1>1, <1>2, <1>3, <1>4, <1>5, <1>6, <1>7 DEF IInv

LEMMA InitIndex ==
  ASSUME Init
  PROVE  IInv
  <1> USE IndexAssumption
  <1>1. log \in Seq(Entry) /\ Len(log) \in {0, 1}
    <2>1. CASE log = <<>>
      BY <2>1
    <2>2. ASSUME NEW k \in Keys, NEW d \in Kinds, log = <<[key |-> k, kind |-> d]>>
          PROVE  log \in Seq(Entry) /\ Len(log) \in {0, 1}
      <3>1. [key |-> k, kind |-> d] \in Entry
        BY DEF Entry
      <3> QED
        BY <2>2, <3>1
    <2> QED
      BY <2>1, <2>2 DEF Init
  <1>2. \A k \in Keys, f \in Families : rows[k][f] <= LastIn(log, k, Len(log))
    <2> TAKE k \in Keys, f \in Families
    <2>1. Len(log) \in 0..Len(log)
      BY <1>1
    <2>2. LastIn(log, k, Len(log)) \in 0..Len(log)
      BY <1>1, <2>1, LastFacts
    <2> QED
      BY <1>1, <2>2 DEF Init
  <1>3. Started
    BY <1>1, <1>2 DEF Init, WM!New, Started
  <1> QED
    BY <1>3, StartState

LEMMA RestartStep ==
  ASSUME IInv, Restart
  PROVE  IInv'
  <1>1. /\ log' \in Seq(Entry) /\ Len(log') <= MaxRev /\ startSeq' = Len(log')
        /\ rows' \in [Keys -> [Families -> 0..MaxRev]]
        /\ \A k \in Keys, f \in Families : rows'[k][f] <= LastIn(log', k, Len(log'))
    BY DEF IInv, Shape, Indexed, Restart, Fresh, LastSeq
  <1>2. Started'
    BY <1>1 DEF Restart, Fresh, Started
  <1> QED
    BY <1>2, StartState, PTL

-----------------------------------------------------------------------------
(* The invariant and what follows from it.                                 *)

LEMMA WorkerSteps ==
  ASSUME IInv, NEW l \in Lanes, WorkerStep(l)
  PROVE  IInv'
  <1>1. CASE Take(l)
    BY <1>1, TakeStep
  <1>2. CASE ReadEntity(l)
    BY <1>2, ReadStep
  <1>3. CASE Settle(l)
    BY <1>3, SettleStep
  <1>4. CASE CompleteWork(l)
    BY <1>4, CompleteStep
  <1>5. CASE \E f \in Families : ReplaceFamily(l, f) \/ ClearFamily(l, f)
    BY <1>5, FamilyStep
  <1> QED
    BY <1>1, <1>2, <1>3, <1>4, <1>5 DEF WorkerStep

LEMMA StepIndex ==
  ASSUME IInv, [Next]_vars
  PROVE  IInv'
  <1>1. CASE \E k \in Keys, d \in Kinds : Commit(k, d)
    BY <1>1, CommitStep
  <1>2. CASE \E r \in 1..LastSeq : Receive(r)
    BY <1>2, ReceiveStep
  <1>3. CASE ReceiveSentinel \/ RaiseEnumerated
    BY <1>3, SentinelStep
  <1>4. CASE WatcherSubmit
    BY <1>4, WatcherSubmitStep
  <1>5. CASE Fire
    BY <1>5, FireStep
  <1>6. ASSUME NEW w \in batch, SubmitBatch(w) PROVE IInv'
    <2>1. w \in Work /\ Genuine(w)
      BY DEF IInv, Shape, Queued
    <2>2. /\ Submit(w) /\ batch' \subseteq batch
          /\ UNCHANGED <<log, restarts, worker, wm, boot, watcher, coalescer, outcome, statusVars>>
      BY <1>6 DEF SubmitBatch
    <2> QED
      BY <2>1, <2>2, SubmitStep
  <1>7. ASSUME NEW k \in Keys, Repair(k) PROVE IInv'
    <2>1. PICK w : w = [key |-> k, rev |-> 0]
      OBVIOUS
    <2>2. w \in Work /\ Genuine(w)
      BY <2>1, IndexAssumption DEF Work, Genuine
    <2>3. /\ Submit(w) /\ batch' \subseteq batch
          /\ UNCHANGED <<log, restarts, worker, wm, boot, watcher, coalescer, outcome, statusVars>>
      BY <1>7, <2>1 DEF Repair
    <2> QED
      BY <2>2, <2>3, SubmitStep
  <1>8. CASE \E l \in Lanes : WorkerStep(l)
    BY <1>8, WorkerSteps
  <1>9. CASE \E q \in Readers : StatusStep(q)
    BY <1>9, StatusResetStep, StatusWatermarkStep, StatusTargetStep, StatusPublishStep
    DEF StatusStep
  <1>10. CASE Restart
    BY <1>10, RestartStep
  <1>11. CASE UNCHANGED vars
    <2>1. /\ UNCHANGED <<log, worker, wm, startSeq, outcome, statusVars, queues>>
          /\ UNCHANGED <<bootstrapTarget, initialEnumerationComplete>>
      BY <1>11 DEF vars, boot
    <2>2. Shape' /\ Queued' /\ Enumerated'
      BY <2>1 DEF IInv, Shape, Queued, Enumerated, Genuine, wm, outcome, statusVars, queues
    <2> QED
      BY <2>1, <2>2, QueueStep
  <1> QED
    BY <1>1, <1>2, <1>3, <1>4, <1>5, <1>6, <1>7, <1>8, <1>9, <1>10, <1>11 DEF Next

\* The inductive invariant of the pipeline.
THEOREM IndexInvariant == Spec => []IInv
  <1>1. Init => IInv
    BY InitIndex
  <1>2. IInv /\ [Next]_vars => IInv'
    BY StepIndex
  <1> QED
    BY <1>1, <1>2, PTL DEF Spec

\* LastOf, of which the properties speak, is LastIn over the log.
LEMMA LastOfIsLastIn ==
  \A k, t : LastOf(k, t) = LastIn(log, k, t)
  BY DEF LastOf, LastIn, Top

(***************************************************************************)
(* A completed revision is indexed or recorded as failed (processEntity-   *)
(* Work), for any interleaving of the watch, the coalescer, the repair     *)
(* loop and any number of lanes, with failing writes and restarts.         *)
(***************************************************************************)
THEOREM CompletedIsKnown == Spec => []NoSilentStaleness
  <1>1. ASSUME IInv PROVE NoSilentStaleness
    <2> SUFFICES ASSUME NEW r \in DOMAIN delivered \ DOMAIN pending
                 PROVE  \/ \A f \in Families : rows[delivered[r].key][f] >= r
                        \/ delivered[r].key \in failedEntities
                        \/ resetState
      BY DEF NoSilentStaleness
    <2>1. PICK k \in Keys : k = delivered[r].key
      <3>1. r \in 1..Len(log) /\ delivered[r] = [key |-> log[r].key, commitAt |-> r]
            /\ log \in Seq(Entry)
        BY <1>1 DEF IInv, Marks, Shape
      <3>2. log[r] \in Entry
        BY <3>1
      <3> QED
        BY <3>1, <3>2 DEF Entry
    <2>2. Known(k, r)
      BY <1>1, <2>1 DEF IInv, Indexed
    <2> QED
      BY <2>1, <2>2 DEF Known, Excused
  <1> QED
    BY <1>1, IndexInvariant, PTL

(***************************************************************************)
(* bootstrap_complete (latchBootstrap) is raised by a finished build only. *)
(***************************************************************************)
THEOREM BootstrapNeverLies == Spec => []BootstrapIsHonest
  <1>1. ASSUME IInv PROVE BootstrapIsHonest
    <2> SUFFICES ASSUME indexBootstrapped, NEW k \in Keys
                 PROVE  \/ \A f \in Families : rows[k][f] >= LastIn(log, k, startSeq)
                        \/ k \in failedEntities
                        \/ resetState
      BY LastOfIsLastIn DEF BootstrapIsHonest
    <2>1. Known(k, 0)
      BY <1>1 DEF IInv, Indexed
    <2> QED
      BY <2>1 DEF Known, Excused
  <1> QED
    BY <1>1, IndexInvariant, PTL

(***************************************************************************)
(* Ready means indexed (computeIndexStatus), although its four inputs are  *)
(* read one after the other, as long as no stored value is unreadable: run *)
(* ready_race shows that an unreadable one, found between two of the       *)
(* reads, breaks the promise.                                              *)
(***************************************************************************)
THEOREM ReadyNeverLies ==
  ASSUME "unreadable" \notin Kinds
  PROVE  Spec => []ReadyIsHonest
  <1>1. ASSUME IInv PROVE ReadyIsHonest
    <2>1. ~Excused
      BY DEF Excused
    <2>2. ASSUME status.ready, NEW k \in Keys, NEW f \in Families
          PROVE  rows[k][f] >= LastIn(log, k, status.target)
      BY <1>1, <2>1, <2>2 DEF IInv, Indexed
    <2> QED
      BY <2>2, LastOfIsLastIn DEF ReadyIsHonest
  <1> QED
    BY <1>1, IndexInvariant, PTL

-----------------------------------------------------------------------------
(* The watermark as the pipeline uses it.                                  *)

\* Every call of the pipeline is one the watermark's own specification allows.
LEMMA WatermarkStep ==
  ASSUME IInv, [Next]_vars
  PROVE  \/ \E r \in WM!Revs, k \in Keys, t \in WM!Times : WM!Deliver(r, k, t)
         \/ \E r \in WM!Revs : WM!Finish(r)
         \/ WM!Init'
         \/ UNCHANGED wm
  <1> USE IndexAssumption
  <1>1. ASSUME NEW r \in 1..LastSeq, Receive(r)
        PROVE  \E n \in WM!Revs, k \in Keys, t \in WM!Times : WM!Deliver(n, k, t)
    <2>1. log \in Seq(Entry) /\ r \in 1..Len(log) /\ Len(log) <= MaxRev /\ observedHigh \in Nat
      BY DEF IInv, Shape, LastSeq
    <2>2. log[r] \in Entry
      BY <2>1
    <2>3. PICK k \in Keys : k = log[r].key
      BY <2>2 DEF Entry
    <2>4. r \in WM!Revs /\ r \in WM!Times /\ r \in Nat
      BY <2>1 DEF WM!Revs, WM!Times
    <2>5. r > observedHigh /\ WM!Observe(r, k, r)
          /\ delivered' = [x \in DOMAIN delivered \cup {r} |->
                             IF x = r THEN [key |-> k, commitAt |-> r] ELSE delivered[x]]
      BY <1>1, <2>3 DEF Receive, CanDeliver
    <2>6. r >= WM!LatestAt
      <3>1. CASE observedHigh = 0
        BY <2>4, <3>1 DEF WM!LatestAt
      <3>2. CASE observedHigh # 0
        <4>1. delivered[observedHigh].commitAt = observedHigh
          BY <3>2 DEF IInv, Marks
        <4> QED
          BY <2>1, <2>4, <2>5, <3>2, <4>1 DEF WM!LatestAt
      <3> QED
        BY <3>1, <3>2
    <2>7. WM!Deliver(r, k, r)
      BY <2>5, <2>6 DEF WM!Deliver
    <2> QED
      BY <2>4, <2>7
  <1>2. ASSUME NEW l \in Lanes, CompleteWork(l)
        PROVE  (\E r \in WM!Revs : WM!Finish(r)) \/ UNCHANGED wm
    <2>1. worker[l] # None
      BY <1>2 DEF CompleteWork
    <2>2. PICK w \in InHands : w = worker[l] /\ Working(w)
      BY <2>1, HandFacts
    <2>3. CASE w.rev > 0
      <3>1. WM!Complete(w.key, w.rev) /\ delivered' = delivered
        BY <1>2, <2>2, <2>3 DEF CompleteWork
      <3>2. w.rev \in 0..MaxRev
        BY DEF InHands
      <3>3. w.rev \in DOMAIN delivered /\ delivered[w.rev].key = w.key
        BY <2>2, <2>3, <3>2 DEF Working, Genuine
      <3>4. w.rev \in WM!Revs
        BY <2>3, <3>2 DEF WM!Revs
      <3>5. WM!Finish(w.rev)
        BY <3>1, <3>3 DEF WM!Finish
      <3> QED
        BY <3>4, <3>5
    <2>4. CASE ~(w.rev > 0)
      BY <1>2, <2>2, <2>4 DEF CompleteWork
    <2> QED
      BY <2>3, <2>4
  <1>3. CASE Restart
    BY <1>3 DEF Restart, Fresh, WM!Init, WM!New
  <1>4. ASSUME NEW l \in Lanes, WorkerStep(l), ~CompleteWork(l)
        PROVE  UNCHANGED wm
    BY <1>4 DEF WorkerStep, Take, ReadEntity, Settle, ReplaceFamily, ClearFamily, FamilyOutcome
  <1>5. ASSUME NEW q \in Readers, StatusStep(q)
        PROVE  UNCHANGED wm
    BY <1>5 DEF StatusStep, StatusReset, StatusWatermark, StatusTarget, StatusPublish
  <1>6. CASE \/ \E k \in Keys, d \in Kinds : Commit(k, d)
             \/ ReceiveSentinel \/ RaiseEnumerated \/ WatcherSubmit \/ Fire
             \/ \E w \in batch : SubmitBatch(w)
             \/ \E k \in Keys : Repair(k)
             \/ UNCHANGED vars
    BY <1>6 DEF Commit, ReceiveSentinel, RaiseEnumerated, WatcherSubmit, Fire, SubmitBatch,
                Repair, vars
  <1> QED
    BY <1>1, <1>2, <1>3, <1>4, <1>5, <1>6 DEF Next

(***************************************************************************)
(* The pipeline implements the callers Watermark assumes, up to restarts:  *)
(* watchEntityStates observes in ascending order and processEntityWork     *)
(* completes only what was delivered for its key, so every step is a step  *)
(* of that specification or a new, empty watermark.                        *)
(***************************************************************************)
THEOREM PipelineUsesWatermark == Spec => UsesWatermark
  <1>1. Init => WM!Init
    BY DEF Init, WM!Init
  <1>2. IInv /\ [Next]_vars => [UNCHANGED WM!vars \/ WM!Next \/ WM!Init']_vars
    <2> SUFFICES ASSUME IInv, [Next]_vars PROVE UNCHANGED WM!vars \/ WM!Next \/ WM!Init'
      OBVIOUS
    <2>1. UNCHANGED wm => UNCHANGED WM!vars
      BY DEF wm, WM!vars, WM!wmVars
    <2> QED
      BY <2>1, WatermarkStep DEF WM!Next
  <1> QED
    BY <1>1, <1>2, IndexInvariant, PTL DEF Spec, UsesWatermark

(***************************************************************************)
(* Hence the pipeline's watermark never reports a commit time newer than   *)
(* what is covered and is exact once caught up, across restarts too.       *)
(***************************************************************************)
THEOREM WatermarkIsSound == Spec => [](WM!TypeOK /\ WM!NeverNewer /\ WM!ExactWhenCaughtUp)
  <1>1. WM!Init => WP!IInv
    BY WP!InitIInv, IndexAssumption DEF WM!Init, WM!New, WP!Init, WP!New
  <1>2. WP!IInv /\ [UNCHANGED WM!vars \/ WM!Next \/ WM!Init']_vars => WP!IInv'
    <2> SUFFICES ASSUME WP!IInv, [UNCHANGED WM!vars \/ WM!Next \/ WM!Init']_vars
                 PROVE  WP!IInv'
      OBVIOUS
    <2>1. ASSUME NEW r \in WM!Revs, NEW k \in Keys, NEW t \in WM!Times, WM!Deliver(r, k, t)
          PROVE  WP!IInv'
      <3>1. WP!Deliver(r, k, t)
        BY <2>1 DEF WM!Deliver, WP!Deliver, WM!Observe, WP!Observe, WM!LatestAt, WP!LatestAt,
                    WM!wmVars, WP!wmVars
      <3>2. r \in WP!Revs /\ t \in WP!Times
        BY <2>1 DEF WM!Revs, WP!Revs, WM!Times, WP!Times
      <3> QED
        BY <3>1, <3>2, WP!DeliverStep, IndexAssumption
    <2>2. ASSUME NEW r \in WM!Revs, WM!Finish(r)
          PROVE  WP!IInv'
      <3>1. WP!Finish(r)
        BY <2>2 DEF WM!Finish, WP!Finish, WM!Complete, WP!Complete, WM!Drained, WP!Drained,
                    WM!Without, WP!Without, WM!AdvanceCovered, WP!AdvanceCovered,
                    WM!IndexedOf, WP!IndexedOf, WM!Min, WP!Min, WM!Max, WP!Max
      <3>2. r \in WP!Revs
        BY <2>2 DEF WM!Revs, WP!Revs
      <3> QED
        BY <3>1, <3>2, WP!FinishStep, IndexAssumption
    <2>3. CASE WM!Init'
      BY <1>1, <2>3, PTL
    <2>4. CASE UNCHANGED WM!vars
      BY <2>4 DEF WM!vars, WM!wmVars, WP!IInv, WP!TypeOK, WP!Ledger, WP!NeverNewer,
                  WP!ExactWhenCaughtUp, WP!Indexed, WP!IndexedOf
    <2>5. UNCHANGED vars => UNCHANGED WM!vars
      BY DEF vars, wm, WM!vars, WM!wmVars
    <2> QED
      BY <2>1, <2>2, <2>3, <2>4, <2>5 DEF WM!Next
  <1>3. WP!IInv => WM!TypeOK /\ WM!NeverNewer /\ WM!ExactWhenCaughtUp
    BY DEF WP!IInv, WP!TypeOK, WP!NeverNewer, WP!ExactWhenCaughtUp, WM!TypeOK, WM!NeverNewer,
           WM!ExactWhenCaughtUp, WP!Indexed, WM!Indexed, WM!IndexedOf, WP!IndexedOf, WM!Min,
           WP!Min, WM!Times, WP!Times, WM!Revs, WP!Revs, WM!Inflight, WP!Inflight
  <1> QED
    BY <1>1, <1>2, <1>3, PipelineUsesWatermark, PTL DEF UsesWatermark

-----------------------------------------------------------------------------
(* Types and the capacity of the lanes.                                    *)

Capacity == \A l \in Lanes : Len(lanes[l]) <= LaneSize

Envelope ==
  /\ bootstrapTarget \in 0..MaxRev
  /\ initialEnumerationComplete \in BOOLEAN /\ indexBootstrapped \in BOOLEAN
  /\ resetState \in BOOLEAN
  /\ status \in [ready : BOOLEAN, target : 0..MaxRev, bootstrapComplete : BOOLEAN]

LEMMA NoStatusType ==
  /\ 0 \in 0..MaxRev
  /\ NoStatus \in [ready : BOOLEAN, target : 0..MaxRev, bootstrapComplete : BOOLEAN]
  BY IndexAssumption DEF NoStatus

\* A full lane blocks every submitter.
LEMMA CapacityStep ==
  ASSUME IInv, Capacity, [Next]_vars
  PROVE  Capacity'
  <1> USE IndexAssumption
  <1>1. lanes \in [Lanes -> Seq(Work)]
    BY DEF IInv, Shape
  <1>2. ASSUME NEW w \in Work, Submit(w) PROVE Capacity'
    <2>1. PICK j \in Lanes : j = LaneOf[w.key]
      BY DEF Work
    <2>2. Len(lanes[j]) < LaneSize /\ lanes' = [lanes EXCEPT ![j] = Append(lanes[j], w)]
      BY <1>2, <2>1 DEF Submit
    <2>3. lanes[j] \in Seq(Work) /\ Len(lanes[j]) \in Nat
      BY <1>1
    <2>4. Len(Append(lanes[j], w)) = Len(lanes[j]) + 1
      BY <2>3
    <2>5. Len(Append(lanes[j], w)) <= LaneSize
      BY <2>2, <2>3, <2>4
    <2> QED
      BY <1>1, <2>2, <2>5 DEF Capacity
  <1>3. CASE WatcherSubmit
    <2>1. watcher.work \in Work /\ Submit(watcher.work)
      BY <1>3 DEF WatcherSubmit, IInv, Queued
    <2>2. PICK w \in Work : w = watcher.work
      BY <2>1
    <2> QED
      BY <1>2, <2>1, <2>2
  <1>4. CASE \E w \in batch : SubmitBatch(w)
    BY <1>2, <1>4 DEF SubmitBatch, IInv, Shape
  <1>5. ASSUME NEW k \in Keys, Repair(k) PROVE Capacity'
    <2>1. [key |-> k, rev |-> 0] \in Work
      BY DEF Work
    <2> QED
      BY <1>2, <1>5, <2>1 DEF Repair
  <1>6. ASSUME NEW l \in Lanes, WorkerStep(l) PROVE Capacity'
    <2>1. CASE Take(l)
      <3>1. lanes' = [lanes EXCEPT ![l] = Tail(lanes[l])] /\ lanes[l] # <<>>
            /\ lanes[l] \in Seq(Work)
        BY <1>1, <2>1 DEF Take
      <3>2. Len(Tail(lanes[l])) = Len(lanes[l]) - 1 /\ Len(lanes[l]) \in Nat
        BY <3>1
      <3>3. Len(Tail(lanes[l])) <= LaneSize
        BY <3>2 DEF Capacity
      <3> QED
        BY <1>1, <3>1, <3>3 DEF Capacity
    <2>2. CASE ~Take(l)
      <3>1. lanes' = lanes
        BY <1>6, <2>2 DEF WorkerStep, ReadEntity, Settle, CompleteWork, ReplaceFamily,
                          ClearFamily, FamilyOutcome, queues
      <3> QED
        BY <3>1 DEF Capacity
    <2> QED
      BY <2>1, <2>2
  <1>7. ASSUME NEW q \in Readers, StatusStep(q) PROVE Capacity'
    BY <1>7 DEF StatusStep, StatusReset, StatusWatermark, StatusTarget, StatusPublish, queues,
                Capacity
  <1>8. CASE Restart
    BY <1>8 DEF Restart, Fresh, Capacity
  <1>9. CASE \/ \E k \in Keys, d \in Kinds : Commit(k, d)
             \/ \E r \in 1..LastSeq : Receive(r)
             \/ ReceiveSentinel \/ RaiseEnumerated \/ Fire \/ UNCHANGED vars
    BY <1>9 DEF Commit, Receive, ReceiveSentinel, RaiseEnumerated, Fire, vars, queues, Capacity
  <1> QED
    BY <1>3, <1>4, <1>5, <1>6, <1>7, <1>8, <1>9 DEF Next

LEMMA EnvelopeStep ==
  ASSUME IInv, Envelope, [Next]_vars
  PROVE  Envelope'
  <1> USE IndexAssumption
  <1>1. ASSUME NEW q \in Readers, NEW x \in BOOLEAN, NEW t \in 0..MaxRev, NEW b \in BOOLEAN,
               Publish(q, x, t, b), UNCHANGED <<boot, resetState>>
        PROVE  Envelope'
    BY <1>1 DEF Publish, Envelope, boot
  <1>2. ASSUME NEW q \in Readers, StatusStep(q) PROVE Envelope'
    <2>1. UNCHANGED <<boot, resetState>>
      BY <1>2 DEF StatusStep, StatusReset, StatusWatermark, StatusTarget, StatusPublish, outcome
    <2>2. CASE Publish(q, FALSE, 0, indexBootstrapped)
      <3>1. /\ indexBootstrapped' = indexBootstrapped
            /\ status' = [ready |-> FALSE, target |-> 0, bootstrapComplete |-> indexBootstrapped]
        BY <2>2 DEF Publish
      <3>2. status' \in [ready : BOOLEAN, target : 0..MaxRev, bootstrapComplete : BOOLEAN]
        BY <3>1, NoStatusType DEF Envelope
      <3> QED
        BY <2>1, <3>1, <3>2 DEF Envelope, boot
    <2>3. CASE StatusPublish(q)
      <3>1. PICK t \in 0..MaxRev : t = reader[q].target
        BY DEF IInv, Shape
      <3>2. \E x \in BOOLEAN, b \in BOOLEAN : Publish(q, x, t, b)
        BY <2>3, <3>1 DEF StatusPublish, InitialBuildApplied, Envelope
      <3> QED
        BY <1>1, <2>1, <3>2
    <2>4. CASE UNCHANGED <<status, indexBootstrapped>>
      BY <2>1, <2>4 DEF Envelope, boot
    <2> QED
      BY <1>2, <2>2, <2>3, <2>4 DEF StatusStep, StatusReset, StatusWatermark, StatusTarget
  <1>3. CASE ReceiveSentinel
    <2>1. observedHigh \in 0..MaxRev
      BY DEF IInv, Shape
    <2> QED
      BY <1>3, <2>1 DEF ReceiveSentinel, Envelope, outcome, statusVars
  <1>4. CASE RaiseEnumerated
    BY <1>4 DEF RaiseEnumerated, Envelope, outcome, statusVars
  <1>5. ASSUME NEW l \in Lanes, WorkerStep(l) PROVE Envelope'
    <2>1. UNCHANGED <<boot, statusVars>>
      BY <1>5 DEF WorkerStep, Take, ReadEntity, Settle, CompleteWork, ReplaceFamily,
                  ClearFamily, FamilyOutcome
    <2>2. resetState' = resetState \/ resetState' = TRUE
      BY <1>5 DEF WorkerStep, Take, ReadEntity, Settle, CompleteWork, ReplaceFamily,
                  ClearFamily, FamilyOutcome, outcome
    <2> QED
      BY <2>1, <2>2 DEF Envelope, boot, statusVars
  <1>6. CASE Restart
    BY <1>6, NoStatusType DEF Restart, Fresh, Envelope
  <1>7. CASE \/ \E k \in Keys, d \in Kinds : Commit(k, d)
             \/ \E r \in 1..LastSeq : Receive(r)
             \/ WatcherSubmit \/ Fire
             \/ \E w \in batch : SubmitBatch(w)
             \/ \E k \in Keys : Repair(k)
             \/ UNCHANGED vars
    <2>1. UNCHANGED <<boot, statusVars, resetState>>
      BY <1>7 DEF Commit, Receive, WatcherSubmit, Fire, SubmitBatch, Repair, vars, outcome
    <2> QED
      BY <2>1 DEF Envelope, boot, statusVars
  <1> QED
    BY <1>2, <1>3, <1>4, <1>5, <1>6, <1>7 DEF Next

(***************************************************************************)
(* Every variable keeps its type and no lane channel holds more than its   *)
(* capacity: keyedDispatcher.Submit blocks, it never drops.                *)
(***************************************************************************)
THEOREM IndexTypes == Spec => []TypeOK
  <1> USE IndexAssumption
  <1>1. Init => Capacity /\ Envelope
    <2> SUFFICES ASSUME Init PROVE Capacity /\ Envelope
      OBVIOUS
    <2>1. Capacity
      BY DEF Init, Capacity
    <2>2. Envelope
      BY NoStatusType DEF Init, Envelope
    <2> QED
      BY <2>1, <2>2
  <1>2. IInv /\ Capacity /\ Envelope /\ [Next]_vars => (Capacity /\ Envelope)'
    BY CapacityStep, EnvelopeStep
  <1>3. IInv /\ Capacity /\ Envelope /\ WM!TypeOK => TypeOK
    <2> SUFFICES ASSUME IInv, Capacity, Envelope, WM!TypeOK PROVE TypeOK
      OBVIOUS
    <2>1. \A r \in DOMAIN log : log[r] \in [key : Keys, kind : KindSet]
      <3>1. log \in Seq(Entry)
        BY DEF IInv, Shape
      <3>2. \A r \in DOMAIN log : log[r] \in Entry
        BY <3>1
      <3> QED
        BY <3>2 DEF Entry
    <2>2. startSeq \in 0..MaxRev /\ bootstrapTarget \in 0..MaxRev
      BY DEF IInv, Shape, Envelope
    <2>3. \A l \in Lanes : /\ Len(lanes[l]) <= LaneSize
                           /\ \A i \in 1..Len(lanes[l]) : lanes[l][i] \in Work
                           /\ worker[l] # None => worker[l].key \in Keys
      <3> TAKE l \in Lanes
      <3>1. lanes[l] \in Seq(Work) /\ worker[l] \in {None} \cup InHands
        BY DEF IInv, Shape
      <3>2. \A i \in 1..Len(lanes[l]) : lanes[l][i] \in Work
        BY <3>1
      <3> QED
        BY <3>1, <3>2 DEF Capacity, InHands
    <2>4. \A q \in Readers : reader[q].pc \in {"idle", "watermark", "target", "publish"}
      BY DEF IInv, Shape
    <2>5. {initialEnumerationComplete, indexBootstrapped, resetState} \subseteq BOOLEAN
      BY DEF Envelope
    <2> QED
      BY <2>1, <2>2, <2>3, <2>4, <2>5 DEF IInv, Shape, Envelope, TypeOK
  <1> QED
    BY <1>1, <1>2, <1>3, IndexInvariant, WatermarkIsSound, PTL DEF Spec
=============================================================================
