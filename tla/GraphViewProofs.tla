--------------------------- MODULE GraphViewProofs ---------------------------
(***************************************************************************)
(* Proofs about GraphView, for any keys, subscriptions, writes and endings:*)
(* a snapshot and the deltas after it are the view, no subscriber goes     *)
(* back, and no view is served that nobody feeds.                          *)
(***************************************************************************)
EXTENDS GraphView, FiniteSetTheorems, FunctionTheorems, SequenceTheorems, TLAPS

\* What the model needs of its constants: a bucket has finitely many keys.
ViewAssumption ==
  /\ IsFiniteSet(Keys) /\ Writes \subseteq Keys \X Kinds
  /\ MaxRev \in Nat /\ MaxEnds \in Nat

Deltas == [op : {"upsert", "poison", "delete"}, rev : 1..MaxRev]
Batches == SUBSET (Keys \X Deltas)
Updates == [key : Keys, kind : Kinds, rev : 1..MaxRev]
Causes == {"none", "watcher lost", "view stopped", "context", "unsubscribed"}

\* The bucket: no two keys share a revision.
Stored ==
  /\ bucket \in [Keys -> [kind : Kinds, rev : Revs]] /\ lastRev \in Revs
  /\ \A k \in Keys : bucket[k].rev <= lastRev
  /\ \A j, k \in Keys : j # k /\ bucket[j].rev = bucket[k].rev => bucket[j].rev = 0

\* The watch delivers in the order of revisions, and nothing that was applied.
Watched ==
  /\ watch \in Seq(Updates \union {EndOfReplay})
  /\ \A i \in 1..Len(watch) :
       watch[i] # EndOfReplay => appliedRev < watch[i].rev /\ watch[i].rev <= lastRev
  /\ \A i, j \in 1..Len(watch) :
       i < j /\ watch[i] # EndOfReplay /\ watch[j] # EndOfReplay => watch[i].rev < watch[j].rev
  /\ starter \in {"idle", "opening"} => watch = <<>> /\ appliedRev = 0 /\ watchOpen # "open"

\* The projection and the window hold what was applied.
Projected ==
  /\ entries \in [Keys -> Revs] /\ poisoned \in [Keys -> Revs] /\ seen \subseteq Keys
  /\ seq \in Nat /\ appliedRev \in Revs /\ appliedRev <= lastRev
  /\ \A k \in Keys : entries[k] <= appliedRev /\ poisoned[k] <= appliedRev
  /\ pending \in [Keys -> [delta : Deltas \union {NoDelta}, seq : Nat]]
  /\ \A k \in Keys : pending[k].seq <= seq
  /\ \A k \in Keys : pending[k] # NoOp => pending[k].delta \in Deltas /\ pending[k].seq # 0
                                          /\ pending[k].delta.rev <= appliedRev

\* The life of the view: who may run in which state, and who stops the watch.
Tasks ==
  /\ watchOpen \in {"none", "open", "lost", "stopped"}
  /\ vstate \in {"new", "bootstrap", "live", "failed", "stopped"} /\ cancelled \in BOOLEAN
  /\ starter \in {"idle", "opening", "opened", "done"}
  /\ watcher \in {"none", "running", "closing", "exited"}
  /\ ticker \in {"none", "running", "exited"}
  /\ stopper \in {"idle", "terminating", "waiting", "returned"}
  /\ subs \subseteq Subs /\ ending \in [watcher : SUBSET Subs, stopper : SUBSET Subs]
  /\ ends \in 0..MaxEnds

Lifecycle ==
  /\ vstate = "new" => starter = "idle"
  /\ starter # "done" => watcher = "none"
  /\ stopper # "idle" => vstate = "stopped"
  /\ vstate = "live" => watcher = "running"
  /\ subs # {} => vstate = "live"
  /\ watchOpen = "open" => starter = "opened" \/ watcher \in {"running", "closing"}
  /\ ending.watcher # {} => watcher = "closing"
  /\ ending.stopper # {} => stopper = "terminating"
  /\ stopper = "returned" => Joined

\* A subscription: one batch in hand or sent at a time, one delta per key in each.
SubStates ==
  [pc : {"unborn", "select", "taking", "sending", "detaching", "exited"}, attachSeq : Nat,
   pending : [Keys -> Deltas \union {NoDelta}], notify : BOOLEAN, batch : Batches,
   deltas : Seq(Batches), done : BOOLEAN, err : Causes, ctx : BOOLEAN, detacher : BOOLEAN]
Once(b) == \A x, y \in b : x[1] = y[1] => x = y

WellFormed(x, n) ==
  /\ x.pc = "unborn" => x = NewSub
  /\ x.attachSeq <= n
  /\ x.pc # "sending" => x.batch = {}
  /\ Once(x.batch)
  /\ x.deltas # <<>> => Len(x.deltas) = 1 /\ Once(x.deltas[1])
  /\ x.done => x.err # "none"
  /\ x.pc = "exited" => x.done

\* The layers of what is on its way, of a subscription x and an operation w of the window.
SentOf(x, k) == IF x.deltas = <<>> THEN {} ELSE Batched(k, Head(x.deltas))
HandOf(x, k) == Batched(k, x.batch)
BufferOf(x, k) == {x.pending[k]} \ {NoDelta}
WindowOf(x, w) == IF w.seq > x.attachSeq THEN {w.delta} ELSE {}

\* What is on its way is newer the later it will arrive, and has been applied.
Newer(S, n) == \A d \in S : d.rev > n
Follows(S, T) == \A d \in S, e \in T : d.rev < e.rev
InOrder(c, S, H, B, W, top) ==
  /\ c <= top /\ Newer(S, c) /\ Newer(H, c) /\ Newer(B, c) /\ Newer(W, c)
  /\ Follows(S, H) /\ Follows(S, B) /\ Follows(S, W)
  /\ Follows(H, B) /\ Follows(H, W) /\ Follows(B, W)
  /\ \A d \in S \union H \union B \union W : d.rev <= top
Ordered(x, k, w, c, top) ==
  InOrder(c.rev, SentOf(x, k), HandOf(x, k), BufferOf(x, k), WindowOf(x, w), top)

\* The last of them.
LastOf(c, S, H, B, W) ==
  LET last(D) == CHOOSE d \in D : TRUE
  IN IF W # {} THEN last(W) ELSE IF B # {} THEN last(B)
     ELSE IF H # {} THEN last(H) ELSE IF S # {} THEN last(S) ELSE c
Last(x, k, w, c) == LastOf(c, SentOf(x, k), HandOf(x, k), BufferOf(x, k), WindowOf(x, w))

Subscribed ==
  /\ sub \in [Subs -> SubStates]
  /\ \A s \in Subs : WellFormed(sub[s], seq)
  /\ \A s \in subs \union ending.watcher \union ending.stopper : sub[s].pc # "unborn"
  /\ \A s \in Subs, k \in Keys : Ordered(sub[s], k, pending[k], copy[s][k], appliedRev)

Copied == copy \in [Subs -> [Keys -> [op : {"none", "unknown", "upsert", "poison", "delete"},
                                      rev : Revs]]]

\* SnapshotExact, in terms of the layers.
Matches(d, h) == d.op # "unknown" => d.op = h.op /\ (d.op # "delete" => d.rev = h.rev)
Exact ==
  vstate = "live" =>
    \A s \in subs, k \in Keys :
      ~sub[s].done => Matches(Last(sub[s], k, pending[k], copy[s][k]), Held(k))

\* The inductive invariant.
IInv == Stored /\ Watched /\ Projected /\ Tasks /\ Lifecycle /\ Copied /\ Subscribed /\ Exact

-----------------------------------------------------------------------------
(* Which steps change which variables.                                     *)

\* A step of a subscription, by the part of it that changes.
LEMMA SubFrame ==
  ASSUME NEW s \in Subs, SubNext(s)
  PROVE  /\ UNCHANGED <<bucket, lastRev, watch, watchOpen, vstate, cancelled, starter, watcher,
                        ticker, stopper, entries, poisoned, seq, appliedRev, seen, pending>>
         /\ UNCHANGED copy \/ Receive(s) \/ \E b \in BOOLEAN : Attach(s, b)
  <1> USE DEF bucketVars, tasks, projection
  <1>1. CASE \E b \in BOOLEAN : Attach(s, b)
    BY <1>1, Zenon DEF Attach
  <1>2. CASE RunNext(s)
    BY <1>2, Zenon DEF RunNext, RunWakes, Take, RunSends, RunEnds, RunDetaches, RunDetached, SubStep
  <1>3. CASE CancelSub(s) \/ Unsubscribe(s) \/ Unsubscribed(s) \/ Receive(s)
    BY <1>3, Zenon DEF CancelSub, Unsubscribe, Unsubscribed, Receive, SubStep
  <1>4. CASE FailTerminates(s) \/ StopTerminates(s)
    BY <1>4, Zenon DEF FailTerminates, StopTerminates
  <1> QED
    BY <1>1, <1>2, <1>3, <1>4 DEF SubNext

\* Every step, by the variables it may change.
LEMMA Frames ==
  ASSUME [Next]_vars
  PROVE  /\ UNCHANGED <<bucket, lastRev>> \/ \E w \in Writes : Write(w[1], w[2])
         /\ \/ UNCHANGED watch
            \/ \E w \in Writes : Write(w[1], w[2])
            \/ OpenSucceeds \/ ProcessEntry \/ MarkCaughtUp
         /\ UNCHANGED <<seq, appliedRev>> \/ ProcessEntry
         /\ UNCHANGED <<entries, poisoned, seen>> \/ ProcessEntry \/ MarkCaughtUp
         /\ UNCHANGED pending \/ ProcessEntry \/ FailClosed \/ FanOut \/ Stop
         /\ UNCHANGED <<sub, copy>> \/ FanOut \/ \E s \in Subs : SubNext(s)
         /\ UNCHANGED copy \/ \E s \in Subs : Receive(s) \/ \E b \in BOOLEAN : Attach(s, b)
         /\ UNCHANGED starter \/ Start \/ starter' = "done" \/ OpenSucceeds
         /\ watchOpen' = "open" => watchOpen = "open" \/ OpenSucceeds
  <1> USE DEF bucketVars, tasks, projection
  <1>1. CASE \E w \in Writes : Write(w[1], w[2])
    BY <1>1, Zenon DEF Write
  <1>2. CASE LoseWatch \/ CancelStart \/ Start
    BY <1>2, Zenon DEF LoseWatch, CancelStart, Start
  <1>3. CASE StarterNext
    BY <1>3, Zenon DEF StarterNext, OpenFails, OpenSucceeds, AdmitWatcher
  <1>4. CASE WatcherNext
    BY <1>4, Zenon DEF WatcherNext, ProcessEntry, MarkCaughtUp, FailClosed, WatcherExits
  <1>5. CASE FanOut \/ TickerExits
    BY <1>5, Zenon DEF FanOut, TickerExits
  <1>6. CASE Stop \/ StopperNext
    BY <1>6, Zenon DEF Stop, StopperNext, StopCancels, StopReturns
  <1>7. CASE \E s \in Subs : SubNext(s)
    BY <1>7, SubFrame, Zenon
  <1>8. CASE UNCHANGED vars
    BY <1>8, Zenon DEF vars
  <1> QED
    BY <1>1, <1>2, <1>3, <1>4, <1>5, <1>6, <1>7, <1>8 DEF Next

-----------------------------------------------------------------------------
(* The bucket and the watch.                                               *)

\* Revisions are given out once.
LEMMA StoredStep == ASSUME ViewAssumption, Stored, [Next]_vars PROVE Stored'
  <1>1. CASE UNCHANGED <<bucket, lastRev>>
    BY <1>1 DEF Stored
  <1>2. CASE \E w \in Writes : Write(w[1], w[2])
    <2> PICK k \in Keys, kind \in Kinds : Write(k, kind)
      BY <1>2 DEF ViewAssumption
    <2>1. bucket' = [bucket EXCEPT ![k] = [kind |-> kind, rev |-> lastRev + 1]]
          /\ lastRev' = lastRev + 1 /\ lastRev < MaxRev /\ MaxRev \in Nat
      BY DEF Write, ViewAssumption
    <2>2. bucket' \in [Keys -> [kind : Kinds, rev : Revs]] /\ lastRev' \in Revs
      BY <2>1 DEF Stored, Revs
    <2>3. \A j \in Keys : bucket'[j].rev = IF j = k THEN lastRev + 1 ELSE bucket[j].rev
      BY <2>1 DEF Stored
    <2> QED
      BY <2>1, <2>2, <2>3 DEF Stored, Revs
  <1> QED
    BY <1>1, <1>2, Frames

\* The place of a key among the written ones, by revision.
Written == {k \in Keys : bucket[k].rev > 0}
Rank(k) == Cardinality({j \in Written : bucket[j].rev <= bucket[k].rev})
Nth(n) == CHOOSE k \in Written : Rank(k) = n

\* Ranks are those of an enumeration in the order of revisions.
LEMMA RankOrder ==
  ASSUME ViewAssumption, Stored
  PROVE  /\ IsFiniteSet(Written) /\ Cardinality(Written) \in Nat
         /\ \A k \in Written : Rank(k) \in 1..Cardinality(Written)
         /\ \A j, k \in Written : Rank(j) < Rank(k) => bucket[j].rev < bucket[k].rev
         /\ \A n \in 1..Cardinality(Written) : Nth(n) \in Written /\ Rank(Nth(n)) = n
  <1> DEFINE Below(k) == {j \in Written : bucket[j].rev <= bucket[k].rev}
             N == Cardinality(Written)
  <1>0. \A k \in Written : k \in Keys /\ bucket[k].rev \in Nat /\ bucket[k].rev > 0
    BY DEF Written, Stored, Revs
  <1>1. IsFiniteSet(Written) /\ N \in Nat
    BY FS_Subset, FS_CardinalityType DEF ViewAssumption, Written
  <1>2. \A k \in Written : IsFiniteSet(Below(k)) /\ Rank(k) \in Nat /\ Rank(k) <= N
    BY <1>1, FS_Subset, FS_CardinalityType DEF Rank
  <1>r. \A k \in Written : Rank(k) \in Nat /\ Rank(k) <= N
    BY <1>2
  <1>3. ASSUME NEW k \in Written PROVE Rank(k) \in 1..N
    <2>1. Below(k) # {}
      BY <1>0, <1>3
    <2>2. Rank(k) # 0
      BY <2>1, <1>2, <1>3, FS_EmptySet DEF Rank
    <2> HIDE DEF N
    <2> QED
      BY <2>2, <1>r, <1>3, <1>1
  <1>4. ASSUME NEW j \in Written, NEW k \in Written, bucket[j].rev < bucket[k].rev
        PROVE  Rank(j) < Rank(k)
    <2>1. Below(j) \in SUBSET Below(k) /\ k \in Below(k) /\ k \notin Below(j)
      BY <1>0, <1>4
    <2>2. Cardinality(Below(j)) <= Cardinality(Below(k))
          /\ Cardinality(Below(j)) # Cardinality(Below(k))
      BY <2>1, <1>2, FS_Subset
    <2> QED
      BY <2>2, <1>2 DEF Rank
  <1>5. \A j, k \in Written : j # k => bucket[j].rev # bucket[k].rev
    BY <1>0 DEF Stored
  <1>6. \A j, k \in Written : j # k => Rank(j) # Rank(k)
    BY <1>0, <1>r, <1>4, <1>5
  <1>7. \A j, k \in Written : Rank(j) < Rank(k) => bucket[j].rev < bucket[k].rev
    BY <1>0, <1>r, <1>4, <1>5
  <1> DEFINE f == [k \in Written |-> Rank(k)]
  <1>8. f \in Injection(Written, 1..N)
    <2> HIDE DEF N
    <2>1. f \in [Written -> 1..N]
      BY <1>3
    <2>2. \A j, k \in Written : f[j] = f[k] => j = k
      BY <1>6
    <2> QED
      BY <2>1, <2>2, Fun_IsInj
  <1>9. f \in Surjection(Written, 1..N)
    BY <1>8, <1>1, FS_Injection, FS_Interval
  <1>10. \A n \in 1..N : \E k \in Written : Rank(k) = n
    <2> HIDE DEF f
    <2>1. \A n \in 1..N : \E k \in Written : f[k] = n
      BY <1>9, Fun_SurjectionProperties
    <2> QED
      BY <2>1 DEF f
  <1>11. \A n \in 1..N : Nth(n) \in Written /\ Rank(Nth(n)) = n
    BY <1>10 DEF Nth
  <1> QED
    BY <1>1, <1>3, <1>7, <1>11

\* The replay is the written keys in the order of their revisions, then its end.
LEMMA ReplayOrder ==
  ASSUME ViewAssumption, Stored
  PROVE  /\ Replay \in Seq(Updates \union {EndOfReplay})
         /\ \A i \in 1..Len(Replay) : Replay[i] # EndOfReplay => Replay[i].rev \in 1..lastRev
         /\ \A i, j \in 1..Len(Replay) :
              i < j /\ Replay[i] # EndOfReplay /\ Replay[j] # EndOfReplay
                => Replay[i].rev < Replay[j].rev
  <1> DEFINE N == Cardinality(Written)
             U == Updates \union {EndOfReplay}
             body == [n \in 1..N |-> Entry(Nth(n), bucket[Nth(n)])]
  <1>1. Replay = body \o <<EndOfReplay>>
    BY DEF Replay, Written, Nth, Rank
  <1>2. /\ N \in Nat
        /\ \A n \in 1..N : Nth(n) \in Written /\ Rank(Nth(n)) = n
        /\ \A j, k \in Written : Rank(j) < Rank(k) => bucket[j].rev < bucket[k].rev
    BY RankOrder
  <1> HIDE DEF N
  <1>3. \A k \in Written : k \in Keys /\ bucket[k].kind \in Kinds
                           /\ bucket[k].rev \in 1..lastRev /\ bucket[k].rev \in 1..MaxRev
    BY DEF Written, Stored, Revs, ViewAssumption
  <1>4. \A n \in 1..N : body[n] \in Updates /\ body[n].rev \in 1..lastRev
                        /\ body[n].rev = bucket[Nth(n)].rev
    BY <1>2, <1>3 DEF Entry, Updates
  <1>5. \A m, n \in 1..N : m < n => body[m].rev < body[n].rev
    BY <1>2, <1>4
  <1>6. body \in Seq(U) /\ Len(body) = N /\ <<EndOfReplay>> \in Seq(U) /\ Len(<<EndOfReplay>>) = 1
    <2>1. body \in [1..N -> U]
      BY <1>4
    <2> QED
      BY <2>1, <1>2, IsASeq, LenProperties
  <1> HIDE DEF body, U
  <1>7. /\ Replay \in Seq(U) /\ Len(Replay) = N + 1
        /\ \A i \in 1..(N + 1) : Replay[i] = IF i <= N THEN body[i] ELSE EndOfReplay
    <2>1. /\ body \o <<EndOfReplay>> \in Seq(U)
          /\ Len(body \o <<EndOfReplay>>) = N + 1
          /\ \A i \in 1..(N + 1) : (body \o <<EndOfReplay>>)[i]
                                     = IF i <= N THEN body[i] ELSE <<EndOfReplay>>[i - N]
      BY <1>6, ConcatProperties
    <2>2. \A i \in 1..(N + 1) : ~(i <= N) => i - N = 1
      BY <1>2
    <2> QED
      BY <2>1, <2>2, <1>1
  <1>8. \A i \in 1..Len(Replay) : Replay[i] # EndOfReplay => i \in 1..N /\ Replay[i] = body[i]
    BY <1>7, <1>2
  <1> QED
    BY <1>8, <1>4, <1>5, <1>7 DEF U

\* The watch stays in order: a write is newer than all before it, and what the
\* watcher reads is the oldest.
LEMMA WatchedStep ==
  ASSUME ViewAssumption, Stored, Watched, Projected, Lifecycle, [Next]_vars
  PROVE  Watched'
  <1> DEFINE U == Updates \union {EndOfReplay}
  <1>0. /\ watch \in Seq(U) /\ lastRev \in Nat /\ appliedRev \in Nat /\ appliedRev <= lastRev
        /\ MaxRev \in Nat /\ \A e \in Updates : e.rev \in 1..MaxRev /\ e # EndOfReplay
    BY DEF Watched, Stored, Projected, Revs, ViewAssumption, Updates, EndOfReplay
  <1>1. CASE \E w \in Writes : Write(w[1], w[2])
    <2> PICK k \in Keys, kind \in Kinds : Write(k, kind)
      BY <1>1 DEF ViewAssumption
    <2> DEFINE e == [key |-> k, kind |-> kind, rev |-> lastRev + 1]
    <2>1. /\ lastRev' = lastRev + 1 /\ lastRev < MaxRev
          /\ appliedRev' = appliedRev /\ starter' = starter
          /\ bucket' = [bucket EXCEPT ![k] = [kind |-> kind, rev |-> lastRev + 1]]
          /\ watch' = IF watchOpen = "open" THEN Append(watch, Entry(k, bucket'[k])) ELSE watch
          /\ watchOpen = "open" => starter \notin {"idle", "opening"}
      BY Zenon DEF Write, projection, tasks, Watched
    <2>2. e \in Updates /\ Entry(k, bucket'[k]) = e
      BY <2>1, <1>0 DEF Updates, Entry, Stored
    <2>3. CASE watchOpen # "open"
      <3>1. \A i \in 1..Len(watch) : watch[i] # EndOfReplay => watch[i].rev \in Nat
        BY <1>0, ElementOfSeq
      <3>2. \A i \in 1..Len(watch) : watch[i] # EndOfReplay => watch[i].rev <= lastRev + 1
        BY <1>0, <3>1 DEF Watched
      <3>3. UNCHANGED <<watch, watchOpen>>
        BY <2>1, <2>3 DEF Write
      <3> QED
        BY <2>1, <3>2, <3>3, Zenon DEF Watched
    <2>4. CASE watchOpen = "open"
      <3> HIDE DEF e
      <3>1. watch' = Append(watch, e) /\ watch' \in Seq(U) /\ Len(watch') = Len(watch) + 1
            /\ Len(watch) \in Nat /\ watch'[Len(watch) + 1] = e
            /\ \A i \in 1..Len(watch) : watch'[i] = watch[i]
        BY <2>1, <2>2, <2>4, <1>0, AppendProperties, LenProperties
      <3>2. e.rev = lastRev + 1
        BY DEF e
      <3>3. \A i \in 1..Len(watch') : watch'[i] # EndOfReplay
                                        => appliedRev' < watch'[i].rev /\ watch'[i].rev <= lastRev'
        <4> TAKE i \in 1..Len(watch')
        <4>1. CASE i = Len(watch) + 1
          BY <4>1, <3>1, <3>2, <2>1, <1>0
        <4>2. CASE i \in 1..Len(watch)
          <5>1. watch[i] \in U /\ watch'[i] = watch[i]
            BY <4>2, <3>1, <1>0, ElementOfSeq
          <5> QED
            BY <5>1, <4>2, <2>1, <1>0 DEF Watched
        <4> QED
          BY <4>1, <4>2, <3>1
      <3>4. \A i, j \in 1..Len(watch') :
              i < j /\ watch'[i] # EndOfReplay /\ watch'[j] # EndOfReplay
                => watch'[i].rev < watch'[j].rev
        <4> SUFFICES ASSUME NEW i \in 1..Len(watch'), NEW j \in 1..Len(watch'), i < j,
                            watch'[i] # EndOfReplay, watch'[j] # EndOfReplay
                     PROVE  watch'[i].rev < watch'[j].rev
          OBVIOUS
        <4>1. i \in 1..Len(watch) /\ watch'[i] = watch[i] /\ watch[i] \in U
          BY <3>1, <1>0, ElementOfSeq
        <4>2. CASE j = Len(watch) + 1
          BY <4>1, <4>2, <3>1, <3>2, <1>0 DEF Watched
        <4>3. CASE j \in 1..Len(watch)
          BY <4>1, <4>3, <3>1 DEF Watched
        <4> QED
          BY <4>2, <4>3, <3>1
      <3> QED
        BY <3>1, <3>3, <3>4, <2>1, <2>4 DEF Watched
    <2> QED
      BY <2>3, <2>4
  <1>2. CASE OpenSucceeds
    <2>1. /\ watch' = Replay /\ lastRev' = lastRev /\ appliedRev' = 0 /\ starter' = "opened"
      BY <1>2 DEF OpenSucceeds, Watched, projection, bucketVars
    <2>2. \A i \in 1..Len(Replay) : Replay[i] # EndOfReplay => 0 < Replay[i].rev /\ Replay[i].rev <= lastRev
      BY ReplayOrder, <1>0
    <2> QED
      BY <2>1, <2>2, ReplayOrder DEF Watched
  <1>3. ASSUME watch # <<>>, watch' = Tail(watch), lastRev' = lastRev, starter' = starter,
               watchOpen' = watchOpen,
               appliedRev' = appliedRev \/ (Head(watch) # EndOfReplay /\ appliedRev' = Head(watch).rev)
        PROVE  Watched'
    <2>1. /\ Head(watch) = watch[1] /\ Tail(watch) \in Seq(U) /\ Len(Tail(watch)) = Len(watch) - 1
          /\ \A i \in 1..Len(Tail(watch)) : Tail(watch)[i] = watch[i + 1]
          /\ Len(watch) \in Nat /\ Len(watch) > 0
      BY <1>3, <1>0, HeadTailProperties, EmptySeq, LenProperties
    <2>2. \A i \in 1..Len(watch') : i + 1 \in 1..Len(watch) /\ watch'[i] = watch[i + 1]
      BY <2>1, <1>3
    <2>3. \A i \in 1..Len(watch') : watch'[i] # EndOfReplay
                                      => appliedRev' < watch'[i].rev /\ watch'[i].rev <= lastRev'
      BY <2>1, <2>2, <1>3, <1>0 DEF Watched
    <2>4. \A i, j \in 1..Len(watch') :
            i < j /\ watch'[i] # EndOfReplay /\ watch'[j] # EndOfReplay
              => watch'[i].rev < watch'[j].rev
      BY <2>1, <2>2 DEF Watched
    <2> QED
      BY <2>1, <2>3, <2>4, <1>3, <1>0 DEF Watched
  <1>4. CASE ProcessEntry
    <2>1. /\ watch # <<>> /\ watch' = Tail(watch) /\ lastRev' = lastRev /\ starter' = starter
          /\ watchOpen' = watchOpen /\ Head(watch) # EndOfReplay
          /\ appliedRev' = IF Head(watch).rev > appliedRev THEN Head(watch).rev ELSE appliedRev
      BY <1>4 DEF ProcessEntry, ApplySkip, Apply, bucketVars, tasks
    <2>2. appliedRev' = appliedRev \/ (Head(watch) # EndOfReplay /\ appliedRev' = Head(watch).rev)
      BY <2>1, Zenon
    <2> QED
      BY <2>1, <2>2, <1>3, Zenon
  <1>5. CASE MarkCaughtUp
    BY <1>5, <1>3, Zenon DEF MarkCaughtUp, bucketVars, tasks
  <1>6. CASE UNCHANGED watch /\ ~ProcessEntry /\ ~OpenSucceeds /\ ~\E w \in Writes : Write(w[1], w[2])
    <2>1. UNCHANGED <<watch, appliedRev, lastRev>>
      BY <1>6, Frames
    <2>2. /\ starter' \in {"idle", "opening"} => starter \in {"idle", "opening"}
          /\ watchOpen' = "open" => watchOpen = "open"
      BY <1>6, Frames DEF Start, Lifecycle
    <2> QED
      BY <2>1, <2>2 DEF Watched
  <1> QED
    BY <1>1, <1>2, <1>4, <1>5, <1>6, Frames

-----------------------------------------------------------------------------
(* The projection and its window.                                          *)

\* What the watcher does with an update: it is newer than all it applied before,
\* and a live view puts it in the window unless the view never held the key.
LEMMA Processed ==
  ASSUME Watched, Projected, Stored, ViewAssumption, ProcessEntry
  PROVE  \E e \in Updates :
           /\ e.rev > appliedRev /\ e.rev <= lastRev
           /\ seq' = seq + 1 /\ appliedRev' = e.rev
           /\ entries' = [entries EXCEPT ![e.key] = IF e.kind = "keep" THEN e.rev ELSE 0]
           /\ poisoned' = [poisoned EXCEPT ![e.key] = IF e.kind = "bad" THEN e.rev ELSE 0]
           /\ seen' \subseteq Keys
           /\ \/ /\ pending' = pending
                 /\ vstate = "live" => /\ entries[e.key] = 0 /\ poisoned[e.key] = 0
                                       /\ e.kind = "skip"
              \/ pending' = [pending EXCEPT ![e.key] =
                               [delta |-> Delta(OpOf(e.kind), e.rev), seq |-> seq + 1]]
  <1>1. PICK e : e = Head(watch)
    OBVIOUS
  <1>2. e \in Updates /\ e.key \in Keys
    BY <1>1, HeadTailProperties DEF ProcessEntry, Watched, Updates
  <1>3. e.rev > appliedRev /\ e.rev <= lastRev
    <2>1. Head(watch) = watch[1] /\ 1 \in 1..Len(watch)
      BY EmptySeq DEF ProcessEntry, Watched
    <2>2. appliedRev \in Nat /\ e.rev \in Nat
      BY <1>2 DEF Projected, Revs, ViewAssumption, Updates
    <2> QED
      BY <2>1, <2>2, <1>1 DEF Watched, ProcessEntry
  <1>4. CASE e.kind = "skip"
    <2>1. ApplySkip(e)
      BY <1>1, <1>4 DEF ProcessEntry
    <2>2. OpOf(e.kind) = "delete" /\ ~(entries[e.key] > 0) /\ ~(poisoned[e.key] > 0)
            => entries[e.key] = 0 /\ poisoned[e.key] = 0
      BY <1>2 DEF Projected, Revs, ViewAssumption
    <2>3. OpOf(e.kind) = "delete"
      BY <1>4 DEF OpOf
    <2>4. /\ seq' = seq + 1 /\ appliedRev' = e.rev /\ seen' \subseteq Keys
          /\ entries' = [entries EXCEPT ![e.key] = 0] /\ poisoned' = [poisoned EXCEPT ![e.key] = 0]
      BY <2>1, <1>3 DEF ApplySkip, Projected
    <2>5. \/ /\ pending' = pending
             /\ vstate = "live" => ~(entries[e.key] > 0) /\ ~(poisoned[e.key] > 0)
          \/ pending' = [pending EXCEPT ![e.key] = [delta |-> Delta("delete", e.rev), seq |-> seq + 1]]
      BY <2>1, Zenon DEF ApplySkip
    <2> QED
      BY <2>2, <2>3, <2>4, <2>5, <1>2, <1>3, <1>4, Zenon
  <1>5. CASE e.kind # "skip"
    <2>1. Apply(e)
      BY <1>1, <1>5 DEF ProcessEntry
    <2>2. /\ seq' = seq + 1 /\ appliedRev' = e.rev /\ seen' \subseteq Keys
      BY <2>1, <1>2, <1>3 DEF Apply, Projected
    <2>3. /\ entries' = [entries EXCEPT ![e.key] = IF e.kind = "keep" THEN e.rev ELSE 0]
          /\ poisoned' = [poisoned EXCEPT ![e.key] = IF e.kind = "bad" THEN e.rev ELSE 0]
          /\ \/ pending' = pending /\ vstate # "live"
             \/ pending' = [pending EXCEPT ![e.key] =
                              [delta |-> Delta(OpOf(e.kind), e.rev), seq |-> seq + 1]]
      BY <2>1, Zenon DEF Apply
    <2> QED
      BY <2>2, <2>3, <1>2, <1>3, Zenon
  <1> QED
    BY <1>4, <1>5

\* A delta of the window names the write it comes from.
LEMMA UpdateDelta ==
  ASSUME NEW e \in Updates
  PROVE  /\ Delta(OpOf(e.kind), e.rev) \in Deltas /\ Delta(OpOf(e.kind), e.rev).rev = e.rev
         /\ Delta(OpOf(e.kind), e.rev).op = OpOf(e.kind)
         /\ OpOf(e.kind) = IF e.kind = "keep" THEN "upsert" ELSE IF e.kind = "bad" THEN "poison" ELSE "delete"
  BY DEF Updates, Kinds, Delta, OpOf, Deltas

\* The projection and the window hold what was applied, also when the window is
\* cleared and when the view becomes live.
LEMMA ProjectedStep ==
  ASSUME ViewAssumption, Stored, Watched, Projected, [Next]_vars
  PROVE  Projected'
  <1>0. MaxRev \in Nat /\ lastRev \in Nat /\ lastRev' \in Nat /\ lastRev <= lastRev'
        /\ lastRev \in Revs /\ lastRev' \in Revs
    <2>1. Stored'
      BY StoredStep
    <2>2. lastRev' = lastRev \/ lastRev' = lastRev + 1
      BY Frames DEF Write
    <2> QED
      BY <2>1, <2>2 DEF Stored, ViewAssumption, Revs
  <1>1. CASE ProcessEntry
    <2> PICK e \in Updates :
           /\ e.rev > appliedRev /\ e.rev <= lastRev
           /\ seq' = seq + 1 /\ appliedRev' = e.rev
           /\ entries' = [entries EXCEPT ![e.key] = IF e.kind = "keep" THEN e.rev ELSE 0]
           /\ poisoned' = [poisoned EXCEPT ![e.key] = IF e.kind = "bad" THEN e.rev ELSE 0]
           /\ seen' \subseteq Keys
           /\ \/ /\ pending' = pending
                 /\ vstate = "live" => /\ entries[e.key] = 0 /\ poisoned[e.key] = 0
                                       /\ e.kind = "skip"
              \/ pending' = [pending EXCEPT ![e.key] =
                               [delta |-> Delta(OpOf(e.kind), e.rev), seq |-> seq + 1]]
      BY <1>1, Processed
    <2>0. e.key \in Keys /\ e.rev \in 1..MaxRev /\ lastRev' = lastRev
      BY <1>1 DEF Updates, ProcessEntry, bucketVars
    <2>1. /\ entries' \in [Keys -> Revs] /\ poisoned' \in [Keys -> Revs] /\ seen' \subseteq Keys
          /\ seq' \in Nat /\ appliedRev' \in Revs /\ appliedRev' <= lastRev'
      BY <2>0, <1>0 DEF Projected, Revs
    <2>2. \A k \in Keys : entries'[k] <= appliedRev' /\ poisoned'[k] <= appliedRev'
      BY <2>0, <1>0 DEF Projected, Revs
    <2>3. CASE pending' = pending
      <3>1. \A k \in Keys : pending[k].seq <= seq + 1
        BY DEF Projected
      <3>2. \A k \in Keys : pending[k] # NoOp => pending[k].delta.rev <= e.rev
        BY <1>0, <2>0 DEF Projected, Deltas, Revs
      <3> QED
        BY <2>1, <2>2, <2>3, <3>1, <3>2 DEF Projected
    <2>4. CASE pending' = [pending EXCEPT ![e.key] =
                             [delta |-> Delta(OpOf(e.kind), e.rev), seq |-> seq + 1]]
      <3> DEFINE d == Delta(OpOf(e.kind), e.rev)
      <3>0. d \in Deltas /\ d.rev = e.rev /\ seq + 1 \in Nat /\ seq + 1 # 0
        BY UpdateDelta DEF Projected
      <3> HIDE DEF d
      <3>1. pending' \in [Keys -> [delta : Deltas \union {NoDelta}, seq : Nat]]
        BY <2>4, <2>0, <3>0 DEF Projected, d
      <3>2. \A k \in Keys : pending'[k] = IF k = e.key THEN [delta |-> d, seq |-> seq + 1] ELSE pending[k]
        BY <2>4 DEF Projected, d
      <3>3. \A k \in Keys : pending'[k].seq <= seq'
        BY <3>2 DEF Projected
      <3>4. \A k \in Keys : pending'[k] # NoOp => pending'[k].delta \in Deltas /\ pending'[k].seq # 0
                                                  /\ pending'[k].delta.rev <= appliedRev'
        BY <3>0, <3>2, <1>0, <2>0 DEF Projected, Deltas, Revs
      <3> QED
        BY <2>1, <2>2, <3>1, <3>3, <3>4 DEF Projected
    <2> QED
      BY <2>3, <2>4
  <1>2. ASSUME UNCHANGED <<seq, appliedRev>>,
               entries' \in [Keys -> Revs], poisoned' \in [Keys -> Revs], seen' \subseteq Keys,
               \A k \in Keys : entries'[k] \in {0, entries[k]} /\ poisoned'[k] \in {0, poisoned[k]},
               pending' = pending \/ pending' = [k \in Keys |-> NoOp]
        PROVE  Projected'
    <2>1. appliedRev' <= lastRev'
      BY <1>0, <1>2 DEF Projected, Revs
    <2>2. \A k \in Keys : entries'[k] <= appliedRev' /\ poisoned'[k] <= appliedRev'
      BY <1>0, <1>2 DEF Projected, Revs
    <2>3. pending' \in [Keys -> [delta : Deltas \union {NoDelta}, seq : Nat]]
          /\ \A k \in Keys : pending'[k] = pending[k] \/ pending'[k] = NoOp
      BY <1>2 DEF Projected, NoOp
    <2>4. \A k \in Keys : pending'[k].seq <= seq
      BY <2>3 DEF Projected, NoOp
    <2> QED
      BY <1>2, <2>1, <2>2, <2>3, <2>4 DEF Projected
  <1>3. CASE MarkCaughtUp
    <2>1. /\ UNCHANGED <<seq, appliedRev, pending>> /\ seen' = {}
          /\ \/ UNCHANGED <<entries, poisoned>>
             \/ /\ entries' = [k \in Keys |-> IF k \in seen THEN entries[k] ELSE 0]
                /\ poisoned' = [k \in Keys |-> IF k \in seen THEN poisoned[k] ELSE 0]
      BY <1>3, Zenon DEF MarkCaughtUp
    <2>2. entries' \in [Keys -> Revs] /\ poisoned' \in [Keys -> Revs]
          /\ \A k \in Keys : entries'[k] \in {0, entries[k]} /\ poisoned'[k] \in {0, poisoned[k]}
      BY <2>1, <1>0 DEF Projected, Revs
    <2> QED
      BY <1>2, <2>1, <2>2
  <1>4. CASE ~ProcessEntry /\ ~MarkCaughtUp
    <2>1. UNCHANGED <<seq, appliedRev, entries, poisoned, seen>>
      BY <1>4, Frames
    <2>2. pending' = pending \/ pending' = [k \in Keys |-> NoOp]
      BY <1>4, Frames, Zenon DEF FailClosed, FanOut, Stop
    <2> QED
      BY <2>1, <2>2, <1>2 DEF Projected
  <1> QED
    BY <1>1, <1>3, <1>4

-----------------------------------------------------------------------------
(* The subscription objects.                                               *)

\* The values the subscription's record may take, field by field.
LEMMA SubFields ==
  ASSUME NEW x \in SubStates
  PROVE  /\ x.pc \in {"unborn", "select", "taking", "sending", "detaching", "exited"}
         /\ x.attachSeq \in Nat /\ x.pending \in [Keys -> Deltas \union {NoDelta}]
         /\ x.notify \in BOOLEAN /\ x.batch \in Batches /\ x.deltas \in Seq(Batches)
         /\ x.done \in BOOLEAN /\ x.err \in Causes /\ x.ctx \in BOOLEAN /\ x.detacher \in BOOLEAN
  BY DEF SubStates

\* Terminating a subscription clears its buffer and records the cause, once.
LEMMA TerminatedTyped ==
  ASSUME NEW s \in Subs, sub \in [Subs -> SubStates], NEW cause \in Causes \ {"none"}
  PROVE  /\ Terminated(s, cause) \in SubStates
         /\ Terminated(s, cause).done
         /\ sub[s].done \/ Terminated(s, cause).err # "none"
         /\ Terminated(s, cause).pc = sub[s].pc /\ Terminated(s, cause).attachSeq = sub[s].attachSeq
         /\ Terminated(s, cause).batch = sub[s].batch /\ Terminated(s, cause).deltas = sub[s].deltas
         /\ \A k \in Keys : Terminated(s, cause).pending[k] \in {sub[s].pending[k], NoDelta}
         /\ sub[s].done => Terminated(s, cause) = sub[s]
  <1>1. CASE sub[s].done
    BY <1>1, SubFields DEF Terminated
  <1>2. CASE ~sub[s].done
    <2>1. Terminated(s, cause) = [sub[s] EXCEPT !.done = TRUE, !.err = cause,
                                                !.pending = [k \in Keys |-> NoDelta]]
      BY <1>2 DEF Terminated
    <2>0. sub[s] \in SubStates
      OBVIOUS
    <2>2. PICK t : t = Terminated(s, cause)
      OBVIOUS
    <2>3. t \in SubStates
      <3>1. [k \in Keys |-> NoDelta] \in [Keys -> Deltas \union {NoDelta}] /\ cause \in Causes
        OBVIOUS
      <3> QED
        BY <2>0, <2>1, <2>2, <3>1 DEF SubStates
    <2>4. /\ t.done = TRUE /\ t.err = cause /\ t.pc = sub[s].pc /\ t.attachSeq = sub[s].attachSeq
          /\ t.batch = sub[s].batch /\ t.deltas = sub[s].deltas
          /\ t.pending = [k \in Keys |-> NoDelta]
      BY <2>0, <2>1, <2>2 DEF SubStates
    <2> QED
      BY <1>2, <2>2, <2>3, <2>4
  <1> QED
    BY <1>1, <1>2

\* A batch takes the buffered deltas, one per key.
LEMMA TakenBatch ==
  ASSUME NEW p \in [Keys -> Deltas \union {NoDelta}]
  PROVE  LET b == {<<k, p[k]>> : k \in {j \in Keys : p[j] # NoDelta}}
         IN  b \in Batches /\ Once(b) /\ \A k \in Keys : Batched(k, b) = {p[k]} \ {NoDelta}
  <1> DEFINE b == {<<k, p[k]>> : k \in {j \in Keys : p[j] # NoDelta}}
  <1>1. b \in Batches /\ Once(b)
    BY DEF Batches, Once
  <1>2. ASSUME NEW k \in Keys PROVE Batched(k, b) = {p[k]} \ {NoDelta}
    <2>1. \A d : d \in Batched(k, b) => d = p[k] /\ d # NoDelta
      BY DEF Batched
    <2>2. p[k] # NoDelta => <<k, p[k]>> \in b /\ <<k, p[k]>>[1] = k /\ <<k, p[k]>>[2] = p[k]
      BY <1>2
    <2>3. p[k] # NoDelta => p[k] \in Batched(k, b)
      BY <2>2 DEF Batched
    <2> QED
      BY <2>1, <2>3
  <1> QED
    BY <1>1, <1>2

\* A fan-out to a subscriber that is not done, layer by layer.
LEMMA EnqueuedTyped ==
  ASSUME NEW s \in Subs, sub \in [Subs -> SubStates], Projected
  PROVE  /\ Enqueued(s) \in SubStates
         /\ sub[s].done => Enqueued(s) = sub[s]
         /\ Enqueued(s).pc = sub[s].pc /\ Enqueued(s).done = sub[s].done
         /\ Enqueued(s).err = sub[s].err
         /\ Enqueued(s).attachSeq = sub[s].attachSeq /\ Enqueued(s).batch = sub[s].batch
         /\ Enqueued(s).deltas = sub[s].deltas
         /\ ~sub[s].done =>
              \A k \in Keys : Enqueued(s).pending[k] =
                IF pending[k].seq > sub[s].attachSeq THEN pending[k].delta ELSE sub[s].pending[k]
  <1>1. CASE sub[s].done
    BY <1>1, SubFields DEF Enqueued
  <1>2. CASE ~sub[s].done
    <2> DEFINE new == {k \in Keys : pending[k] # NoOp /\ pending[k].seq > sub[s].attachSeq}
               p == [k \in Keys |-> IF k \in new THEN pending[k].delta ELSE sub[s].pending[k]]
    <2>0. sub[s] \in SubStates /\ sub[s].attachSeq \in Nat
          /\ sub[s].pending \in [Keys -> Deltas \union {NoDelta}] /\ sub[s].notify \in BOOLEAN
      BY SubFields
    <2>1. Enqueued(s) = [sub[s] EXCEPT !.pending = p, !.notify = sub[s].notify \/ new # {}]
      BY <1>2, <2>0 DEF Enqueued, SubStates
    <2>2. p \in [Keys -> Deltas \union {NoDelta}]
      BY <2>0 DEF Projected
    <2>3. \A k \in Keys : p[k] = IF pending[k].seq > sub[s].attachSeq THEN pending[k].delta
                                 ELSE sub[s].pending[k]
      BY <2>0 DEF NoOp
    <2>4. (sub[s].notify \/ new # {}) \in BOOLEAN
      BY <2>0
    <2> HIDE DEF new, p
    <2> QED
      BY <1>2, <2>0, <2>1, <2>2, <2>3, <2>4 DEF SubStates
  <1> QED
    BY <1>1, <1>2

-----------------------------------------------------------------------------
(* Order and the last delta, as the deltas move from layer to layer.       *)

\* An operation of the window, or none.
Op(w) == /\ w \in [delta : Deltas \union {NoDelta}, seq : Nat]
         /\ w # NoOp => w.delta \in Deltas

\* The layers hold deltas.
LEMMA LayerTypes ==
  ASSUME ViewAssumption, NEW x \in SubStates, NEW n, WellFormed(x, n), NEW k \in Keys, NEW w, Op(w)
  PROVE  /\ SentOf(x, k) \subseteq Deltas /\ HandOf(x, k) \subseteq Deltas
         /\ BufferOf(x, k) \subseteq Deltas /\ WindowOf(x, w) \subseteq Deltas
         /\ \A d \in Deltas : d.rev \in Nat
  <1>1. \A b \in Batches : Batched(k, b) \subseteq Deltas
    BY DEF Batches, Batched
  <1>2. HandOf(x, k) \subseteq Deltas
    BY <1>1, SubFields DEF HandOf
  <1>3. SentOf(x, k) \subseteq Deltas
    <2>1. x.deltas # <<>> => Head(x.deltas) \in Batches
      BY SubFields, HeadTailProperties
    <2> QED
      BY <1>1, <2>1 DEF SentOf
  <1>4. BufferOf(x, k) \subseteq Deltas
    BY SubFields DEF BufferOf
  <1>5. WindowOf(x, w) \subseteq Deltas
    BY SubFields DEF WindowOf, Op, NoOp
  <1>6. \A d \in Deltas : d.rev \in Nat
    BY DEF Deltas, ViewAssumption
  <1> QED
    BY <1>2, <1>3, <1>4, <1>5, <1>6

\* Layers may lose what they hold.
LEMMA OrderSubset ==
  ASSUME NEW c, NEW S, NEW H, NEW B, NEW W, NEW top, InOrder(c, S, H, B, W, top),
         NEW S2 \in SUBSET S, NEW H2 \in SUBSET H, NEW B2 \in SUBSET B, NEW W2 \in SUBSET W
  PROVE  InOrder(c, S2, H2, B2, W2, top)
  BY Zenon DEF InOrder, Newer, Follows

\* The order does not depend on what was applied since.
LEMMA OrderGrows ==
  ASSUME NEW c \in Nat, NEW S \in SUBSET Deltas, NEW H \in SUBSET Deltas, NEW B \in SUBSET Deltas,
         NEW W \in SUBSET Deltas, NEW top \in Nat, NEW more \in Nat, top <= more,
         InOrder(c, S, H, B, W, top), \A d \in Deltas : d.rev \in Nat
  PROVE  InOrder(c, S, H, B, W, more)
  <1>1. \A d \in S \union H \union B \union W : d.rev <= more
    BY DEF InOrder
  <1>2. c <= more
    BY DEF InOrder
  <1> QED
    BY <1>1, <1>2 DEF InOrder

\* A newer operation replaces the one of the window.
LEMMA OrderWindow ==
  ASSUME NEW c \in Nat, NEW S \in SUBSET Deltas, NEW H \in SUBSET Deltas, NEW B \in SUBSET Deltas,
         NEW W, NEW top \in Nat, NEW d \in Deltas, top < d.rev,
         InOrder(c, S, H, B, W, top), \A e \in Deltas : e.rev \in Nat
  PROVE  InOrder(c, S, H, B, {d}, d.rev)
  <1>1. \A e \in S \union H \union B : e.rev < d.rev /\ e.rev <= d.rev
    BY DEF InOrder
  <1>2. c < d.rev /\ c <= d.rev /\ d.rev <= d.rev
    BY DEF InOrder
  <1> QED
    BY <1>1, <1>2 DEF InOrder, Newer, Follows

\* The window moves to the buffer, the buffer to the hands, the hands to the channel,
\* and the channel to the subscriber's copy.
LEMMA OrderMoves ==
  ASSUME NEW c, NEW S, NEW H, NEW B, NEW W, NEW top, InOrder(c.rev, S, H, B, W, top)
  PROVE  /\ InOrder(c.rev, S, H, IF W # {} THEN W ELSE B, {}, top)
         /\ InOrder(c.rev, S, H, B, {}, top)
         /\ H = {} => InOrder(c.rev, S, B, {}, W, top)
         /\ S = {} => InOrder(c.rev, H, {}, B, W, top)
         /\ \A d \in S : InOrder(d.rev, {}, H, B, W, top)
  BY DEF InOrder, Newer, Follows

\* None of these moves changes the last delta.
LEMMA LastMoves ==
  ASSUME NEW c, NEW S, NEW H, NEW B, NEW W
  PROVE  /\ LastOf(c, S, H, IF W # {} THEN W ELSE B, {}) = LastOf(c, S, H, B, W)
         /\ H = {} => LastOf(c, S, B, {}, W) = LastOf(c, S, H, B, W)
         /\ S = {} => LastOf(c, H, {}, B, W) = LastOf(c, S, H, B, W)
         /\ \A d : S = {d} => LastOf(d, {}, H, B, W) = LastOf(c, S, H, B, W)
         /\ S = {} => LastOf(c, {}, H, B, W) = LastOf(c, S, H, B, W)
  <1>1. \A d : S = {d} => d = CHOOSE e \in S : TRUE
    OBVIOUS
  <1>2. \A d : S = {d} => LastOf(d, {}, H, B, W) = LastOf(c, S, H, B, W)
    BY <1>1 DEF LastOf
  <1>3. LastOf(c, S, H, IF W # {} THEN W ELSE B, {}) = LastOf(c, S, H, B, W)
    <2>1. W # {} => LastOf(c, S, H, W, {}) = LastOf(c, S, H, B, W)
      BY DEF LastOf
    <2>2. W = {} => LastOf(c, S, H, B, {}) = LastOf(c, S, H, B, W)
      OBVIOUS
    <2> QED
      BY <2>1, <2>2
  <1>4. /\ H = {} => LastOf(c, S, B, {}, W) = LastOf(c, S, H, B, W)
        /\ S = {} => LastOf(c, H, {}, B, W) = LastOf(c, S, H, B, W)
        /\ S = {} => LastOf(c, {}, H, B, W) = LastOf(c, S, H, B, W)
    BY DEF LastOf
  <1> QED
    BY <1>2, <1>3, <1>4

\* A subscription that kept its layers, and one that lost some of them.
LEMMA LayersKept ==
  ASSUME NEW x, NEW y, NEW k, NEW w, NEW c, NEW top,
         y.deltas = x.deltas, y.batch = x.batch, y.pending[k] = x.pending[k],
         y.attachSeq = x.attachSeq
  PROVE  /\ Ordered(y, k, w, c, top) <=> Ordered(x, k, w, c, top)
         /\ Last(y, k, w, c) = Last(x, k, w, c)
  BY DEF Ordered, Last, SentOf, HandOf, BufferOf, WindowOf

LEMMA LayersLost ==
  ASSUME NEW x, NEW y, NEW k, NEW w, NEW c, NEW top, Ordered(x, k, w, c, top),
         y.deltas = x.deltas, y.batch \in {x.batch, {}}, y.pending[k] \in {x.pending[k], NoDelta},
         y.attachSeq = x.attachSeq
  PROVE  Ordered(y, k, w, c, top)
  <1>1. /\ SentOf(y, k) = SentOf(x, k) /\ WindowOf(y, w) = WindowOf(x, w)
        /\ HandOf(y, k) \subseteq HandOf(x, k) /\ BufferOf(y, k) \subseteq BufferOf(x, k)
    BY DEF SentOf, HandOf, BufferOf, WindowOf, Batched
  <1> QED
    BY <1>1, OrderSubset DEF Ordered

\* What a step of the subscription s that is not an attach makes of it: y is the
\* record after the step.
Stepped(s, y) ==
  /\ y \in SubStates /\ sub' = [sub EXCEPT ![s] = y]
  /\ WellFormed(y, seq)
  /\ sub[s].pc # "unborn" /\ y.pc # "unborn"
  /\ sub[s].pc = "exited" => y.pc = "exited"
  /\ copy' \in [Subs -> [Keys -> [op : {"none", "unknown", "upsert", "poison", "delete"}, rev : Revs]]]
  /\ \A t \in Subs \ {s} : copy'[t] = copy[t]
  /\ \A k \in Keys : Ordered(y, k, pending[k], copy'[s][k], appliedRev)
  /\ s \in subs' /\ ~y.done =>
       /\ s \in subs /\ ~sub[s].done
       /\ \A k \in Keys : Last(y, k, pending[k], copy'[s][k]) = Last(sub[s], k, pending[k], copy[s][k])

\* A step that keeps the layers, or ends the subscription and loses some.
LEMMA SteppedAside ==
  ASSUME Subscribed, Copied, NEW s \in Subs, NEW y \in SubStates,
         sub' = [sub EXCEPT ![s] = y], UNCHANGED copy, subs' \subseteq subs,
         WellFormed(y, seq), sub[s].pc # "unborn", y.pc # "unborn",
         sub[s].pc = "exited" => y.pc = "exited",
         y.deltas = sub[s].deltas, y.attachSeq = sub[s].attachSeq,
         \/ y.pending = sub[s].pending /\ y.batch = sub[s].batch /\ y.done = sub[s].done
         \/ /\ y.done \/ s \notin subs'
            /\ y.batch \in {sub[s].batch, {}}
            /\ \A k \in Keys : y.pending[k] \in {sub[s].pending[k], NoDelta}
  PROVE  Stepped(s, y)
  <1>1. ASSUME NEW k \in Keys PROVE Ordered(y, k, pending[k], copy'[s][k], appliedRev)
    <2>1. Ordered(sub[s], k, pending[k], copy[s][k], appliedRev)
      BY DEF Subscribed
    <2>2. y.batch \in {sub[s].batch, {}} /\ y.pending[k] \in {sub[s].pending[k], NoDelta}
      OBVIOUS
    <2> QED
      BY <2>1, <2>2, LayersLost
  <1>2. CASE y.pending = sub[s].pending /\ y.batch = sub[s].batch /\ y.done = sub[s].done
    <2>1. \A k \in Keys : Last(y, k, pending[k], copy'[s][k]) = Last(sub[s], k, pending[k], copy[s][k])
      BY <1>2, LayersKept
    <2> QED
      BY <1>1, <1>2, <2>1 DEF Stepped, Copied
  <1>3. CASE y.done \/ s \notin subs'
    BY <1>1, <1>3 DEF Stepped, Copied
  <1> QED
    BY <1>2, <1>3

\* The delivery goroutine: it wakes, takes the buffer, sends, ends or detaches.
LEMMA RunStepped ==
  ASSUME Subscribed, Copied, NEW s \in Subs, RunNext(s)
  PROVE  \E y : Stepped(s, y)
  <1> DEFINE x == sub[s]
  <1>0. /\ x \in SubStates /\ WellFormed(x, seq) /\ sub \in [Subs -> SubStates]
        /\ \A k \in Keys : Ordered(x, k, pending[k], copy[s][k], appliedRev)
    BY DEF Subscribed
  <1>1. CASE RunWakes(s)
    <2> DEFINE y == [x EXCEPT !.pc = "taking", !.notify = FALSE]
    <2>1. /\ sub' = [sub EXCEPT ![s] = y] /\ UNCHANGED <<copy, subs>> /\ x.pc = "select"
      BY <1>1 DEF RunWakes, SubStep
    <2>2. /\ y \in SubStates /\ y.pc = "taking" /\ y.deltas = x.deltas /\ y.attachSeq = x.attachSeq
          /\ y.pending = x.pending /\ y.batch = x.batch /\ y.done = x.done /\ y.err = x.err
      BY <1>0 DEF SubStates
    <2> HIDE DEF y
    <2>3. WellFormed(y, seq)
      BY <2>1, <2>2, <1>0 DEF WellFormed
    <2> QED
      BY <2>1, <2>2, <2>3, SteppedAside
  <1>2. CASE Take(s) /\ \E k \in Keys : x.pending[k] # NoDelta
    <2> DEFINE b == {<<k, x.pending[k]>> : k \in {j \in Keys : x.pending[j] # NoDelta}}
               y == [x EXCEPT !.pc = "sending", !.pending = [k \in Keys |-> NoDelta], !.batch = b]
    <2>1. sub' = [sub EXCEPT ![s] = y] /\ UNCHANGED <<copy, subs>> /\ x.pc = "taking"
      BY <1>2 DEF Take, SubStep
    <2>2. x.pending \in [Keys -> Deltas \union {NoDelta}]
          /\ [k \in Keys |-> NoDelta] \in [Keys -> Deltas \union {NoDelta}]
      BY <1>0 DEF SubStates
    <2>3. b \in Batches /\ Once(b) /\ \A k \in Keys : Batched(k, b) = {x.pending[k]} \ {NoDelta}
      BY <2>2, TakenBatch
    <2> HIDE DEF b
    <2>4. /\ y \in SubStates /\ y.pc = "sending" /\ y.deltas = x.deltas /\ y.attachSeq = x.attachSeq
          /\ y.pending = [k \in Keys |-> NoDelta] /\ y.batch = b /\ y.done = x.done /\ y.err = x.err
      BY <1>0, <2>2, <2>3 DEF SubStates
    <2> HIDE DEF y
    <2>5. WellFormed(y, seq) /\ x.batch = {}
      BY <2>1, <2>3, <2>4, <1>0 DEF WellFormed
    <2>6. ASSUME NEW k \in Keys
          PROVE  /\ Ordered(y, k, pending[k], copy[s][k], appliedRev)
                 /\ Last(y, k, pending[k], copy[s][k]) = Last(x, k, pending[k], copy[s][k])
      <3>1. /\ SentOf(y, k) = SentOf(x, k) /\ WindowOf(y, pending[k]) = WindowOf(x, pending[k])
            /\ HandOf(x, k) = {} /\ HandOf(y, k) = BufferOf(x, k) /\ BufferOf(y, k) = {}
        BY <2>3, <2>4, <2>5 DEF SentOf, HandOf, BufferOf, WindowOf, Batched
      <3>2. Ordered(x, k, pending[k], copy[s][k], appliedRev)
        BY <1>0
      <3> QED
        BY <3>1, <3>2, OrderMoves, LastMoves DEF Ordered, Last
    <2> QED
      BY <2>1, <2>4, <2>5, <2>6 DEF Stepped, Copied
  <1>3. CASE Take(s) /\ ~\E k \in Keys : x.pending[k] # NoDelta
    <2> DEFINE y == [x EXCEPT !.pc = "select"]
    <2>1. sub' = [sub EXCEPT ![s] = y] /\ UNCHANGED <<copy, subs>> /\ x.pc = "taking"
      BY <1>3 DEF Take, SubStep
    <2>2. /\ y \in SubStates /\ y.pc = "select" /\ y.deltas = x.deltas /\ y.attachSeq = x.attachSeq
          /\ y.pending = x.pending /\ y.batch = x.batch /\ y.done = x.done /\ y.err = x.err
      BY <1>0 DEF SubStates
    <2> HIDE DEF y
    <2>3. WellFormed(y, seq)
      BY <2>1, <2>2, <1>0 DEF WellFormed
    <2> QED
      BY <2>1, <2>2, <2>3, SteppedAside
  <1>4. CASE RunSends(s)
    <2> DEFINE y == [x EXCEPT !.pc = "select", !.batch = {}, !.deltas = <<x.batch>>]
    <2>1. /\ sub' = [sub EXCEPT ![s] = y] /\ UNCHANGED <<copy, subs>>
          /\ x.pc = "sending" /\ x.deltas = <<>>
      BY <1>4 DEF RunSends, SubStep
    <2>2. x.batch \in Batches /\ <<x.batch>> \in Seq(Batches) /\ {} \in Batches
      BY <1>0, SubFields DEF Batches
    <2>3. /\ y \in SubStates /\ y.pc = "select" /\ y.deltas = <<x.batch>> /\ y.attachSeq = x.attachSeq
          /\ y.pending = x.pending /\ y.batch = {} /\ y.done = x.done /\ y.err = x.err
      BY <1>0, <2>2 DEF SubStates
    <2> HIDE DEF y
    <2>4. WellFormed(y, seq)
      BY <2>1, <2>2, <2>3, <1>0 DEF WellFormed, Once
    <2>5. ASSUME NEW k \in Keys
          PROVE  /\ Ordered(y, k, pending[k], copy[s][k], appliedRev)
                 /\ Last(y, k, pending[k], copy[s][k]) = Last(x, k, pending[k], copy[s][k])
      <3>0. y.deltas # <<>> /\ Head(y.deltas) = x.batch
        BY <2>2, <2>3
      <3>1. /\ SentOf(x, k) = {} /\ SentOf(y, k) = HandOf(x, k) /\ HandOf(y, k) = {}
            /\ WindowOf(y, pending[k]) = WindowOf(x, pending[k]) /\ BufferOf(y, k) = BufferOf(x, k)
        BY <2>1, <2>3, <3>0 DEF SentOf, HandOf, BufferOf, WindowOf, Batched
      <3>2. Ordered(x, k, pending[k], copy[s][k], appliedRev)
        BY <1>0
      <3> QED
        BY <3>1, <3>2, OrderMoves, LastMoves DEF Ordered, Last
    <2> QED
      BY <2>1, <2>3, <2>4, <2>5 DEF Stepped, Copied
  <1>5. CASE RunEnds(s)
    <2> DEFINE y == [x EXCEPT !.pc = "exited", !.batch = {}]
    <2>1. /\ sub' = [sub EXCEPT ![s] = y] /\ UNCHANGED <<copy, subs>>
          /\ x.pc \in {"select", "sending"} /\ x.done
      BY <1>5 DEF RunEnds, SubStep
    <2>2. /\ y \in SubStates /\ y.pc = "exited" /\ y.deltas = x.deltas /\ y.attachSeq = x.attachSeq
          /\ y.pending = x.pending /\ y.batch = {} /\ y.done = x.done /\ y.err = x.err
      BY <1>0 DEF SubStates, Batches
    <2> HIDE DEF y
    <2>3. WellFormed(y, seq)
      BY <2>1, <2>2, <1>0 DEF WellFormed, Once
    <2> QED
      BY <2>1, <2>2, <2>3, SteppedAside
  <1>6. CASE RunDetaches(s)
    <2> DEFINE y == [x EXCEPT !.pc = "detaching", !.batch = {}]
    <2>1. /\ sub' = [sub EXCEPT ![s] = y] /\ UNCHANGED copy /\ subs' = subs \ {s}
          /\ x.pc \in {"select", "sending"}
      BY <1>6 DEF RunDetaches, SubStep
    <2>2. /\ y \in SubStates /\ y.pc = "detaching" /\ y.deltas = x.deltas /\ y.attachSeq = x.attachSeq
          /\ y.pending = x.pending /\ y.batch = {} /\ y.done = x.done /\ y.err = x.err
      BY <1>0 DEF SubStates, Batches
    <2> HIDE DEF y
    <2>3. WellFormed(y, seq)
      BY <2>1, <2>2, <1>0 DEF WellFormed, Once
    <2> QED
      BY <2>1, <2>2, <2>3, SteppedAside
  <1>7. CASE RunDetached(s)
    <2>0. PICK t \in SubStates : t = Terminated(s, "context")
      BY <1>0, TerminatedTyped DEF Causes
    <2> DEFINE y == [t EXCEPT !.pc = "exited"]
    <2>1. sub' = [sub EXCEPT ![s] = y] /\ UNCHANGED <<copy, subs>> /\ x.pc = "detaching"
      BY <1>7, <2>0 DEF RunDetached, SubStep
    <2>2. /\ t.done /\ (x.done \/ t.err # "none") /\ t.pc = x.pc /\ t.attachSeq = x.attachSeq
          /\ t.batch = x.batch /\ t.deltas = x.deltas
          /\ \A k \in Keys : t.pending[k] \in {x.pending[k], NoDelta}
          /\ (x.done => t = x)
      BY <1>0, <2>0, TerminatedTyped DEF Causes
    <2>3. /\ y \in SubStates /\ y.pc = "exited" /\ y.deltas = t.deltas /\ y.attachSeq = t.attachSeq
          /\ y.pending = t.pending /\ y.batch = t.batch /\ y.done = t.done /\ y.err = t.err
      BY <2>0 DEF SubStates
    <2> HIDE DEF y
    <2>4. WellFormed(y, seq)
      BY <2>1, <2>2, <2>3, <1>0 DEF WellFormed
    <2> QED
      BY <2>1, <2>2, <2>3, <2>4, SteppedAside
  <1> QED
    BY <1>1, <1>2, <1>3, <1>4, <1>5, <1>6, <1>7, Zenon DEF RunNext

\* The other steps of a subscription: its owner's, and its termination.
LEMMA OwnerStepped ==
  ASSUME Subscribed, Copied, NEW s \in Subs,
         \/ CancelSub(s) \/ Unsubscribe(s) \/ Unsubscribed(s)
         \/ FailTerminates(s) \/ StopTerminates(s)
  PROVE  \E y : Stepped(s, y)
  <1> DEFINE x == sub[s]
  <1>0. /\ x \in SubStates /\ WellFormed(x, seq) /\ sub \in [Subs -> SubStates]
        /\ x.pc = "unborn" => ~x.detacher
    BY DEF Subscribed, WellFormed, NewSub
  <1>1. CASE CancelSub(s)
    <2> DEFINE y == [x EXCEPT !.ctx = TRUE]
    <2>1. /\ sub' = [sub EXCEPT ![s] = y] /\ UNCHANGED <<copy, subs>> /\ x.pc # "unborn"
      BY <1>1 DEF CancelSub, SubStep
    <2>2. /\ y \in SubStates /\ y.pc = x.pc /\ y.deltas = x.deltas /\ y.attachSeq = x.attachSeq
          /\ y.pending = x.pending /\ y.batch = x.batch /\ y.done = x.done /\ y.err = x.err
      BY <1>0 DEF SubStates
    <2> HIDE DEF y
    <2>3. WellFormed(y, seq)
      BY <2>1, <2>2, <1>0 DEF WellFormed
    <2> QED
      BY <2>1, <2>2, <2>3, SteppedAside
  <1>2. CASE Unsubscribe(s)
    <2> DEFINE y == [x EXCEPT !.detacher = TRUE]
    <2>1. /\ sub' = [sub EXCEPT ![s] = y] /\ UNCHANGED copy /\ subs' = subs \ {s} /\ x.pc # "unborn"
      BY <1>2 DEF Unsubscribe, SubStep
    <2>2. /\ y \in SubStates /\ y.pc = x.pc /\ y.deltas = x.deltas /\ y.attachSeq = x.attachSeq
          /\ y.pending = x.pending /\ y.batch = x.batch /\ y.done = x.done /\ y.err = x.err
      BY <1>0 DEF SubStates
    <2> HIDE DEF y
    <2>3. WellFormed(y, seq)
      BY <2>1, <2>2, <1>0 DEF WellFormed
    <2> QED
      BY <2>1, <2>2, <2>3, SteppedAside
  <1>3. ASSUME NEW cause \in Causes \ {"none"}, sub' = [sub EXCEPT ![s] = Terminated(s, cause)],
               UNCHANGED <<copy, subs>>, x.pc # "unborn"
        PROVE  \E y : Stepped(s, y)
    <2>0. PICK y \in SubStates : y = Terminated(s, cause)
      BY <1>0, TerminatedTyped
    <2>1. /\ y.done /\ (x.done \/ y.err # "none") /\ y.pc = x.pc /\ y.attachSeq = x.attachSeq
          /\ y.batch = x.batch /\ y.deltas = x.deltas
          /\ \A k \in Keys : y.pending[k] \in {x.pending[k], NoDelta}
          /\ (x.done => y = x)
      BY <1>0, <2>0, TerminatedTyped
    <2>2. WellFormed(y, seq)
      BY <2>1, <1>0, <1>3 DEF WellFormed
    <2>3. Stepped(s, y)
      BY <1>3, <2>0, <2>1, <2>2, SteppedAside
    <2> QED
      BY <2>3
  <1>4. CASE Unsubscribed(s)
    BY <1>0, <1>3, <1>4 DEF Unsubscribed, SubStep, Causes
  <1>5. CASE FailTerminates(s)
    <2>1. x.pc # "unborn"
      BY <1>5 DEF FailTerminates, Subscribed
    <2> QED
      BY <2>1, <1>3, <1>5 DEF FailTerminates, Causes
  <1>6. CASE StopTerminates(s)
    <2>1. x.pc # "unborn"
      BY <1>6 DEF StopTerminates, Subscribed
    <2> QED
      BY <2>1, <1>3, <1>6 DEF StopTerminates, Causes
  <1> QED
    BY <1>1, <1>2, <1>4, <1>5, <1>6

\* The subscriber reads a batch: every delta of it becomes what it knows of its key.
LEMMA ReceiveStepped ==
  ASSUME ViewAssumption, Subscribed, Copied, NEW s \in Subs, Receive(s)
  PROVE  \E y : Stepped(s, y)
  <1> DEFINE x == sub[s]
             b == Head(x.deltas)
             y == [x EXCEPT !.deltas = <<>>]
             heard(k) == LET ds == {d \in b : d[1] = k}
                         IN IF ds = {} THEN copy[s][k] ELSE (CHOOSE d \in ds : TRUE)[2]
  <1>0. /\ x \in SubStates /\ WellFormed(x, seq)
        /\ \A k \in Keys : Ordered(x, k, pending[k], copy[s][k], appliedRev)
    BY DEF Subscribed
  <1>1. /\ sub' = [sub EXCEPT ![s] = y] /\ UNCHANGED subs /\ x.deltas # <<>>
    BY DEF Receive, SubStep
  <1>2. copy' = [copy EXCEPT ![s] = [k \in Keys |-> heard(k)]]
    BY DEF Receive, Copied
  <1>3. b \in Batches /\ Once(b) /\ x.pc # "unborn"
    <2>1. b = x.deltas[1] /\ b \in Batches
      BY <1>0, <1>1, SubFields, HeadTailProperties
    <2>2. NewSub.deltas = <<>>
      BY DEF NewSub
    <2> QED
      BY <2>1, <2>2, <1>0, <1>1 DEF WellFormed
  <1>4. /\ y \in SubStates /\ y.pc = x.pc /\ y.deltas = <<>> /\ y.attachSeq = x.attachSeq
        /\ y.pending = x.pending /\ y.batch = x.batch /\ y.done = x.done /\ y.err = x.err
    <2>1. <<>> \in Seq(Batches)
      OBVIOUS
    <2> QED
      BY <1>0, <2>1 DEF SubStates
  <1> HIDE DEF y, b
  <1>5. WellFormed(y, seq)
    BY <1>0, <1>3, <1>4 DEF WellFormed
  <1>6. ASSUME NEW k \in Keys
        PROVE  \/ SentOf(x, k) = {heard(k)} /\ heard(k) \in Deltas
               \/ SentOf(x, k) = {} /\ heard(k) = copy[s][k]
    <2> DEFINE ds == {d \in b : d[1] = k}
    <2>1. SentOf(x, k) = {d[2] : d \in ds}
      BY <1>1 DEF SentOf, Batched, b
    <2>2. CASE ds = {}
      BY <2>1, <2>2
    <2>3. CASE ds # {}
      <3>1. PICK d \in ds : d = CHOOSE e \in ds : TRUE
        BY <2>3
      <3>2. \A e \in ds : e = d
        BY <3>1, <1>3 DEF Once
      <3>3. heard(k) = d[2] /\ d \in b
        BY <3>1, <2>3
      <3>4. d[2] \in Deltas
        BY <3>3, <1>3 DEF Batches
      <3> QED
        BY <2>1, <3>1, <3>2, <3>3, <3>4
    <2> QED
      BY <2>2, <2>3
  <1> HIDE DEF heard
  <1>7. \A k \in Keys : copy'[s][k] = heard(k)
    BY <1>2 DEF Copied
  <1>8. copy' \in [Subs -> [Keys -> [op : {"none", "unknown", "upsert", "poison", "delete"}, rev : Revs]]]
        /\ \A t \in Subs \ {s} : copy'[t] = copy[t]
    <2>1. Deltas \subseteq [op : {"none", "unknown", "upsert", "poison", "delete"}, rev : Revs]
      BY DEF Deltas, Revs, ViewAssumption
    <2>2. \A k \in Keys : copy[s][k] \in [op : {"none", "unknown", "upsert", "poison", "delete"}, rev : Revs]
      BY DEF Copied
    <2>3. \A k \in Keys : heard(k) \in [op : {"none", "unknown", "upsert", "poison", "delete"}, rev : Revs]
      BY <1>6, <2>1, <2>2
    <2> QED
      BY <1>2, <2>3 DEF Copied
  <1>9. ASSUME NEW k \in Keys
        PROVE  /\ Ordered(y, k, pending[k], copy'[s][k], appliedRev)
               /\ Last(y, k, pending[k], copy'[s][k]) = Last(x, k, pending[k], copy[s][k])
    <2>1. /\ SentOf(y, k) = {} /\ HandOf(y, k) = HandOf(x, k) /\ BufferOf(y, k) = BufferOf(x, k)
          /\ WindowOf(y, pending[k]) = WindowOf(x, pending[k])
      BY <1>4 DEF SentOf, HandOf, BufferOf, WindowOf
    <2>2. Ordered(x, k, pending[k], copy[s][k], appliedRev)
      BY <1>0
    <2>3. CASE SentOf(x, k) = {heard(k)}
      BY <2>1, <2>2, <2>3, <1>7, OrderMoves, LastMoves DEF Ordered, Last
    <2>4. CASE SentOf(x, k) = {} /\ heard(k) = copy[s][k]
      BY <2>1, <2>2, <2>4, <1>7 DEF Ordered, Last
    <2> QED
      BY <2>3, <2>4, <1>6
  <1>10. Stepped(s, y)
    BY <1>1, <1>3, <1>4, <1>5, <1>8, <1>9 DEF Stepped
  <1> QED
    BY <1>10

\* The steps of a subscription that is not an attach leave the others alone, and
\* neither attach nor take out anyone.
LEMMA SubSteps ==
  ASSUME ViewAssumption, Subscribed, Copied, Tasks, NEW s \in Subs, SubNext(s),
         ~\E b \in BOOLEAN : Attach(s, b)
  PROVE  /\ \E y : Stepped(s, y)
         /\ subs' \subseteq subs /\ ending'.watcher \subseteq ending.watcher
         /\ ending'.stopper \subseteq ending.stopper
  <1> USE DEF Tasks
  <1>1. CASE RunNext(s)
    <2>1. UNCHANGED ending /\ subs' \subseteq subs
      BY <1>1 DEF RunNext, RunWakes, Take, RunSends, RunEnds, RunDetaches, RunDetached, SubStep
    <2> QED
      BY <1>1, <2>1, RunStepped
  <1>2. CASE CancelSub(s) \/ Unsubscribe(s) \/ Unsubscribed(s)
    <2>1. UNCHANGED ending /\ subs' \subseteq subs
      BY <1>2 DEF CancelSub, Unsubscribe, Unsubscribed, SubStep
    <2> QED
      BY <1>2, <2>1, OwnerStepped
  <1>3. CASE FailTerminates(s) \/ StopTerminates(s)
    <2>1. /\ subs' = subs /\ ending'.watcher \subseteq ending.watcher
          /\ ending'.stopper \subseteq ending.stopper
      BY <1>3 DEF FailTerminates, StopTerminates
    <2> QED
      BY <1>3, <2>1, OwnerStepped
  <1>4. CASE Receive(s)
    <2>1. UNCHANGED <<ending, subs>>
      BY <1>4 DEF Receive, SubStep
    <2> QED
      BY <1>4, <2>1, ReceiveStepped
  <1> QED
    BY <1>1, <1>2, <1>3, <1>4 DEF SubNext

-----------------------------------------------------------------------------
(* Order and exactness are preserved.                                      *)

\* The part of the invariant that is about deliveries.
Delivery == Copied /\ Subscribed /\ Exact

\* Steps of a subscription.
LEMMA DeliverySub ==
  ASSUME ViewAssumption, Projected, Tasks, Delivery, NEW s \in Subs, SubNext(s),
         ~\E b \in BOOLEAN : Attach(s, b)
  PROVE  Delivery'
  <1> USE DEF Delivery
  <1>0. UNCHANGED <<vstate, entries, poisoned, seq, appliedRev, pending>>
    BY SubFrame
  <1>1. PICK y : Stepped(s, y)
    BY SubSteps
  <1>2. /\ subs' \subseteq subs /\ ending'.watcher \subseteq ending.watcher
        /\ ending'.stopper \subseteq ending.stopper
    BY SubSteps
  <1>3. \A t \in Subs : sub'[t] = IF t = s THEN y ELSE sub[t]
    BY <1>1 DEF Stepped, Subscribed
  <1>4. Copied'
    BY <1>1 DEF Stepped, Copied
  <1>5. Subscribed'
    <2>1. sub' \in [Subs -> SubStates]
      BY <1>1 DEF Stepped, Subscribed
    <2>2. \A t \in Subs : WellFormed(sub'[t], seq')
      BY <1>0, <1>1, <1>3 DEF Stepped, Subscribed
    <2>3. \A t \in subs' \union ending'.watcher \union ending'.stopper : sub'[t].pc # "unborn"
      BY <1>1, <1>2, <1>3 DEF Stepped, Subscribed, Tasks
    <2>4. \A t \in Subs, k \in Keys : Ordered(sub'[t], k, pending'[k], copy'[t][k], appliedRev')
      BY <1>0, <1>1, <1>3 DEF Stepped, Subscribed
    <2> QED
      BY <2>1, <2>2, <2>3, <2>4 DEF Subscribed
  <1>6. Exact'
    <2> SUFFICES ASSUME vstate = "live", NEW t \in subs', NEW k \in Keys, ~sub'[t].done
                 PROVE  Matches(Last(sub'[t], k, pending'[k], copy'[t][k]), Held(k)')
      BY <1>0 DEF Exact
    <2>1. Held(k)' = Held(k) /\ t \in Subs /\ t \in subs
      BY <1>0, <1>2 DEF Held, Tasks
    <2>2. ~sub[t].done /\ Last(sub'[t], k, pending'[k], copy'[t][k]) = Last(sub[t], k, pending[k], copy[t][k])
      BY <2>1, <1>0, <1>1, <1>3 DEF Stepped
    <2> QED
      BY <2>1, <2>2 DEF Exact
  <1> QED
    BY <1>4, <1>5, <1>6

\* A new subscription starts from the snapshot, and the window holds nothing newer.
LEMMA DeliveryAttach ==
  ASSUME ViewAssumption, Projected, Tasks, Delivery, NEW s \in Subs, NEW b \in BOOLEAN, Attach(s, b)
  PROVE  Delivery'
  <1> USE DEF Delivery
  <1> DEFINE Known == [op : {"none", "unknown", "upsert", "poison", "delete"}, rev : Revs]
             y == [NewSub EXCEPT !.pc = "select", !.attachSeq = seq]
             start(k) == IF b THEN Held(k) ELSE Delta("unknown", appliedRev)
  <1>0. UNCHANGED <<vstate, entries, poisoned, seq, appliedRev, pending, ending>>
    BY DEF Attach, projection
  <1>1. sub[s] = NewSub /\ vstate = "live" /\ subs' = subs \union {s}
    BY DEF Attach, Subscribed, WellFormed
  <1>2. sub' = [sub EXCEPT ![s] = y] /\ copy' = [copy EXCEPT ![s] = [k \in Keys |-> start(k)]]
    BY <1>1 DEF Attach, Subscribed, NewSub
  <1>3. /\ y.pc = "select" /\ y.attachSeq = seq /\ y.pending = [k \in Keys |-> NoDelta]
        /\ y.batch = {} /\ y.deltas = <<>> /\ ~y.done
    BY DEF NewSub
  <1>4. y \in SubStates
    <2>1. <<>> \in Seq(Batches) /\ {} \in Batches /\ seq \in Nat
      BY DEF Batches, Projected
    <2> QED
      BY <2>1 DEF NewSub, SubStates, Causes
  <1>5. WellFormed(y, seq)
    <2>1. seq \in Nat
      BY DEF Projected
    <2> QED
      BY <1>3, <2>1 DEF WellFormed, Once
  <1> HIDE DEF y
  <1>6. \A t \in Subs : sub'[t] = IF t = s THEN y ELSE sub[t]
    BY <1>2 DEF Subscribed
  <1>7. ASSUME NEW k \in Keys
        PROVE  /\ start(k) \in Known /\ start(k).rev <= appliedRev
               /\ Matches(start(k), Held(k))
    <2>1. /\ entries[k] \in Revs /\ poisoned[k] \in Revs /\ appliedRev \in Revs
          /\ entries[k] <= appliedRev /\ poisoned[k] <= appliedRev /\ appliedRev <= appliedRev
      BY DEF Projected, Revs, ViewAssumption
    <2>2. Held(k) \in Known /\ Held(k).rev <= appliedRev
      BY <2>1 DEF Held, Delta
    <2> QED
      BY <2>1, <2>2 DEF Delta, Matches
  <1> HIDE DEF start
  <1>8. \A t \in Subs, k \in Keys : copy'[t][k] = IF t = s THEN start(k) ELSE copy[t][k]
    BY <1>2 DEF Copied
  <1>9. Copied'
    BY <1>2, <1>7 DEF Copied
  <1>10. ASSUME NEW k \in Keys
         PROVE  /\ Ordered(y, k, pending[k], start(k), appliedRev)
                /\ Last(y, k, pending[k], start(k)) = start(k)
    <2>1. ~(pending[k].seq > seq)
      BY DEF Projected
    <2>2. SentOf(y, k) = {} /\ HandOf(y, k) = {} /\ BufferOf(y, k) = {} /\ WindowOf(y, pending[k]) = {}
      BY <1>3, <2>1 DEF SentOf, HandOf, BufferOf, WindowOf, Batched
    <2> QED
      BY <2>2, <1>7 DEF Ordered, InOrder, Newer, Follows, Last, LastOf
  <1>11. Subscribed'
    <2>1. sub' \in [Subs -> SubStates]
      BY <1>2, <1>4 DEF Subscribed
    <2>2. \A t \in Subs : WellFormed(sub'[t], seq')
      BY <1>0, <1>5, <1>6 DEF Subscribed
    <2>3. \A t \in subs' \union ending'.watcher \union ending'.stopper : sub'[t].pc # "unborn"
      BY <1>0, <1>1, <1>3, <1>6 DEF Subscribed, Tasks
    <2>4. \A t \in Subs, k \in Keys : Ordered(sub'[t], k, pending'[k], copy'[t][k], appliedRev')
      BY <1>0, <1>6, <1>8, <1>10 DEF Subscribed
    <2> QED
      BY <2>1, <2>2, <2>3, <2>4 DEF Subscribed
  <1>12. Exact'
    <2> SUFFICES ASSUME NEW t \in subs', NEW k \in Keys, ~sub'[t].done
                 PROVE  Matches(Last(sub'[t], k, pending'[k], copy'[t][k]), Held(k)')
      BY DEF Exact
    <2>1. Held(k)' = Held(k) /\ t \in Subs
      BY <1>0, <1>1 DEF Held, Tasks
    <2>2. CASE t = s
      BY <2>1, <2>2, <1>0, <1>6, <1>7, <1>8, <1>10
    <2>3. CASE t # s
      BY <2>1, <2>3, <1>0, <1>1, <1>6, <1>8 DEF Exact
    <2> QED
      BY <2>2, <2>3
  <1> QED
    BY <1>9, <1>11, <1>12

\* Steps in which the subscriptions and their copies stay as they are: the window is
\* kept or cleared, and what is exact stays exact.
LEMMA DeliveryKept ==
  ASSUME ViewAssumption, Projected, Tasks, Delivery, UNCHANGED <<sub, copy, seq, appliedRev>>,
         pending' = pending \/ pending' = [k \in Keys |-> NoOp],
         subs' \union ending'.watcher \union ending'.stopper
           \subseteq subs \union ending.watcher \union ending.stopper,
         \/ vstate' # "live" \/ subs' = {}
         \/ vstate = "live" /\ UNCHANGED <<entries, poisoned, pending, subs>>
  PROVE  Delivery'
  <1> USE DEF Delivery
  <1>1. Copied'
    BY DEF Copied
  <1>2. ASSUME NEW s \in Subs, NEW k \in Keys
        PROVE  Ordered(sub[s], k, pending'[k], copy[s][k], appliedRev)
    <2>1. Ordered(sub[s], k, pending[k], copy[s][k], appliedRev)
      BY DEF Subscribed
    <2>2. CASE pending' = pending
      BY <2>1, <2>2
    <2>3. CASE pending' = [j \in Keys |-> NoOp]
      <3>1. sub[s].attachSeq \in Nat
        BY SubFields DEF Subscribed
      <3>2. WindowOf(sub[s], pending'[k]) = {}
        BY <2>3, <3>1 DEF WindowOf, NoOp
      <3>3. InOrder(copy[s][k].rev, SentOf(sub[s], k), HandOf(sub[s], k), BufferOf(sub[s], k), {},
                    appliedRev)
        BY <2>1, OrderMoves DEF Ordered
      <3> QED
        BY <3>2, <3>3, Zenon DEF Ordered
    <2> QED
      BY <2>2, <2>3
  <1>3. Subscribed'
    BY <1>2 DEF Subscribed
  <1>4. Exact'
    <2>1. CASE vstate' # "live" \/ subs' = {}
      BY <2>1 DEF Exact
    <2>2. CASE vstate = "live" /\ UNCHANGED <<entries, poisoned, pending, subs>>
      <3>1. \A k \in Keys : Held(k)' = Held(k)
        BY <2>2 DEF Held
      <3> QED
        BY <2>2, <3>1 DEF Exact
    <2> QED
      BY <2>1, <2>2
  <1> QED
    BY <1>1, <1>3, <1>4

\* A tick moves the window to the buffers of those it is news to.
LEMMA DeliveryFanOut ==
  ASSUME ViewAssumption, Projected, Tasks, Delivery, FanOut
  PROVE  Delivery'
  <1> USE DEF Delivery
  <1>0. /\ UNCHANGED <<vstate, entries, poisoned, seq, appliedRev, subs, ending, copy>>
        /\ pending' = [k \in Keys |-> NoOp] /\ vstate = "live" /\ subs \subseteq Subs
        /\ sub' = [s \in Subs |-> IF s \in subs THEN Enqueued(s) ELSE sub[s]]
    BY DEF FanOut, projection, Tasks
  <1>1. sub \in [Subs -> SubStates] /\ \A s \in Subs : WellFormed(sub[s], seq)
    BY DEF Subscribed
  <1>2. ASSUME NEW s \in Subs
        PROVE  /\ sub'[s] \in SubStates /\ WellFormed(sub'[s], seq)
               /\ sub'[s].pc = sub[s].pc /\ sub'[s].done = sub[s].done
    <2>1. CASE s \notin subs
      BY <2>1, <1>0, <1>1
    <2>2. CASE s \in subs
      <3>1. PICK y : y = Enqueued(s) /\ sub'[s] = y
        BY <2>2, <1>0
      <3>2. /\ y \in SubStates /\ y.pc = sub[s].pc /\ y.done = sub[s].done /\ y.err = sub[s].err
            /\ y.attachSeq = sub[s].attachSeq /\ y.batch = sub[s].batch /\ y.deltas = sub[s].deltas
        BY <3>1, <1>1, EnqueuedTyped
      <3>3. sub[s].pc # "unborn"
        BY <2>2 DEF Subscribed
      <3> QED
        BY <3>1, <3>2, <3>3, <1>1 DEF WellFormed
    <2> QED
      BY <2>1, <2>2
  <1>3. ASSUME NEW s \in Subs, NEW k \in Keys
        PROVE  /\ Ordered(sub'[s], k, NoOp, copy[s][k], appliedRev)
               /\ s \in subs /\ ~sub[s].done =>
                    Last(sub'[s], k, NoOp, copy[s][k]) = Last(sub[s], k, pending[k], copy[s][k])
    <2>0. /\ Ordered(sub[s], k, pending[k], copy[s][k], appliedRev)
          /\ sub[s] \in SubStates /\ sub[s].attachSeq \in Nat
      BY <1>1, SubFields DEF Subscribed
    <2>1. PICK x, w : x = sub[s] /\ w = pending[k]
      OBVIOUS
    <2>2. PICK y : y = sub'[s]
      OBVIOUS
    <2>3. CASE s \notin subs \/ sub[s].done
      <3>1. y = x
        BY <2>1, <2>2, <2>3, <1>0, <1>1, EnqueuedTyped
      <3>2. WindowOf(x, NoOp) = {}
        BY <2>0, <2>1 DEF WindowOf, NoOp
      <3>3. InOrder(copy[s][k].rev, SentOf(x, k), HandOf(x, k), BufferOf(x, k), {}, appliedRev)
        BY <2>0, <2>1, OrderMoves DEF Ordered
      <3>4. Ordered(y, k, NoOp, copy[s][k], appliedRev)
        BY <3>1, <3>2, <3>3 DEF Ordered
      <3> QED
        BY <3>4, <2>2, <2>3
    <2>4. CASE s \in subs /\ ~sub[s].done
      <3>1. /\ y.attachSeq = x.attachSeq /\ y.batch = x.batch /\ y.deltas = x.deltas
            /\ y.pending[k] = IF w.seq > x.attachSeq THEN w.delta ELSE x.pending[k]
        BY <2>1, <2>2, <2>4, <1>0, <1>1, EnqueuedTyped
      <3>2. w.seq > x.attachSeq => w.delta # NoDelta
        BY <2>0, <2>1 DEF Projected, NoOp, Deltas, NoDelta, Delta
      <3>3. /\ SentOf(y, k) = SentOf(x, k) /\ HandOf(y, k) = HandOf(x, k)
            /\ BufferOf(y, k) = IF WindowOf(x, w) # {} THEN WindowOf(x, w) ELSE BufferOf(x, k)
        BY <3>1, <3>2 DEF SentOf, HandOf, BufferOf, WindowOf
      <3>4. WindowOf(y, NoOp) = {}
        BY <3>1, <2>0, <2>1 DEF WindowOf, NoOp
      <3>5. Ordered(y, k, NoOp, copy[s][k], appliedRev)
        <4>1. InOrder(copy[s][k].rev, SentOf(x, k), HandOf(x, k),
                      IF WindowOf(x, w) # {} THEN WindowOf(x, w) ELSE BufferOf(x, k), {}, appliedRev)
          BY <2>0, <2>1, OrderMoves DEF Ordered
        <4> QED
          BY <3>3, <3>4, <4>1, Zenon DEF Ordered
      <3>6. Last(y, k, NoOp, copy[s][k]) = Last(x, k, w, copy[s][k])
        BY <3>3, <3>4, LastMoves DEF Last
      <3> QED
        BY <3>5, <3>6, <2>1, <2>2
    <2> QED
      BY <2>3, <2>4
  <1>4. Copied'
    BY <1>0 DEF Copied
  <1>5. Subscribed'
    <2>1. sub' \in [Subs -> SubStates]
      BY <1>0, <1>2
    <2>2. \A t \in Subs : WellFormed(sub'[t], seq')
      BY <1>0, <1>2
    <2>3. \A t \in subs' \union ending'.watcher \union ending'.stopper : sub'[t].pc # "unborn"
      BY <1>0, <1>2 DEF Subscribed, Tasks
    <2>4. \A t \in Subs, k \in Keys : Ordered(sub'[t], k, pending'[k], copy'[t][k], appliedRev')
      BY <1>0, <1>3
    <2> QED
      BY <2>1, <2>2, <2>3, <2>4 DEF Subscribed
  <1>6. Exact'
    <2> SUFFICES ASSUME NEW t \in subs', NEW k \in Keys, ~sub'[t].done
                 PROVE  Matches(Last(sub'[t], k, pending'[k], copy'[t][k]), Held(k)')
      BY DEF Exact
    <2>1. Held(k)' = Held(k) /\ t \in Subs /\ t \in subs /\ ~sub[t].done /\ pending'[k] = NoOp
      BY <1>0, <1>2 DEF Held
    <2>2. Last(sub'[t], k, pending'[k], copy'[t][k]) = Last(sub[t], k, pending[k], copy[t][k])
      BY <2>1, <1>0, <1>3
    <2> QED
      BY <2>1, <2>2, <1>0 DEF Exact
  <1> QED
    BY <1>4, <1>5, <1>6

\* An update the watcher applies is the last thing a subscriber will hear of the key,
\* and what the projection then holds.
LEMMA DeliveryProcess ==
  ASSUME ViewAssumption, Stored, Watched, Projected, Tasks, Lifecycle, Delivery, ProcessEntry
  PROVE  Delivery'
  <1> USE DEF Delivery
  <1>0. UNCHANGED <<vstate, sub, copy, subs, ending>>
    BY DEF ProcessEntry
  <1>1. PICK e \in Updates :
           /\ e.rev > appliedRev /\ e.rev <= lastRev
           /\ seq' = seq + 1 /\ appliedRev' = e.rev
           /\ entries' = [entries EXCEPT ![e.key] = IF e.kind = "keep" THEN e.rev ELSE 0]
           /\ poisoned' = [poisoned EXCEPT ![e.key] = IF e.kind = "bad" THEN e.rev ELSE 0]
           /\ seen' \subseteq Keys
           /\ \/ /\ pending' = pending
                 /\ vstate = "live" => /\ entries[e.key] = 0 /\ poisoned[e.key] = 0
                                       /\ e.kind = "skip"
              \/ pending' = [pending EXCEPT ![e.key] =
                               [delta |-> Delta(OpOf(e.kind), e.rev), seq |-> seq + 1]]
    BY Processed
  <1> DEFINE d == Delta(OpOf(e.kind), e.rev)
             w == [delta |-> d, seq |-> seq + 1]
  <1>2. /\ e.key \in Keys /\ e.rev \in 1..MaxRev /\ MaxRev \in Nat /\ appliedRev \in Nat /\ seq \in Nat
        /\ e.rev > 0 /\ e.rev \in Nat
    BY DEF Updates, Projected, Revs, ViewAssumption
  <1>3. /\ d \in Deltas /\ d.rev = e.rev
        /\ d.op = IF e.kind = "keep" THEN "upsert" ELSE IF e.kind = "bad" THEN "poison" ELSE "delete"
    BY UpdateDelta
  <1> HIDE DEF d
  <1>4. \A k \in Keys : pending'[k] = pending[k] \/ (k = e.key /\ pending'[k] = w)
    BY <1>1, <1>2 DEF Projected, d
  <1>5. ASSUME NEW s \in Subs
        PROVE  /\ sub[s] \in SubStates /\ WellFormed(sub[s], seq) /\ sub[s].attachSeq \in Nat
               /\ WellFormed(sub[s], seq + 1) /\ sub[s].attachSeq <= seq
    <2>1. sub[s] \in SubStates /\ WellFormed(sub[s], seq) /\ sub[s].attachSeq \in Nat
      BY SubFields DEF Subscribed
    <2>2. sub[s].attachSeq <= seq
      BY <2>1 DEF WellFormed
    <2>3. sub[s].attachSeq <= seq + 1
      BY <2>1, <2>2, <1>2
    <2> QED
      BY <2>1, <2>2, <2>3 DEF WellFormed
  <1>6. ASSUME NEW s \in Subs, NEW k \in Keys
        PROVE  /\ Ordered(sub[s], k, pending'[k], copy[s][k], e.rev)
               /\ pending'[k] = w => Last(sub[s], k, pending'[k], copy[s][k]) = d
    <2>1. PICK x, c, v : x = sub[s] /\ c = copy[s][k] /\ v = pending[k]
      OBVIOUS
    <2>2. /\ x \in SubStates /\ WellFormed(x, seq) /\ Ordered(x, k, v, c, appliedRev)
          /\ x.attachSeq \in Nat /\ x.attachSeq <= seq
      BY <2>1, <1>5 DEF Subscribed
    <2>3. c.rev \in Nat
      BY <2>1, <1>2 DEF Copied, Revs
    <2>4. Op(v)
      BY <2>1 DEF Projected, Op
    <2>5. /\ SentOf(x, k) \subseteq Deltas /\ HandOf(x, k) \subseteq Deltas
          /\ BufferOf(x, k) \subseteq Deltas /\ WindowOf(x, v) \subseteq Deltas
          /\ \A m \in Deltas : m.rev \in Nat
      BY <2>2, <2>4, LayerTypes
    <2>6. Ordered(x, k, v, c, e.rev)
      <3>1. appliedRev <= e.rev
        BY <1>1, <1>2
      <3> QED
        BY <3>1, <2>2, <2>3, <2>5, <1>2, OrderGrows DEF Ordered
    <2>7. WindowOf(x, w) = {d}
      BY <2>2, <1>2 DEF WindowOf
    <2>8. Ordered(x, k, w, c, e.rev)
      <3>1. InOrder(c.rev, SentOf(x, k), HandOf(x, k), BufferOf(x, k), WindowOf(x, v), appliedRev)
        BY <2>2 DEF Ordered
      <3>2. appliedRev < d.rev
        BY <1>1, <1>2, <1>3
      <3>3. InOrder(c.rev, SentOf(x, k), HandOf(x, k), BufferOf(x, k), {d}, d.rev)
        BY <3>1, <3>2, <2>3, <2>5, <1>2, <1>3, OrderWindow
      <3> QED
        BY <3>3, <2>7, <1>3 DEF Ordered
    <2>9. Last(x, k, w, c) = d
      BY <2>7 DEF Last, LastOf
    <2> QED
      BY <2>1, <2>6, <2>8, <2>9, <1>4
  <1>7. Copied'
    BY <1>0 DEF Copied
  <1>8. Subscribed'
    BY <1>0, <1>1, <1>5, <1>6 DEF Subscribed
  <1>9. Exact'
    <2> SUFFICES ASSUME vstate = "live", NEW s \in subs, NEW k \in Keys, ~sub[s].done
                 PROVE  Matches(Last(sub[s], k, pending'[k], copy[s][k]), Held(k)')
      BY <1>0 DEF Exact
    <2>0. s \in Subs /\ Matches(Last(sub[s], k, pending[k], copy[s][k]), Held(k))
      BY DEF Exact, Tasks
    <2>1. /\ entries'[k] = IF k = e.key THEN IF e.kind = "keep" THEN e.rev ELSE 0 ELSE entries[k]
          /\ poisoned'[k] = IF k = e.key THEN IF e.kind = "bad" THEN e.rev ELSE 0 ELSE poisoned[k]
      BY <1>1, <1>2 DEF Projected
    <2>2. CASE pending'[k] = w /\ k = e.key
      <3>1. Last(sub[s], k, pending'[k], copy[s][k]) = d
        BY <2>0, <2>2, <1>6
      <3>2. Matches(d, Held(k)')
        BY <2>1, <2>2, <1>2, <1>3 DEF Matches, Held, Delta
      <3> QED
        BY <3>1, <3>2
    <2>3. CASE pending'[k] = pending[k] /\ ~(pending'[k] = w /\ k = e.key)
      <3>1. k = e.key => entries[k] = 0 /\ poisoned[k] = 0 /\ e.kind = "skip"
        BY <2>3, <1>1, <1>2 DEF Projected, d
      <3>2. entries'[k] = entries[k] /\ poisoned'[k] = poisoned[k]
        BY <2>1, <3>1
      <3>3. Held(k)'.op = Held(k).op /\ (Held(k).op # "delete" => Held(k)'.rev = Held(k).rev)
        BY <3>2 DEF Held, Delta
      <3> QED
        BY <2>0, <2>3, <3>3 DEF Matches
    <2> QED
      BY <2>2, <2>3, <1>4
  <1> QED
    BY <1>7, <1>8, <1>9

-----------------------------------------------------------------------------
(* The life of the view.                                                   *)

\* Who runs what stays in its range.
LEMMA TasksStep == ASSUME ViewAssumption, Tasks, [Next]_vars PROVE Tasks'
  <1> USE DEF Tasks, tasks
  <1>1. CASE \E w \in Writes : Write(w[1], w[2])
    BY <1>1 DEF Write
  <1>2. CASE LoseWatch \/ CancelStart \/ Start
    <2>1. ends' \in 0..MaxEnds
      BY <1>2 DEF LoseWatch, CancelStart, Start, ViewAssumption
    <2>2. CASE LoseWatch
      BY <2>1, <2>2, Zenon DEF LoseWatch
    <2>3. CASE CancelStart
      BY <2>1, <2>3, Zenon DEF CancelStart
    <2>4. CASE Start
      BY <2>1, <2>4, Zenon DEF Start
    <2> QED
      BY <1>2, <2>2, <2>3, <2>4
  <1>3. CASE StarterNext
    BY <1>3 DEF StarterNext, OpenFails, OpenSucceeds, AdmitWatcher
  <1>4. CASE ProcessEntry \/ MarkCaughtUp \/ WatcherExits
    BY <1>4 DEF ProcessEntry, MarkCaughtUp, WatcherExits
  <1>5. CASE FailClosed
    BY <1>5 DEF FailClosed
  <1>6. CASE FanOut \/ TickerExits
    BY <1>6 DEF FanOut, TickerExits
  <1>7. CASE Stop
    BY <1>7 DEF Stop, ViewAssumption
  <1>8. CASE StopperNext
    <2>1. cancelled' \in BOOLEAN
      BY <1>8, Zenon DEF StopperNext, StopCancels, StopReturns
    <2> QED
      BY <1>8, <2>1, Zenon DEF StopperNext, StopCancels, StopReturns
  <1>9. ASSUME NEW s \in Subs, SubNext(s) PROVE Tasks'
    <2>1. UNCHANGED <<watchOpen, vstate, cancelled, starter, watcher, ticker, stopper>>
      BY <1>9, SubFrame
    <2>2. CASE \E b \in BOOLEAN : Attach(s, b)
      BY <2>2 DEF Attach
    <2>3. CASE RunNext(s)
      BY <2>1, <2>3 DEF RunNext, RunWakes, Take, RunSends, RunEnds, RunDetaches, RunDetached, SubStep
    <2>4. CASE CancelSub(s) \/ Unsubscribe(s) \/ Unsubscribed(s) \/ Receive(s)
      BY <2>1, <2>4 DEF CancelSub, Unsubscribe, Unsubscribed, Receive, SubStep, ViewAssumption
    <2>5. CASE FailTerminates(s) \/ StopTerminates(s)
      <3>1. ending' \in [watcher : SUBSET Subs, stopper : SUBSET Subs]
        BY <2>5 DEF FailTerminates, StopTerminates
      <3>2. UNCHANGED <<subs, ends>>
        BY <2>5 DEF FailTerminates, StopTerminates
      <3> QED
        BY <2>1, <3>1, <3>2, Zenon
    <2> QED
      BY <1>9, <2>2, <2>3, <2>4, <2>5 DEF SubNext
  <1>10. CASE UNCHANGED vars
    BY <1>10 DEF vars
  <1> QED
    BY <1>1, <1>2, <1>3, <1>4, <1>5, <1>6, <1>7, <1>8, <1>9, <1>10 DEF Next, WatcherNext

\* Everybody that was gone when Stop returned stays gone: only a live view is
\* subscribed to, and only a new one started.
LEMMA JoinedStep ==
  ASSUME ViewAssumption, Subscribed, Copied, Tasks, Lifecycle, [Next]_vars, vstate = "stopped", Joined
  PROVE  Joined'
  <1>1. ASSUME UNCHANGED <<starter, watcher, ticker, sub>> PROVE Joined'
    BY <1>1 DEF Joined
  <1>2. CASE \E s \in Subs : SubNext(s)
    <2> PICK s \in Subs : SubNext(s)
      BY <1>2
    <2>1. UNCHANGED <<starter, watcher, ticker>>
      BY SubFrame
    <2>2. ~\E b \in BOOLEAN : Attach(s, b)
      BY DEF Attach
    <2>3. PICK y : Stepped(s, y)
      BY <2>2, SubSteps
    <2>4. sub' = [sub EXCEPT ![s] = y] /\ sub[s].pc # "unborn" /\ (sub[s].pc = "exited" => y.pc = "exited")
      BY <2>3 DEF Stepped
    <2>5. \A t \in Subs : sub'[t] = IF t = s THEN y ELSE sub[t]
      BY <2>4 DEF Subscribed
    <2> QED
      BY <2>1, <2>4, <2>5 DEF Joined
  <1>3. CASE ~\E s \in Subs : SubNext(s)
    <2>1. UNCHANGED sub
      BY <1>3, Frames DEF FanOut
    <2>2. UNCHANGED <<starter, watcher, ticker>>
      BY <1>3 DEF Next, Write, LoseWatch, CancelStart, Start, StarterNext, OpenFails, OpenSucceeds,
           AdmitWatcher, WatcherNext, ProcessEntry, MarkCaughtUp, FailClosed, WatcherExits, FanOut,
           TickerExits, Stop, StopperNext, StopCancels, StopReturns, Joined, tasks, vars
    <2> QED
      BY <2>1, <2>2, <1>1
  <1> QED
    BY <1>2, <1>3

\* The life of the view goes on as it should.
LEMMA LifecycleStep ==
  ASSUME ViewAssumption, Subscribed, Copied, Tasks, Lifecycle, [Next]_vars
  PROVE  Lifecycle'
  <1> USE DEF Lifecycle, tasks
  <1>0. (stopper = "returned" => Joined') /\ (stopper # "idle" => vstate = "stopped")
    BY JoinedStep
  <1>1. CASE \E w \in Writes : Write(w[1], w[2])
    BY <1>0, <1>1 DEF Write
  <1>2. CASE LoseWatch \/ CancelStart
    BY <1>0, <1>2 DEF LoseWatch, CancelStart
  <1>3. CASE Start
    BY <1>0, <1>3 DEF Start
  <1>4. CASE OpenFails \/ OpenSucceeds
    BY <1>0, <1>4 DEF OpenFails, OpenSucceeds
  <1>5. CASE AdmitWatcher
    BY <1>0, <1>5 DEF AdmitWatcher
  <1>6. CASE ProcessEntry \/ MarkCaughtUp
    BY <1>0, <1>6 DEF ProcessEntry, MarkCaughtUp
  <1>7. CASE FailClosed
    <2>1. stopper' = stopper /\ starter' = starter /\ watchOpen' = watchOpen /\ watcher = "running"
          /\ watcher' = "closing" /\ vstate' # "live" /\ vstate' # "new"
      BY <1>7 DEF FailClosed, Lifecycle
    <2>2. ending'.stopper = ending.stopper /\ subs' = {} /\ (stopper # "idle" => vstate' = "stopped")
      BY <1>7 DEF FailClosed, Tasks, Lifecycle
    <2> QED
      BY <1>0, <2>1, <2>2
  <1>8. CASE WatcherExits
    BY <1>0, <1>8 DEF WatcherExits
  <1>9. CASE FanOut \/ TickerExits
    BY <1>0, <1>9 DEF FanOut, TickerExits
  <1>10. CASE Stop
    <2>1. UNCHANGED <<starter, watcher, watchOpen>> /\ stopper' = "terminating" /\ vstate' = "stopped"
          /\ subs' = {} /\ ending'.watcher = ending.watcher
      BY <1>10 DEF Stop, Tasks
    <2> QED
      BY <1>0, <2>1
  <1>11. CASE StopCancels
    BY <1>0, <1>11 DEF StopCancels
  <1>12. CASE StopReturns
    <2>1. UNCHANGED <<starter, watcher, ticker, sub, watchOpen, vstate, subs, ending>>
          /\ stopper = "waiting" /\ stopper' = "returned" /\ Joined
      BY <1>12 DEF StopReturns
    <2>2. Joined'
      BY <2>1 DEF Joined
    <2> QED
      BY <2>1, <2>2
  <1>13. ASSUME NEW s \in Subs, SubNext(s) PROVE Lifecycle'
    <2>1. UNCHANGED <<watchOpen, vstate, starter, watcher, stopper>>
      BY <1>13, SubFrame
    <2>2. CASE \E b \in BOOLEAN : Attach(s, b)
      BY <1>0, <2>1, <2>2 DEF Attach
    <2>3. CASE ~\E b \in BOOLEAN : Attach(s, b)
      <3>1. /\ subs' \subseteq subs /\ ending'.watcher \subseteq ending.watcher
            /\ ending'.stopper \subseteq ending.stopper
        BY <1>13, <2>3, SubSteps
      <3> QED
        BY <1>0, <2>1, <3>1
    <2> QED
      BY <2>2, <2>3
  <1>14. CASE UNCHANGED vars
    BY <1>0, <1>14 DEF vars
  <1> QED
    BY <1>1, <1>2, <1>3, <1>4, <1>5, <1>6, <1>7, <1>8, <1>9, <1>10, <1>11, <1>12, <1>13, <1>14
    DEF Next, StarterNext, WatcherNext, StopperNext

-----------------------------------------------------------------------------
(* The inductive invariant.                                                *)

\* Deliveries stay in order and exact, whoever moves.
LEMMA DeliveryStep ==
  ASSUME ViewAssumption, Stored, Watched, Projected, Tasks, Lifecycle, Delivery, [Next]_vars
  PROVE  Delivery'
  <1>1. CASE \E s \in Subs : SubNext(s)
    <2> PICK s \in Subs : SubNext(s)
      BY <1>1
    <2>1. CASE \E b \in BOOLEAN : Attach(s, b)
      BY <2>1, DeliveryAttach
    <2>2. CASE ~\E b \in BOOLEAN : Attach(s, b)
      BY <2>2, DeliverySub
    <2> QED
      BY <2>1, <2>2
  <1>2. CASE FanOut
    BY <1>2, DeliveryFanOut
  <1>3. CASE ProcessEntry
    BY <1>3, DeliveryProcess
  <1>4. CASE ~(\E s \in Subs : SubNext(s)) /\ ~FanOut /\ ~ProcessEntry
    <2>0. UNCHANGED <<sub, copy, seq, appliedRev>>
      BY <1>4, Frames
    <2>1. CASE FailClosed
      <3>1. (pending' = pending \/ pending' = [k \in Keys |-> NoOp]) /\ vstate' # "live"
        BY <2>1 DEF FailClosed, Tasks
      <3>2. subs' \union ending'.watcher \union ending'.stopper
              \subseteq subs \union ending.watcher \union ending.stopper
        BY <2>1 DEF FailClosed, Tasks
      <3> QED
        BY <2>0, <3>1, <3>2, DeliveryKept
    <2>2. CASE Stop
      <3>1. pending' = [k \in Keys |-> NoOp] /\ vstate' # "live"
        BY <2>2 DEF Stop
      <3>2. subs' \union ending'.watcher \union ending'.stopper
              \subseteq subs \union ending.watcher \union ending.stopper
        BY <2>2 DEF Stop, Tasks
      <3> QED
        BY <2>0, <3>1, <3>2, DeliveryKept
    <2>3. CASE ~FailClosed /\ ~Stop
      <3>1. UNCHANGED <<subs, ending, pending>>
        BY <1>4, <2>3, Zenon DEF Next, Write, LoseWatch, CancelStart, Start, StarterNext, OpenFails,
             OpenSucceeds, AdmitWatcher, WatcherNext, MarkCaughtUp, WatcherExits, TickerExits,
             StopperNext, StopCancels, StopReturns, vars
      <3>2. CASE MarkCaughtUp
        <4>1. UNCHANGED <<vstate, entries, poisoned>> \/ vstate = "bootstrap"
          BY <3>2, Zenon DEF MarkCaughtUp
        <4>2. CASE UNCHANGED <<vstate, entries, poisoned>>
          BY <2>0, <3>1, <4>2, DeliveryKept DEF Lifecycle
        <4>3. CASE vstate = "bootstrap"
          <5>1. subs' = {}
            BY <3>1, <4>3 DEF Lifecycle
          <5> QED
            BY <2>0, <3>1, <5>1, DeliveryKept
        <4> QED
          BY <4>1, <4>2, <4>3
      <3>3. CASE ~MarkCaughtUp
        <4>1. UNCHANGED <<entries, poisoned>>
          BY <1>4, <3>3, Frames
        <4>2. vstate' = "live" => vstate = "live"
          BY <1>4, <2>3, <3>3, Zenon DEF Next, Write, LoseWatch, CancelStart, Start, StarterNext, OpenFails,
             OpenSucceeds, AdmitWatcher, WatcherNext, WatcherExits, TickerExits,
             StopperNext, StopCancels, StopReturns, vars
        <4> QED
          BY <2>0, <3>1, <4>1, <4>2, DeliveryKept
      <3> QED
        BY <3>2, <3>3
    <2> QED
      BY <2>1, <2>2, <2>3
  <1> QED
    BY <1>1, <1>2, <1>3, <1>4

\* Init establishes the invariant.
LEMMA InitView == ASSUME ViewAssumption, Init PROVE IInv
  <1> USE DEF Init
  <1>0. 0 \in Revs /\ MaxRev \in Nat
    BY DEF Revs, ViewAssumption
  <1>1. Stored
    <2>1. bucket \in [Keys -> [kind : Kinds, rev : Revs]]
      BY <1>0 DEF Kinds
    <2>2. \A k \in Keys : bucket[k].rev = 0
      OBVIOUS
    <2> QED
      BY <1>0, <2>1, <2>2 DEF Stored
  <1>2. Watched
    BY <1>0 DEF Watched
  <1>3. Projected
    <2>1. pending \in [Keys -> [delta : Deltas \union {NoDelta}, seq : Nat]]
          /\ \A k \in Keys : pending[k] = NoOp /\ pending[k].seq = 0
      BY DEF NoOp
    <2> QED
      BY <1>0, <2>1 DEF Projected
  <1>4. Tasks /\ Lifecycle
    <2>1. ends \in 0..MaxEnds
      BY DEF ViewAssumption
    <2>2. ending \in [watcher : SUBSET Subs, stopper : SUBSET Subs]
          /\ ending.watcher = {} /\ ending.stopper = {}
      OBVIOUS
    <2>3. Tasks
      BY <2>1, <2>2, Zenon DEF Tasks
    <2>4. Lifecycle
      BY <2>2 DEF Lifecycle
    <2> QED
      BY <2>3, <2>4
  <1>5. Copied
    BY <1>0 DEF Copied, NoDelta, Delta
  <1>6. Subscribed
    <2>1. NewSub \in SubStates
      <3>1. <<>> \in Seq(Batches) /\ {} \in Batches
        BY DEF Batches
      <3> QED
        BY <3>1 DEF NewSub, SubStates, Causes
    <2>2. /\ NewSub.pc = "unborn" /\ NewSub.attachSeq = 0 /\ NewSub.batch = {} /\ NewSub.deltas = <<>>
          /\ NewSub.pending = [k \in Keys |-> NoDelta] /\ ~NewSub.done
      BY DEF NewSub
    <2>3. WellFormed(NewSub, 0)
      BY <2>2 DEF WellFormed, Once
    <2>4. ASSUME NEW k \in Keys PROVE Ordered(NewSub, k, NoOp, NoDelta, 0)
      <3>1. /\ SentOf(NewSub, k) = {} /\ HandOf(NewSub, k) = {} /\ BufferOf(NewSub, k) = {}
            /\ WindowOf(NewSub, NoOp) = {}
        BY <2>2 DEF SentOf, HandOf, BufferOf, WindowOf, Batched, NoOp
      <3>2. NoDelta.rev <= 0
        BY DEF NoDelta, Delta
      <3> QED
        BY <3>1, <3>2 DEF Ordered, InOrder, Newer, Follows
    <2> HIDE DEF NewSub
    <2>5. \A s \in Subs : sub[s] = NewSub /\ \A k \in Keys : copy[s][k] = NoDelta /\ pending[k] = NoOp
      OBVIOUS
    <2> QED
      BY <2>1, <2>3, <2>4, <2>5 DEF Subscribed
  <1>7. Exact
    BY DEF Exact
  <1> QED
    BY <1>1, <1>2, <1>3, <1>4, <1>5, <1>6, <1>7 DEF IInv

\* Every step preserves it.
LEMMA StepView == ASSUME ViewAssumption, IInv, [Next]_vars PROVE IInv'
  BY StoredStep, WatchedStep, ProjectedStep, TasksStep, LifecycleStep, DeliveryStep DEF IInv, Delivery

\* The layers of the invariant are those of the properties.
LEMMA LayersAre ==
  ASSUME NEW s, NEW k
  PROVE  /\ Sent(s, k) = SentOf(sub[s], k) /\ InHand(s, k) = HandOf(sub[s], k)
         /\ Buffered(s, k) = BufferOf(sub[s], k) /\ InWindow(s, k) = WindowOf(sub[s], pending[k])
         /\ OnItsWay(s, k) = Last(sub[s], k, pending[k], copy[s][k])
  <1>1. /\ Sent(s, k) = SentOf(sub[s], k) /\ InHand(s, k) = HandOf(sub[s], k)
        /\ Buffered(s, k) = BufferOf(sub[s], k) /\ InWindow(s, k) = WindowOf(sub[s], pending[k])
    BY DEF Sent, SentOf, InHand, HandOf, Buffered, BufferOf, InWindow, WindowOf
  <1> QED
    BY <1>1 DEF OnItsWay, Last, LastOf

\* What the invariant says of the properties.
LEMMA ViewImplies ==
  ASSUME ViewAssumption, IInv
  PROVE  TypeOK /\ SnapshotExact /\ NeverStale /\ NoFrozenView
  <1> USE DEF IInv
  <1>1. TypeOK
    <2>1. \A s \in Subs : sub[s].pc \in {"unborn", "select", "taking", "sending", "detaching", "exited"}
      BY SubFields DEF Subscribed
    <2> QED
      BY <2>1 DEF TypeOK, Stored, Tasks, Projected
  <1>2. SnapshotExact
    BY LayersAre DEF SnapshotExact, Exact, Matches
  <1>3. NeverStale
    BY LayersAre DEF NeverStale, Subscribed, Ordered, InOrder, Newer
  <1>4. NoFrozenView
    <2>1. \A s \in Subs : sub[s].pc = "exited" => sub[s].done /\ sub[s].err # "none"
      BY DEF Subscribed, WellFormed
    <2>2. ending = [watcher |-> ending.watcher, stopper |-> ending.stopper]
      BY DEF Tasks
    <2>3. stopper = "returned" => /\ Joined /\ watchOpen # "open"
                                  /\ ending = [watcher |-> {}, stopper |-> {}]
      BY <2>2 DEF Lifecycle, Joined
    <2> QED
      BY <2>1, <2>3 DEF NoFrozenView, Lifecycle
  <1> QED
    BY <1>1, <1>2, <1>3, <1>4

-----------------------------------------------------------------------------
\* The inductive invariant holds in every behaviour of the view.
THEOREM ViewInvariant == ASSUME ViewAssumption PROVE Spec => []IInv
  <1>1. Init => IInv
    BY InitView
  <1>2. IInv /\ [Next]_vars => IInv'
    BY StepView
  <1> QED
    BY <1>1, <1>2, PTL DEF Spec

\* A snapshot and the deltas after it are the view, no delta on its way to a subscriber is
\* older than what it knows, no view is served and no subscription kept without a watcher,
\* and a Stop that returned left nothing running (pkg/graphview: fanOut, apply, applySkip,
\* SnapshotAndSubscribe, failClosed, Stop).
THEOREM ViewSafe ==
  ASSUME ViewAssumption
  PROVE  Spec => [](TypeOK /\ SnapshotExact /\ NeverStale /\ NoFrozenView)
  <1>1. IInv => TypeOK /\ SnapshotExact /\ NeverStale /\ NoFrozenView
    BY ViewImplies
  <1> QED
    BY <1>1, ViewInvariant, PTL
=============================================================================
