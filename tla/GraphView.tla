------------------------------ MODULE GraphView ------------------------------
(***************************************************************************)
(* pkg/graphview: one in-memory projection of a KV bucket, fed by a single *)
(* WatchAll and fanned out to local subscribers in coalesced batches.      *)
(*                                                                         *)
(* The goroutines are the caller of Start, the watcher, the ticker, the    *)
(* caller of Stop and one delivery goroutine per subscription.  A step is  *)
(* one critical section of the projection mutex or of a subscription's     *)
(* mutex, or one channel operation.  A value is named by the revision that *)
(* wrote it; what the decoder makes of a write (a value to keep, a failure,*)
(* a value outside the view) is the kind of the write.                     *)
(***************************************************************************)
EXTENDS Naturals, Sequences, FiniteSets

CONSTANTS Keys,     \* keys of the bucket
          Subs,     \* subscriptions that may be made
          Writes,   \* the writes made, <<key, kind>> pairs
          MaxRev,   \* bound on the bucket's writes
          MaxEnds   \* bound on losses, cancellations, stops and unsubscriptions

VARIABLES
  bucket,      \* the KV bucket: per key, kind and revision of the last write
  lastRev,     \* the bucket's last revision
  watch,       \* updates delivered to the watcher and not yet read
  watchOpen,   \* the watch: "none", "open", "lost" or "stopped"
  vstate,      \* View.state
  cancelled,   \* the context of Start's goroutines is done
  starter,     \* the caller of Start
  watcher,     \* runWatcher
  ticker,      \* runTicker
  stopper,     \* the caller of Stop
  entries,     \* View.entries: revision of the value held, 0 if none
  poisoned,    \* View.poisoned: revision of the poison record, 0 if none
  pending,     \* View.pending: coalesced operations of this tick window
  seq,         \* View.seq
  appliedRev,  \* View.appliedRev
  seen,        \* runWatcher's seen set
  subs,        \* View.subs
  ending,      \* per terminator, the subscriptions it still has to terminate
  sub,         \* the Subscription objects
  ends,        \* number of endings so far (MaxEnds)
  copy         \* what a subscriber makes of its snapshot and its deltas

bucketVars == <<bucket, lastRev>>
projection == <<entries, poisoned, seq, appliedRev, seen>>
tasks == <<starter, watcher, ticker, stopper>>
vars == <<bucketVars, watch, watchOpen, vstate, cancelled, tasks, projection,
          pending, subs, ending, sub, ends, copy>>

Kinds == {"keep", "bad", "skip", "del"}
Revs == 0 .. MaxRev
EndOfReplay == [key |-> "nil", kind |-> "nil", rev |-> 0]   \* the nil entry
Entry(k, b) == [key |-> k, kind |-> b.kind, rev |-> b.rev]

Delta(op, r) == [op |-> op, rev |-> r]
NoDelta == Delta("none", 0)
NoOp == [delta |-> NoDelta, seq |-> 0]

NewSub == [pc |-> "unborn", attachSeq |-> 0, pending |-> [k \in Keys |-> NoDelta],
           notify |-> FALSE, batch |-> {}, deltas |-> <<>>, done |-> FALSE,
           err |-> "none", ctx |-> FALSE, detacher |-> FALSE]

-----------------------------------------------------------------------------
(* The bucket and its watch.                                               *)

\* The replay WatchAll starts with: the last entry of every key, in order of
\* revision, then the nil entry that ends it.
Replay ==
  LET written == {k \in Keys : bucket[k].rev > 0}
      nth(n) == CHOOSE k \in written :
                  Cardinality({j \in written : bucket[j].rev <= bucket[k].rev}) = n
  IN [n \in 1 .. Cardinality(written) |-> Entry(nth(n), bucket[nth(n)])] \o <<EndOfReplay>>

Init ==
  /\ bucket = [k \in Keys |-> [kind |-> "del", rev |-> 0]]
  /\ lastRev = 0
  /\ watch = <<>> /\ watchOpen = "none"
  /\ vstate = "new" /\ cancelled = FALSE
  /\ starter = "idle" /\ watcher = "none" /\ ticker = "none" /\ stopper = "idle"
  /\ entries = [k \in Keys |-> 0] /\ poisoned = [k \in Keys |-> 0]
  /\ pending = [k \in Keys |-> NoOp]
  /\ seq = 0 /\ appliedRev = 0 /\ seen = {}
  /\ subs = {}
  /\ ending = [watcher |-> {}, stopper |-> {}]
  /\ sub = [s \in Subs |-> NewSub]
  /\ ends = 0
  /\ copy = [s \in Subs |-> [k \in Keys |-> NoDelta]]

\* Anyone writes the bucket; an open watch delivers the write.
Write(k, kind) ==
  /\ lastRev < MaxRev
  /\ lastRev' = lastRev + 1
  /\ bucket' = [bucket EXCEPT ![k] = [kind |-> kind, rev |-> lastRev + 1]]
  /\ watch' = IF watchOpen = "open" THEN Append(watch, Entry(k, bucket'[k])) ELSE watch
  /\ UNCHANGED <<watchOpen, vstate, cancelled, tasks, projection, pending, subs,
                 ending, sub, copy, ends>>

\* The updates channel closes under the watcher (it drains what it holds).
LoseWatch ==
  /\ watchOpen = "open"
  /\ ends < MaxEnds /\ ends' = ends + 1
  /\ watchOpen' = "lost"
  /\ UNCHANGED <<bucketVars, watch, vstate, cancelled, tasks, projection, pending,
                 subs, ending, sub, copy>>

\* The owner's context ends without Stop.
CancelStart ==
  /\ starter # "idle" /\ ~cancelled
  /\ ends < MaxEnds /\ ends' = ends + 1
  /\ cancelled' = TRUE
  /\ UNCHANGED <<bucketVars, watch, watchOpen, vstate, tasks, projection, pending,
                 subs, ending, sub, copy>>

-----------------------------------------------------------------------------
(* Start and openWatcher.                                                  *)

Start ==
  /\ vstate = "new"
  /\ vstate' = "bootstrap"
  /\ starter' = "opening" /\ ticker' = "running"
  /\ UNCHANGED <<bucketVars, watch, watchOpen, cancelled, watcher, stopper,
                 projection, pending, subs, ending, sub, copy, ends>>

\* WatchAll fails: only a view still bootstrapping becomes failed.
OpenFails ==
  /\ starter = "opening"
  /\ starter' = "done"
  /\ vstate' = IF vstate = "bootstrap" THEN "failed" ELSE vstate
  /\ UNCHANGED <<bucketVars, watch, watchOpen, cancelled, watcher, ticker, stopper,
                 projection, pending, subs, ending, sub, copy, ends>>

OpenSucceeds ==
  /\ starter = "opening"
  /\ starter' = "opened"
  /\ watchOpen' = "open" /\ watch' = Replay
  /\ UNCHANGED <<bucketVars, vstate, cancelled, watcher, ticker, stopper, projection,
                 pending, subs, ending, sub, copy, ends>>

\* Mutant: a watch opened after Stop won is not stopped.
AdmitWatcher_LeavesWatch ==
  /\ starter = "opened"
  /\ starter' = "done"
  /\ watcher' = IF vstate = "bootstrap" THEN "running" ELSE watcher
  /\ UNCHANGED <<bucketVars, watch, watchOpen, vstate, cancelled, ticker, stopper,
                 projection, pending, subs, ending, sub, copy, ends>>

\* The state is read again under the mutex once the I/O is over: Stop may have
\* won meanwhile, and then the watch just opened is stopped here.
AdmitWatcher ==
  /\ starter = "opened"
  /\ starter' = "done"
  /\ IF vstate = "bootstrap"
       THEN watcher' = "running" /\ UNCHANGED watchOpen
       ELSE watchOpen' = "stopped" /\ UNCHANGED watcher
  /\ UNCHANGED <<bucketVars, watch, vstate, cancelled, ticker, stopper, projection,
                 pending, subs, ending, sub, copy, ends>>

-----------------------------------------------------------------------------
(* runWatcher.                                                             *)

OpOf(kind) == CASE kind = "keep" -> "upsert"
                [] kind = "bad" -> "poison"
                [] OTHER -> "delete"

\* The watcher has not read the end of the replay (its seen set is not nil).
Replaying == \E i \in DOMAIN watch : watch[i] = EndOfReplay

\* apply: the projection, and the window when the view is live.
Apply(e) ==
  /\ seq' = seq + 1
  /\ appliedRev' = IF e.rev > appliedRev THEN e.rev ELSE appliedRev
  /\ entries' = [entries EXCEPT ![e.key] = IF e.kind = "keep" THEN e.rev ELSE 0]
  /\ poisoned' = [poisoned EXCEPT ![e.key] = IF e.kind = "bad" THEN e.rev ELSE 0]
  /\ seen' = IF Replaying THEN seen \union {e.key} ELSE seen
  /\ pending' = IF vstate = "live"
                  THEN [pending EXCEPT ![e.key] =
                          [delta |-> Delta(OpOf(e.kind), e.rev), seq |-> seq + 1]]
                  ELSE pending

\* Mutant: a key that leaves the view leaves without a tombstone.
ApplySkip_NoTombstone(e) ==
  /\ seq' = seq + 1
  /\ appliedRev' = IF e.rev > appliedRev THEN e.rev ELSE appliedRev
  /\ entries' = [entries EXCEPT ![e.key] = 0]
  /\ poisoned' = [poisoned EXCEPT ![e.key] = 0]
  /\ UNCHANGED <<seen, pending>>

\* applySkip: absence; a tombstone only for a key the view held.
ApplySkip(e) ==
  LET held == entries[e.key] > 0 \/ poisoned[e.key] > 0 IN
  /\ seq' = seq + 1
  /\ appliedRev' = IF e.rev > appliedRev THEN e.rev ELSE appliedRev
  /\ entries' = [entries EXCEPT ![e.key] = 0]
  /\ poisoned' = [poisoned EXCEPT ![e.key] = 0]
  /\ seen' = seen
  /\ pending' = IF held /\ vstate = "live"
                  THEN [pending EXCEPT ![e.key] =
                          [delta |-> Delta("delete", e.rev), seq |-> seq + 1]]
                  ELSE pending

ProcessEntry ==
  /\ watcher = "running" /\ watch # <<>> /\ Head(watch) # EndOfReplay
  /\ watch' = Tail(watch)
  /\ IF Head(watch).kind = "skip" THEN ApplySkip(Head(watch)) ELSE Apply(Head(watch))
  /\ UNCHANGED <<bucketVars, watchOpen, vstate, cancelled, tasks, subs, ending, sub, copy, ends>>

\* markCaughtUp: keys the replay did not deliver go before the view is live.
MarkCaughtUp ==
  /\ watcher = "running" /\ watch # <<>> /\ Head(watch) = EndOfReplay
  /\ watch' = Tail(watch)
  /\ IF vstate = "bootstrap"
       THEN /\ entries' = [k \in Keys |-> IF k \in seen THEN entries[k] ELSE 0]
            /\ poisoned' = [k \in Keys |-> IF k \in seen THEN poisoned[k] ELSE 0]
            /\ vstate' = "live"
       ELSE UNCHANGED <<entries, poisoned, vstate>>
  /\ seen' = {}
  /\ UNCHANGED <<bucketVars, watchOpen, cancelled, tasks, seq, appliedRev, pending,
                 subs, ending, sub, copy, ends>>

\* failClosed, its critical section: the context is done or the updates channel
\* is closed and empty.
FailClosed ==
  /\ watcher = "running"
  /\ cancelled \/ (watchOpen = "lost" /\ watch = <<>>)
  /\ watcher' = "closing"
  /\ IF vstate \in {"stopped", "failed"}
       THEN UNCHANGED <<vstate, pending, subs, ending>>
       ELSE /\ vstate' = "failed"
            /\ pending' = [k \in Keys |-> NoOp]
            /\ ending' = [ending EXCEPT !.watcher = subs]
            /\ subs' = {}
  /\ UNCHANGED <<bucketVars, watch, watchOpen, cancelled, starter, ticker, stopper,
                 projection, sub, copy, ends>>

\* Subscription.terminate: once.
Terminated(s, cause) ==
  IF sub[s].done THEN sub[s]
  ELSE [sub[s] EXCEPT !.done = TRUE, !.err = cause, !.pending = [k \in Keys |-> NoDelta]]

\* failClosed, outside the mutex: the subscriptions it took out end one by one.
FailTerminates(s) ==
  /\ s \in ending.watcher
  /\ ending' = [ending EXCEPT !.watcher = @ \ {s}]
  /\ sub' = [sub EXCEPT ![s] = Terminated(s, "watcher lost")]
  /\ UNCHANGED <<bucketVars, watch, watchOpen, vstate, cancelled, tasks, projection,
                 pending, subs, copy, ends>>

WatcherExits ==
  /\ watcher = "closing" /\ ending.watcher = {}
  /\ watcher' = "exited"
  /\ watchOpen' = "stopped"
  /\ UNCHANGED <<bucketVars, watch, vstate, cancelled, starter, ticker, stopper,
                 projection, pending, subs, ending, sub, copy, ends>>

-----------------------------------------------------------------------------
(* runTicker and fanOut.                                                   *)

\* Mutants: the whole window is enqueued, whatever the snapshot covers; and the
\* delivery goroutine is not notified.
Enqueued_WholeWindow(s) ==
  LET new == {k \in Keys : pending[k] # NoOp}
  IN IF sub[s].done THEN sub[s]
     ELSE [sub[s] EXCEPT
             !.pending = [k \in Keys |-> IF k \in new THEN pending[k].delta ELSE @[k]],
             !.notify = @ \/ new # {}]

Enqueued_Silently(s) ==
  LET new == {k \in Keys : pending[k] # NoOp /\ pending[k].seq > sub[s].attachSeq}
  IN IF sub[s].done THEN sub[s]
     ELSE [sub[s] EXCEPT
             !.pending = [k \in Keys |-> IF k \in new THEN pending[k].delta ELSE @[k]]]

\* enqueueLocked: operations the subscriber's snapshot covers are left out, the
\* rest overwrite per key, and the delivery goroutine is notified.
Enqueued(s) ==
  LET new == {k \in Keys : pending[k] # NoOp /\ pending[k].seq > sub[s].attachSeq}
  IN IF sub[s].done THEN sub[s]
     ELSE [sub[s] EXCEPT
             !.pending = [k \in Keys |-> IF k \in new THEN pending[k].delta ELSE @[k]],
             !.notify = @ \/ new # {}]

\* One critical section: detach the window and enqueue it to every subscriber.
FanOut ==
  /\ ticker = "running" /\ vstate = "live"
  /\ \E k \in Keys : pending[k] # NoOp
  /\ pending' = [k \in Keys |-> NoOp]
  /\ sub' = [s \in Subs |-> IF s \in subs THEN Enqueued(s) ELSE sub[s]]
  /\ UNCHANGED <<bucketVars, watch, watchOpen, vstate, cancelled, tasks, projection,
                 subs, ending, copy, ends>>

TickerExits ==
  /\ ticker = "running" /\ cancelled
  /\ ticker' = "exited"
  /\ UNCHANGED <<bucketVars, watch, watchOpen, vstate, cancelled, starter, watcher,
                 stopper, projection, pending, subs, ending, sub, copy, ends>>

-----------------------------------------------------------------------------
(* Stop.                                                                   *)

Stop ==
  /\ stopper = "idle"
  /\ ends < MaxEnds /\ ends' = ends + 1
  /\ stopper' = "terminating"
  /\ vstate' = "stopped"
  /\ ending' = [ending EXCEPT !.stopper = subs]
  /\ subs' = {}
  /\ pending' = [k \in Keys |-> NoOp]
  /\ UNCHANGED <<bucketVars, watch, watchOpen, cancelled, starter, watcher, ticker,
                 projection, sub, copy>>

StopTerminates(s) ==
  /\ s \in ending.stopper
  /\ ending' = [ending EXCEPT !.stopper = @ \ {s}]
  /\ sub' = [sub EXCEPT ![s] = Terminated(s, "view stopped")]
  /\ UNCHANGED <<bucketVars, watch, watchOpen, vstate, cancelled, tasks, projection,
                 pending, subs, copy, ends>>

\* Mutant: Stop waits without cancelling.
StopCancels_Not ==
  /\ stopper = "terminating" /\ ending.stopper = {}
  /\ stopper' = "waiting"
  /\ UNCHANGED <<bucketVars, watch, watchOpen, vstate, cancelled, starter, watcher,
                 ticker, projection, pending, subs, ending, sub, copy, ends>>

\* The context of the watcher and the ticker is cancelled, if there is one.
StopCancels ==
  /\ stopper = "terminating" /\ ending.stopper = {}
  /\ stopper' = "waiting"
  /\ cancelled' = (cancelled \/ starter # "idle")
  /\ UNCHANGED <<bucketVars, watch, watchOpen, vstate, starter, watcher, ticker,
                 projection, pending, subs, ending, sub, copy, ends>>

\* wg counts the call of Start, the watcher, the ticker and every delivery
\* goroutine.  Another call of Stop waits for the same.
Joined ==
  /\ starter \in {"idle", "done"}
  /\ watcher \in {"none", "exited"} /\ ticker \in {"none", "exited"}
  /\ \A s \in Subs : sub[s].pc \in {"unborn", "exited"}

StopReturns ==
  /\ stopper = "waiting" /\ Joined
  /\ stopper' = "returned"
  /\ UNCHANGED <<bucketVars, watch, watchOpen, vstate, cancelled, starter, watcher,
                 ticker, projection, pending, subs, ending, sub, copy, ends>>

-----------------------------------------------------------------------------
(* Subscriptions.                                                          *)

\* What the projection holds for a key.
Held(k) == IF entries[k] > 0 THEN Delta("upsert", entries[k])
           ELSE IF poisoned[k] > 0 THEN Delta("poison", poisoned[k])
           ELSE Delta("delete", appliedRev)

\* SnapshotAndSubscribe and Subscribe (withSnapshot FALSE): only a live view
\* serves them; snapshot and attach are at one sequence.
Attach(s, withSnapshot) ==
  /\ vstate = "live" /\ sub[s].pc = "unborn"
  /\ sub' = [sub EXCEPT ![s].pc = "select", ![s].attachSeq = seq]
  /\ subs' = subs \union {s}
  /\ copy' = [copy EXCEPT ![s] = [k \in Keys |-> IF withSnapshot THEN Held(k)
                                                 ELSE Delta("unknown", appliedRev)]]
  /\ UNCHANGED <<bucketVars, watch, watchOpen, vstate, cancelled, tasks, projection,
                 pending, ending, ends>>

SubStep(s, new) ==
  /\ sub' = [sub EXCEPT ![s] = new]
  /\ UNCHANGED <<bucketVars, watch, watchOpen, vstate, cancelled, tasks, projection,
                 pending, ending>>

\* run receives the wake-up, then takes the buffer in a critical section of its own.
RunWakes(s) ==
  /\ sub[s].pc = "select" /\ sub[s].notify
  /\ SubStep(s, [sub[s] EXCEPT !.pc = "taking", !.notify = FALSE])
  /\ UNCHANGED <<subs, ends, copy>>

Take(s) ==
  LET buffered == {k \in Keys : sub[s].pending[k] # NoDelta} IN
  /\ sub[s].pc = "taking"
  /\ SubStep(s, IF buffered = {} THEN [sub[s] EXCEPT !.pc = "select"]
                ELSE [sub[s] EXCEPT !.pc = "sending",
                                    !.pending = [k \in Keys |-> NoDelta],
                                    !.batch = {<<k, sub[s].pending[k]>> : k \in buffered}])
  /\ UNCHANGED <<subs, ends, copy>>

RunSends(s) ==
  /\ sub[s].pc = "sending" /\ sub[s].deltas = <<>>
  /\ SubStep(s, [sub[s] EXCEPT !.pc = "select", !.batch = {}, !.deltas = <<sub[s].batch>>])
  /\ UNCHANGED <<subs, ends, copy>>

RunEnds(s) ==
  /\ sub[s].pc \in {"select", "sending"} /\ sub[s].done
  /\ SubStep(s, [sub[s] EXCEPT !.pc = "exited", !.batch = {}])
  /\ UNCHANGED <<subs, ends, copy>>

\* The subscription's context is done: removeSub, then terminate, then exit.
RunDetaches(s) ==
  /\ sub[s].pc \in {"select", "sending"} /\ sub[s].ctx
  /\ SubStep(s, [sub[s] EXCEPT !.pc = "detaching", !.batch = {}])
  /\ subs' = subs \ {s}
  /\ UNCHANGED <<ends, copy>>

RunDetached(s) ==
  /\ sub[s].pc = "detaching"
  /\ SubStep(s, [Terminated(s, "context") EXCEPT !.pc = "exited"])
  /\ UNCHANGED <<subs, ends, copy>>

CancelSub(s) ==
  /\ sub[s].pc # "unborn" /\ ~sub[s].ctx
  /\ ends < MaxEnds /\ ends' = ends + 1
  /\ SubStep(s, [sub[s] EXCEPT !.ctx = TRUE])
  /\ UNCHANGED <<subs, copy>>

\* Unsubscribe: removeSub and terminate are two critical sections.
Unsubscribe(s) ==
  /\ sub[s].pc # "unborn" /\ ~sub[s].detacher
  /\ ends < MaxEnds /\ ends' = ends + 1
  /\ SubStep(s, [sub[s] EXCEPT !.detacher = TRUE])
  /\ subs' = subs \ {s}
  /\ UNCHANGED copy

Unsubscribed(s) ==
  /\ sub[s].detacher /\ ~sub[s].done
  /\ SubStep(s, Terminated(s, "unsubscribed"))
  /\ UNCHANGED <<subs, ends, copy>>

\* The subscriber reads a batch, which holds at most one delta per key.
Receive(s) ==
  /\ sub[s].deltas # <<>>
  /\ SubStep(s, [sub[s] EXCEPT !.deltas = <<>>])
  /\ copy' = [copy EXCEPT ![s] =
       [k \in Keys |-> LET ds == {d \in Head(sub[s].deltas) : d[1] = k}
                       IN IF ds = {} THEN @[k] ELSE (CHOOSE d \in ds : TRUE)[2]]]
  /\ UNCHANGED <<subs, ends>>

-----------------------------------------------------------------------------
WatcherNext == ProcessEntry \/ MarkCaughtUp \/ FailClosed \/ WatcherExits
StarterNext == OpenFails \/ OpenSucceeds \/ AdmitWatcher
StopperNext == StopCancels \/ StopReturns

RunNext(s) == \/ RunWakes(s) \/ Take(s) \/ RunSends(s)
              \/ RunEnds(s) \/ RunDetaches(s) \/ RunDetached(s)

SubNext(s) == \/ \E b \in BOOLEAN : Attach(s, b)
              \/ RunNext(s)
              \/ CancelSub(s) \/ Unsubscribe(s) \/ Unsubscribed(s) \/ Receive(s)
              \/ FailTerminates(s) \/ StopTerminates(s)

Next ==
  \/ \E w \in Writes : Write(w[1], w[2])
  \/ LoseWatch \/ CancelStart
  \/ Start \/ StarterNext
  \/ WatcherNext
  \/ FanOut \/ TickerExits
  \/ Stop \/ StopperNext
  \/ \E s \in Subs : SubNext(s)

\* A runnable goroutine runs, WatchAll returns, the ticker ticks, a call of
\* Unsubscribe ends, and a subscriber reads what it is sent.
Fairness ==
  /\ WF_vars(StarterNext) /\ WF_vars(WatcherNext)
  /\ WF_vars(FanOut) /\ WF_vars(TickerExits) /\ WF_vars(StopperNext)
  /\ \A s \in Subs : /\ WF_vars(RunNext(s)) /\ WF_vars(Unsubscribed(s)) /\ WF_vars(Receive(s))
                     /\ WF_vars(FailTerminates(s)) /\ WF_vars(StopTerminates(s))

Spec == Init /\ [][Next]_vars /\ Fairness

-----------------------------------------------------------------------------
(* Properties.                                                             *)

\* Every variable has its type.
TypeOK ==
  /\ bucket \in [Keys -> [kind : Kinds, rev : Revs]] /\ lastRev \in Revs
  /\ watchOpen \in {"none", "open", "lost", "stopped"}
  /\ vstate \in {"new", "bootstrap", "live", "failed", "stopped"}
  /\ cancelled \in BOOLEAN
  /\ starter \in {"idle", "opening", "opened", "done"}
  /\ watcher \in {"none", "running", "closing", "exited"}
  /\ ticker \in {"none", "running", "exited"}
  /\ stopper \in {"idle", "terminating", "waiting", "returned"}
  /\ entries \in [Keys -> Revs] /\ poisoned \in [Keys -> Revs]
  /\ seq \in Nat /\ appliedRev \in Revs /\ seen \subseteq Keys
  /\ subs \subseteq Subs
  /\ \A s \in Subs : sub[s].pc \in {"unborn", "select", "taking", "sending",
                                    "detaching", "exited"}

\* The deltas of key k on their way to s: in the channel, in the hands of the delivery
\* goroutine, in its buffer, and in the window of this tick.
Batched(k, b) == {d[2] : d \in {x \in b : x[1] = k}}
Sent(s, k) == IF sub[s].deltas = <<>> THEN {} ELSE Batched(k, Head(sub[s].deltas))
InHand(s, k) == Batched(k, sub[s].batch)
Buffered(s, k) == {sub[s].pending[k]} \ {NoDelta}
InWindow(s, k) == IF pending[k].seq > sub[s].attachSeq THEN {pending[k].delta} ELSE {}

\* The last of them, or what s has if there is none.
OnItsWay(s, k) ==
  LET last(S) == CHOOSE d \in S : TRUE
  IN IF InWindow(s, k) # {} THEN last(InWindow(s, k))
     ELSE IF Buffered(s, k) # {} THEN last(Buffered(s, k))
     ELSE IF InHand(s, k) # {} THEN last(InHand(s, k))
     ELSE IF Sent(s, k) # {} THEN last(Sent(s, k)) ELSE copy[s][k]

\* A snapshot and the deltas after it are the view: while a subscription is
\* attached to a live view, what its copy becomes once the deltas on their way
\* arrive is what the projection holds, for every key, whatever the ticks, the
\* attach and the applies did in between (view.go, the tick seam of fanOut).
SnapshotExact ==
  vstate = "live" =>
    \A s \in subs, k \in Keys :
      LET d == OnItsWay(s, k) IN
      ~sub[s].done /\ d.op # "unknown" =>
        d.op = Held(k).op /\ (d.op # "delete" => d.rev = Held(k).rev)

\* A subscriber never goes back: every delta on its way to it, in the channel, in
\* the delivery goroutine's hands or buffered, is newer than what its snapshot and
\* the deltas before it told it about the key (G1 and G4).
NeverStale ==
  \A s \in Subs, k \in Keys :
    \A d \in Sent(s, k) \union InHand(s, k) \union Buffered(s, k) : d.rev > copy[s][k].rev

\* A view ends cleanly.  A live view and every attached subscription have a
\* running watcher behind them: a projection nobody feeds is never served as
\* live.  A delivery goroutine ends with a cause on record.  When Stop has
\* returned nothing of the view runs: no goroutine, no termination still to come,
\* no watch left open at the server, also when WatchAll answered after Stop began.
NoFrozenView ==
  /\ vstate = "live" => watcher = "running"
  /\ subs # {} => vstate = "live"
  /\ \A s \in Subs : sub[s].pc = "exited" => sub[s].done /\ sub[s].err # "none"
  /\ stopper = "returned" => /\ Joined /\ watchOpen # "open"
                             /\ ending = [watcher |-> {}, stopper |-> {}]

\* Nothing hangs: Stop returns whatever the watcher, the ticker and the
\* subscribers were doing, and once the view is failed or stopped every
\* subscription's channel closes.
NothingHangs ==
  (stopper # "idle" \/ vstate \in {"failed", "stopped"})
    ~> /\ stopper \in {"idle", "returned"}
       /\ \A s \in Subs : sub[s].pc \in {"unborn", "exited"}

\* What the bucket's last write of k means to a reader of the view.
Wanted(k) == Delta(OpOf(bucket[k].kind), bucket[k].rev)

\* Writes reach subscribers: once the writes are over, a subscriber of a view
\* that stays live comes to hold the bucket's value of every key.
Converges ==
  \A s \in Subs :
    <>[](lastRev = MaxRev /\ vstate = "live" /\ watchOpen = "open" /\ s \in subs
           /\ ~sub[s].ctx)
      => <>[](\A k \in Keys :
                /\ copy[s][k].op \in {Wanted(k).op, "unknown"}
                /\ copy[s][k].op \in {"upsert", "poison"} => copy[s][k].rev = Wanted(k).rev)
=============================================================================
