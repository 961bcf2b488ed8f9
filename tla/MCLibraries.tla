----------------------------- MODULE MCLibraries -----------------------------
(***************************************************************************)
(* The components that other components are built on, side by side: the    *)
(* watermark, the graph view, the request lane of the model and the gated  *)
(* DAG executor.  They share no state.  focus, chosen at the start, says   *)
(* which of them runs; the others stay in their initial states, so the     *)
(* states of this module are the states of each, one component after the   *)
(* other.                                                                  *)
(***************************************************************************)
EXTENDS Watermark, FiniteSets

CONSTANTS ViewKeys, Subs, ViewWrites, ViewRevs, MaxEnds,         \* GraphView
          Reqs, Malformed, MaxDeliver, LaneFaults,               \* ModelLane
          Units, DependsOn, Workers, QueueSize, DagFaults,       \* GatedDag
          MaxResets, MaxStored

\* A bucket has finitely many keys and a plan names only its own units.
ASSUME SuiteAssumption ==
  /\ IsFiniteSet(ViewKeys) /\ ViewWrites \subseteq ViewKeys \X {"keep", "bad", "skip", "del"}
  /\ ViewRevs \in Nat /\ MaxEnds \in Nat
  /\ MaxDeliver \in Nat /\ LaneFaults \in Nat
  /\ DependsOn \in [Units -> SUBSET Units] /\ QueueSize \in Nat

\* Every kind of write of one key, and a second key that is only upserted.
EveryWrite == LET k == CHOOSE k \in ViewKeys : TRUE
              IN ({k} \X {"keep", "bad", "skip", "del"}) \union ((ViewKeys \ {k}) \X {"keep"})

\* A unit and a unit that waits for it.
Chain == [u \in {1, 2} |-> IF u = 2 THEN {1} ELSE {}]

VARIABLES focus,
  bucket, lastRev, watch, watchOpen, vstate, cancelled, starter, watcher, ticker,
  stopper, entries, poisoned, tick, seq, appliedRev, seen, subs, ending, sub, ends, copy,
  req, tries, responses, wire, others, doubts, inbox, cb, work, open, fatal, recorded,
  observer, handle, drains, laneCancelled, owner, late, laneFaults,
  unit, stopFirst, up, eval, inflight, fanOut, completed, queue, worker, stream, window,
  running, dagFaults, resets, history

View == INSTANCE GraphView WITH Keys <- ViewKeys, Writes <- ViewWrites,
          MaxRev <- ViewRevs, pending <- tick
Lane == INSTANCE ModelLane WITH MaxFaults <- LaneFaults, faults <- laneFaults,
          cancelled <- laneCancelled
Dag == INSTANCE GatedDag WITH MaxFaults <- DagFaults, faults <- dagFaults

viewVars == <<bucket, lastRev, watch, watchOpen, vstate, cancelled, starter, watcher,
              ticker, stopper, entries, poisoned, tick, seq, appliedRev, seen, subs,
              ending, sub, ends, copy>>
laneVars == <<req, tries, responses, wire, others, doubts, inbox, cb, work, open, fatal,
              recorded, observer, handle, drains, laneCancelled, owner, late, laneFaults>>
dagVars == <<unit, stopFirst, up, eval, inflight, fanOut, completed, queue, worker,
             stream, window, running, dagFaults, resets, history>>
suiteVars == <<focus, vars, viewVars, laneVars, dagVars>>

SuiteInit ==
  /\ focus \in {"watermark", "view", "lane", "dag"}
  /\ Init /\ View!Init /\ Lane!Init /\ Dag!Init
  /\ ~stopFirst    \* stop_on_first_failure only selects less; MCProgress has both

SuiteNext ==
  /\ UNCHANGED focus
  /\ \/ focus = "watermark" /\ Next /\ UNCHANGED <<viewVars, laneVars, dagVars>>
     \/ focus = "view" /\ View!Next /\ UNCHANGED <<vars, laneVars, dagVars>>
     \/ focus = "lane" /\ Lane!Next /\ UNCHANGED <<vars, viewVars, dagVars>>
     \/ focus = "dag" /\ Dag!Next /\ UNCHANGED <<vars, viewVars, laneVars>>

SuiteSpec == SuiteInit /\ [][SuiteNext]_suiteVars

\* Every variable of the component that runs has its type; in particular the dispatch
\* queue of the DAG executor never holds more than its size.
ComponentsTypeOK ==
  /\ focus = "watermark" => TypeOK
  /\ focus = "view" => View!TypeOK
  /\ focus = "lane" => Lane!TypeOK
  /\ focus = "dag" => Dag!TypeOK

\* The snapshot of a subscription and the deltas after it are the view
\* (GraphView, fanOut and SnapshotAndSubscribe).
SnapshotExact == focus = "view" => View!SnapshotExact

\* No delta on its way to a subscriber is older than what it knows (GraphView).
NeverStale == focus = "view" => View!NeverStale

\* No view is served as live, and no subscription kept, without a watcher, and a
\* Stop that returned left nothing running (GraphView, failClosed and Stop).
NoFrozenView == focus = "view" => View!NoFrozenView

\* An acknowledged request has its response retained (ModelLane, handleRequest).
AckedIsAnswered == focus = "lane" => Lane!AckedIsAnswered

\* A response is repeated only after a publish without acknowledgement or an overlap
\* of two processes (ModelLane, readRetainedAgentResponse).
RepeatedOnlyInDoubt == focus = "lane" => Lane!RepeatedOnlyInDoubt

\* A fatal result is on record before anything acts on it, and the consume handle
\* is drained once (ModelLane, Latch, Observe and Binding.Drain).
FatalIsDeclared == focus = "lane" => Lane!FatalIsDeclared

\* No dispatch before the prerequisites completed (GatedDag, Evaluate).
DependencyOrder == focus = "dag" => Dag!DependencyOrder

\* One stored dispatch for a unit that is never reset (GatedDag, reEvaluate and
\* claimThenDispatch).
OnceEach == focus = "dag" => Dag!OnceEach
=============================================================================
