------------------------------ MODULE MCProgress ------------------------------
(***************************************************************************)
(* What must eventually happen, component by component and side by side:   *)
(* the keyed pool, the graph view with its subscriptions, the request lane *)
(* of the model, the dispatch of the gated DAG executor, the ingest lane   *)
(* and the index pipeline.  They share no state.  focus, chosen at the     *)
(* start, says which of them runs; the others stay in their initial        *)
(* states.  The fairness of the pool is part of the specification, that of *)
(* each other component is the hypothesis of its property.  The safety of  *)
(* the keyed pool is checked here as well.                                 *)
(***************************************************************************)
EXTENDS MCKeyedPool, TLC

VARIABLES focus,
  bucket, lastRev, watch, watchOpen, vstate, viewCancelled, starter, watcher, ticker,
  stopper, entries, poisoned, tick, seq, appliedRev, seen, subs, ending, sub, ends, copy,
  req, tries, responses, wire, others, doubts, inbox, cb, work, open, fatal, recorded,
  observer, handle, drains, laneCancelled, owner, late, laneFaults,
  unit, stopFirst, up, eval, inflight, fanOut, completed, jobs, worker, stream, window,
  running, dagFaults, resets, history,
  phase, delivered, stopping, ingestLanes, ingestWorker, mem, durable, state, broken,
  landed, ingestFaults, crashes,
  log, rows, observedHigh, observedHighAt, pending, coveredRev, coveredAt, observed,
  startSeq, bootstrapTarget, initialEnumerationComplete, indexBootstrapped, indexWatcher,
  coalescer, batch, indexLanes, indexWorker, failedEntities, resetState, reader, status,
  indexFaults, restarts

viewVars == <<bucket, lastRev, watch, watchOpen, vstate, viewCancelled, starter, watcher,
              ticker, stopper, entries, poisoned, tick, seq, appliedRev, seen, subs,
              ending, sub, ends, copy>>
laneVars == <<req, tries, responses, wire, others, doubts, inbox, cb, work, open, fatal,
              recorded, observer, handle, drains, laneCancelled, owner, late, laneFaults>>
dagVars == <<unit, stopFirst, up, eval, inflight, fanOut, completed, jobs, worker,
             stream, window, running, dagFaults, resets, history>>
ingestVars == <<phase, delivered, stopping, ingestLanes, ingestWorker, mem, durable, state,
                broken, landed, ingestFaults, crashes>>
indexVars == <<log, rows, observedHigh, observedHighAt, pending, coveredRev, coveredAt,
               observed, startSeq, bootstrapTarget, initialEnumerationComplete,
               indexBootstrapped, indexWatcher, coalescer, batch, indexLanes, indexWorker,
               failedEntities, resetState, reader, status, indexFaults, restarts>>

View == INSTANCE GraphView WITH
  Keys <- {j, k}, Subs <- {c1}, Writes <- {<<j, "keep">>, <<j, "del">>, <<k, "keep">>},
  MaxRev <- 2, MaxEnds <- 1, pending <- tick, cancelled <- viewCancelled

Lane == INSTANCE ModelLane WITH
  Reqs <- {j, k}, Malformed <- {k}, MaxDeliver <- 2, MaxFaults <- 1,
  faults <- laneFaults, cancelled <- laneCancelled

Dag == INSTANCE GatedDag WITH
  Units <- {1, 2}, DependsOn <- (1 :> {} @@ 2 :> {1}), Workers <- {c1}, QueueSize <- 1,
  MaxFaults <- 1, MaxResets <- 0, MaxStored <- 2, queue <- jobs, faults <- dagFaults

\* Every shape of message: undecodable, invalid and two valid ones.
EveryShape ==
  LET arrival(n, preds, shape) ==
        [stream |-> "s", seq |-> n, entity |-> k, preds |-> preds, shape |-> shape]
  IN {arrival(1, {"p"}, "undecodable"), arrival(2, {"p"}, "invalid"),
      arrival(3, {"p"}, "valid"), arrival(4, {"p", "profile"}, "valid")}

Ingest == INSTANCE GraphIngest WITH
  Entities <- {k}, Streams <- {"s"}, Preds <- {"p", "profile"}, Profile <- "profile",
  Floor <- "lowest", Msgs <- EveryShape, Lanes <- {x}, LaneOf <- [e \in {k} |-> x],
  QueueDepth <- 2, GuardCapacity <- 1, InitPoison <- {}, MaxDeliver <- 3, MaxFaults <- 2,
  MaxCrashes <- 0, lanes <- ingestLanes, worker <- ingestWorker, poisoned <- broken,
  faults <- ingestFaults

Index == INSTANCE GraphIndex WITH
  Keys <- {j, k}, Families <- {"incoming"}, Lanes <- {x},
  LaneOf <- [e \in {j, k} |-> x], Coalesce <- TRUE, Readers <- {},
  Kinds <- {"put", "del"}, MaxRev <- 2, LaneSize <- 1, MaxFaults <- 1, MaxRestarts <- 1,
  watcher <- indexWatcher, delivered <- observed, lanes <- indexLanes,
  worker <- indexWorker, faults <- indexFaults

ProgressInit ==
  /\ focus \in {"pool", "view", "lane", "dag", "ingest", "index"}
  /\ Init /\ View!Init /\ Lane!Init /\ Dag!Init /\ Ingest!Init /\ Index!Init
  /\ focus # "dag" => ~stopFirst
  /\ focus # "index" => log = <<>>

ProgressNext ==
  /\ UNCHANGED focus
  /\ \/ /\ focus = "pool" /\ Next
        /\ UNCHANGED <<viewVars, laneVars, dagVars, ingestVars, indexVars>>
     \/ /\ focus = "view" /\ View!Next
        /\ UNCHANGED <<vars, laneVars, dagVars, ingestVars, indexVars>>
     \/ /\ focus = "lane" /\ Lane!Next
        /\ UNCHANGED <<vars, viewVars, dagVars, ingestVars, indexVars>>
     \/ /\ focus = "dag" /\ Dag!Next
        /\ UNCHANGED <<vars, viewVars, laneVars, ingestVars, indexVars>>
     \/ /\ focus = "ingest" /\ Ingest!Next
        /\ UNCHANGED <<vars, viewVars, laneVars, dagVars, indexVars>>
     \/ /\ focus = "index" /\ Index!Next
        /\ UNCHANGED <<vars, viewVars, laneVars, dagVars, ingestVars>>

\* Nothing is owed to the pool in its initial state.
ProgressSpec ==
  /\ ProgressInit
  /\ [][ProgressNext]_<<focus, vars, viewVars, laneVars, dagVars, ingestVars, indexVars>>
  /\ Fairness

\* Stop returns and the subscriptions of an ended view end (GraphView).
NothingHangs == View!Fairness => View!NothingHangs

\* A subscriber of a live view comes to hold the bucket's last values (GraphView).
Converges == View!Fairness => View!Converges

\* Requests are settled, a latched lane is drained and Stop returns (ModelLane).
LaneProgress == Lane!Fairness => Lane!LaneProgress

\* Units whose prerequisites are done end, and a finished fan-out is declared
\* complete (GatedDag, reEvaluate and claimThenDispatch).
AllFlow == Dag!Fairness => Dag!AllFlow

\* Every message of the ingest lane is settled (GraphIngest, AllSettled).
IngestSettles == focus = "ingest" /\ Ingest!Fairness => Ingest!AllSettled

\* Every committed state ends up in every index family (GraphIndex, the coalescer
\* and the repair loop).
EventuallyIndexed == focus = "index" /\ Index!Fairness => Index!EventuallyIndexed
=============================================================================
