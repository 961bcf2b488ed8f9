------------------------------- MODULE GatedDag -------------------------------
(***************************************************************************)
(* pkg/gateddag and processor/gated-dag: a set of work units with          *)
(* prerequisites, dispatched in dependency order.                          *)
(*                                                                         *)
(* The processes are the eval goroutine (one pass at a time, under evalMu),*)
(* the dispatch workers (claim, then publish), and outside the component   *)
(* the graph that holds the unit entities, the dispatch stream with its    *)
(* duplicate window, the consumer that runs units, and whoever resets them.*)
(* Nothing but the marker and the claim of a unit is durable.  A claim or  *)
(* its rollback is a read and a revision-fenced write: it commits only if  *)
(* nothing wrote in between, so it is one step that succeeds or fails.     *)
(* The backstop ticker makes a pass possible at any time, so the trigger   *)
(* channel and the watches that feed it only make passes earlier.          *)
(***************************************************************************)
EXTENDS Naturals, Sequences, FiniteSets

CONSTANTS Units,      \* the unit ids, numbers in their sorted order
          DependsOn,  \* per unit the set of its prerequisites
          Workers,    \* the dispatch workers
          QueueSize,  \* capacity of the dispatch queue
          MaxFaults,  \* bound on crashes, failed calls, lost messages, failed units
          MaxResets,  \* bound on resets
          MaxStored   \* bound on dispatches of one unit stored by the stream

VARIABLES
  unit,        \* the graph: marker, dirtied marker and claim of each unit
  stopFirst,   \* FailurePolicy is stop_on_first_failure
  up,          \* the executor runs
  eval,        \* the pass under evalMu: its step, what it read, what it reports
               \* stalled (gauge, log and event), what it has to submit and, as
               \* history, the units that were done at some moment of it
  inflight,    \* executor.inflight
  fanOut,      \* phase of the FanOut instance
  completed,   \* executor.completed
  queue,       \* the dispatch queue
  worker,      \* per worker, its step and its unit
  stream,      \* per unit, dispatches stored and not yet acknowledged
  window,      \* units whose message id the stream still remembers
  running,     \* units the consumer is running
  faults, resets,  \* numbers of faults and resets
  history      \* per unit: dispatches stored, completed once, reset once, its id
               \* forgotten while a publish of unknown outcome was to be repeated

graph == <<unit, stream, window, running>>
executor == <<up, eval, inflight, completed, queue, worker>>
vars == <<graph, executor, stopFirst, fanOut, faults, resets, history>>

NoUnit == 0
Unread == [mark |-> "unread", dirtied |-> FALSE, claim |-> "no"]
NoEval == [pc |-> "idle", view |-> [u \in Units |-> Unread], stalled |-> {}, todo |-> {},
           done |-> {}]
NoJob == [pc |-> "idle", u |-> NoUnit]
Fault == faults < MaxFaults /\ faults' = faults + 1
NoFault == UNCHANGED faults

Init ==
  /\ unit = [u \in Units |-> [mark |-> "none", dirtied |-> FALSE, claim |-> "no"]]
  /\ stopFirst \in BOOLEAN
  /\ up = FALSE /\ eval = NoEval /\ inflight = {} /\ completed = FALSE
  /\ queue = <<>> /\ worker = [w \in Workers |-> NoJob]
  /\ fanOut = "none"
  /\ stream = [u \in Units |-> 0] /\ window = {} /\ running = {}
  /\ faults = 0 /\ resets = 0
  /\ history = [u \in Units |-> [stored |-> 0, done |-> FALSE, reset |-> FALSE,
                                 unsure |-> FALSE, lapsed |-> FALSE]]

-----------------------------------------------------------------------------
(* The selection brain, over what a pass read.                             *)

\* Mutant: a failed unit counts as done.
DeriveStatus_FailedIsDone(v, u) ==
  IF ~v[u].dirtied /\ v[u].mark \in {"failed", "completed"} THEN "done" ELSE "ready"

DeriveStatus(v, u) ==
  CASE v[u].mark = "failed" /\ ~v[u].dirtied -> "blocked"
    [] v[u].mark = "completed" /\ ~v[u].dirtied -> "done"
    [] OTHER -> "ready"

Dispatchable(v, u) ==
  DeriveStatus(v, u) = "ready" /\ \A d \in DependsOn[u] : DeriveStatus(v, d) = "done"

\* Held units are reported only when nothing at all is dispatchable.
Stalled(v) ==
  IF \E u \in Units : Dispatchable(v, u) THEN {}
  ELSE {u \in Units : DeriveStatus(v, u) = "ready"}

Terminal(v, u) == v[u].mark \in {"completed", "failed"}

\* A claimed unit that is neither terminal nor reset.
InFlight(v, u) == v[u].claim # "no" /\ ~v[u].dirtied /\ ~Terminal(v, u)

\* A claim within stranded_after suppresses the stall.
StallAfterInflight(v) ==
  IF \E u \in Units : InFlight(v, u) /\ v[u].claim = "fresh" THEN {} ELSE Stalled(v)

-----------------------------------------------------------------------------
(* The executor: start, crash and the evaluation pass.                     *)

\* The FanOut instance is created once; a creation that fails is only logged.
Start ==
  /\ ~up
  /\ up' = TRUE
  /\ \/ fanOut' = (IF fanOut = "none" THEN "dispatching" ELSE fanOut) /\ NoFault
     \/ UNCHANGED fanOut /\ Fault
  /\ UNCHANGED <<graph, eval, inflight, completed, queue, worker,
                 stopFirst, resets, history>>

\* The process ends, by a crash or by stop, which cancels what the workers do.
Crash ==
  /\ up /\ Fault
  /\ up' = FALSE /\ eval' = NoEval /\ inflight' = {} /\ completed' = FALSE
  /\ queue' = <<>> /\ worker' = [w \in Workers |-> NoJob]
  /\ UNCHANGED <<graph, stopFirst, fanOut, resets, history>>

\* Completed and not reset, now.
Done(u) == unit[u].mark = "completed" /\ ~unit[u].dirtied

\* reEvaluate takes evalMu and reads the unit set, entity by entity.
EvalReads(u) ==
  /\ up /\ eval.pc \in {"idle", "reading"} /\ eval.view[u] = Unread
  /\ eval' = [eval EXCEPT
                !.pc = "reading", !.view[u] = unit[u],
                !.done = IF eval.pc = "idle"
                         THEN {d \in Units : Done(d)} ELSE @]
  /\ UNCHANGED <<graph, up, inflight, completed, queue, worker,
                 stopFirst, fanOut, faults, resets, history>>

\* A failed read skips the pass.
EvalReadFails ==
  /\ up /\ eval.pc = "reading" /\ Fault
  /\ eval' = NoEval
  /\ UNCHANGED <<graph, up, inflight, completed, queue, worker,
                 stopFirst, fanOut, resets, history>>

\* The hint of a unit that ended or was reset is dropped.
Kept(v) == {u \in inflight : ~Terminal(v, u) /\ ~v[u].dirtied}

\* A unit goes out unless it is claimed or submitted; a reset overrides both.
Selected(v) ==
  IF stopFirst /\ (\E u \in Units : v[u].mark = "failed") THEN {}
  ELSE {u \in Units : Dispatchable(v, u)
                       /\ (v[u].dirtied \/ (v[u].claim = "no" /\ u \notin Kept(v)))}

EvalDecides ==
  /\ eval.pc = "reading" /\ \A u \in Units : eval.view[u] # Unread
  /\ inflight' = Kept(eval.view)
  /\ eval' = [eval EXCEPT !.pc = "submitting", !.todo = Selected(eval.view),
                          !.stalled = StallAfterInflight(eval.view)]
  /\ UNCHANGED <<graph, up, completed, queue, worker, stopFirst, fanOut, faults, resets,
                 history>>

\* Mutant: no in-memory hint between the submission and the claim.
EvalSubmits_NoHint(u) ==
  /\ eval.pc = "submitting" /\ u \in eval.todo /\ \A o \in eval.todo : u <= o
  /\ eval' = [eval EXCEPT !.todo = @ \ {u}]
  /\ queue' = IF Len(queue) < QueueSize THEN Append(queue, u) ELSE queue
  /\ UNCHANGED <<graph, up, inflight, completed, worker, stopFirst, fanOut,
                 faults, resets, history>>

\* Mutant: the queue has no limit.
EvalSubmits_Unbounded(u) ==
  /\ eval.pc = "submitting" /\ u \in eval.todo /\ \A o \in eval.todo : u <= o
  /\ eval' = [eval EXCEPT !.todo = @ \ {u}]
  /\ queue' = Append(queue, u) /\ inflight' = inflight \union {u}
  /\ UNCHANGED <<graph, up, completed, worker, stopFirst, fanOut,
                 faults, resets, history>>

\* In order of the ids; a full queue leaves the unit to a later pass.
EvalSubmits(u) ==
  /\ eval.pc = "submitting" /\ u \in eval.todo /\ \A o \in eval.todo : u <= o
  /\ eval' = [eval EXCEPT !.todo = @ \ {u}]
  /\ IF Len(queue) < QueueSize
       THEN queue' = Append(queue, u) /\ inflight' = inflight \union {u}
       ELSE UNCHANGED <<queue, inflight>>
  /\ UNCHANGED <<graph, up, completed, worker, stopFirst, fanOut,
                 faults, resets, history>>

AllUnitsDone(v) == Units # {} /\ \A u \in Units : DeriveStatus(v, u) = "done"

\* maybeCompleteFanOut: read the instance, move it on, latch; a read or a
\* transition that fails is left to a later pass.
CompleteFanOut ==
  \/ fanOut = "dispatching" /\ fanOut' = "completed" /\ completed' = TRUE /\ NoFault
  \/ fanOut = "completed" /\ completed' = TRUE /\ NoFault /\ UNCHANGED fanOut
  \/ fanOut = "none" /\ NoFault /\ UNCHANGED <<fanOut, completed>>
  \/ fanOut # "none" /\ Fault /\ UNCHANGED <<fanOut, completed>>

EvalEnds ==
  /\ eval.pc = "submitting" /\ eval.todo = {}
  /\ eval' = NoEval
  /\ IF AllUnitsDone(eval.view) /\ ~completed
       THEN CompleteFanOut
       ELSE NoFault /\ UNCHANGED <<fanOut, completed>>
  /\ UNCHANGED <<graph, up, inflight, queue, worker, stopFirst,
                 resets, history>>

-----------------------------------------------------------------------------
(* The dispatch workers: claimThenDispatch.                                *)

WorkerTo(w, pc) == worker' = [worker EXCEPT ![w].pc = pc]

Take(w) ==
  /\ worker[w] = NoJob /\ queue # <<>>
  /\ queue' = Tail(queue)
  /\ worker' = [worker EXCEPT ![w] = [pc |-> "claiming", u |-> Head(queue)]]
  /\ UNCHANGED <<graph, up, eval, inflight, completed, stopFirst,
                 fanOut, faults, resets, history>>

\* The claim commits and is reported, fails, or commits and is reported failed.
Claim(w) ==
  LET u == worker[w].u
      committed == unit' = [unit EXCEPT ![u].claim = "fresh"]
  IN /\ worker[w].pc = "claiming"
     /\ \/ committed /\ WorkerTo(w, "publishing") /\ NoFault
        \/ UNCHANGED unit /\ WorkerTo(w, "clearing") /\ Fault
        \/ committed /\ WorkerTo(w, "clearing") /\ Fault
     /\ UNCHANGED <<stream, window, running, up, eval, inflight,
                    completed, queue, stopFirst, fanOut, resets, history>>

\* The stream stores a message unless it remembers its id, the unit.
Stores(u) == /\ stream' = [stream EXCEPT ![u] = IF u \in window THEN @ ELSE @ + 1]
             /\ window' = window \union {u}
StoredBy(u) == IF u \in window THEN history[u].stored ELSE history[u].stored + 1

\* Acknowledged, lost, or stored without the acknowledgement.
Publish(w) ==
  LET u == worker[w].u IN
  /\ worker[w].pc = "publishing"
  /\ \/ /\ Stores(u) /\ NoFault
        /\ worker' = [worker EXCEPT ![w] = NoJob]
        /\ history' = [history EXCEPT ![u].stored = StoredBy(u), ![u].unsure = FALSE]
     \/ /\ Stores(u) /\ Fault
        /\ WorkerTo(w, "unclaiming")
        /\ history' = [history EXCEPT ![u].stored = StoredBy(u), ![u].unsure = TRUE]
     \/ /\ UNCHANGED <<stream, window, history>> /\ Fault
        /\ WorkerTo(w, "unclaiming")
  /\ UNCHANGED <<unit, running, up, eval, inflight, completed,
                 queue, stopFirst, fanOut, resets>>

\* The rollback after a failed publish; its failure leaves the claim.
Unclaim(w) ==
  /\ worker[w].pc = "unclaiming"
  /\ WorkerTo(w, "clearing")
  /\ \/ unit' = [unit EXCEPT ![worker[w].u].claim = "no"] /\ NoFault
     \/ UNCHANGED unit /\ Fault
  /\ UNCHANGED <<stream, window, running, up, eval, inflight,
                 completed, queue, stopFirst, fanOut, resets, history>>

\* Mutant: a failed dispatch keeps its hint.
ClearHint_Keeps(w) ==
  /\ worker[w].pc = "clearing" /\ eval.pc = "idle"
  /\ worker' = [worker EXCEPT ![w] = NoJob]
  /\ UNCHANGED <<graph, up, eval, inflight, completed, queue, stopFirst,
                 fanOut, faults, resets, history>>

\* The hint is dropped under evalMu, never during a pass.
ClearHint(w) ==
  /\ worker[w].pc = "clearing" /\ eval.pc = "idle"
  /\ inflight' = inflight \ {worker[w].u}
  /\ worker' = [worker EXCEPT ![w] = NoJob]
  /\ UNCHANGED <<graph, up, eval, completed, queue, stopFirst,
                 fanOut, faults, resets, history>>

-----------------------------------------------------------------------------
(* The graph, the stream, the consumer and the operator.                   *)

\* stranded_after passes over a claim.
ClaimAges(u) ==
  /\ unit[u].claim = "fresh"
  /\ unit' = [unit EXCEPT ![u].claim = "old"]
  /\ UNCHANGED <<stream, window, running, executor, stopFirst, fanOut, faults, resets,
                 history>>

\* The duplicate window passes.  It is configured above the time a repeated
\* publish takes; lapsed records that it was not.
WindowPasses(u) ==
  /\ u \in window /\ history[u].stored < MaxStored
  /\ window' = window \ {u}
  /\ history' = [history EXCEPT ![u].lapsed = @ \/ history[u].unsure]
  /\ UNCHANGED <<unit, stream, running, executor, stopFirst, fanOut, faults, resets>>

\* A stored dispatch is evicted or its delivery dropped after the acknowledgement.
MessageLost(u) ==
  /\ stream[u] > 0 /\ u \notin running /\ history[u].stored < MaxStored
  /\ Fault
  /\ stream' = [stream EXCEPT ![u] = @ - 1]
  /\ UNCHANGED <<unit, window, running, executor, stopFirst, fanOut, resets, history>>

\* A dispatch of a unit that ended and was not reset is only acknowledged.
ConsumerSkips(u) ==
  /\ stream[u] > 0 /\ u \notin running /\ Terminal(unit, u) /\ ~unit[u].dirtied
  /\ stream' = [stream EXCEPT ![u] = @ - 1]
  /\ UNCHANGED <<unit, window, running, executor, stopFirst, fanOut, faults, resets,
                 history>>

ConsumerRuns(u) ==
  /\ stream[u] > 0 /\ u \notin running /\ (~Terminal(unit, u) \/ unit[u].dirtied)
  /\ running' = running \union {u}
  /\ unit' = [unit EXCEPT ![u].mark = "none", ![u].dirtied = FALSE]
  /\ UNCHANGED <<stream, window, executor, stopFirst, fanOut, faults, resets, history>>

ConsumerEnds(u) ==
  /\ u \in running
  /\ running' = running \ {u}
  /\ stream' = [stream EXCEPT ![u] = @ - 1]
  /\ \/ /\ unit' = [unit EXCEPT ![u].mark = "completed"] /\ NoFault
        /\ history' = [history EXCEPT ![u].done = TRUE]
        /\ eval' = IF eval.pc = "idle" \/ unit[u].dirtied THEN eval
                    ELSE [eval EXCEPT !.done = @ \union {u}]
     \/ unit' = [unit EXCEPT ![u].mark = "failed"] /\ Fault /\ UNCHANGED <<history, eval>>
  /\ UNCHANGED <<window, up, inflight, completed, queue, worker, stopFirst, fanOut, resets>>

\* The reset contract; a reset may forget the claim.
Reset(u, forgets) ==
  /\ resets < MaxResets /\ resets' = resets + 1
  /\ unit' = [unit EXCEPT ![u].mark = "none", ![u].dirtied = TRUE,
                          ![u].claim = IF forgets THEN @ ELSE "no"]
  /\ history' = [history EXCEPT ![u].reset = TRUE]
  /\ UNCHANGED <<stream, window, running, executor, stopFirst, fanOut, faults>>

-----------------------------------------------------------------------------
EvalNext == \/ \E u \in Units : EvalReads(u) \/ EvalSubmits(u)
            \/ EvalDecides \/ EvalEnds
WorkerNext(w) == Take(w) \/ Claim(w) \/ Publish(w) \/ Unclaim(w) \/ ClearHint(w)
ConsumerNext(u) == ConsumerSkips(u) \/ ConsumerRuns(u) \/ ConsumerEnds(u)

Next ==
  \/ Start \/ Crash \/ EvalNext \/ EvalReadFails
  \/ \E w \in Workers : WorkerNext(w)
  \/ \E u \in Units : \/ ConsumerNext(u) \/ WindowPasses(u) \/ ClaimAges(u)
                      \/ MessageLost(u)
                      \/ \E b \in BOOLEAN : Reset(u, b)

\* The backstop ticks and its pass runs to its end, workers run, the duplicate
\* window passes and the consumer runs what it is sent.  evalMu is fair, so a
\* worker that waits for it between passes gets it.  Nothing obliges a start.
Fairness ==
  /\ WF_vars(EvalNext)
  /\ \A w \in Workers : WF_vars(WorkerNext(w)) /\ SF_vars(ClearHint(w))
  /\ \A u \in Units : WF_vars(ConsumerNext(u)) /\ WF_vars(WindowPasses(u))

Spec == Init /\ [][Next]_vars /\ Fairness

-----------------------------------------------------------------------------
(* Properties.                                                             *)

Marks == {"none", "completed", "failed"}
Claims == {"no", "fresh", "old"}

\* Every variable has its type.
TypeOK ==
  /\ unit \in [Units -> [mark : Marks, dirtied : BOOLEAN, claim : Claims]]
  /\ up \in BOOLEAN /\ completed \in BOOLEAN
  /\ eval.pc \in {"idle", "reading", "submitting"} /\ eval.todo \subseteq Units
  /\ inflight \subseteq Units /\ eval.stalled \subseteq Units /\ eval.done \subseteq Units
  /\ fanOut \in {"none", "dispatching", "completed"}
  /\ Len(queue) <= QueueSize
  /\ \A w \in Workers : worker[w].pc \in {"idle", "claiming", "publishing",
                                          "unclaiming", "clearing"}
  /\ stream \in [Units -> Nat] /\ window \subseteq Units /\ running \subseteq Units

\* Dependency order: whatever was reset, crashed or read while it changed, a unit
\* is dispatched only after each of its prerequisites has completed, and the
\* fan-out is declared complete only after every unit has (Evaluate waits for
\* all, and the entities of one pass are not read at one instant).  A completion that
\* a reset took back before the pass does not count: a prerequisite of what a pass
\* submits was done, and not reset, at some moment of that very pass.
DependencyOrder ==
  /\ \A u \in Units : history[u].stored > 0 => \A d \in DependsOn[u] : history[d].done
  /\ fanOut = "completed" => \A u \in Units : history[u].done
  /\ \A u \in eval.todo : DependsOn[u] \subseteq eval.done

\* One dispatch each: a unit that was never reset has at most one stored
\* dispatch, whatever crashed, failed or was repeated (the in-memory hint until
\* the claim commits, the claim from then on, the message id across a rollback),
\* as long as the duplicate window outlived the repetition of a failed publish.
OnceEach ==
  \A u \in Units : ~history[u].reset /\ ~history[u].lapsed => history[u].stored <= 1

\* A unit whose claim stands with nothing behind it: no job, no dispatch, no run.
Abandoned(u) ==
  /\ InFlight(unit, u)
  /\ stream[u] = 0 /\ u \notin running
  /\ \A w \in Workers : worker[w].u # u

\* The plan flows: while the executor runs, a unit whose prerequisites are done
\* ends, unless the failure policy holds it back or a fault has left its claim with
\* nothing behind it; no hint, full queue, failed claim or rolled-back claim wedges
\* a unit.  A fan-out whose units are all done is declared complete.
AllFlow ==
  []<>(up =>
    /\ \A u \in Units :
         /\ \A d \in DependsOn[u] : DeriveStatus(unit, d) = "done"
         /\ ~(stopFirst /\ \E o \in Units : unit[o].mark = "failed")
         => Terminal(unit, u) \/ Abandoned(u)
    /\ fanOut # "none" /\ AllUnitsDone(unit) => fanOut = "completed")

\* The stranded-unit detector: a pass that reads a unit claimed longer ago than
\* stranded_after, not terminal and not reset, reports it as stalled; required
\* here only of a unit that really is abandoned (executor.go, stallAfterInflight).
StrandedSurfaces ==
  eval.pc = "submitting" =>
    \A u \in Units :
      /\ InFlight(eval.view, u) /\ eval.view[u].claim = "old"
      /\ Abandoned(u)
      => u \in eval.stalled
=============================================================================
