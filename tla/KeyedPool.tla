------------------------------ MODULE KeyedPool ------------------------------
(***************************************************************************)
(* pkg/dispatch KeyedPool: bounded lanes, one goroutine per lane, work of  *)
(* one key always on the same lane.  Submitters race Stop, whose           *)
(* coordinator goroutine waits for the submitters in flight, closes        *)
(* drainCh, waits for the lanes and closes stopDone.                       *)
(*                                                                         *)
(* A caller submits one work item, itself.  A Go select with several ready *)
(* cases takes any of them.                                                *)
(***************************************************************************)
EXTENDS Integers, Sequences, FiniteSets

CONSTANTS Callers,      \* goroutines that submit, each one item
          Blocking,     \* the ones that call SubmitBlocking
          Keys, KeyOf,  \* KeyOf \in [Callers -> Keys]
          Lanes, laneFor, \* laneFor \in [Keys -> Lanes], the FNV hash
          QueueDepth,
          Stoppers,     \* goroutines that call Stop
          None

ASSUME PoolAssumption ==
  /\ Blocking \subseteq Callers /\ KeyOf \in [Callers -> Keys]
  /\ laneFor \in [Keys -> Lanes] /\ QueueDepth \in Nat \ {0} /\ None \notin Callers

VARIABLES
  stopped,    \* p.stopped
  coord,      \* coordinator: "idle", "submitters", "lanes", "done"
  submit,     \* Callers -> "new", "sending" (counted in submitWG), or the result
  cancelled,  \* callers whose own context is cancelled
  runCtx,     \* the pool's run context is live
  queue,      \* Lanes -> buffered items
  lane,       \* Lanes -> [pc, item], pc "recv", "work", "drain", "drainWork", "exited"
  stop,       \* Stoppers -> "new", "waiting", "nil", "err"
  accepted,   \* history: Lanes -> items in the order they were sent
  processed   \* history: Lanes -> items in the order Process finished

vars == <<stopped, coord, submit, cancelled, runCtx, queue, lane, stop, accepted, processed>>

ItemLane(c) == laneFor[KeyOf[c]]
drainClosed == coord \in {"lanes", "done"}
stopDone == coord = "done"

Init ==
  /\ stopped = FALSE /\ coord = "idle" /\ runCtx = TRUE /\ cancelled = {}
  /\ submit = [c \in Callers |-> "new"] /\ stop = [s \in Stoppers |-> "new"]
  /\ queue = [l \in Lanes |-> <<>>] /\ lane = [l \in Lanes |-> [pc |-> "recv", item |-> None]]
  /\ accepted = [l \in Lanes |-> <<>>] /\ processed = [l \in Lanes |-> <<>>]

-----------------------------------------------------------------------------
(* Submit and SubmitBlocking                                               *)

Return(c, result) == submit' = [submit EXCEPT ![c] = result]

\* Under lifecycleMu: the stopped check and submitWG.Add are one step.
Enter(c) ==
  /\ submit[c] = "new"
  /\ Return(c, IF stopped THEN "ErrStopped" ELSE "sending")
  /\ UNCHANGED <<stopped, coord, cancelled, runCtx, queue, lane, stop, accepted, processed>>

Send(c) ==
  LET l == ItemLane(c)
  IN /\ submit[c] = "sending" /\ Len(queue[l]) < QueueDepth
     /\ queue' = [queue EXCEPT ![l] = Append(@, c)]
     /\ accepted' = [accepted EXCEPT ![l] = Append(@, c)]
     /\ Return(c, "ok")
     /\ UNCHANGED <<stopped, coord, cancelled, runCtx, lane, stop, processed>>

\* Submit's default case, SubmitBlocking's ctx.Done and drainCh cases.
Errors(c) ==
  {r \in {"ErrLaneFull", "ctxErr", "ErrStopped"} :
     CASE r = "ErrLaneFull" -> c \notin Blocking /\ Len(queue[ItemLane(c)]) = QueueDepth
       [] r = "ctxErr" -> c \in Blocking \cap cancelled
       [] r = "ErrStopped" -> c \in Blocking /\ drainClosed}

GiveUp(c) ==
  /\ submit[c] = "sending" /\ \E r \in Errors(c) : Return(c, r)
  /\ UNCHANGED <<stopped, coord, cancelled, runCtx, queue, lane, stop, accepted, processed>>

CancelCaller(c) ==
  /\ c \in Blocking \ cancelled /\ submit[c] \in {"new", "sending"}
  /\ cancelled' = cancelled \cup {c}
  /\ UNCHANGED <<stopped, coord, submit, runCtx, queue, lane, stop, accepted, processed>>

-----------------------------------------------------------------------------
(* A lane goroutine                                                        *)

\* The receive cases of the outer select and of the drain loop.
Receive(l) ==
  /\ lane[l].pc \in {"recv", "drain"} /\ queue[l] # <<>>
  /\ lane' = [lane EXCEPT ![l] =
       [pc |-> IF @.pc = "recv" THEN "work" ELSE "drainWork", item |-> Head(queue[l])]]
  /\ queue' = [queue EXCEPT ![l] = Tail(@)]
  /\ UNCHANGED <<stopped, coord, submit, cancelled, runCtx, stop, accepted, processed>>

\* Mutant: a panic in Process ends the lane goroutine.
RunOne_PanicExits(l) ==
  /\ lane[l].pc \in {"work", "drainWork"}
  /\ processed' = [processed EXCEPT ![l] = Append(@, lane[l].item)]
  /\ \E pc \in {IF lane[l].pc = "work" THEN "recv" ELSE "drain", "exited"} :
       lane' = [lane EXCEPT ![l] = [pc |-> pc, item |-> None]]
  /\ UNCHANGED <<stopped, coord, submit, cancelled, runCtx, queue, stop, accepted>>

\* Mutant: an item whose Process failed goes back to the end of its lane.
RunOne_Requeues(l) ==
  /\ lane[l].pc \in {"work", "drainWork"}
  /\ \/ processed' = [processed EXCEPT ![l] = Append(@, lane[l].item)] /\ UNCHANGED queue
     \/ queue' = [queue EXCEPT ![l] = Append(@, lane[l].item)] /\ UNCHANGED processed
  /\ lane' = [lane EXCEPT ![l] =
       [pc |-> IF @.pc = "work" THEN "recv" ELSE "drain", item |-> None]]
  /\ UNCHANGED <<stopped, coord, submit, cancelled, runCtx, stop, accepted>>

\* runOne: Process returns, fails, or panics and is recovered; the lane goes on.
RunOne(l) ==
  /\ lane[l].pc \in {"work", "drainWork"}
  /\ processed' = [processed EXCEPT ![l] = Append(@, lane[l].item)]
  /\ lane' = [lane EXCEPT ![l] =
       [pc |-> IF @.pc = "work" THEN "recv" ELSE "drain", item |-> None]]
  /\ UNCHANGED <<stopped, coord, submit, cancelled, runCtx, queue, stop, accepted>>

SeeDrain(l) ==
  /\ lane[l].pc = "recv" /\ drainClosed
  /\ lane' = [lane EXCEPT ![l].pc = "drain"]
  /\ UNCHANGED <<stopped, coord, submit, cancelled, runCtx, queue, stop, accepted, processed>>

\* The run context aborts the outer select, an empty buffer ends the drain loop.
Exit(l) ==
  /\ \/ lane[l].pc = "recv" /\ ~runCtx
     \/ lane[l].pc = "drain" /\ queue[l] = <<>>
  /\ lane' = [lane EXCEPT ![l].pc = "exited"]
  /\ UNCHANGED <<stopped, coord, submit, cancelled, runCtx, queue, stop, accepted, processed>>

CancelRun ==
  /\ runCtx /\ runCtx' = FALSE
  /\ UNCHANGED <<stopped, coord, submit, cancelled, queue, lane, stop, accepted, processed>>

-----------------------------------------------------------------------------
(* Stop and its coordinator                                                *)

CallStop(s) ==
  /\ stop[s] = "new"
  /\ stop' = [stop EXCEPT ![s] = "waiting"] /\ stopped' = TRUE
  /\ coord' = IF coord = "idle" THEN "submitters" ELSE coord
  /\ UNCHANGED <<submit, cancelled, runCtx, queue, lane, accepted, processed>>

\* Mutant: drainCh is closed without waiting for the submitters in flight.
CloseDrain_NoWait ==
  /\ coord = "submitters" /\ coord' = "lanes"
  /\ UNCHANGED <<stopped, submit, cancelled, runCtx, queue, lane, stop, accepted, processed>>

\* submitWG.Wait, then close(drainCh).
CloseDrain ==
  /\ coord = "submitters" /\ \A c \in Callers : submit[c] # "sending"
  /\ coord' = "lanes"
  /\ UNCHANGED <<stopped, submit, cancelled, runCtx, queue, lane, stop, accepted, processed>>

\* wg.Wait, then close(stopDone).
CloseStopDone ==
  /\ coord = "lanes" /\ \A l \in Lanes : lane[l].pc = "exited"
  /\ coord' = "done"
  /\ UNCHANGED <<stopped, submit, cancelled, runCtx, queue, lane, stop, accepted, processed>>

\* Mutant: Stop returns when its drain has begun.
StopReturns_Early(s) ==
  /\ stop[s] = "waiting"
  /\ \/ drainClosed /\ stop' = [stop EXCEPT ![s] = "nil"]
     \/ stop' = [stop EXCEPT ![s] = "err"]
  /\ UNCHANGED <<stopped, coord, submit, cancelled, runCtx, queue, lane, accepted, processed>>

\* Stop sees stopDone, or its context expires while the drain goes on.
StopReturns(s) ==
  /\ stop[s] = "waiting"
  /\ \/ stopDone /\ stop' = [stop EXCEPT ![s] = "nil"]
     \/ stop' = [stop EXCEPT ![s] = "err"]
  /\ UNCHANGED <<stopped, coord, submit, cancelled, runCtx, queue, lane, accepted, processed>>

LaneStep(l) == Receive(l) \/ RunOne(l) \/ SeeDrain(l) \/ Exit(l)
Coordinate == CloseDrain \/ CloseStopDone

Next ==
  \/ \E c \in Callers : Enter(c) \/ Send(c) \/ GiveUp(c) \/ CancelCaller(c)
  \/ \E l \in Lanes : LaneStep(l)
  \/ CancelRun \/ Coordinate
  \/ \E s \in Stoppers : CallStop(s) \/ StopReturns(s)

Spec == Init /\ [][Next]_vars

\* Go runs every goroutine that can run, and Process returns.  Contexts need
\* not be cancelled, Stop and Submit need not be called.
Fairness ==
  /\ \A c \in Callers : WF_vars(Send(c) \/ GiveUp(c))
  /\ \A l \in Lanes : WF_vars(LaneStep(l))
  /\ WF_vars(Coordinate)
  /\ \A s \in Stoppers : WF_vars(StopReturns(s))

FairSpec == Spec /\ Fairness

-----------------------------------------------------------------------------
(* Properties                                                              *)

Results == {"ok", "ErrStopped", "ErrLaneFull", "ctxErr"}

\* Every variable has its type, and no lane buffers more than QueueDepth items.
TypeOK ==
  /\ stopped \in BOOLEAN /\ runCtx \in BOOLEAN /\ cancelled \subseteq Blocking
  /\ coord \in {"idle", "submitters", "lanes", "done"}
  /\ submit \in [Callers -> {"new", "sending"} \cup Results]
  /\ stop \in [Stoppers -> {"new", "waiting", "nil", "err"}]
  /\ lane \in [Lanes -> [pc : {"recv", "work", "drain", "drainWork", "exited"},
                         item : Callers \cup {None}]]
  /\ \A l \in Lanes :
       /\ queue[l] \in Seq(Callers) /\ Len(queue[l]) <= QueueDepth
       /\ accepted[l] \in Seq(Callers) /\ processed[l] \in Seq(Callers)

\* The items a lane still owes, the one in Process first.
Pending(l) == (IF lane[l].item = None THEN <<>> ELSE <<lane[l].item>>) \o queue[l]

\* Every accepted item is processed, in Process or buffered, exactly once and in
\* the order it was sent: same-key work runs serially in submit order, through
\* panics, drains and aborts.
LaneOrder == \A l \in Lanes : accepted[l] = processed[l] \o Pending(l)

\* The accept/stop handoff is atomic: when Stop returns nil and the run context
\* was never cancelled, every submit that returned nil has been processed and no
\* later one is accepted.
StopMeansDrained ==
  (runCtx /\ \E s \in Stoppers : stop[s] = "nil") =>
    /\ \A c \in Callers : submit[c] = "ok" =>
         \E i \in DOMAIN processed[ItemLane(c)] : processed[ItemLane(c)][i] = c
    /\ \A c \in Callers : submit[c] # "sending"

\* A lane never goes back to work after it left, so nothing is sent to a lane
\* that Stop drained: with a live run context the buffer of an exited lane is
\* empty for good.
NothingStranded ==
  runCtx => \A l \in Lanes : lane[l].pc = "exited" => queue[l] = <<>>

\* Stop finishes the drain whatever the submitters and other stoppers do, as
\* long as the run context stays live.
StopCompletes == (coord = "submitters") ~> (coord = "done" \/ ~runCtx)

\* "Stop closing drainCh is a backstop that also unblocks this call"
\* (keyed_pool.go): once Stop was called, no SubmitBlocking stays parked.
StopUnblocksSubmit ==
  \A c \in Blocking : (stopped /\ submit[c] = "sending") ~> (submit[c] # "sending")
=============================================================================
