--------------------------- MODULE LibrariesProofs ---------------------------
(***************************************************************************)
(* Proofs about the components of MCLibraries, for every value of the      *)
(* constants its assumption admits.                                        *)
(*                                                                         *)
(* Lane (ModelLane): an acknowledged request has its response retained, a  *)
(* response is repeated only where its publication was in doubt or two     *)
(* processes overlapped, and a lost lane is declared before anything acts  *)
(* on it.                                                                  *)
(* Dag (GatedDag), for any plan, workers, queue slots, faults, resets and  *)
(* restarts: no unit is dispatched before its prerequisites completed, and *)
(* a unit that was never reset is dispatched once.                         *)
(* View (GraphView) and the watermark have proof modules of their own; the *)
(* last part brings the four together in the specification of the suite.   *)
(***************************************************************************)
EXTENDS MCLibraries, WatermarkProofs, Sequences

-----------------------------------------------------------------------------
(* The request lane.                                                       *)

\* The values the variables take, as far as the argument needs them.
LaneShape ==
  /\ req \in [Reqs -> {"ready", "pending", "acked", "termed", "exhausted"}]
  /\ responses \in [Reqs -> Nat]
  /\ inbox \in Seq(Reqs)
  /\ cb \in [pc : {"idle", "working", "lost", "latching", "recording", "buffering"},
             r : Reqs \union {Lane!NoReq}]
  /\ cb.pc # "idle" => cb.r \in Reqs
  /\ work = [pc |-> work.pc, decision |-> work.decision, kind |-> work.kind, ctx |-> work.ctx]
  /\ work.pc \in {"none", "parsing", "reading", "calling", "publishing", "done"}
  /\ drains \in {0, 1}

\* Work runs exactly while the callback waits for it (one callback at a time).
WorkJoined == cb.pc \in {"working", "lost"} <=> work.pc # "none"

\* A decision rests on the response stream: an ack is decided only once a response is
\* retained, and a term only for a payload that does not parse.
Grounded ==
  /\ work.pc = "done" /\ work.decision = "ack" => responses[cb.r] > 0
  /\ work.pc = "done" /\ work.decision = "term" => cb.r \in Malformed

\* The order of Latch, Observe and the drain: close, record, buffer, react, drain.
Latched ==
  /\ cb.pc = "recording" => ~open
  /\ cb.pc = "buffering" => ~open /\ recorded
  /\ fatal \/ observer = "reacting" => recorded /\ ~open
  /\ ~open => cb.pc \notin {"working", "lost"}

\* A handle is drained once, before Stop only for a recorded loss, and not before
\* the observer runs.
HandleBound ==
  /\ handle = "consuming" => drains = 0
  /\ owner = "down" => cb = Lane!Idle /\ inbox = <<>> /\ observer = "none" /\ handle = "none"
  /\ owner = "starting" => handle = "consuming" /\ observer = "none"
  /\ owner = "running" => handle = "consuming" \/ recorded

LaneCore == LaneShape /\ WorkJoined /\ Grounded /\ Lane!AckedIsAnswered /\ Latched /\ HandleBound

\* What may yet become a response counts like one: a process past its read of the
\* retained responses, here or elsewhere.  A read that finds none starts the only one,
\* apart from the sent and unacknowledged, unless it overlaps, which is a doubt.
Mine(r) == IF Lane!Answering(r) THEN 1 ELSE 0
Tallied(r) ==
  /\ responses[r] + wire[r] + others[r] + Mine(r) <= 1 + doubts[r]
  /\ wire[r] <= doubts[r]
Tally ==
  /\ wire \in [Reqs -> Nat] /\ others \in [Reqs -> Nat] /\ doubts \in [Reqs -> Nat]
  /\ \A r \in Reqs : Tallied(r)

\* The inductive invariant.
LaneInv == LaneCore /\ Tally

-----------------------------------------------------------------------------
\* Init establishes the invariant.
LEMMA InitLane == Lane!Init => LaneInv
  <1> SUFFICES ASSUME Lane!Init PROVE LaneInv
    OBVIOUS
  <1> USE DEF Lane!Init
  <1>1. LaneShape
    BY DEF LaneShape, Lane!Idle, Lane!NoWork, Lane!NoReq, Lane!Decisions
  <1>2. WorkJoined /\ Grounded /\ Lane!AckedIsAnswered
    BY DEF WorkJoined, Grounded, Lane!AckedIsAnswered, Lane!Idle, Lane!NoWork
  <1>3. Latched /\ HandleBound
    BY DEF Latched, HandleBound, Lane!Idle
  <1>4. Tally
    BY DEF Tally, Tallied, Mine, Lane!Answering, Lane!NoWork
  <1> QED
    BY <1>1, <1>2, <1>3, <1>4 DEF LaneInv, LaneCore

\* The server and the other processes: a request is settled elsewhere only with its
\* response retained, and a response that lands stays.
LEMMA ServerStep ==
  ASSUME LaneCore, NEW r \in Reqs,
         \/ Lane!Deliver(r) \/ Lane!LeaseEnds(r) \/ Lane!Lands(r)
         \/ Lane!OtherTakes(r) \/ Lane!OtherAnswers(r) \/ Lane!OtherEnds(r)
  PROVE  LaneCore'
  <1> USE DEF LaneCore
  <1>0. responses \in [Reqs -> Nat] /\ inbox \in Seq(Reqs)
    BY DEF LaneShape
  <1>1. UNCHANGED <<cb, work, Lane!lane, observer, handle, drains, owner>>
    BY DEF Lane!Deliver, Lane!LeaseEnds, Lane!Lands, Lane!OtherTakes, Lane!OtherAnswers,
           Lane!OtherEnds, Lane!Here
  <1>2. UNCHANGED inbox \/ (inbox' = Append(inbox, r) /\ handle = "consuming")
    BY DEF Lane!Deliver, Lane!LeaseEnds, Lane!Lands, Lane!OtherTakes, Lane!OtherAnswers,
           Lane!OtherEnds, Lane!Here
  <1>3. Latched' /\ HandleBound' /\ WorkJoined'
    BY <1>1, <1>2 DEF Latched, HandleBound, WorkJoined, Lane!lane
  <1>4. UNCHANGED responses \/ responses' = [responses EXCEPT ![r] = @ + 1]
    BY DEF Lane!Deliver, Lane!LeaseEnds, Lane!Lands, Lane!OtherTakes, Lane!OtherAnswers,
           Lane!OtherEnds, Lane!answers, Lane!Acknowledged, Lane!Unacknowledged
  <1>5. responses' \in [Reqs -> Nat] /\ \A q \in Reqs : responses[q] > 0 => responses'[q] > 0
    <2>1. CASE responses' = responses
      BY <1>0, <2>1
    <2>2. CASE responses' = [responses EXCEPT ![r] = @ + 1]
      BY <1>0, <2>2
    <2> QED
      BY <1>4, <2>1, <2>2
  <1>6. \A q \in Reqs : q # r => req'[q] = req[q]
    BY DEF Lane!Deliver, Lane!LeaseEnds, Lane!Lands, Lane!OtherTakes, Lane!OtherAnswers,
           Lane!OtherEnds, LaneShape
  <1>7. /\ req' \in [Reqs -> {"ready", "pending", "acked", "termed", "exhausted"}]
        /\ req'[r] = "acked" => req[r] = "acked" \/ responses'[r] > 0
        /\ req'[r] = "termed" => req[r] = "termed" \/ r \in Malformed
    <2>1. CASE Lane!Deliver(r) \/ Lane!LeaseEnds(r) \/ Lane!Lands(r)
      BY <2>1 DEF Lane!Deliver, Lane!LeaseEnds, Lane!Lands, Lane!Returned, LaneShape
    <2>2. CASE Lane!OtherTakes(r)
      BY <2>2 DEF Lane!OtherTakes, LaneShape
    <2>3. CASE Lane!OtherAnswers(r)
      <3>1. CASE Lane!Acknowledged(r) /\ req' = [req EXCEPT ![r] = Lane!Settlement(r, "ack")]
        BY <3>1 DEF Lane!Acknowledged, Lane!Settlement, LaneShape
      <3>2. CASE req' = req
        BY <3>2 DEF LaneShape
      <3>3. CASE req' = [req EXCEPT ![r] = Lane!Settlement(r, "retry")]
        BY <3>3 DEF Lane!Settlement, Lane!Returned, LaneShape
      <3> QED
        BY <2>3, <3>1, <3>2, <3>3 DEF Lane!OtherAnswers
    <2>4. CASE Lane!OtherEnds(r)
      BY <2>4 DEF Lane!OtherEnds, LaneShape
    <2> QED
      BY <2>1, <2>2, <2>3, <2>4
  <1>8. Lane!AckedIsAnswered'
    BY <1>5, <1>6, <1>7 DEF Lane!AckedIsAnswered
  <1>9. inbox' \in Seq(Reqs)
    BY <1>2, <1>0
  <1>10. LaneShape'
    BY <1>1, <1>5, <1>7, <1>9 DEF LaneShape
  <1>11. Grounded'
    BY <1>1, <1>5 DEF Grounded, LaneShape, WorkJoined
  <1> QED
    BY <1>3, <1>8, <1>10, <1>11

\* The work goroutine starts by parsing, whatever its context.
LEMMA ParsingWork ==
  \A ctx : [Lane!NoWork EXCEPT !.pc = "parsing", !.ctx = ctx].pc = "parsing"
  BY DEF Lane!NoWork

\* The consume callback: admission, the joins, the settlement and the latch.
LEMMA CallbackStep ==
  ASSUME LaneCore, Lane!CallbackNext \/ Lane!HeartbeatFails
  PROVE  LaneCore'
  <1> USE DEF LaneCore
  <1>1. CASE Lane!Refuse
    <2> USE <1>1 DEF Lane!Refuse, Lane!server, Lane!answers, Lane!lane
    <2>1. LaneShape' /\ WorkJoined' /\ Grounded' /\ Lane!AckedIsAnswered'
      BY DEF LaneShape, WorkJoined, Grounded, Lane!AckedIsAnswered
    <2>2. Latched' /\ HandleBound'
      BY DEF Latched, HandleBound
    <2> QED
      BY <2>1, <2>2
  <1>2. CASE Lane!Admit
    <2> USE <1>2 DEF Lane!Admit, Lane!server, Lane!answers, Lane!lane
    <2>1. cb'.r \in Reqs /\ cb'.pc \in {"working", "latching"} /\ inbox' \in Seq(Reqs)
      BY DEF LaneShape
    <2>2. LaneShape'
      BY <2>1 DEF LaneShape, Lane!NoWork, Lane!Decisions, Lane!Idle
    <2>3. work.pc = "none"
      BY DEF WorkJoined, Lane!Idle
    <2>4. \/ cb'.pc = "working" /\ work'.pc = "parsing"
          \/ cb'.pc = "latching" /\ work'.pc = "none"
      <3>1. CASE work' = [Lane!NoWork EXCEPT !.pc = "parsing", !.ctx = ~laneCancelled]
                 /\ cb' = [pc |-> "working", r |-> Head(inbox)]
        <4>1. work'.pc = "parsing"
          BY <3>1, ParsingWork
        <4> QED
          BY <3>1, <4>1
      <3>2. CASE work' = work /\ cb' = [pc |-> "latching", r |-> Head(inbox)]
        BY <2>3, <3>2
      <3> QED
        BY <3>1, <3>2
    <2>5. WorkJoined' /\ Grounded' /\ Lane!AckedIsAnswered'
      BY <2>4 DEF WorkJoined, Grounded, Lane!AckedIsAnswered
    <2>6. owner # "down"
      BY DEF HandleBound
    <2>7. Latched' /\ HandleBound'
      BY <2>6 DEF Latched, HandleBound
    <2> QED
      BY <2>2, <2>5, <2>7
  <1>3. CASE Lane!HeartbeatFails
    <2> USE <1>3 DEF Lane!HeartbeatFails, Lane!server, Lane!answers, Lane!lane
    <2>1. LaneShape' /\ WorkJoined' /\ Grounded' /\ Lane!AckedIsAnswered'
      BY DEF LaneShape, WorkJoined, Grounded, Lane!AckedIsAnswered
    <2>2. Latched' /\ HandleBound'
      BY DEF LaneShape, Latched, HandleBound, Lane!Idle
    <2> QED
      BY <2>1, <2>2
  <1>4. CASE Lane!DeliveryCancelled
    <2> USE <1>4 DEF Lane!DeliveryCancelled, Lane!server, Lane!answers, Lane!lane
    <2>1. LaneShape' /\ WorkJoined' /\ Grounded' /\ Lane!AckedIsAnswered'
      BY DEF LaneShape, WorkJoined, Grounded, Lane!AckedIsAnswered
    <2>2. Latched' /\ HandleBound'
      BY DEF Latched, HandleBound
    <2> QED
      BY <2>1, <2>2
  <1>5. CASE Lane!Settle
    <2> USE <1>5 DEF Lane!Settle, Lane!answers, Lane!lane
    <2>1. cb.r \in Reqs /\ owner # "down"
      BY DEF LaneShape, HandleBound, Lane!Idle
    <2>2. \A q \in Reqs : /\ req'[q] \in {"ready", "pending", "acked", "termed", "exhausted"}
                          /\ req'[q] = "acked" => responses[q] > 0
                          /\ req'[q] = "termed" => q \in Malformed
      <3>1. CASE req' = req
        BY <3>1 DEF LaneShape, Lane!AckedIsAnswered
      <3>2. CASE req' = [req EXCEPT ![cb.r] = Lane!Settlement(cb.r, work.decision)]
        <4>1. /\ Lane!Settlement(cb.r, work.decision)
                   \in {"ready", "pending", "acked", "termed", "exhausted"}
              /\ Lane!Settlement(cb.r, work.decision) = "acked" => responses[cb.r] > 0
              /\ Lane!Settlement(cb.r, work.decision) = "termed" => cb.r \in Malformed
          BY <2>1 DEF Lane!Settlement, Lane!Returned, Grounded, Lane!AckedIsAnswered, LaneShape
        <4> QED
          BY <2>1, <3>2, <4>1 DEF LaneShape, Lane!AckedIsAnswered
      <3> QED
        BY <3>1, <3>2
    <2>3. LaneShape'
      BY <2>1, <2>2 DEF LaneShape, Lane!Idle, Lane!NoWork, Lane!NoReq, Lane!Decisions
    <2>4. WorkJoined' /\ Grounded' /\ Lane!AckedIsAnswered'
      BY <2>2 DEF WorkJoined, Grounded, Lane!AckedIsAnswered, Lane!Idle, Lane!NoWork, LaneShape
    <2>5. Latched' /\ HandleBound'
      BY <2>1 DEF Latched, HandleBound, Lane!Idle, LaneShape
    <2> QED
      BY <2>3, <2>4, <2>5
  <1>6. CASE Lane!JoinLost
    <2> USE <1>6 DEF Lane!JoinLost, Lane!server, Lane!answers, Lane!lane
    <2>1. LaneShape'
      BY DEF LaneShape, Lane!NoWork, Lane!Decisions
    <2>2. WorkJoined' /\ Grounded' /\ Lane!AckedIsAnswered'
      BY DEF LaneShape, WorkJoined, Grounded, Lane!AckedIsAnswered, Lane!NoWork
    <2>3. Latched' /\ HandleBound'
      BY DEF LaneShape, Latched, HandleBound, Lane!Idle
    <2> QED
      BY <2>1, <2>2, <2>3
  <1>7. CASE Lane!LatchCloses
    <2> USE <1>7 DEF Lane!LatchCloses, Lane!server, Lane!answers
    <2>1. work.pc = "none" /\ owner # "down"
      BY DEF WorkJoined, HandleBound, Lane!Idle
    <2>2. LaneShape'
      BY DEF LaneShape, Lane!Idle, Lane!NoReq
    <2>3. WorkJoined' /\ Grounded' /\ Lane!AckedIsAnswered'
      BY <2>1 DEF LaneShape, WorkJoined, Grounded, Lane!AckedIsAnswered, Lane!Idle
    <2>4. Latched'
      BY DEF LaneShape, Latched, Lane!Idle
    <2>5. HandleBound'
      BY <2>1 DEF HandleBound
    <2> QED
      BY <2>2, <2>3, <2>4, <2>5
  <1>8. CASE Lane!OnFatal
    <2> USE <1>8 DEF Lane!OnFatal, Lane!server, Lane!answers
    <2>1. LaneShape' /\ WorkJoined' /\ Grounded' /\ Lane!AckedIsAnswered'
      BY DEF LaneShape, WorkJoined, Grounded, Lane!AckedIsAnswered
    <2>2. Latched' /\ HandleBound'
      BY DEF LaneShape, Latched, HandleBound, Lane!Idle
    <2> QED
      BY <2>1, <2>2
  <1>9. CASE Lane!LatchBuffers
    <2> USE <1>9 DEF Lane!LatchBuffers, Lane!server, Lane!answers
    <2>1. LaneShape' /\ WorkJoined' /\ Grounded' /\ Lane!AckedIsAnswered'
      BY DEF LaneShape, WorkJoined, Grounded, Lane!AckedIsAnswered, Lane!Idle, Lane!NoReq
    <2>2. Latched' /\ HandleBound'
      BY DEF LaneShape, Latched, HandleBound, Lane!Idle
    <2> QED
      BY <2>1, <2>2
  <1> QED
    BY <1>1, <1>2, <1>3, <1>4, <1>5, <1>6, <1>7, <1>8, <1>9 DEF Lane!CallbackNext

\* The work goroutine: an ack rests on a response that is there.
LEMMA WorkStep ==
  ASSUME LaneCore, Lane!WorkNext \/ Lane!Panic
  PROVE  LaneCore'
  <1> USE DEF LaneCore, Lane!WorkTo, Lane!Decided, Lane!lane, Lane!answers
  <1>0. /\ work.pc # "none" /\ cb.pc \in {"working", "lost"} /\ cb.r \in Reqs
        /\ UNCHANGED <<req, inbox, cb, Lane!lane, observer, handle, drains, owner>>
    BY DEF Lane!WorkNext, Lane!Parse, Lane!ReadRetained, Lane!CallModel, Lane!Publish,
           Lane!Panic, WorkJoined, LaneShape
  <1>1. Latched' /\ HandleBound'
    BY <1>0 DEF Latched, HandleBound
  <1>2. CASE Lane!Parse
    BY <1>0, <1>1, <1>2 DEF Lane!Parse, LaneShape, WorkJoined, Grounded, Lane!AckedIsAnswered,
                            Lane!Decisions
  <1>3. CASE Lane!ReadRetained
    <2>1. /\ \/ work' = Lane!Decided("ack") /\ responses[cb.r] > 0
             \/ work' = [work EXCEPT !.pc = "calling"]
             \/ work' = Lane!Decided("retry")
             \/ work' = Lane!Decided("quarantine")
          /\ responses' = responses
      BY <1>0, <1>3 DEF Lane!ReadRetained, LaneShape
    <2>2. LaneShape' /\ WorkJoined'
      BY <1>0, <2>1 DEF LaneShape, WorkJoined
    <2>3. Grounded' /\ Lane!AckedIsAnswered'
      BY <1>0, <2>1 DEF LaneShape, Grounded, Lane!AckedIsAnswered
    <2> QED
      BY <1>1, <2>2, <2>3
  <1>4. CASE Lane!CallModel
    BY <1>0, <1>1, <1>4 DEF Lane!CallModel, LaneShape, WorkJoined, Grounded,
                            Lane!AckedIsAnswered
  <1>5. CASE Lane!Publish
    <2>1. PICK landed \in {0, 1} :
            /\ responses' = [responses EXCEPT ![cb.r] = responses[cb.r] + landed]
            /\ \/ work' = Lane!Decided("ack") /\ landed = 1
               \/ work' = Lane!Decided("retry")
      <3>1. CASE Lane!Acknowledged(cb.r) /\ work' = Lane!Decided("ack")
        BY <3>1 DEF Lane!Acknowledged
      <3>2. CASE Lane!Unacknowledged(cb.r) /\ work' = Lane!Decided("retry")
        <4>1. responses' = [responses EXCEPT ![cb.r] = responses[cb.r] + 0]
          BY <1>0, <3>2 DEF Lane!Unacknowledged, LaneShape
        <4> QED
          BY <3>2, <4>1
      <3> QED
        BY <1>5, <3>1, <3>2 DEF Lane!Publish
    <2>2. responses' \in [Reqs -> Nat] /\ \A r \in Reqs : responses[r] > 0 => responses'[r] > 0
      BY <1>0, <2>1 DEF LaneShape
    <2>3. LaneShape' /\ WorkJoined'
      BY <1>0, <2>1, <2>2 DEF LaneShape, WorkJoined, Lane!Decisions
    <2>4. /\ work'.pc = "done" /\ work'.decision \in {"ack", "retry"}
          /\ work'.decision = "ack" => responses'[cb.r] > 0
      <3>1. /\ work = [pc |-> work.pc, decision |-> work.decision, kind |-> work.kind,
                       ctx |-> work.ctx]
            /\ responses \in [Reqs -> Nat]
        BY DEF LaneShape
      <3>2. landed = 1 => responses'[cb.r] > 0
        BY <1>0, <2>1, <3>1
      <3> QED
        BY <2>1, <3>1, <3>2
    <2>5. Grounded' /\ Lane!AckedIsAnswered'
      BY <1>0, <2>2, <2>4 DEF Grounded, Lane!AckedIsAnswered
    <2> QED
      BY <1>1, <2>3, <2>5
  <1>6. CASE Lane!Panic
    BY <1>0, <1>1, <1>6 DEF Lane!Panic, LaneShape, WorkJoined, Grounded, Lane!AckedIsAnswered,
                            Lane!Decisions
  <1> QED
    BY <1>2, <1>3, <1>4, <1>5, <1>6 DEF Lane!WorkNext

\* The observer, the handle and the owner: Start, Stop and the end of the process.
LEMMA OwnerStep ==
  ASSUME LaneCore,
         \/ Lane!ObserverNext \/ Lane!HandleCloses \/ Lane!Acquire \/ Lane!Started \/ Lane!Stop
         \/ Lane!StopDeadline \/ Lane!StopNext \/ Lane!ProcessEnds
  PROVE  LaneCore'
  <1> USE DEF LaneCore, Lane!server, Lane!answers
  <1>1. CASE Lane!ObserverNext
    BY <1>1 DEF Lane!ObserverNext, Lane!Observe, Lane!ObserverDrains, Lane!Drained, Lane!lane,
                LaneShape, WorkJoined,
                Grounded, Lane!AckedIsAnswered, Latched, HandleBound
  <1>2. CASE Lane!HandleCloses
    BY <1>2 DEF Lane!HandleCloses, Lane!lane, LaneShape, WorkJoined, Grounded,
                Lane!AckedIsAnswered, Latched, HandleBound
  <1>3. CASE Lane!Acquire
    BY <1>3 DEF Lane!Acquire, LaneShape, WorkJoined, Grounded, Lane!AckedIsAnswered, Latched,
                HandleBound, Lane!Idle
  <1>4. CASE Lane!Started
    BY <1>4 DEF Lane!Started, Lane!lane, LaneShape, WorkJoined, Grounded,
                Lane!AckedIsAnswered, Latched, HandleBound
  <1>5. CASE Lane!Stop
    BY <1>5 DEF Lane!Stop, Lane!Drained, Lane!lane, LaneShape, WorkJoined, Grounded,
                Lane!AckedIsAnswered, Latched, HandleBound
  <1>6. CASE Lane!StopDeadline
    BY <1>6 DEF Lane!StopDeadline, Lane!lane, LaneShape, WorkJoined, Grounded,
                Lane!AckedIsAnswered, Latched, HandleBound
  <1>7. CASE Lane!StopNext
    BY <1>7 DEF Lane!StopNext, Lane!StopCancels, Lane!StopReturns, Lane!lane, LaneShape,
                WorkJoined, Grounded,
                Lane!AckedIsAnswered, Latched, HandleBound
  <1>8. CASE Lane!ProcessEnds
    <2>1. LaneShape'
      BY <1>8 DEF Lane!ProcessEnds, LaneShape, Lane!Idle, Lane!NoWork, Lane!NoReq,
                  Lane!Decisions
    <2>2. WorkJoined' /\ Grounded' /\ Lane!AckedIsAnswered'
      BY <1>8 DEF Lane!ProcessEnds, WorkJoined, Grounded, Lane!AckedIsAnswered, Lane!Idle,
                  Lane!NoWork
    <2>3. Latched' /\ HandleBound'
      BY <1>8 DEF Lane!ProcessEnds, Lane!lane, Latched, HandleBound, Lane!Idle
    <2> QED
      BY <2>1, <2>2, <2>3
  <1> QED
    BY <1>1, <1>2, <1>3, <1>4, <1>5, <1>6, <1>7, <1>8

\* What the steps make of the tally: all but four leave the responses alone and bring
\* nobody past the read.
LEMMA TallyStep ==
  ASSUME LaneCore, Tally, [Lane!Next]_(Lane!vars)
  PROVE  Tally'
  <1>0. /\ responses \in [Reqs -> Nat] /\ wire \in [Reqs -> Nat]
        /\ others \in [Reqs -> Nat] /\ doubts \in [Reqs -> Nat]
        /\ work = [pc |-> work.pc, decision |-> work.decision, kind |-> work.kind, ctx |-> work.ctx]
        /\ cb = [pc |-> cb.pc, r |-> cb.r]
    BY DEF LaneCore, LaneShape, Tally
  <1>1. CASE /\ UNCHANGED Lane!answers
             /\ \A r \in Reqs : Lane!Answering(r)' => Lane!Answering(r)
    BY <1>0, <1>1 DEF Tally, Tallied, Mine, Lane!answers
  <1>2. ASSUME NEW r \in Reqs, Lane!Lands(r) PROVE Tally'
    <2>1. \A q \in Reqs : Lane!Answering(q)' <=> Lane!Answering(q)
      BY <1>2 DEF Lane!Lands, Lane!Answering
    <2> QED
      BY <1>0, <1>2, <2>1 DEF Lane!Lands, Tally, Tallied, Mine
  <1>3. ASSUME NEW r \in Reqs, Lane!OtherTakes(r) PROVE Tally'
    <2>1. \A q \in Reqs : Lane!Answering(q)' <=> Lane!Answering(q)
      BY <1>3 DEF Lane!OtherTakes, Lane!Here, Lane!Answering
    <2> QED
      BY <1>0, <1>3, <2>1 DEF Lane!OtherTakes, Lane!Overlaps, Tally, Tallied, Mine
  <1>4. ASSUME NEW r \in Reqs, Lane!OtherAnswers(r) \/ Lane!OtherEnds(r) PROVE Tally'
    <2>1. \A q \in Reqs : Lane!Answering(q)' <=> Lane!Answering(q)
      BY <1>4 DEF Lane!OtherAnswers, Lane!OtherEnds, Lane!Here, Lane!Answering
    <2>2. /\ others[r] > 0 /\ others' = [others EXCEPT ![r] = @ - 1]
          /\ Lane!Acknowledged(r) \/ Lane!Unacknowledged(r) \/ UNCHANGED <<responses, wire, doubts>>
      BY <1>4 DEF Lane!OtherAnswers, Lane!OtherEnds, Lane!OtherLeaves
    <2> QED
      BY <1>0, <2>1, <2>2 DEF Lane!Acknowledged, Lane!Unacknowledged, Tally, Tallied, Mine
  <1>5. CASE Lane!ReadRetained
    <2>1. PICK r \in Reqs : cb.r = r
      BY <1>5 DEF Lane!ReadRetained, LaneCore, LaneShape, WorkJoined
    <2>2. UNCHANGED <<responses, wire, others, cb>> /\ work.pc = "reading"
      BY <1>5 DEF Lane!ReadRetained, Lane!WorkTo
    <2>3. CASE work'.pc = "done" /\ UNCHANGED doubts
      BY <1>0, <2>2, <2>3 DEF Tally, Tallied, Mine, Lane!Answering
    <2>4. CASE responses[r] = 0 /\ work'.pc = "calling" /\ Lane!Overlaps(r, others[r] > 0)
      <3>1. \A q \in Reqs : (Lane!Answering(q)' <=> q = r) /\ ~Lane!Answering(q)
        BY <2>1, <2>2, <2>4 DEF Lane!Answering
      <3> QED
        BY <1>0, <2>2, <2>4, <3>1 DEF Lane!Overlaps, Tally, Tallied, Mine
    <2> QED
      BY <1>0, <1>5, <2>1, <2>3, <2>4 DEF Lane!ReadRetained, Lane!WorkTo, Lane!Decided
  <1>6. CASE Lane!Publish
    <2>1. PICK r \in Reqs : cb.r = r
      BY <1>6 DEF Lane!Publish, LaneCore, LaneShape, WorkJoined
    <2>2. /\ UNCHANGED <<others, cb>> /\ work.pc = "publishing" /\ work'.pc = "done"
          /\ Lane!Acknowledged(r) \/ Lane!Unacknowledged(r)
      BY <1>0, <1>6, <2>1 DEF Lane!Publish, Lane!WorkTo, Lane!Decided
    <2>3. \A q \in Reqs : (Lane!Answering(q) <=> q = r) /\ ~Lane!Answering(q)'
      BY <2>1, <2>2 DEF Lane!Answering
    <2> QED
      BY <1>0, <2>2, <2>3 DEF Lane!Acknowledged, Lane!Unacknowledged, Tally, Tallied, Mine
  <1>7. CASE Lane!Parse \/ Lane!CallModel \/ Lane!Panic
    <2>1. /\ UNCHANGED <<Lane!answers, cb>>
          /\ work'.pc \in {"calling", "publishing"} => work.pc = "calling"
      BY <1>0, <1>7 DEF Lane!Parse, Lane!CallModel, Lane!Panic, Lane!WorkTo, Lane!Decided
    <2> QED
      BY <1>1, <2>1 DEF Lane!Answering
  <1>8. CASE UNCHANGED <<Lane!answers, cb, work>>
    BY <1>1, <1>8 DEF Lane!Answering
  <1>9. CASE Lane!CallbackNext \/ Lane!HeartbeatFails \/ Lane!ProcessEnds
    <2>1. UNCHANGED Lane!answers
      BY <1>9 DEF Lane!CallbackNext, Lane!Refuse, Lane!Admit, Lane!HeartbeatFails,
         Lane!DeliveryCancelled, Lane!Settle, Lane!JoinLost, Lane!LatchCloses, Lane!OnFatal,
         Lane!LatchBuffers, Lane!ProcessEnds, Lane!server, Lane!answers
    <2>2. work'.pc \in {"calling", "publishing"} => work'.pc = work.pc /\ cb'.r = cb.r
      <3>1. CASE Lane!Admit
        BY <1>0, <3>1, ParsingWork DEF Lane!Admit, LaneCore, WorkJoined, Lane!Idle
      <3>2. CASE Lane!HeartbeatFails \/ Lane!DeliveryCancelled
        BY <1>0, <3>2 DEF Lane!HeartbeatFails, Lane!DeliveryCancelled
      <3>3. CASE Lane!Settle \/ Lane!JoinLost \/ Lane!ProcessEnds
        BY <3>3 DEF Lane!Settle, Lane!JoinLost, Lane!ProcessEnds, Lane!NoWork
      <3>4. CASE Lane!Refuse
        BY <3>4 DEF Lane!Refuse
      <3>5. CASE Lane!LatchCloses \/ Lane!OnFatal \/ Lane!LatchBuffers
        BY <3>5 DEF Lane!LatchCloses, Lane!OnFatal, Lane!LatchBuffers, LaneCore, WorkJoined
      <3> QED
        BY <1>9, <3>1, <3>2, <3>3, <3>4, <3>5 DEF Lane!CallbackNext
    <2> QED
      BY <1>1, <2>1, <2>2 DEF Lane!Answering
  <1> QED
    <2>1. \/ UNCHANGED <<Lane!answers, cb, work>>
          \/ Lane!CallbackNext \/ Lane!HeartbeatFails \/ Lane!ProcessEnds
          \/ Lane!WorkNext \/ Lane!Panic
          \/ \E r \in Reqs : \/ Lane!Lands(r) \/ Lane!OtherTakes(r)
                             \/ Lane!OtherAnswers(r) \/ Lane!OtherEnds(r)
      BY Zenon DEF Lane!Next, Lane!Deliver, Lane!LeaseEnds, Lane!ObserverNext, Lane!Observe,
         Lane!ObserverDrains, Lane!HandleCloses, Lane!Acquire, Lane!Started, Lane!Stop,
         Lane!StopDeadline, Lane!StopNext, Lane!StopCancels, Lane!StopReturns, Lane!vars,
         Lane!server, Lane!answers
    <2> QED
      BY <1>2, <1>3, <1>4, <1>5, <1>6, <1>7, <1>8, <1>9, <2>1 DEF Lane!WorkNext

\* Every step preserves the invariant.
LEMMA LaneStep == LaneInv /\ [Lane!Next]_(Lane!vars) => LaneInv'
  <1> SUFFICES ASSUME LaneInv, [Lane!Next]_(Lane!vars) PROVE LaneInv'
    OBVIOUS
  <1>1. LaneCore /\ Tally
    BY DEF LaneInv
  <1>2. ASSUME UNCHANGED Lane!vars PROVE LaneCore'
    BY <1>1, <1>2 DEF Lane!vars, Lane!server, Lane!answers, Lane!lane, LaneCore, LaneShape,
                WorkJoined, Grounded, Lane!AckedIsAnswered, Latched, HandleBound
  <1>3. ASSUME Lane!Next PROVE LaneCore'
    BY <1>1, <1>3, ServerStep, CallbackStep, WorkStep, OwnerStep DEF Lane!Next
  <1>4. LaneCore'
    BY <1>2, <1>3
  <1>5. Tally'
    BY <1>1, TallyStep
  <1> QED
    BY <1>4, <1>5 DEF LaneInv

\* The inductive invariant of the request lane holds in every reachable state.
THEOREM LaneInvariant == Lane!Spec => []LaneInv
  BY InitLane, LaneStep, PTL DEF Lane!Spec

\* What the invariant says of the properties.
LEMMA LaneImplies ==
  LaneInv => Lane!AckedIsAnswered /\ Lane!RepeatedOnlyInDoubt /\ Lane!FatalIsDeclared
  <1>1. LaneInv => Lane!AckedIsAnswered
    BY DEF LaneInv, LaneCore
  <1>2. LaneInv => Lane!RepeatedOnlyInDoubt
    <2> SUFFICES ASSUME LaneInv, NEW r \in Reqs PROVE responses[r] + wire[r] <= 1 + doubts[r]
      BY DEF Lane!RepeatedOnlyInDoubt
    <2>1. responses[r] \in Nat /\ wire[r] \in Nat /\ others[r] \in Nat /\ doubts[r] \in Nat
      BY DEF LaneInv, LaneCore, LaneShape, Tally
    <2>2. Mine(r) \in Nat
      BY DEF Mine
    <2>3. responses[r] + wire[r] + others[r] + Mine(r) <= 1 + doubts[r]
      BY DEF LaneInv, Tally, Tallied
    <2> QED
      BY <2>1, <2>2, <2>3
  <1>3. LaneInv => Lane!FatalIsDeclared
    BY DEF LaneInv, LaneCore, LaneShape, WorkJoined, Latched, HandleBound, Lane!FatalIsDeclared
  <1> QED
    BY <1>1, <1>2, <1>3

-----------------------------------------------------------------------------
(* The types of the request lane.                                          *)

\* What the invariant does not say of the types.
LaneTypes ==
  /\ tries \in [Reqs -> 0..MaxDeliver]
  /\ work.decision \in Lane!Decisions \union {"none"}
  /\ open \in BOOLEAN /\ fatal \in BOOLEAN /\ recorded \in BOOLEAN
  /\ laneCancelled \in BOOLEAN /\ late \in BOOLEAN
  /\ observer \in {"none", "running", "reacting", "exited"}
  /\ handle \in {"none", "consuming", "draining", "closed"}
  /\ owner \in {"down", "starting", "running", "closing", "joining", "stopped"}
  /\ laneFaults \in 0..LaneFaults

\* Every step keeps the types.
LEMMA LaneTypesStep ==
  ASSUME MaxDeliver \in Nat, LaneFaults \in Nat, LaneInv, LaneTypes, [Lane!Next]_(Lane!vars)
  PROVE  LaneTypes'
  <1> USE DEF Lane!server, Lane!answers, Lane!lane
  <1>1. laneFaults' \in 0..LaneFaults
    <2>1. laneFaults' = laneFaults \/ Lane!Fault
      BY DEF Lane!Next, Lane!Deliver, Lane!LeaseEnds, Lane!Lands, Lane!OtherTakes,
         Lane!OtherAnswers, Lane!OtherEnds, Lane!Here, Lane!CallbackNext, Lane!Refuse,
         Lane!Admit, Lane!HeartbeatFails, Lane!DeliveryCancelled, Lane!Settle, Lane!JoinLost,
         Lane!LatchCloses, Lane!OnFatal, Lane!LatchBuffers, Lane!WorkNext, Lane!Parse,
         Lane!ReadRetained, Lane!CallModel, Lane!Publish, Lane!Panic, Lane!ObserverNext,
         Lane!Observe, Lane!ObserverDrains, Lane!HandleCloses, Lane!Acquire, Lane!Started,
         Lane!Stop, Lane!StopDeadline, Lane!StopNext, Lane!StopCancels, Lane!StopReturns,
         Lane!ProcessEnds, Lane!NoFault, Lane!vars
    <2> QED
      BY <2>1 DEF Lane!Fault, LaneTypes
  <1>2. tries' \in [Reqs -> 0..MaxDeliver]
    <2>1. UNCHANGED tries \/ \E r \in Reqs : Lane!Deliver(r) \/ Lane!OtherTakes(r)
      BY DEF Lane!Next, Lane!LeaseEnds, Lane!Lands, Lane!OtherAnswers, Lane!OtherEnds,
         Lane!CallbackNext, Lane!Refuse, Lane!Admit, Lane!HeartbeatFails,
         Lane!DeliveryCancelled, Lane!Settle, Lane!JoinLost, Lane!LatchCloses, Lane!OnFatal,
         Lane!LatchBuffers, Lane!WorkNext, Lane!Parse, Lane!ReadRetained, Lane!CallModel,
         Lane!Publish, Lane!Panic, Lane!WorkTo, Lane!ObserverNext, Lane!Observe,
         Lane!ObserverDrains, Lane!HandleCloses, Lane!Acquire, Lane!Started, Lane!Stop,
         Lane!StopDeadline, Lane!StopNext, Lane!StopCancels, Lane!StopReturns, Lane!ProcessEnds,
         Lane!vars
    <2> QED
      BY <2>1 DEF Lane!Deliver, Lane!OtherTakes, Lane!Deliverable, LaneTypes
  <1>3. work'.decision \in Lane!Decisions \union {"none"}
    <2>0. work = [pc |-> work.pc, decision |-> work.decision, kind |-> work.kind, ctx |-> work.ctx]
      BY DEF LaneInv, LaneCore, LaneShape
    <2>1. \/ work' = work \/ work' = Lane!NoWork
          \/ work' = [Lane!NoWork EXCEPT !.pc = "parsing", !.ctx = ~laneCancelled]
          \/ work' = [work EXCEPT !.ctx = FALSE]
          \/ Lane!WorkNext \/ Lane!Panic
      BY DEF Lane!Next, Lane!Deliver, Lane!LeaseEnds, Lane!Lands, Lane!OtherTakes,
         Lane!OtherAnswers, Lane!OtherEnds, Lane!Here, Lane!CallbackNext, Lane!Refuse,
         Lane!Admit, Lane!HeartbeatFails, Lane!DeliveryCancelled, Lane!Settle, Lane!JoinLost,
         Lane!LatchCloses, Lane!OnFatal, Lane!LatchBuffers, Lane!ObserverNext, Lane!Observe,
         Lane!ObserverDrains, Lane!HandleCloses, Lane!Acquire, Lane!Started, Lane!Stop,
         Lane!StopDeadline, Lane!StopNext, Lane!StopCancels, Lane!StopReturns, Lane!ProcessEnds,
         Lane!vars
    <2>2. CASE Lane!WorkNext \/ Lane!Panic
      <3>1. \/ \E d \in Lane!Decisions : work' = [work EXCEPT !.pc = "done", !.decision = d]
            \/ \E pc : work' = [work EXCEPT !.pc = pc]
            \/ \E pc, kind : work' = [work EXCEPT !.pc = pc, !.kind = kind]
        BY <2>2 DEF Lane!WorkNext, Lane!Parse, Lane!ReadRetained, Lane!CallModel, Lane!Publish,
           Lane!Panic, Lane!WorkTo, Lane!Decided, Lane!Decisions
      <3> QED
        BY <2>0, <3>1 DEF LaneTypes
    <2>3. CASE ~(Lane!WorkNext \/ Lane!Panic)
      <3>1. Lane!NoWork.decision = "none"
            /\ [Lane!NoWork EXCEPT !.pc = "parsing", !.ctx = ~laneCancelled].decision = "none"
        BY DEF Lane!NoWork
      <3>2. [work EXCEPT !.ctx = FALSE].decision = work.decision
        BY <2>0
      <3> QED
        BY <2>1, <2>3, <3>1, <3>2 DEF LaneTypes
    <2> QED
      BY <2>2, <2>3
  <1>4. /\ open' \in BOOLEAN /\ fatal' \in BOOLEAN /\ recorded' \in BOOLEAN
        /\ laneCancelled' \in BOOLEAN /\ late' \in BOOLEAN
    <2>1. CASE UNCHANGED <<Lane!lane, laneCancelled, late>>
      BY <2>1, Zenon DEF LaneTypes
    <2>2. ASSUME NEW r \in Reqs,
                 \/ Lane!Deliver(r) \/ Lane!LeaseEnds(r) \/ Lane!Lands(r)
                 \/ Lane!OtherTakes(r) \/ Lane!OtherAnswers(r) \/ Lane!OtherEnds(r)
          PROVE  UNCHANGED <<Lane!lane, laneCancelled, late>>
      BY <2>2 DEF Lane!Deliver, Lane!LeaseEnds, Lane!Lands, Lane!OtherTakes, Lane!OtherAnswers,
         Lane!OtherEnds, Lane!Here
    <2>3. CASE Lane!WorkNext \/ Lane!Panic
      <3>1. UNCHANGED <<Lane!lane, laneCancelled, late>>
        BY <2>3, Zenon DEF Lane!WorkNext, Lane!Parse, Lane!ReadRetained, Lane!CallModel,
           Lane!Publish, Lane!Panic, Lane!WorkTo
      <3> QED
        BY <2>1, <3>1
    <2>4. CASE Lane!CallbackNext \/ Lane!HeartbeatFails
      BY <2>4, Zenon DEF Lane!CallbackNext, Lane!Refuse, Lane!Admit, Lane!HeartbeatFails,
         Lane!DeliveryCancelled, Lane!Settle, Lane!JoinLost, Lane!LatchCloses, Lane!OnFatal,
         Lane!LatchBuffers, LaneTypes
    <2>5. CASE \/ Lane!ObserverNext \/ Lane!HandleCloses \/ Lane!Acquire \/ Lane!Started
               \/ Lane!Stop \/ Lane!StopDeadline \/ Lane!StopNext \/ Lane!ProcessEnds
      BY <2>5, Zenon DEF Lane!ObserverNext, Lane!Observe, Lane!ObserverDrains,
         Lane!HandleCloses, Lane!Acquire, Lane!Started, Lane!Stop, Lane!StopDeadline,
         Lane!StopNext, Lane!StopCancels, Lane!StopReturns, Lane!ProcessEnds, LaneTypes
    <2> QED
      BY <2>1, <2>2, <2>3, <2>4, <2>5 DEF Lane!Next, Lane!vars
  <1>5. /\ observer' \in {"none", "running", "reacting", "exited"}
        /\ handle' \in {"none", "consuming", "draining", "closed"}
        /\ owner' \in {"down", "starting", "running", "closing", "joining", "stopped"}
    BY DEF Lane!Next, Lane!Deliver, Lane!LeaseEnds, Lane!Lands, Lane!OtherTakes,
       Lane!OtherAnswers, Lane!OtherEnds, Lane!Here, Lane!CallbackNext, Lane!Refuse, Lane!Admit,
       Lane!HeartbeatFails, Lane!DeliveryCancelled, Lane!Settle, Lane!JoinLost,
       Lane!LatchCloses, Lane!OnFatal, Lane!LatchBuffers, Lane!WorkNext, Lane!Parse,
       Lane!ReadRetained, Lane!CallModel, Lane!Publish, Lane!Panic, Lane!WorkTo,
       Lane!ObserverNext, Lane!Observe, Lane!ObserverDrains, Lane!Drained, Lane!HandleCloses,
       Lane!Acquire, Lane!Started, Lane!Stop, Lane!StopDeadline, Lane!StopNext,
       Lane!StopCancels, Lane!StopReturns, Lane!ProcessEnds, Lane!vars, LaneTypes
  <1> QED
    BY <1>1, <1>2, <1>3, <1>4, <1>5, Zenon DEF LaneTypes

\* The types of the lane, from the invariant.
LEMMA LaneTyped == ASSUME LaneInv, LaneTypes PROVE Lane!TypeOK
  <1>1. \A i \in DOMAIN inbox : inbox[i] \in Reqs
    BY DEF LaneInv, LaneCore, LaneShape
  <1>2. /\ req \in [Reqs -> {"ready", "pending", "acked", "termed", "exhausted"}]
        /\ work.pc \in {"none", "parsing", "reading", "calling", "publishing", "done"}
    BY Zenon DEF LaneInv, LaneCore, LaneShape
  <1>3. /\ responses \in [Reqs -> Nat] /\ wire \in [Reqs -> Nat]
        /\ others \in [Reqs -> Nat] /\ doubts \in [Reqs -> Nat]
    BY DEF LaneInv, LaneCore, LaneShape, Tally
  <1>4. drains \in Nat
    BY DEF LaneInv, LaneCore, LaneShape
  <1>5. /\ cb.pc \in {"idle", "working", "lost", "latching", "recording", "buffering"}
        /\ cb.r \in Reqs \union {Lane!NoReq}
    BY DEF LaneInv, LaneCore, LaneShape
  <1> QED
    BY <1>1, <1>2, <1>3, <1>4, <1>5, Zenon DEF Lane!TypeOK, LaneTypes

\* The types hold at the start.
LEMMA LaneTypesInit == ASSUME MaxDeliver \in Nat, LaneFaults \in Nat, Lane!Init PROVE LaneTypes
  <1>1. /\ open \in BOOLEAN /\ fatal \in BOOLEAN /\ recorded \in BOOLEAN
        /\ laneCancelled \in BOOLEAN /\ late \in BOOLEAN
    BY Zenon DEF Lane!Init
  <1>2. tries \in [Reqs -> 0..MaxDeliver] /\ laneFaults \in 0..LaneFaults
    BY DEF Lane!Init
  <1>3. work.decision = "none"
    BY DEF Lane!Init, Lane!NoWork
  <1>4. /\ observer \in {"none", "running", "reacting", "exited"}
        /\ handle \in {"none", "consuming", "draining", "closed"}
        /\ owner \in {"down", "starting", "running", "closing", "joining", "stopped"}
    BY DEF Lane!Init
  <1> QED
    BY <1>1, <1>2, <1>3, <1>4, Zenon DEF LaneTypes

-----------------------------------------------------------------------------
(* The gated DAG.                                                          *)

\* The shape of the state, part by part.
UnitOK == unit \in [Units -> [mark : Dag!Marks, dirtied : BOOLEAN, claim : Dag!Claims]]
EvalOK ==
  /\ eval = [pc |-> eval.pc, view |-> eval.view, stalled |-> eval.stalled, todo |-> eval.todo,
              done |-> eval.done]
  /\ eval.view \in [Units -> [mark : Dag!Marks \union {"unread"}, dirtied : BOOLEAN,
                              claim : Dag!Claims]]
  /\ \A u \in Units : eval.view[u].mark = "unread" => eval.view[u] = Dag!Unread
  /\ eval.todo \subseteq Units /\ eval.done \subseteq Units
JobsOK ==
  /\ queue \in Seq(Units)
  /\ worker \in [Workers -> [pc : {"idle", "claiming", "publishing", "unclaiming", "clearing"},
                              u : Units \union {Dag!NoUnit}]]
  /\ \A w \in Workers : worker[w].pc # "idle" => worker[w].u \in Units
HistoryOK == history \in [Units -> [stored : Nat, done : BOOLEAN, reset : BOOLEAN,
                                    unsure : BOOLEAN, lapsed : BOOLEAN]]
DagShape == UnitOK /\ EvalOK /\ JobsOK /\ HistoryOK

\* Every prerequisite of u has completed once.
Prereqs(u) == \A d \in DependsOn[u] : history[d].done

\* A job for u is queued, in the hands of a worker, or either.
Queued(u) == \E i \in DOMAIN queue : queue[i] = u
Held(w, u) == worker[w].pc # "idle" /\ worker[w].u = u
Busy(u) == Queued(u) \/ \E w \in Workers : Held(w, u)

\* What dependency order says of the dispatches there are.
OrderKept ==
  /\ \A u \in Units : history[u].stored > 0 => \A d \in DependsOn[u] : history[d].done
  /\ fanOut = "completed" => \A u \in Units : history[u].done

\* Where dependency order comes from: whatever names a unit as completed, the
\* graph or what a pass read of it, it has completed; and everything on its way
\* to the stream was selected with its prerequisites completed.
DagOrdered ==
  /\ \A u \in Units : unit[u].mark = "completed" \/ eval.view[u].mark = "completed"
                        => history[u].done
  /\ \A u \in Units : u \in eval.todo \/ Busy(u) => Prereqs(u)
  /\ OrderKept

-----------------------------------------------------------------------------
\* A unit to which OnceEach applies.
Clean(u) == ~history[u].reset /\ ~history[u].lapsed

\* Stored and acknowledged.
Sent(u) == history[u].stored = 1 /\ ~history[u].unsure

\* What a pass may have read of a unit it could select.
Selectable(u) == eval.view[u].mark = "none" /\ eval.view[u].claim = "no"

\* One job at a time, in the queue or in the hands of one worker.
OneJob(u) ==
  /\ \A i, j \in DOMAIN queue : queue[i] = u /\ queue[j] = u => i = j
  /\ \A w, x \in Workers : Held(w, u) /\ Held(x, u) => w = x
  /\ \A w \in Workers : Held(w, u) => ~Queued(u)

\* A unit on its way is hinted until it ended, also against a pass that read it
\* before it was claimed; once its dispatch is acknowledged its claim stands.
Hinted(u) ==
  /\ ~unit[u].dirtied /\ ~eval.view[u].dirtied
  /\ eval.view[u].mark \in {"completed", "failed"} => unit[u].mark \in {"completed", "failed"}
  /\ Busy(u) => u \in inflight \/ unit[u].mark \in {"completed", "failed"}
  /\ Selectable(u) /\ (Busy(u) \/ Sent(u)) => u \in inflight
  /\ u \in eval.todo => ~Busy(u)
  /\ Sent(u) => unit[u].claim # "no" /\ ~Busy(u) /\ u \notin eval.todo
  /\ \A w \in Workers : Held(w, u) /\ worker[w].pc = "publishing" => unit[u].claim # "no"

\* A second message is stored only after the id of the first was forgotten.
Remembered(u) ==
  /\ history[u].stored \in {0, 1}
  /\ history[u].stored = 1 /\ history[u].unsure => u \in window

DagOnce(u) == Clean(u) => OneJob(u) /\ Hinted(u) /\ Remembered(u)

DagCore == DagShape /\ DagOrdered /\ \A u \in Units : DagOnce(u)

\* What a pass knows is of that pass: the units done now, those it read as done, and the
\* prerequisites of what it selected were all done at some moment of it.
DagRecent ==
  /\ eval.pc # "idle" => \A u \in Units : Dag!Done(u) => u \in eval.done
  /\ \A u \in Units : Dag!DeriveStatus(eval.view, u) = "done" => u \in eval.done
  /\ \A u \in eval.todo : DependsOn[u] \subseteq eval.done
  /\ eval.pc = "idle" => eval = Dag!NoEval

\* The inductive invariant.
DagInv == DagCore /\ DagRecent

-----------------------------------------------------------------------------
(* Facts about one unit that the steps share.                              *)

\* What completed stays completed, so prerequisites do.
LEMMA PrereqsKept ==
  ASSUME DependsOn \in [Units -> SUBSET Units],
         \A d \in Units : history[d].done => history'[d].done,
         NEW u \in Units, Prereqs(u)
  PROVE  Prereqs(u)'
  BY DEF Prereqs

\* The brain calls a unit done only if it read it as completed and not reset.
LEMMA DoneIsCompleted ==
  ASSUME NEW v, NEW u, Dag!DeriveStatus(v, u) = "done"
  PROVE  v[u].mark = "completed" /\ ~v[u].dirtied
  BY DEF Dag!DeriveStatus

\* ... and ready, unless it was reset, only if it has not ended.
LEMMA ReadyIsOpen ==
  ASSUME NEW v, NEW u, Dag!DeriveStatus(v, u) = "ready", ~v[u].dirtied
  PROVE  v[u].mark \notin {"completed", "failed"}
  BY DEF Dag!DeriveStatus

\* What a pass read and selected stays.
PassKept == eval'.view = eval.view /\ eval'.todo = eval.todo

\* A step that leaves the jobs, the hint, the history and the entity of a unit
\* alone leaves its part of the invariant alone.
LEMMA OnceFrame ==
  ASSUME NEW u \in Units, DagOnce(u), unit'[u] = unit[u], history'[u] = history[u],
         UNCHANGED <<queue, worker, inflight>>, PassKept, u \in window => u \in window'
  PROVE  DagOnce(u)'
  <1> USE DEF PassKept
  <1>1. Clean(u)' => Clean(u)
    BY DEF Clean
  <1>2. OneJob(u) => OneJob(u)'
    BY DEF OneJob, Held, Queued
  <1>3. (Busy(u)' <=> Busy(u)) /\ (Sent(u)' <=> Sent(u)) /\ (Selectable(u)' <=> Selectable(u))
    BY DEF Busy, Held, Queued, Sent, Selectable
  <1>4. Hinted(u) => Hinted(u)'
    BY <1>3 DEF Hinted, Held
  <1>5. Remembered(u) => Remembered(u)'
    BY DEF Remembered
  <1> QED
    BY <1>1, <1>2, <1>4, <1>5 DEF DagOnce

\* The same for a step that may move the jobs of other units.
LEMMA OnceLocal ==
  ASSUME NEW u \in Units, DagOnce(u), unit'[u] = unit[u], history'[u] = history[u],
         PassKept, u \in inflight => u \in inflight', u \in window => u \in window',
         Clean(u) => OneJob(u)', Busy(u)' => Busy(u),
         \A w \in Workers : Held(w, u)' /\ worker'[w].pc = "publishing"
                              => Held(w, u) /\ worker[w].pc = "publishing"
  PROVE  DagOnce(u)'
  <1> USE DEF PassKept
  <1>1. Clean(u)' => Clean(u)
    BY DEF Clean
  <1>2. (Sent(u)' <=> Sent(u)) /\ (Selectable(u)' <=> Selectable(u))
    BY DEF Sent, Selectable
  <1>3. Hinted(u) => Hinted(u)'
    BY <1>2 DEF Hinted
  <1>4. Remembered(u) => Remembered(u)'
    BY DEF Remembered
  <1> QED
    BY <1>1, <1>3, <1>4 DEF DagOnce

\* Between passes nothing is known.
LEMMA NothingRead ==
  /\ Dag!NoEval.pc = "idle" /\ Dag!NoEval.todo = {}
  /\ \A u \in Units : Dag!DeriveStatus(Dag!NoEval.view, u) # "done"
  BY DEF Dag!NoEval, Dag!DeriveStatus, Dag!Unread

\* Init establishes the invariant.
LEMMA InitDag == Dag!Init => DagInv
  <1> SUFFICES ASSUME Dag!Init PROVE DagInv
    OBVIOUS
  <1> USE DEF Dag!Init
  <1>1. DagShape
    BY DEF DagShape, UnitOK, EvalOK, JobsOK, HistoryOK, Dag!NoEval, Dag!Unread, Dag!NoJob,
           Dag!NoUnit, Dag!Marks, Dag!Claims
  <1>2. \A u \in Units : ~Busy(u)
    BY DEF Busy, Queued, Held, Dag!NoJob
  <1>3. DagOrdered
    BY <1>2 DEF DagOrdered, Dag!NoEval, Dag!Unread, OrderKept
  <1>4. ASSUME NEW u \in Units PROVE DagOnce(u)
    BY <1>2 DEF DagOnce, OneJob, Hinted, Remembered, Busy, Sent, Dag!NoEval, Dag!Unread
  <1>5. DagRecent
    BY NothingRead DEF DagRecent
  <1> QED
    BY <1>1, <1>3, <1>4, <1>5 DEF DagCore, DagInv

-----------------------------------------------------------------------------
(* The graph, the stream, the consumer, the operator and the start.        *)

\* What the world does to a unit: it leaves the jobs alone and completes only what ran.
LEMMA GraphStep ==
  ASSUME DependsOn \in [Units -> SUBSET Units], DagCore, NEW x \in Units,
         \/ Dag!ClaimAges(x) \/ Dag!MessageLost(x) \/ Dag!ConsumerNext(x) \/ Dag!WindowPasses(x)
         \/ \E b \in BOOLEAN : Dag!Reset(x, b)
  PROVE  DagCore'
  <1>1. UNCHANGED <<queue, worker, inflight, fanOut>> /\ PassKept /\ EvalOK'
    <2>1. /\ UNCHANGED <<queue, worker, inflight, fanOut>>
          /\ eval' = eval \/ eval' = [eval EXCEPT !.done = @ \union {x}]
      BY DEF Dag!ClaimAges, Dag!MessageLost, Dag!ConsumerNext, Dag!ConsumerSkips,
           Dag!ConsumerRuns, Dag!ConsumerEnds,
           Dag!WindowPasses, Dag!Reset, Dag!executor
    <2>2. EvalOK
      BY DEF DagCore, DagShape
    <2>3. CASE eval' = eval
      BY <2>1, <2>2, <2>3 DEF PassKept, EvalOK
    <2>4. CASE eval' = [eval EXCEPT !.done = @ \union {x}]
      <3>1. eval' = [pc |-> eval.pc, view |-> eval.view, stalled |-> eval.stalled,
                     todo |-> eval.todo, done |-> eval.done \union {x}]
        BY <2>2, <2>4 DEF EvalOK
      <3> QED
        BY <2>1, <2>2, <3>1 DEF PassKept, EvalOK
    <2> QED
      BY <2>1, <2>3, <2>4
  <1>2. \A u \in Units \ {x} : unit'[u] = unit[u] /\ history'[u] = history[u]
                               /\ (u \in window => u \in window')
    BY DEF Dag!ClaimAges, Dag!MessageLost, Dag!ConsumerNext, Dag!ConsumerSkips,
           Dag!ConsumerRuns, Dag!ConsumerEnds,
           Dag!WindowPasses, Dag!Reset, DagCore, DagShape, UnitOK, HistoryOK
  <1>3. DagShape'
    <2>1. UnitOK'
      BY DEF Dag!ClaimAges, Dag!MessageLost, Dag!ConsumerNext, Dag!ConsumerSkips,
             Dag!ConsumerRuns, Dag!ConsumerEnds,
           Dag!WindowPasses, Dag!Reset, DagCore, DagShape, UnitOK, Dag!Marks, Dag!Claims
    <2>2. HistoryOK'
      <3>1. CASE history' = history
        BY <3>1 DEF DagCore, DagShape, HistoryOK
      <3>2. CASE Dag!WindowPasses(x)
        BY <3>2 DEF Dag!WindowPasses, DagCore, DagShape, HistoryOK
      <3>3. CASE history' = [history EXCEPT ![x].done = TRUE]
        BY <3>3 DEF DagCore, DagShape, HistoryOK
      <3>4. CASE history' = [history EXCEPT ![x].reset = TRUE]
        BY <3>4 DEF DagCore, DagShape, HistoryOK
      <3> QED
        BY <3>1, <3>2, <3>3, <3>4 DEF Dag!ClaimAges, Dag!MessageLost, Dag!ConsumerNext,
                                      Dag!ConsumerSkips,
           Dag!ConsumerRuns, Dag!ConsumerEnds, Dag!Reset
    <2>3. EvalOK' /\ JobsOK'
      BY <1>1 DEF DagCore, DagShape, JobsOK
    <2> QED
      BY <2>1, <2>2, <2>3 DEF DagShape
  <1>4. /\ history[x].done => history'[x].done
        /\ unit'[x].mark = "completed" => unit[x].mark = "completed" \/ history'[x].done
        /\ history'[x].stored = history[x].stored
    BY DEF Dag!ClaimAges, Dag!MessageLost, Dag!ConsumerNext, Dag!ConsumerSkips,
           Dag!ConsumerRuns, Dag!ConsumerEnds,
           Dag!WindowPasses, Dag!Reset, DagCore, DagShape, UnitOK, HistoryOK
  <1>5. \A u \in Units : Prereqs(u) => Prereqs(u)'
    BY <1>2, <1>4, PrereqsKept
  <1>6. DagOrdered'
    <2>1. \A u \in Units : unit'[u].mark = "completed" \/ eval'.view[u].mark = "completed"
                            => history'[u].done
      BY <1>1, <1>2, <1>4 DEF PassKept, DagCore, DagOrdered
    <2>2. \A u \in Units : (Busy(u)' => Busy(u)) /\ (u \in eval'.todo => u \in eval.todo)
      BY <1>1 DEF PassKept, Busy, Queued, Held
    <2>3. \A u \in Units : u \in eval'.todo \/ Busy(u)' => Prereqs(u)'
      BY <1>5, <2>2 DEF DagCore, DagOrdered
    <2>4. \A u \in Units : history'[u].stored > 0 => Prereqs(u)'
      BY <1>2, <1>4, <1>5 DEF DagCore, DagOrdered, OrderKept, Prereqs
    <2>5. fanOut' = "completed" => \A u \in Units : history'[u].done
      BY <1>1, <1>2, <1>4 DEF DagCore, DagOrdered, OrderKept
    <2>6. OrderKept'
      BY <2>4, <2>5 DEF OrderKept, Prereqs
    <2> QED
      BY <2>1, <2>3, <2>6 DEF DagOrdered
  <1>7. ASSUME NEW u \in Units, u # x PROVE DagOnce(u)'
    BY <1>1, <1>2, <1>7, OnceFrame DEF DagCore
  <1>8. DagOnce(x)'
    <2> SUFFICES ASSUME Clean(x)' PROVE OneJob(x)' /\ Hinted(x)' /\ Remembered(x)'
      BY DEF DagOnce
    <2>1. /\ Clean(x)
          /\ history'[x].stored = history[x].stored
          /\ history'[x].unsure = history[x].unsure
      BY DEF Clean, Dag!ClaimAges, Dag!MessageLost, Dag!ConsumerNext, Dag!ConsumerSkips,
             Dag!ConsumerRuns,
             Dag!ConsumerEnds, Dag!WindowPasses, Dag!Reset, DagCore, DagShape, UnitOK, HistoryOK
    <2>2. OneJob(x) /\ Hinted(x) /\ Remembered(x)
      BY <2>1 DEF DagCore, DagOnce
    <2>3. OneJob(x)'
      BY <1>1, <2>2 DEF OneJob, Held, Queued
    <2>4. ~ \E b \in BOOLEAN : Dag!Reset(x, b)
      BY DEF Clean, Dag!Reset, DagCore, DagShape, HistoryOK
    <2>5. /\ ~unit'[x].dirtied
          /\ unit[x].mark \in {"completed", "failed"} => unit'[x].mark \in {"completed", "failed"}
          /\ unit[x].claim # "no" => unit'[x].claim # "no"
      BY <2>2, <2>4 DEF Hinted, Dag!ClaimAges, Dag!MessageLost, Dag!ConsumerNext,
                        Dag!ConsumerSkips,
           Dag!ConsumerRuns, Dag!ConsumerEnds, Dag!WindowPasses, DagCore, DagShape, UnitOK,
           Dag!Terminal
    <2>6. /\ Busy(x)' <=> Busy(x)
          /\ Sent(x)' <=> Sent(x)
          /\ Selectable(x)' <=> Selectable(x)
      BY <1>1, <2>1 DEF PassKept, Busy, Queued, Held, Sent, Selectable
    <2>7. Hinted(x)'
      BY <1>1, <2>2, <2>5, <2>6 DEF PassKept, Hinted, Held
    <2>8. Remembered(x)'
      <3>1. CASE Dag!WindowPasses(x)
        <4>1. ~history[x].unsure
          BY <3>1 DEF Dag!WindowPasses, Clean, DagCore, DagShape, HistoryOK
        <4> QED
          BY <2>1, <2>2, <4>1 DEF Remembered
      <3>2. CASE ~Dag!WindowPasses(x)
        <4>1. window' = window
          BY <3>2 DEF Dag!ClaimAges, Dag!MessageLost, Dag!ConsumerNext, Dag!ConsumerSkips,
                      Dag!ConsumerRuns,
             Dag!ConsumerEnds, Dag!Reset
        <4> QED
          BY <2>1, <2>2, <4>1 DEF Remembered
      <3> QED
        BY <3>1, <3>2
    <2> QED
      BY <2>3, <2>7, <2>8
  <1> QED
    BY <1>3, <1>6, <1>7, <1>8 DEF DagCore

-----------------------------------------------------------------------------
(* The executor: start, crash and the evaluation pass.                     *)

\* Starting and crashing only drop what was on its way.
LEMMA ProcessStep ==
  ASSUME DagCore, Dag!Start \/ Dag!Crash
  PROVE  DagCore'
  <1>1. UNCHANGED <<unit, history, window>> /\ (fanOut' = "completed" => fanOut = "completed")
    BY DEF Dag!Start, Dag!Crash, Dag!graph
  <1>2. CASE Dag!Start
    <2>1. UNCHANGED <<queue, worker, eval, inflight>>
      BY <1>2 DEF Dag!Start
    <2>2. DagShape'
      BY <1>1, <2>1 DEF DagCore, DagShape, UnitOK, EvalOK, JobsOK, HistoryOK
    <2>3. DagOrdered'
      BY <1>1, <2>1 DEF DagCore, DagOrdered, OrderKept, Prereqs, Busy, Queued, Held
    <2>4. \A u \in Units : DagOnce(u)'
      BY <1>1, <2>1, OnceFrame DEF DagCore, PassKept
    <2> QED
      BY <2>2, <2>3, <2>4 DEF DagCore
  <1>3. CASE Dag!Crash
    <2>1. eval' = Dag!NoEval /\ queue' = <<>> /\ worker' = [w \in Workers |-> Dag!NoJob]
      BY <1>3 DEF Dag!Crash
    <2>2. DagShape'
      BY <1>1, <2>1 DEF DagCore, DagShape, UnitOK, EvalOK, JobsOK, HistoryOK, Dag!NoEval,
                        Dag!Unread, Dag!NoJob,
                        Dag!NoUnit, Dag!Marks, Dag!Claims
    <2>3. \A u \in Units : ~Busy(u)' /\ u \notin eval'.todo /\ eval'.view[u] = Dag!Unread
      BY <2>1 DEF Busy, Queued, Held, Dag!NoJob, Dag!NoEval
    <2>4. DagOrdered'
      BY <1>1, <2>3 DEF DagCore, DagOrdered, OrderKept, Dag!Unread
    <2>5. ASSUME NEW u \in Units, Clean(u)' PROVE OneJob(u)' /\ Hinted(u)' /\ Remembered(u)'
      <3>1. Hinted(u) /\ Remembered(u)
        BY <1>1, <2>5 DEF DagCore, DagOnce, Clean
      <3>2. OneJob(u)'
        BY <2>3 DEF OneJob, Busy, Queued
      <3>3. Hinted(u)'
        BY <1>1, <2>3, <3>1 DEF Hinted, Selectable, Dag!Unread, Sent, Busy
      <3>4. Remembered(u)'
        BY <1>1, <3>1 DEF Remembered
      <3> QED
        BY <3>2, <3>3, <3>4
    <2> QED
      BY <2>2, <2>4, <2>5 DEF DagCore, DagOnce
  <1> QED
    BY <1>2, <1>3

\* A pass reads a unit, or gives up.
LEMMA ReadStep ==
  ASSUME DagCore, (\E x \in Units : Dag!EvalReads(x)) \/ Dag!EvalReadFails
  PROVE  DagCore'
  <1>1. UNCHANGED <<unit, history, window, fanOut, queue, worker, inflight>>
    BY DEF Dag!EvalReads, Dag!EvalReadFails, Dag!graph
  <1>2. /\ EvalOK'
        /\ \A u \in Units : eval'.view[u] \in {eval.view[u], unit[u], Dag!Unread}
        /\ eval'.todo \subseteq eval.todo
    <2>1. CASE Dag!EvalReadFails
      BY <2>1 DEF Dag!EvalReadFails, Dag!NoEval, EvalOK, Dag!Unread, Dag!Marks, Dag!Claims
    <2>2. ASSUME NEW x \in Units, Dag!EvalReads(x)
          PROVE  /\ EvalOK'
                 /\ \A u \in Units : eval'.view[u] \in {eval.view[u], unit[u], Dag!Unread}
                 /\ eval'.todo \subseteq eval.todo
      <3>0. PICK done \in SUBSET Units :
              eval' = [eval EXCEPT !.pc = "reading", !.view[x] = unit[x], !.done = done]
        BY <2>2 DEF Dag!EvalReads, DagCore, DagShape, EvalOK
      <3>1. eval' = [eval EXCEPT !.pc = "reading", !.view = [eval.view EXCEPT ![x] = unit[x]],
                                 !.done = done]
        BY <3>0
      <3>2. /\ eval'.view = [eval.view EXCEPT ![x] = unit[x]] /\ eval'.todo = eval.todo
            /\ eval'.done = done
        BY <3>1 DEF DagCore, DagShape, EvalOK
      <3>3. eval' = [pc |-> eval'.pc, view |-> eval'.view, stalled |-> eval'.stalled,
                     todo |-> eval'.todo, done |-> eval'.done]
        BY <3>1 DEF DagCore, DagShape, EvalOK
      <3>4. unit[x] \in [mark : Dag!Marks \union {"unread"}, dirtied : BOOLEAN, claim : Dag!Claims]
        BY DEF DagCore, DagShape, UnitOK
      <3>5. eval'.view \in [Units -> [mark : Dag!Marks \union {"unread"}, dirtied : BOOLEAN,
                                      claim : Dag!Claims]]
        BY <3>2, <3>4 DEF DagCore, DagShape, EvalOK
      <3>6. \A u \in Units : eval'.view[u] \in {eval.view[u], unit[u], Dag!Unread}
        BY <3>2 DEF DagCore, DagShape, EvalOK
      <3>7. eval'.todo \subseteq Units
        BY <3>2 DEF DagCore, DagShape, EvalOK
      <3>8. unit[x].mark # "unread"
        BY DEF DagCore, DagShape, UnitOK, Dag!Marks
      <3>9. \A u \in Units : eval'.view[u].mark = "unread" => eval'.view[u] = Dag!Unread
        BY <3>2, <3>8 DEF DagCore, DagShape, EvalOK
      <3> QED
        BY <3>2, <3>3, <3>5, <3>6, <3>7, <3>9 DEF EvalOK
    <2> QED
      BY <2>1, <2>2
  <1>3. DagShape'
    BY <1>1, <1>2 DEF DagCore, DagShape, UnitOK, JobsOK, HistoryOK
  <1>4. \A u \in Units : Busy(u)' <=> Busy(u)
    BY <1>1 DEF Busy, Queued, Held
  <1>5. DagOrdered'
    <2>1. \A u \in Units : eval'.view[u].mark = "completed"
                           => eval.view[u].mark = "completed" \/ unit[u].mark = "completed"
      BY <1>2 DEF Dag!Unread
    <2>2. \A u \in Units : Prereqs(u) => Prereqs(u)'
      BY <1>1 DEF Prereqs
    <2>3. OrderKept'
      BY <1>1 DEF DagCore, DagOrdered, OrderKept
    <2>4. \A u \in Units : unit'[u].mark = "completed" \/ eval'.view[u].mark = "completed"
                            => history'[u].done
      BY <1>1, <2>1 DEF DagCore, DagOrdered
    <2> QED
      BY <1>2, <1>4, <2>2, <2>3, <2>4 DEF DagCore, DagOrdered
  <1>6. ASSUME NEW u \in Units, Clean(u)' PROVE OneJob(u)' /\ Hinted(u)' /\ Remembered(u)'
    <2>1. OneJob(u) /\ Hinted(u) /\ Remembered(u)
      BY <1>1, <1>6 DEF DagCore, DagOnce, Clean
    <2>2. OneJob(u)' /\ Remembered(u)'
      BY <1>1, <2>1 DEF OneJob, Held, Queued, Remembered
    <2>3. Sent(u)' <=> Sent(u)
      BY <1>1 DEF Sent
    <2>4. ASSUME eval'.view[u] = eval.view[u] PROVE Hinted(u)'
      BY <1>1, <1>2, <1>4, <2>1, <2>3, <2>4 DEF Hinted, Selectable, Held
    <2>5. ASSUME eval'.view[u] = Dag!Unread PROVE Hinted(u)'
      BY <1>1, <1>2, <1>4, <2>1, <2>3, <2>5 DEF Hinted, Selectable, Held, Dag!Unread
    <2>6. ASSUME eval'.view[u] = unit[u] PROVE Hinted(u)'
      BY <1>1, <1>2, <1>4, <2>1, <2>3, <2>6 DEF Hinted, Selectable, Held
    <2> QED
      BY <1>2, <2>2, <2>4, <2>5, <2>6
  <1> QED
    BY <1>3, <1>5, <1>6 DEF DagCore, DagOnce

\* The brain decides over what the pass read: what it selects has its
\* prerequisites completed and, unless it was reset, is neither on its way nor sent.
LEMMA DecideStep ==
  ASSUME DependsOn \in [Units -> SUBSET Units], DagCore, Dag!EvalDecides
  PROVE  DagCore'
  <1> DEFINE v == eval.view
  <1>1. /\ UNCHANGED <<unit, history, window, fanOut, queue, worker>>
        /\ inflight' = Dag!Kept(v)
        /\ eval' = [eval EXCEPT !.pc = "submitting", !.todo = Dag!Selected(v),
                                !.stalled = Dag!StallAfterInflight(v)]
    BY DEF Dag!EvalDecides, Dag!graph
  <1>2. eval'.view = v /\ eval'.todo = Dag!Selected(v) /\ eval'.done = eval.done
    BY <1>1 DEF DagCore, DagShape, EvalOK
  <1>3. \A u \in Dag!Selected(v) : u \in Units /\ Dag!Dispatchable(v, u)
                               /\ (v[u].dirtied \/ (v[u].claim = "no" /\ u \notin Dag!Kept(v)))
    BY DEF Dag!Selected
  <1>4. EvalOK'
    <2>1. eval' = [pc |-> eval'.pc, view |-> eval'.view, stalled |-> eval'.stalled,
                   todo |-> eval'.todo, done |-> eval'.done]
      BY <1>1 DEF DagCore, DagShape, EvalOK
    <2> QED
      BY <1>2, <1>3, <2>1 DEF DagCore, DagShape, EvalOK
  <1>5. DagShape'
    BY <1>1, <1>4 DEF DagCore, DagShape, UnitOK, JobsOK, HistoryOK
  <1>6. \A u \in Units : (Busy(u)' <=> Busy(u)) /\ (Prereqs(u) => Prereqs(u)')
    BY <1>1 DEF Busy, Queued, Held, Prereqs
  <1>7. ASSUME NEW u \in Dag!Selected(v) PROVE Prereqs(u)
    <2> SUFFICES ASSUME NEW d \in DependsOn[u] PROVE history[d].done
      BY DEF Prereqs
    <2>1. d \in Units /\ Dag!DeriveStatus(v, d) = "done"
      BY <1>3 DEF Dag!Dispatchable
    <2>2. v[d].mark = "completed"
      BY <2>1, DoneIsCompleted
    <2> QED
      BY <2>1, <2>2 DEF DagCore, DagOrdered
  <1>8. DagOrdered'
    <2>1. OrderKept'
      BY <1>1 DEF DagCore, DagOrdered, OrderKept
    <2>2. \A u \in Units : unit'[u].mark = "completed" \/ eval'.view[u].mark = "completed"
                            => history'[u].done
      BY <1>1, <1>2 DEF DagCore, DagOrdered
    <2>3. \A u \in Units : u \in eval'.todo \/ Busy(u)' => Prereqs(u)'
      BY <1>2, <1>6, <1>7 DEF DagCore, DagOrdered
    <2> QED
      BY <2>1, <2>2, <2>3 DEF DagOrdered
  <1>9. ASSUME NEW u \in Units, Clean(u)' PROVE OneJob(u)' /\ Hinted(u)' /\ Remembered(u)'
    <2>1. OneJob(u) /\ Hinted(u) /\ Remembered(u)
      BY <1>1, <1>9 DEF DagCore, DagOnce, Clean
    <2>2. OneJob(u)' /\ Remembered(u)'
      BY <1>1, <2>1 DEF OneJob, Held, Queued, Remembered
    <2>3. (Sent(u)' <=> Sent(u)) /\ (Selectable(u)' <=> Selectable(u))
      BY <1>1, <1>2 DEF Sent, Selectable
    <2>4. ~v[u].dirtied
      BY <2>1 DEF Hinted
    <2>5. /\ Selectable(u) /\ u \in inflight => u \in inflight'
          /\ u \in inflight => u \in inflight' \/ v[u].mark \in {"completed", "failed"}
      BY <1>1, <2>4 DEF Dag!Kept, Dag!Terminal, Selectable
    <2>6. ASSUME u \in Dag!Selected(v) PROVE ~Busy(u) /\ ~Sent(u)
      <3>1. Dag!Dispatchable(v, u) /\ v[u].claim = "no" /\ u \notin Dag!Kept(v)
        BY <1>3, <2>4, <2>6
      <3>2. v[u].mark \notin {"completed", "failed"}
        BY <2>4, <3>1, ReadyIsOpen DEF Dag!Dispatchable
      <3>3. v[u] # Dag!Unread
        BY DEF Dag!EvalDecides
      <3>4. v[u].mark # "unread"
        BY <3>3 DEF DagCore, DagShape, EvalOK
      <3>5. u \notin inflight
        BY <2>4, <3>1, <3>2 DEF Dag!Kept, Dag!Terminal
      <3>6. Selectable(u)
        BY <3>1, <3>2, <3>4 DEF Selectable, DagCore, DagShape, EvalOK, Dag!Marks
      <3> QED
        BY <2>1, <3>5, <3>6 DEF Hinted
    <2>7. Hinted(u)'
      BY <1>1, <1>2, <1>6, <2>1, <2>3, <2>5, <2>6 DEF Hinted, Held
    <2> QED
      BY <2>2, <2>7
  <1> QED
    BY <1>5, <1>8, <1>9 DEF DagCore, DagOnce

\* A submission: the unit leaves the list of the pass for the queue and is hinted,
\* or the queue is full and it is left to a later pass.
LEMMA SubmitStep ==
  ASSUME DagCore, NEW x \in Units, Dag!EvalSubmits(x)
  PROVE  DagCore'
  <1>1. /\ UNCHANGED <<unit, history, window, fanOut, worker>>
        /\ eval' = [eval EXCEPT !.todo = @ \ {x}] /\ x \in eval.todo
        /\ \/ queue' = Append(queue, x) /\ inflight' = inflight \union {x}
           \/ UNCHANGED <<queue, inflight>>
    BY DEF Dag!EvalSubmits, Dag!graph
  <1>2. eval'.view = eval.view /\ eval'.todo = eval.todo \ {x} /\ eval'.done = eval.done
    BY <1>1 DEF DagCore, DagShape, EvalOK
  <1>3. queue' \in Seq(Units)
    BY <1>1 DEF DagCore, DagShape, JobsOK
  <1>4. DagShape'
    <2>1. eval' = [pc |-> eval'.pc, view |-> eval'.view, stalled |-> eval'.stalled,
                   todo |-> eval'.todo, done |-> eval'.done]
      BY <1>1 DEF DagCore, DagShape, EvalOK
    <2>2. EvalOK'
      BY <1>2, <2>1 DEF DagCore, DagShape, EvalOK
    <2> QED
      BY <1>1, <1>3, <2>2 DEF DagCore, DagShape, UnitOK, JobsOK, HistoryOK
  <1>5. /\ \A i \in DOMAIN queue : i \in DOMAIN queue' /\ queue'[i] = queue[i]
        /\ \A i \in DOMAIN queue' : i \notin DOMAIN queue => i = Len(queue) + 1 /\ queue'[i] = x
        /\ queue' # queue => x \in inflight'
        /\ \A u \in inflight : u \in inflight'
    BY <1>1 DEF DagCore, DagShape, JobsOK
  <1>6. /\ \A u \in Units : u # x => (Queued(u)' <=> Queued(u))
        /\ ~Queued(x) => (Queued(x)' => queue' # queue)
        /\ \A u \in Units, w \in Workers : Held(w, u)' <=> Held(w, u)
    BY <1>1, <1>5 DEF Queued, Held
  <1>7. DagOrdered'
    <2>1. OrderKept'
      BY <1>1 DEF DagCore, DagOrdered, OrderKept
    <2>2. \A u \in Units : unit'[u].mark = "completed" \/ eval'.view[u].mark = "completed"
                            => history'[u].done
      BY <1>1, <1>2 DEF DagCore, DagOrdered
    <2>3. \A u \in Units : Prereqs(u) => Prereqs(u)'
      BY <1>1 DEF Prereqs
    <2>4. \A u \in Units : u \in eval'.todo \/ Busy(u)' => u \in eval.todo \/ Busy(u)
      BY <1>1, <1>2, <1>6 DEF Busy
    <2>5. \A u \in Units : u \in eval'.todo \/ Busy(u)' => Prereqs(u)'
      BY <2>3, <2>4 DEF DagCore, DagOrdered
    <2> QED
      BY <2>1, <2>2, <2>5 DEF DagOrdered
  <1>8. ASSUME NEW u \in Units, Clean(u)' PROVE OneJob(u)' /\ Hinted(u)' /\ Remembered(u)'
    <2>1. OneJob(u) /\ Hinted(u) /\ Remembered(u)
      BY <1>1, <1>8 DEF DagCore, DagOnce, Clean
    <2>2. Remembered(u)' /\ (Sent(u)' <=> Sent(u)) /\ (Selectable(u)' <=> Selectable(u))
      BY <1>1, <1>2, <2>1 DEF Remembered, Sent, Selectable
    <2>3. ASSUME u # x PROVE OneJob(u)' /\ Hinted(u)'
      <3>1. Busy(u)' <=> Busy(u)
        BY <1>6, <2>3 DEF Busy
      <3>2. OneJob(u)'
        BY <1>5, <1>6, <2>1, <2>3 DEF OneJob
      <3>3. Hinted(u)'
        BY <1>1, <1>2, <1>5, <1>6, <2>1, <2>2, <3>1 DEF Hinted
      <3> QED
        BY <3>2, <3>3
    <2>4. ASSUME u = x PROVE OneJob(u)' /\ Hinted(u)'
      <3>1. ~Busy(x) /\ ~Sent(x) /\ ~Queued(x) /\ \A w \in Workers : ~Held(w, x)
        BY <1>1, <2>1, <2>4 DEF Hinted, Busy
      <3>2. \A i \in DOMAIN queue : queue[i] # x
        BY <3>1 DEF Queued
      <3>3. OneJob(x)'
        BY <1>5, <1>6, <3>1, <3>2 DEF OneJob
      <3>4. Busy(x)' => x \in inflight'
        BY <1>5, <1>6, <3>1 DEF Busy
      <3>5. Hinted(x)'
        BY <1>1, <1>2, <1>6, <2>1, <2>2, <2>4, <3>1, <3>4 DEF Hinted
      <3> QED
        BY <2>4, <3>3, <3>5
    <2> QED
      BY <2>2, <2>3, <2>4
  <1> QED
    BY <1>4, <1>7, <1>8 DEF DagCore, DagOnce

\* The pass ends; a fan-out is complete only if it read every unit as completed.
LEMMA EndStep ==
  ASSUME DagCore, Dag!EvalEnds
  PROVE  DagCore'
  <1>1. UNCHANGED <<unit, history, window, queue, worker, inflight>> /\ eval' = Dag!NoEval
    BY DEF Dag!EvalEnds, Dag!graph
  <1>2. EvalOK'
    BY <1>1 DEF EvalOK, Dag!NoEval, Dag!Unread, Dag!Marks, Dag!Claims
  <1>3. DagShape'
    BY <1>1, <1>2 DEF DagCore, DagShape, UnitOK, JobsOK, HistoryOK
  <1>4. \A u \in Units : /\ (Busy(u)' <=> Busy(u)) /\ (Prereqs(u) => Prereqs(u)')
                         /\ eval'.view[u] = Dag!Unread /\ u \notin eval'.todo
    BY <1>1 DEF Busy, Queued, Held, Prereqs, Dag!NoEval
  <1>5. fanOut' = "completed" => \A u \in Units : history[u].done
    <2>1. CASE fanOut = "completed"
      BY <2>1 DEF DagCore, DagOrdered, OrderKept
    <2>2. CASE Dag!AllUnitsDone(eval.view)
      BY <2>2, DoneIsCompleted DEF Dag!AllUnitsDone, DagCore, DagOrdered
    <2>3. CASE fanOut' = fanOut /\ fanOut # "completed"
      BY <2>3
    <2> QED
      BY <2>1, <2>2, <2>3 DEF Dag!EvalEnds
  <1>6. DagOrdered'
    BY <1>1, <1>4, <1>5 DEF DagCore, DagOrdered, OrderKept, Dag!Unread
  <1>7. ASSUME NEW u \in Units, Clean(u)' PROVE OneJob(u)' /\ Hinted(u)' /\ Remembered(u)'
    <2>1. OneJob(u) /\ Hinted(u) /\ Remembered(u)
      BY <1>1, <1>7 DEF DagCore, DagOnce, Clean
    <2>2. OneJob(u)' /\ Remembered(u)'
      BY <1>1, <2>1 DEF OneJob, Held, Queued, Remembered
    <2>3. Hinted(u)'
      BY <1>1, <1>4, <2>1 DEF Hinted, Held, Sent, Selectable, Dag!Unread
    <2> QED
      BY <2>2, <2>3
  <1> QED
    BY <1>3, <1>6, <1>7 DEF DagCore, DagOnce

-----------------------------------------------------------------------------
(* The dispatch workers.                                                   *)

\* A worker takes the unit at the head of the queue.
LEMMA TakeStep ==
  ASSUME DagCore, NEW w \in Workers, Dag!Take(w)
  PROVE  DagCore'
  <1> DEFINE x == Head(queue)
  <1>1. /\ UNCHANGED <<unit, history, window, fanOut, eval, inflight>>
        /\ worker[w] = Dag!NoJob /\ queue # <<>> /\ queue' = Tail(queue)
        /\ worker' = [worker EXCEPT ![w] = [pc |-> "claiming", u |-> x]]
    BY DEF Dag!Take, Dag!graph
  <1>2. x \in Units /\ queue' \in Seq(Units) /\ 1 \in DOMAIN queue /\ queue[1] = x
    BY <1>1 DEF DagCore, DagShape, JobsOK
  <1>3. \A i \in DOMAIN queue' : i + 1 \in DOMAIN queue /\ queue'[i] = queue[i + 1] /\ i + 1 # 1
    BY <1>1 DEF DagCore, DagShape, JobsOK
  <1>4. JobsOK'
    BY <1>1, <1>2 DEF DagCore, DagShape, JobsOK
  <1>5. DagShape'
    BY <1>1, <1>4 DEF DagCore, DagShape, UnitOK, EvalOK, HistoryOK
  <1>6. /\ \A u \in Units : ~Held(w, u)
        /\ \A u \in Units : Held(w, u)' <=> u = x
        /\ worker'[w].pc # "publishing"
        /\ \A y \in Workers : y # w => worker'[y] = worker[y]
    BY <1>1, <1>2 DEF Held, Dag!NoJob, DagCore, DagShape, JobsOK
  <1>7. \A u \in Units, y \in Workers : y # w => (Held(y, u)' <=> Held(y, u))
    BY <1>6 DEF Held
  <1>8. /\ Queued(x)
        /\ \A u \in Units : Queued(u)' => Queued(u)
        /\ \A u \in Units : Busy(u)' => Busy(u)
    BY <1>2, <1>3, <1>6, <1>7 DEF Queued, Busy
  <1>9. DagOrdered'
    BY <1>1, <1>8 DEF DagCore, DagOrdered, OrderKept, Prereqs
  <1>10. ASSUME NEW u \in Units PROVE DagOnce(u)'
    <2>1. ASSUME Clean(u) PROVE OneJob(u)'
      <3>1. OneJob(u)
        BY <2>1 DEF DagCore, DagOnce
      <3>2. \A i, j \in DOMAIN queue' : queue'[i] = u /\ queue'[j] = u => i = j
        <4> SUFFICES ASSUME NEW i \in DOMAIN queue', NEW j \in DOMAIN queue',
                            queue'[i] = u, queue'[j] = u
                     PROVE  i = j
          OBVIOUS
        <4>1. i + 1 = j + 1
          BY <1>3, <3>1 DEF OneJob
        <4>2. i \in Nat /\ j \in Nat
          BY <1>2
        <4> QED
          BY <4>1, <4>2
      <3>3. u = x => ~Queued(u)'
        <4> SUFFICES ASSUME u = x, NEW i \in DOMAIN queue', queue'[i] = x PROVE FALSE
          BY DEF Queued
        <4>1. i + 1 \in DOMAIN queue /\ queue[i + 1] = x /\ i + 1 # 1
          BY <1>3
        <4> QED
          BY <1>2, <3>1, <4>1 DEF OneJob
      <3>4. u = x => \A y \in Workers : ~Held(y, u)
        BY <1>8, <3>1 DEF OneJob
      <3> QED
        BY <1>6, <1>7, <1>8, <3>1, <3>2, <3>3, <3>4 DEF OneJob
    <2>2. \A y \in Workers : Held(y, u)' /\ worker'[y].pc = "publishing"
                              => Held(y, u) /\ worker[y].pc = "publishing"
      BY <1>6, <1>7
    <2>3. DagOnce(u)
      BY DEF DagCore
    <2>4. u \in inflight => u \in inflight'
      BY <1>1
    <2>5. u \in window => u \in window'
      BY <1>1
    <2>6. unit'[u] = unit[u] /\ history'[u] = history[u] /\ PassKept
      BY <1>1 DEF PassKept
    <2>7. Busy(u)' => Busy(u)
      BY <1>8
    <2> QED
      BY <2>1, <2>2, <2>3, <2>4, <2>5, <2>6, <2>7, OnceLocal
  <1> QED
    BY <1>5, <1>9, <1>10 DEF DagCore

\* What a step of one worker on its own unit leaves to the other units and workers.
WorkerMoves(w, x) ==
  /\ w \in Workers /\ x \in Units /\ worker[w].pc # "idle" /\ worker[w].u = x
  /\ UNCHANGED <<fanOut, eval, queue>>
  /\ \A u \in Units : u # x => /\ unit'[u] = unit[u] /\ history'[u] = history[u]
                               /\ u \in inflight => u \in inflight'
  /\ \A u \in window : u \in window'
  /\ \A y \in Workers : y # w => worker'[y] = worker[y]
  /\ worker'[w].pc # "idle" => worker'[w].u = x

\* The jobs after such a step, and what it means for the other units.
LEMMA WorkerFrame ==
  ASSUME DagCore, NEW w, NEW x, WorkerMoves(w, x)
  PROVE  /\ \A u \in Units : Busy(u)' => Busy(u)
         /\ \A u \in Units : OneJob(u) => OneJob(u)'
         /\ \A y \in Workers \ {w} : \A u \in Units : Held(y, u)' <=> Held(y, u)
         /\ Busy(x)
         /\ OneJob(x) /\ worker'[w].pc = "idle" => ~Busy(x)'
         /\ \A u \in Units : u # x => DagOnce(u)'
  <1> USE DEF WorkerMoves
  <1>1. \A y \in Workers \ {w} : \A u \in Units : Held(y, u)' <=> Held(y, u)
    BY DEF Held
  <1>2. \A u \in Units : (Held(w, u)' => u = x) /\ (Queued(u)' <=> Queued(u))
    BY DEF Held, Queued
  <1>3. Held(w, x)
    BY DEF Held
  <1>4. \A u \in Units : Busy(u)' => Busy(u)
    BY <1>1, <1>2, <1>3 DEF Busy
  <1>5. ASSUME NEW u \in Units, OneJob(u) PROVE OneJob(u)'
    <2>1. \A y \in Workers : Held(y, u)' => Held(y, u)
      BY <1>1, <1>2, <1>3
    <2> QED
      BY <1>2, <1>5, <2>1 DEF OneJob
  <1>6. ASSUME OneJob(x), worker'[w].pc = "idle" PROVE ~Busy(x)'
    <2>1. ~Queued(x)' /\ \A y \in Workers \ {w} : ~Held(y, x)'
      BY <1>1, <1>2, <1>3, <1>6 DEF OneJob
    <2>2. ~Held(w, x)'
      BY <1>6 DEF Held
    <2> QED
      BY <2>1, <2>2 DEF Busy
  <1>7. ASSUME NEW u \in Units, u # x PROVE DagOnce(u)'
    <2>1. DagOnce(u) /\ (Clean(u) => OneJob(u)')
      BY <1>5 DEF DagCore, DagOnce
    <2>2. \A y \in Workers : Held(y, u)' /\ worker'[y].pc = "publishing"
                              => Held(y, u) /\ worker[y].pc = "publishing"
      BY <1>1, <1>2, <1>7
    <2>3. Busy(u)' => Busy(u)
      BY <1>4
    <2>4. unit'[u] = unit[u] /\ history'[u] = history[u] /\ PassKept
      BY <1>7 DEF PassKept
    <2>5. u \in inflight => u \in inflight'
      BY <1>7
    <2>6. u \in window => u \in window'
      OBVIOUS
    <2> QED
      BY <2>1, <2>2, <2>3, <2>4, <2>5, <2>6, OnceLocal
  <1> QED
    BY <1>1, <1>3, <1>4, <1>5, <1>6, <1>7 DEF Busy

\* Claim, rollback and the dropped hint: nothing reaches the stream.
LEMMA ClaimStep ==
  ASSUME DagCore, NEW w \in Workers, Dag!Claim(w) \/ Dag!Unclaim(w) \/ Dag!ClearHint(w)
  PROVE  DagCore'
  <1>0. PICK x \in Units : worker[w].u = x
    BY DEF Dag!Claim, Dag!Unclaim, Dag!ClearHint, DagCore, DagShape, JobsOK
  <1> USE <1>0
  <1>1. /\ worker[w].pc # "idle"
        /\ UNCHANGED <<history, window, fanOut, eval, queue>>
    BY DEF Dag!Claim, Dag!Unclaim, Dag!ClearHint, Dag!graph, DagCore, DagShape, JobsOK
  <1>2. JobsOK' /\ (worker'[w].pc # "idle" => worker'[w].u = x)
    BY <1>1 DEF Dag!Claim, Dag!Unclaim, Dag!ClearHint, Dag!WorkerTo, Dag!NoJob, Dag!NoUnit,
                DagCore, DagShape, JobsOK
  <1>3. UnitOK'
    BY <1>1 DEF Dag!Claim, Dag!Unclaim, Dag!ClearHint, Dag!graph, DagCore, DagShape, UnitOK,
                Dag!Claims
  <1>4. DagShape'
    BY <1>1, <1>2, <1>3 DEF DagCore, DagShape, EvalOK, HistoryOK
  <1>5. \A u \in Units : /\ u # x => unit'[u] = unit[u] /\ (u \in inflight => u \in inflight')
                         /\ unit'[u].mark = unit[u].mark /\ unit'[u].dirtied = unit[u].dirtied
    BY <1>1 DEF Dag!Claim, Dag!Unclaim, Dag!ClearHint, Dag!graph, DagCore, DagShape, UnitOK
  <1>6. \A y \in Workers : y # w => worker'[y] = worker[y]
    BY <1>1 DEF Dag!Claim, Dag!Unclaim, Dag!ClearHint, Dag!WorkerTo, DagCore, DagShape, JobsOK
  <1>7. WorkerMoves(w, x)
    BY <1>1, <1>2, <1>5, <1>6 DEF WorkerMoves
  <1>8. /\ \A u \in Units : Busy(u)' => Busy(u)
        /\ \A u \in Units : OneJob(u) => OneJob(u)'
        /\ \A y \in Workers \ {w} : \A u \in Units : Held(y, u)' <=> Held(y, u)
        /\ Busy(x)
        /\ OneJob(x) /\ worker'[w].pc = "idle" => ~Busy(x)'
        /\ \A u \in Units : u # x => DagOnce(u)'
    BY <1>7, WorkerFrame
  <1>9. DagOrdered'
    BY <1>1, <1>5, <1>8 DEF DagCore, DagOrdered, OrderKept, Prereqs
  <1>10. ASSUME Clean(x)' PROVE OneJob(x)' /\ Hinted(x)' /\ Remembered(x)'
    <2>1. OneJob(x) /\ Hinted(x) /\ Remembered(x) /\ OneJob(x)'
      BY <1>1, <1>8, <1>10 DEF DagCore, DagOnce, Clean
    <2>2. Remembered(x)' /\ (Sent(x)' <=> Sent(x)) /\ (Selectable(x)' <=> Selectable(x))
      BY <1>1, <2>1 DEF Remembered, Sent, Selectable
    <2>3. ~Sent(x)
      BY <1>8, <2>1 DEF Hinted
    <2>4. Busy(x)' => (x \in inflight => x \in inflight')
      <3>1. CASE Dag!ClearHint(w)
        <4>1. worker'[w].pc = "idle"
          BY <3>1 DEF Dag!ClearHint, Dag!NoJob, DagCore, DagShape, JobsOK
        <4> QED
          BY <1>8, <2>1, <4>1
      <3>2. CASE Dag!Claim(w) \/ Dag!Unclaim(w)
        BY <3>2 DEF Dag!Claim, Dag!Unclaim
      <3> QED
        BY <3>1, <3>2
    <2>5. worker'[w].pc = "publishing" => unit'[x].claim # "no"
      BY <1>1 DEF Dag!Claim, Dag!Unclaim, Dag!ClearHint, Dag!WorkerTo, Dag!NoJob, DagCore,
                  DagShape, JobsOK, UnitOK
    <2>6. \A y \in Workers \ {w} : ~Held(y, x)'
      BY <1>1, <1>8, <2>1 DEF OneJob, Held
    <2>7. \A y \in Workers : Held(y, x)' /\ worker'[y].pc = "publishing" => unit'[x].claim # "no"
      BY <2>5, <2>6
    <2>8. Hinted(x)'
      BY <1>1, <1>5, <1>8, <2>1, <2>2, <2>3, <2>4, <2>7 DEF Hinted
    <2> QED
      BY <2>1, <2>2, <2>8
  <1>11. DagOnce(x)'
    BY <1>10 DEF DagOnce
  <1> QED
    BY <1>4, <1>8, <1>9, <1>11 DEF DagCore

\* A publish stores a message unless the stream remembers the unit; a unit that was
\* not reset then either has none stored or is remembered.
LEMMA PublishStep ==
  ASSUME DependsOn \in [Units -> SUBSET Units], DagCore, NEW w \in Workers, Dag!Publish(w)
  PROVE  DagCore'
  <1>0. PICK x \in Units : worker[w].u = x
    BY DEF Dag!Publish, DagCore, DagShape, JobsOK
  <1> USE <1>0
  <1>1. /\ worker[w].pc = "publishing"
        /\ UNCHANGED <<unit, fanOut, eval, queue, inflight>>
    BY DEF Dag!Publish, DagCore, DagShape, JobsOK
  <1>2. PICK unsure \in BOOLEAN :
          \/ /\ history' = [history EXCEPT ![x].stored = Dag!StoredBy(x), ![x].unsure = unsure]
             /\ window' = window \union {x}
             /\ ~unsure => worker' = [worker EXCEPT ![w] = Dag!NoJob]
             /\ unsure => worker' = [worker EXCEPT ![w].pc = "unclaiming"]
          \/ /\ UNCHANGED <<history, window>>
             /\ worker' = [worker EXCEPT ![w].pc = "unclaiming"]
    BY DEF Dag!Publish, Dag!Stores, Dag!WorkerTo
  <1>3. Dag!StoredBy(x) \in Nat
    BY <1>1 DEF Dag!StoredBy, DagCore, DagShape, HistoryOK
  <1>4. HistoryOK'
    BY <1>1, <1>2, <1>3 DEF DagCore, DagShape, HistoryOK
  <1>5. JobsOK' /\ (worker'[w].pc # "idle" => worker'[w].u = x) /\ worker'[w].pc # "publishing"
    BY <1>1, <1>2 DEF Dag!NoJob, Dag!NoUnit, DagCore, DagShape, JobsOK
  <1>6. DagShape'
    BY <1>1, <1>4, <1>5 DEF DagCore, DagShape, EvalOK, UnitOK
  <1>7. /\ \A u \in Units : u # x => history'[u] = history[u]
        /\ \A u \in Units : history'[u].done = history[u].done
        /\ history'[x].reset = history[x].reset /\ history'[x].lapsed = history[x].lapsed
        /\ \A u \in window : u \in window'
    BY <1>1, <1>2 DEF DagCore, DagShape, HistoryOK
  <1>8. \A y \in Workers : y # w => worker'[y] = worker[y]
    BY <1>2 DEF DagCore, DagShape, JobsOK
  <1>9. WorkerMoves(w, x)
    BY <1>1, <1>5, <1>7, <1>8 DEF WorkerMoves
  <1>10. /\ \A u \in Units : Busy(u)' => Busy(u)
         /\ \A u \in Units : OneJob(u) => OneJob(u)'
         /\ \A y \in Workers \ {w} : \A u \in Units : Held(y, u)' <=> Held(y, u)
         /\ Busy(x)
         /\ OneJob(x) /\ worker'[w].pc = "idle" => ~Busy(x)'
         /\ \A u \in Units : u # x => DagOnce(u)'
    BY <1>9, WorkerFrame
  <1>11. DagOrdered'
    <2>1. \A u \in Units : Prereqs(u) => Prereqs(u)'
      BY <1>7, PrereqsKept
    <2>2. \A u \in Units : history'[u].stored > 0 => Prereqs(u)'
      BY <1>7, <1>10, <2>1 DEF DagCore, DagOrdered, OrderKept, Prereqs
    <2>3. OrderKept'
      BY <1>1, <1>7, <2>2 DEF DagCore, DagOrdered, OrderKept, Prereqs
    <2>4. \A u \in Units : u \in eval'.todo \/ Busy(u)' => Prereqs(u)'
      BY <1>1, <1>10, <2>1 DEF DagCore, DagOrdered
    <2>5. \A u \in Units : unit'[u].mark = "completed" \/ eval'.view[u].mark = "completed"
                            => history'[u].done
      BY <1>1, <1>7 DEF DagCore, DagOrdered
    <2> QED
      BY <2>3, <2>4, <2>5 DEF DagOrdered
  <1>12. ASSUME Clean(x)' PROVE OneJob(x)' /\ Hinted(x)' /\ Remembered(x)'
    <2>1. OneJob(x) /\ Hinted(x) /\ Remembered(x) /\ OneJob(x)'
      BY <1>1, <1>7, <1>10, <1>12 DEF DagCore, DagOnce, Clean
    <2>2. ~Sent(x) /\ x \notin eval.todo /\ unit[x].claim # "no"
      BY <1>1, <1>10, <2>1 DEF Hinted, Held
    <2>3. Dag!StoredBy(x) \in {0, 1}
      BY <1>1, <2>1, <2>2 DEF Dag!StoredBy, Remembered, Sent
    <2>4. \A y \in Workers : ~(Held(y, x)' /\ worker'[y].pc = "publishing")
      <3>1. \A y \in Workers \ {w} : ~Held(y, x)'
        BY <1>1, <1>10, <2>1 DEF OneJob, Held
      <3> QED
        BY <1>5, <3>1
    <2>5. ASSUME Sent(x)' PROVE ~Busy(x)'
      <3>1. worker' = [worker EXCEPT ![w] = Dag!NoJob]
        BY <1>1, <1>2, <2>2, <2>5 DEF Sent, DagCore, DagShape, HistoryOK
      <3>2. worker'[w].pc = "idle"
        BY <3>1 DEF Dag!NoJob, DagCore, DagShape, JobsOK
      <3> QED
        BY <1>10, <2>1, <3>2
    <2>6. Selectable(x)' => x \in inflight'
      BY <1>1, <1>10, <2>1 DEF Selectable, Hinted
    <2>7. Hinted(x)'
      BY <1>1, <1>10, <2>1, <2>2, <2>4, <2>5, <2>6 DEF Hinted
    <2>8. Remembered(x)'
      BY <1>1, <1>2, <2>1, <2>3 DEF Remembered, DagCore, DagShape, HistoryOK
    <2> QED
      BY <2>1, <2>7, <2>8
  <1>13. DagOnce(x)'
    BY <1>12 DEF DagOnce
  <1> QED
    BY <1>6, <1>10, <1>11, <1>13 DEF DagCore

-----------------------------------------------------------------------------
(* The theorems of the gated DAG.                                          *)

\* Every step preserves the core of the invariant.
LEMMA CoreStep ==
  ASSUME DependsOn \in [Units -> SUBSET Units], DagCore, [Dag!Next]_(Dag!vars)
  PROVE  DagCore'
  <1>1. CASE UNCHANGED Dag!vars
    <2>1. UNCHANGED <<unit, history, window, fanOut, queue, worker, eval, inflight>>
      BY <1>1 DEF Dag!vars, Dag!graph, Dag!executor
    <2>2. DagShape'
      BY <2>1 DEF DagCore, DagShape, UnitOK, EvalOK, JobsOK, HistoryOK
    <2>3. DagOrdered'
      BY <2>1 DEF DagCore, DagOrdered, OrderKept, Prereqs, Busy, Queued, Held
    <2>4. \A u \in Units : DagOnce(u)'
      BY <2>1, OnceFrame DEF DagCore, PassKept
    <2> QED
      BY <2>2, <2>3, <2>4 DEF DagCore
  <1>2. CASE Dag!Start \/ Dag!Crash
    BY <1>2, ProcessStep
  <1>3. CASE Dag!EvalNext \/ Dag!EvalReadFails
    BY <1>3, ReadStep, DecideStep, SubmitStep, EndStep DEF Dag!EvalNext
  <1>4. ASSUME NEW w \in Workers, Dag!WorkerNext(w) PROVE DagCore'
    BY <1>4, TakeStep, ClaimStep, PublishStep DEF Dag!WorkerNext
  <1>5. ASSUME NEW x \in Units,
               \/ Dag!ConsumerNext(x) \/ Dag!WindowPasses(x) \/ Dag!ClaimAges(x)
               \/ Dag!MessageLost(x)
               \/ \E b \in BOOLEAN : Dag!Reset(x, b)
        PROVE  DagCore'
    BY <1>5, GraphStep
  <1> QED
    BY <1>1, <1>2, <1>3, <1>4, <1>5 DEF Dag!Next

\* The pass keeps what it knows: a unit becomes done during it only by ConsumerEnds.
LEMMA RecentStep ==
  ASSUME DependsOn \in [Units -> SUBSET Units], DagInv, [Dag!Next]_(Dag!vars)
  PROVE  DagRecent'
  <1>0. /\ UnitOK /\ DagRecent /\ eval.view \in [Units -> [mark : Dag!Marks \union {"unread"},
                                                       dirtied : BOOLEAN, claim : Dag!Claims]]
        /\ eval = [pc |-> eval.pc, view |-> eval.view, stalled |-> eval.stalled,
                   todo |-> eval.todo, done |-> eval.done]
    BY DEF DagInv, DagCore, DagShape, EvalOK
  <1>1. CASE eval' = Dag!NoEval
    BY <1>1, NothingRead DEF DagRecent
  <1>2. CASE eval' = eval /\ \A u \in Units : Dag!Done(u)' => Dag!Done(u)
    BY <1>0, <1>2 DEF DagRecent, Dag!DeriveStatus, Dag!NoEval
  <1>3. ASSUME NEW x \in Units, Dag!EvalReads(x) PROVE DagRecent'
    <2>1. /\ eval.pc \in {"idle", "reading"} /\ UNCHANGED unit
          /\ eval' = [eval EXCEPT !.pc = "reading", !.view[x] = unit[x],
                        !.done = IF eval.pc = "idle" THEN {d \in Units : Dag!Done(d)} ELSE @]
      BY <1>3 DEF Dag!EvalReads, Dag!graph
    <2>2. /\ eval'.pc = "reading" /\ eval'.todo = eval.todo
          /\ eval'.view = [eval.view EXCEPT ![x] = unit[x]]
          /\ eval'.done = IF eval.pc = "idle" THEN {d \in Units : Dag!Done(d)} ELSE eval.done
      BY <1>0, <2>1
    <2>3. \A u \in Units : Dag!Done(u) => u \in eval'.done
      BY <1>0, <2>1, <2>2 DEF DagRecent
    <2>4. \A u \in Units : Dag!Done(u)' => u \in eval'.done
      BY <2>1, <2>3 DEF Dag!Done
    <2>5. ASSUME NEW u \in Units, Dag!DeriveStatus(eval'.view, u) = "done" PROVE u \in eval'.done
      <3>1. CASE u = x
        <4>1. eval'.view[x] = unit[x]
          BY <1>0, <2>2
        <4>2. Dag!Done(x)
          BY <2>5, <3>1, <4>1, DoneIsCompleted DEF Dag!Done
        <4> QED
          BY <2>3, <3>1, <4>2
      <3>2. CASE u # x
        <4>1. eval'.view[u] = eval.view[u]
          BY <1>0, <2>2, <3>2
        <4>2. Dag!DeriveStatus(eval.view, u) = "done"
          BY <2>5, <4>1 DEF Dag!DeriveStatus
        <4>3. eval.pc # "idle"
          BY <1>0, <4>2, NothingRead DEF DagRecent
        <4> QED
          BY <1>0, <2>2, <4>2, <4>3 DEF DagRecent
      <3> QED
        BY <3>1, <3>2
    <2>6. \A u \in eval'.todo : DependsOn[u] \subseteq eval'.done
      <3>1. CASE eval.pc = "idle"
        BY <1>0, <2>2, <3>1, NothingRead DEF DagRecent
      <3>2. CASE eval.pc # "idle"
        BY <1>0, <2>2, <3>2 DEF DagRecent
      <3> QED
        BY <3>1, <3>2
    <2> QED
      BY <2>2, <2>4, <2>5, <2>6 DEF DagRecent
  <1>4. CASE Dag!EvalDecides
    <2>1. /\ UNCHANGED unit /\ eval.pc = "reading"
          /\ eval'.pc = "submitting" /\ eval'.view = eval.view /\ eval'.done = eval.done
          /\ eval'.todo = Dag!Selected(eval.view)
      BY <1>0, <1>4 DEF Dag!EvalDecides, Dag!graph
    <2>2. \A u \in Units : Dag!Done(u)' => Dag!Done(u)
      BY <2>1 DEF Dag!Done
    <2>3. ASSUME NEW u \in Dag!Selected(eval.view) PROVE DependsOn[u] \subseteq eval.done
      <3>1. u \in Units /\ \A d \in DependsOn[u] : Dag!DeriveStatus(eval.view, d) = "done"
        BY DEF Dag!Selected, Dag!Dispatchable
      <3> QED
        BY <1>0, <3>1 DEF DagRecent
    <2> QED
      BY <1>0, <2>1, <2>2, <2>3 DEF DagRecent
  <1>5. ASSUME NEW x \in Units, Dag!EvalSubmits(x) PROVE DagRecent'
    <2>1. /\ UNCHANGED unit /\ eval.pc = "submitting"
          /\ eval'.pc = "submitting" /\ eval'.view = eval.view /\ eval'.done = eval.done
          /\ eval'.todo = eval.todo \ {x}
      BY <1>0, <1>5 DEF Dag!EvalSubmits, Dag!graph
    <2>2. \A u \in Units : Dag!Done(u)' => Dag!Done(u)
      BY <2>1 DEF Dag!Done
    <2> QED
      BY <1>0, <2>1, <2>2 DEF DagRecent
  <1>6. ASSUME NEW x \in Units, Dag!ConsumerEnds(x) PROVE DagRecent'
    <2>1. CASE unit' = [unit EXCEPT ![x].mark = "failed"] /\ eval' = eval
      <3>1. \A u \in Units : Dag!Done(u)' => Dag!Done(u)
        BY <1>0, <2>1 DEF Dag!Done, UnitOK
      <3> QED
        BY <1>2, <2>1, <3>1
    <2>2. CASE /\ unit' = [unit EXCEPT ![x].mark = "completed"] /\ eval' = eval
               /\ eval.pc = "idle" \/ unit[x].dirtied
      <3>1. \A u \in Units : eval.pc # "idle" /\ Dag!Done(u)' => Dag!Done(u)
        BY <1>0, <2>2 DEF Dag!Done, UnitOK
      <3> QED
        BY <1>0, <2>2, <3>1 DEF DagRecent
    <2>3. CASE /\ unit' = [unit EXCEPT ![x].mark = "completed"] /\ eval.pc # "idle"
               /\ eval' = [eval EXCEPT !.done = @ \union {x}]
      <3>1. \A u \in Units : Dag!Done(u)' => Dag!Done(u) \/ u = x
        BY <1>0, <2>3 DEF Dag!Done, UnitOK
      <3>2. /\ eval'.pc = eval.pc /\ eval'.view = eval.view /\ eval'.todo = eval.todo
            /\ eval'.done = eval.done \union {x}
        BY <1>0, <2>3
      <3> QED
        BY <1>0, <2>3, <3>1, <3>2 DEF DagRecent
    <2> QED
      BY <1>6, <2>1, <2>2, <2>3 DEF Dag!ConsumerEnds
  <1>7. ASSUME NEW x \in Units, \/ Dag!ClaimAges(x) \/ Dag!ConsumerRuns(x)
                               \/ \E b \in BOOLEAN : Dag!Reset(x, b)
        PROVE  DagRecent'
    <2>1. \A u \in Units : Dag!Done(u)' => Dag!Done(u)
      BY <1>0, <1>7 DEF Dag!ClaimAges, Dag!ConsumerRuns, Dag!Reset, Dag!Done, UnitOK
    <2> QED
      BY <1>2, <1>7, <2>1 DEF Dag!ClaimAges, Dag!ConsumerRuns, Dag!Reset, Dag!executor
  <1>8. ASSUME NEW w \in Workers, Dag!Claim(w) \/ Dag!Unclaim(w) PROVE DagRecent'
    <2>1. \A u \in Units : Dag!Done(u)' => Dag!Done(u)
      BY <1>0, <1>8 DEF Dag!Claim, Dag!Unclaim, Dag!Done, UnitOK
    <2> QED
      BY <1>2, <1>8, <2>1 DEF Dag!Claim, Dag!Unclaim
  <1>9. CASE UNCHANGED <<unit, eval>>
    BY <1>2, <1>9 DEF Dag!Done
  <1> QED
    <2>1. \/ UNCHANGED <<unit, eval>> \/ eval' = Dag!NoEval \/ Dag!EvalDecides
          \/ \E u \in Units : \/ Dag!EvalReads(u) \/ Dag!EvalSubmits(u) \/ Dag!ConsumerEnds(u)
                              \/ Dag!ClaimAges(u) \/ Dag!ConsumerRuns(u)
                              \/ \E b \in BOOLEAN : Dag!Reset(u, b)
          \/ \E w \in Workers : Dag!Claim(w) \/ Dag!Unclaim(w)
      BY Zenon DEF Dag!Next, Dag!Start, Dag!Crash, Dag!EvalNext, Dag!EvalReadFails, Dag!EvalEnds,
         Dag!WorkerNext, Dag!Take, Dag!Publish, Dag!ClearHint, Dag!ConsumerNext,
         Dag!ConsumerSkips, Dag!WindowPasses, Dag!MessageLost, Dag!vars, Dag!graph, Dag!executor
    <2> QED
      BY <1>1, <1>3, <1>4, <1>5, <1>6, <1>7, <1>8, <1>9, <2>1

\* Every step preserves the invariant.
LEMMA DagStep ==
  ASSUME DependsOn \in [Units -> SUBSET Units], DagInv, [Dag!Next]_(Dag!vars)
  PROVE  DagInv'
  BY CoreStep, RecentStep DEF DagInv

\* The inductive invariant of the gated DAG holds in every reachable state.
THEOREM DagInvariant == Dag!Spec => []DagInv
  <1>1. DagInv /\ [Dag!Next]_(Dag!vars) => DagInv'
    BY DagStep, SuiteAssumption DEF SuiteAssumption
  <1> QED
    BY <1>1, InitDag, PTL DEF Dag!Spec

\* What the invariant says of the properties.
LEMMA DagImplies == DagInv => Dag!DependencyOrder /\ Dag!OnceEach
  <1>1. DagInv => Dag!DependencyOrder
    BY DEF DagInv, DagCore, DagOrdered, OrderKept, DagRecent, Dag!DependencyOrder
  <1>2. DagInv => Dag!OnceEach
    BY DEF DagInv, DagCore, DagOnce, Clean, Remembered, Dag!OnceEach
  <1> QED
    BY <1>1, <1>2

-----------------------------------------------------------------------------
(* The types of the DAG executor.                                          *)

\* What the invariant does not say of the types.  A unit that runs has its
\* dispatch still on the stream, so the acknowledgement finds one to remove.
DagTypes ==
  /\ up \in BOOLEAN /\ completed \in BOOLEAN
  /\ eval.pc \in {"idle", "reading", "submitting"}
  /\ inflight \subseteq Units /\ eval.stalled \subseteq Units
  /\ fanOut \in {"none", "dispatching", "completed"}
  /\ Len(queue) <= QueueSize
  /\ stream \in [Units -> Nat] /\ window \subseteq Units /\ running \subseteq Units
  /\ \A u \in running : stream[u] > 0

\* The types hold at the start.
LEMMA DagTypesInit == ASSUME QueueSize \in Nat, Dag!Init PROVE DagTypes
  <1>1. up \in BOOLEAN /\ completed \in BOOLEAN
    BY Zenon DEF Dag!Init
  <1>2. /\ eval.pc \in {"idle", "reading", "submitting"} /\ eval.stalled \subseteq Units
        /\ inflight \subseteq Units /\ window \subseteq Units /\ running \subseteq Units
        /\ fanOut \in {"none", "dispatching", "completed"}
    BY DEF Dag!Init, Dag!NoEval
  <1>3. /\ Len(queue) <= QueueSize /\ stream \in [Units -> Nat]
        /\ \A u \in running : stream[u] > 0
    BY DEF Dag!Init
  <1> QED
    BY <1>1, <1>2, <1>3, Zenon DEF DagTypes

\* The types of the executor, from the invariant.
LEMMA DagTyped == ASSUME DagInv, DagTypes PROVE Dag!TypeOK
  BY DEF DagInv, DagCore, DagShape, UnitOK, EvalOK, JobsOK, DagTypes, Dag!TypeOK

\* Every step keeps the types: the hint and the window only ever name units, a
\* full queue takes nothing, and an acknowledgement finds its dispatch.
LEMMA DagTypesStep ==
  ASSUME QueueSize \in Nat, DagInv, DagTypes, [Dag!Next]_(Dag!vars)
  PROVE  DagTypes'
  <1> USE DEF Dag!graph, Dag!executor
  <1>1. /\ queue \in Seq(Units) /\ eval.todo \subseteq Units /\ JobsOK
        /\ eval = [pc |-> eval.pc, view |-> eval.view, stalled |-> eval.stalled,
                   todo |-> eval.todo, done |-> eval.done]
    BY DEF DagInv, DagCore, DagShape, EvalOK, JobsOK
  <1>2. up' \in BOOLEAN
    BY Zenon DEF Dag!Next, Dag!Start, Dag!Crash, Dag!EvalNext, Dag!EvalReads, Dag!EvalReadFails,
       Dag!EvalDecides, Dag!EvalSubmits, Dag!EvalEnds, Dag!WorkerNext, Dag!Take, Dag!Claim,
       Dag!Publish, Dag!Unclaim, Dag!ClearHint, Dag!ConsumerNext, Dag!ConsumerSkips,
       Dag!ConsumerRuns, Dag!ConsumerEnds, Dag!WindowPasses, Dag!ClaimAges, Dag!MessageLost,
       Dag!Reset, Dag!vars, DagTypes
  <1>3. completed' \in BOOLEAN
    BY Zenon DEF Dag!Next, Dag!Start, Dag!Crash, Dag!EvalNext, Dag!EvalReads, Dag!EvalReadFails,
       Dag!EvalDecides, Dag!EvalSubmits, Dag!EvalEnds, Dag!CompleteFanOut, Dag!WorkerNext,
       Dag!Take, Dag!Claim, Dag!Publish, Dag!Unclaim, Dag!ClearHint, Dag!ConsumerNext,
       Dag!ConsumerSkips, Dag!ConsumerRuns, Dag!ConsumerEnds, Dag!WindowPasses, Dag!ClaimAges,
       Dag!MessageLost, Dag!Reset, Dag!vars, DagTypes
  <1>4. fanOut' \in {"none", "dispatching", "completed"}
    BY DEF Dag!Next, Dag!Start, Dag!Crash, Dag!EvalNext, Dag!EvalReads, Dag!EvalReadFails,
       Dag!EvalDecides, Dag!EvalSubmits, Dag!EvalEnds, Dag!CompleteFanOut, Dag!WorkerNext,
       Dag!Take, Dag!Claim, Dag!Publish, Dag!Unclaim, Dag!ClearHint, Dag!ConsumerNext,
       Dag!ConsumerSkips, Dag!ConsumerRuns, Dag!ConsumerEnds, Dag!WindowPasses, Dag!ClaimAges,
       Dag!MessageLost, Dag!Reset, Dag!vars, DagTypes
  <1>5. eval'.pc \in {"idle", "reading", "submitting"} /\ eval'.stalled \subseteq Units
    <2>1. \/ eval' = eval \/ eval' = Dag!NoEval
          \/ \E u \in Units : \/ Dag!EvalReads(u) \/ Dag!EvalSubmits(u)
                              \/ eval' = [eval EXCEPT !.done = @ \union {u}]
          \/ Dag!EvalDecides
      BY DEF Dag!Next, Dag!Start, Dag!Crash, Dag!EvalNext, Dag!EvalReadFails, Dag!EvalEnds,
         Dag!WorkerNext, Dag!Take, Dag!Claim, Dag!Publish, Dag!Unclaim, Dag!ClearHint,
         Dag!ConsumerNext, Dag!ConsumerSkips, Dag!ConsumerRuns, Dag!ConsumerEnds,
         Dag!WindowPasses, Dag!ClaimAges, Dag!MessageLost, Dag!Reset, Dag!vars
    <2>2. CASE eval' = eval \/ eval' = Dag!NoEval
      BY <2>2 DEF Dag!NoEval, DagTypes
    <2>3. ASSUME NEW u \in Units,
                 \/ Dag!EvalReads(u) \/ Dag!EvalSubmits(u)
                 \/ eval' = [eval EXCEPT !.done = @ \union {u}]
          PROVE  eval'.pc \in {"reading", eval.pc} /\ eval'.stalled = eval.stalled
      BY <1>1, <2>3 DEF Dag!EvalReads, Dag!EvalSubmits
    <2>4. CASE Dag!EvalDecides
      <3>1. Dag!StallAfterInflight(eval.view) \subseteq Units
        BY DEF Dag!StallAfterInflight, Dag!Stalled
      <3>2. eval'.pc = "submitting" /\ eval'.stalled = Dag!StallAfterInflight(eval.view)
        BY <1>1, <2>4 DEF Dag!EvalDecides
      <3> QED
        BY <3>1, <3>2
    <2> QED
      BY <2>1, <2>2, <2>3, <2>4 DEF DagTypes
  <1>6. inflight' \subseteq Units
    <2>1. \/ inflight' \subseteq inflight \/ inflight' = {}
          \/ \E u \in Units : inflight' = inflight \union {u}
      BY DEF Dag!Next, Dag!Start, Dag!Crash, Dag!EvalNext, Dag!EvalReads, Dag!EvalReadFails,
         Dag!EvalDecides, Dag!Kept, Dag!EvalSubmits, Dag!EvalEnds, Dag!WorkerNext, Dag!Take,
         Dag!Claim, Dag!Publish, Dag!Unclaim, Dag!ClearHint, Dag!ConsumerNext,
         Dag!ConsumerSkips, Dag!ConsumerRuns, Dag!ConsumerEnds, Dag!WindowPasses,
         Dag!ClaimAges, Dag!MessageLost, Dag!Reset, Dag!vars
    <2> QED
      BY <2>1 DEF DagTypes
  <1>7. Len(queue') <= QueueSize
    <2>1. \/ queue' = queue \/ queue' = <<>>
          \/ queue # <<>> /\ queue' = Tail(queue)
          \/ \E u \in Units : Len(queue) < QueueSize /\ queue' = Append(queue, u)
      BY DEF Dag!Next, Dag!Start, Dag!Crash, Dag!EvalNext, Dag!EvalReads, Dag!EvalReadFails,
         Dag!EvalDecides, Dag!EvalSubmits, Dag!EvalEnds, Dag!WorkerNext, Dag!Take,
         Dag!Claim, Dag!Publish, Dag!Unclaim, Dag!ClearHint, Dag!ConsumerNext,
         Dag!ConsumerSkips, Dag!ConsumerRuns, Dag!ConsumerEnds, Dag!WindowPasses,
         Dag!ClaimAges, Dag!MessageLost, Dag!Reset, Dag!vars
    <2> QED
      BY <1>1, <2>1 DEF DagTypes
  <1>8. window' \subseteq Units
    <2>1. \/ window' \subseteq window
          \/ \E w \in Workers : Dag!Publish(w)
      BY DEF Dag!Next, Dag!Start, Dag!Crash, Dag!EvalNext, Dag!EvalReads, Dag!EvalReadFails,
         Dag!EvalDecides, Dag!EvalSubmits, Dag!EvalEnds, Dag!WorkerNext, Dag!Take,
         Dag!Claim, Dag!Unclaim, Dag!ClearHint, Dag!ConsumerNext,
         Dag!ConsumerSkips, Dag!ConsumerRuns, Dag!ConsumerEnds, Dag!WindowPasses,
         Dag!ClaimAges, Dag!MessageLost, Dag!Reset, Dag!vars
    <2>2. ASSUME NEW w \in Workers, Dag!Publish(w) PROVE window' \subseteq Units
      BY <1>1, <2>2 DEF Dag!Publish, Dag!Stores, JobsOK, DagTypes
    <2> QED
      BY <2>1, <2>2 DEF DagTypes
  <1>9. /\ stream' \in [Units -> Nat] /\ running' \subseteq Units
        /\ \A u \in running' : stream'[u] > 0
    <2>1. \/ UNCHANGED <<stream, running>>
          \/ \E w \in Workers : Dag!Publish(w)
          \/ \E u \in Units : Dag!ConsumerNext(u) \/ Dag!MessageLost(u)
      BY DEF Dag!Next, Dag!Start, Dag!Crash, Dag!EvalNext, Dag!EvalReads, Dag!EvalReadFails,
         Dag!EvalDecides, Dag!EvalSubmits, Dag!EvalEnds, Dag!WorkerNext, Dag!Take,
         Dag!Claim, Dag!Unclaim, Dag!ClearHint, Dag!WindowPasses,
         Dag!ClaimAges, Dag!Reset, Dag!vars
    <2>2. CASE UNCHANGED <<stream, running>>
      BY <2>2 DEF DagTypes
    <2>3. ASSUME NEW w \in Workers, Dag!Publish(w)
          PROVE  /\ stream' \in [Units -> Nat] /\ running' \subseteq Units
                 /\ \A u \in running' : stream'[u] > 0
      <3>1. worker[w].u \in Units
        BY <1>1, <2>3 DEF Dag!Publish, JobsOK
      <3>2. running' = running /\ (UNCHANGED stream \/ Dag!Stores(worker[w].u))
        BY <2>3 DEF Dag!Publish
      <3> QED
        BY <3>1, <3>2 DEF Dag!Stores, DagTypes
    <2>4. ASSUME NEW u \in Units, Dag!ConsumerNext(u) \/ Dag!MessageLost(u)
          PROVE  /\ stream' \in [Units -> Nat] /\ running' \subseteq Units
                 /\ \A v \in running' : stream'[v] > 0
      <3>1. \/ stream[u] > 0 /\ u \notin running /\ stream' = [stream EXCEPT ![u] = @ - 1]
               /\ running' = running
            \/ stream[u] > 0 /\ running' = running \union {u} /\ stream' = stream
            \/ u \in running /\ running' = running \ {u} /\ stream' = [stream EXCEPT ![u] = @ - 1]
        BY <2>4 DEF Dag!ConsumerNext, Dag!ConsumerSkips, Dag!ConsumerRuns, Dag!ConsumerEnds,
           Dag!MessageLost
      <3> QED
        BY <3>1 DEF DagTypes
    <2> QED
      BY <2>1, <2>2, <2>3, <2>4
  <1> QED
    BY <1>2, <1>3, <1>4, <1>5, <1>6, <1>7, <1>8, <1>9, Zenon DEF DagTypes

-----------------------------------------------------------------------------
(* The graph view, through the invariant of GraphViewProofs.               *)

ViewP == INSTANCE GraphViewProofs WITH Keys <- ViewKeys, Writes <- ViewWrites,
           MaxRev <- ViewRevs, pending <- tick

\* The view of the suite starts as the view GraphViewProofs is about,
LEMMA ViewInitSame == View!Init => ViewP!Init
  BY Zenon DEF View!Init, ViewP!Init, View!Kinds, ViewP!Kinds, View!Revs, ViewP!Revs,
             View!NoDelta, ViewP!NoDelta, View!NoOp, ViewP!NoOp, View!NewSub, ViewP!NewSub,
             View!Delta, ViewP!Delta

\* takes the same steps,
LEMMA ViewNextSame == [View!Next]_(View!vars) => [ViewP!Next]_(ViewP!vars)
  BY Zenon DEF View!bucketVars, ViewP!bucketVars, View!projection, ViewP!projection,
             View!tasks, ViewP!tasks, View!vars, ViewP!vars, View!Kinds, ViewP!Kinds,
             View!Revs, ViewP!Revs, View!EndOfReplay, ViewP!EndOfReplay, View!Entry,
             ViewP!Entry, View!Delta, ViewP!Delta, View!NoDelta, ViewP!NoDelta, View!NoOp,
             ViewP!NoOp, View!NewSub, ViewP!NewSub, View!Replay, ViewP!Replay, View!Write,
             ViewP!Write, View!LoseWatch, ViewP!LoseWatch, View!CancelStart,
             ViewP!CancelStart, View!Start, ViewP!Start, View!OpenFails, ViewP!OpenFails,
             View!OpenSucceeds, ViewP!OpenSucceeds, View!AdmitWatcher, ViewP!AdmitWatcher,
             View!OpOf, ViewP!OpOf, View!Replaying, ViewP!Replaying, View!Apply,
             ViewP!Apply, View!ApplySkip, ViewP!ApplySkip, View!ProcessEntry,
             ViewP!ProcessEntry, View!MarkCaughtUp, ViewP!MarkCaughtUp, View!FailClosed,
             ViewP!FailClosed, View!Terminated, ViewP!Terminated, View!FailTerminates,
             ViewP!FailTerminates, View!WatcherExits, ViewP!WatcherExits, View!Enqueued,
             ViewP!Enqueued, View!FanOut, ViewP!FanOut, View!TickerExits, ViewP!TickerExits,
             View!Stop, ViewP!Stop, View!StopTerminates, ViewP!StopTerminates,
             View!StopCancels, ViewP!StopCancels, View!Joined, ViewP!Joined,
             View!StopReturns, ViewP!StopReturns, View!Held, ViewP!Held, View!Attach,
             ViewP!Attach, View!SubStep, ViewP!SubStep, View!RunWakes, ViewP!RunWakes,
             View!Take, ViewP!Take, View!RunSends, ViewP!RunSends, View!RunEnds,
             ViewP!RunEnds, View!RunDetaches, ViewP!RunDetaches, View!RunDetached,
             ViewP!RunDetached, View!CancelSub, ViewP!CancelSub, View!Unsubscribe,
             ViewP!Unsubscribe, View!Unsubscribed, ViewP!Unsubscribed, View!Receive,
             ViewP!Receive, View!WatcherNext, ViewP!WatcherNext, View!StarterNext,
             ViewP!StarterNext, View!StopperNext, ViewP!StopperNext, View!RunNext,
             ViewP!RunNext, View!SubNext, ViewP!SubNext, View!Next, ViewP!Next,
             View!Cardinality, ViewP!Cardinality

\* and has the same properties.
LEMMA ViewPropsSame ==
  /\ ViewP!TypeOK => View!TypeOK
  /\ ViewP!SnapshotExact => View!SnapshotExact
  /\ ViewP!NeverStale => View!NeverStale
  /\ ViewP!NoFrozenView => View!NoFrozenView
  BY Zenon DEF View!TypeOK, ViewP!TypeOK, View!Batched, ViewP!Batched, View!Sent, ViewP!Sent,
             View!InHand, ViewP!InHand, View!Buffered, ViewP!Buffered, View!InWindow,
             ViewP!InWindow, View!OnItsWay, ViewP!OnItsWay, View!SnapshotExact,
             ViewP!SnapshotExact, View!NeverStale, ViewP!NeverStale, View!NoFrozenView,
             ViewP!NoFrozenView, View!Held, ViewP!Held, View!Delta, ViewP!Delta,
             View!NoDelta, ViewP!NoDelta, View!Joined, ViewP!Joined, View!Kinds,
             ViewP!Kinds, View!Revs, ViewP!Revs

-----------------------------------------------------------------------------
(* The suite.                                                              *)

\* The invariants of the components, together.
SuiteInv == IInv /\ ViewP!IInv /\ LaneInv /\ LaneTypes /\ DagInv /\ DagTypes

\* The constants of the view are what its proofs ask for.
LEMMA ViewConstants == ViewP!ViewAssumption
  BY SuiteAssumption, Zenon DEF SuiteAssumption, ViewP!ViewAssumption, ViewP!IsFiniteSet,
     IsFiniteSet, ViewP!Kinds

\* A step of the suite is a step of one component and leaves the others alone.
LEMMA SuiteSteps ==
  ASSUME [SuiteNext]_suiteVars
  PROVE  [Next]_vars /\ [View!Next]_(View!vars) /\ [Lane!Next]_(Lane!vars) /\ [Dag!Next]_(Dag!vars)
  <1>1. UNCHANGED viewVars => UNCHANGED View!vars
    BY Zenon DEF viewVars, View!vars, View!bucketVars, View!projection, View!tasks
  <1>2. UNCHANGED laneVars => UNCHANGED Lane!vars
    BY Zenon DEF laneVars, Lane!vars, Lane!server, Lane!answers, Lane!lane
  <1>3. UNCHANGED dagVars => UNCHANGED Dag!vars
    BY Zenon DEF dagVars, Dag!vars, Dag!graph, Dag!executor
  <1> QED
    BY <1>1, <1>2, <1>3, Zenon DEF SuiteNext, suiteVars

\* The suite starts with every component in its initial state.
LEMMA SuiteStart == ASSUME SuiteInit PROVE SuiteInv
  <1>1. IInv /\ LaneInv /\ DagInv
    BY InitIInv, InitLane, InitDag DEF SuiteInit
  <1>2. LaneTypes /\ DagTypes
    BY LaneTypesInit, DagTypesInit, SuiteAssumption DEF SuiteInit, SuiteAssumption
  <1>3. ViewP!IInv
    BY ViewInitSame, ViewConstants, ViewP!InitView DEF SuiteInit
  <1> QED
    BY <1>1, <1>2, <1>3 DEF SuiteInv

\* Every step of the suite keeps every invariant.
LEMMA SuiteStep == ASSUME SuiteInv, [SuiteNext]_suiteVars PROVE SuiteInv'
  <1>1. [Next]_vars /\ [View!Next]_(View!vars) /\ [Lane!Next]_(Lane!vars) /\ [Dag!Next]_(Dag!vars)
    BY SuiteSteps
  <1>2. IInv'
    BY <1>1, StepIInv DEF SuiteInv
  <1>3. ViewP!IInv'
    BY <1>1, ViewNextSame, ViewConstants, ViewP!StepView DEF SuiteInv
  <1>4. LaneInv' /\ LaneTypes'
    BY <1>1, LaneStep, LaneTypesStep, SuiteAssumption DEF SuiteInv, SuiteAssumption
  <1>5. DagInv' /\ DagTypes'
    BY <1>1, DagStep, DagTypesStep, SuiteAssumption DEF SuiteInv, SuiteAssumption
  <1> QED
    BY <1>2, <1>3, <1>4, <1>5 DEF SuiteInv

\* What the invariants say of the view.
LEMMA SuiteView ==
  ASSUME SuiteInv
  PROVE  View!TypeOK /\ View!SnapshotExact /\ View!NeverStale /\ View!NoFrozenView
  BY ViewPropsSame, ViewConstants, ViewP!ViewImplies DEF SuiteInv

\* The inductive invariant of the suite: that of each component.
THEOREM SuiteInvariant == SuiteSpec => []SuiteInv
  <1>1. SuiteInit => SuiteInv
    BY SuiteStart
  <1>2. SuiteInv /\ [SuiteNext]_suiteVars => SuiteInv'
    BY SuiteStep
  <1> QED
    BY <1>1, <1>2, PTL DEF SuiteSpec

\* The types of every component, with the queue of the DAG executor within its size and
\* every acknowledgement of the consumer finding the dispatch it removes.
THEOREM ComponentTypes == SuiteSpec => []ComponentsTypeOK
  <1>1. SuiteInv => ComponentsTypeOK
    BY SuiteView, LaneTyped, DagTyped DEF SuiteInv, ComponentsTypeOK, IInv
  <1> QED
    BY <1>1, SuiteInvariant, PTL

\* A snapshot and the deltas after it are the view, for any keys, subscriptions, writes,
\* ticks and endings (pkg/graphview: fanOut, apply, applySkip, SnapshotAndSubscribe).
THEOREM SnapshotIsExact == SuiteSpec => []SnapshotExact
  <1>1. SuiteInv => SnapshotExact
    BY SuiteView DEF SnapshotExact
  <1> QED
    BY <1>1, SuiteInvariant, PTL

\* No delta on its way to a subscriber is older than what it knows (pkg/graphview).
THEOREM SubscriberNeverGoesBack == SuiteSpec => []NeverStale
  <1>1. SuiteInv => NeverStale
    BY SuiteView DEF NeverStale
  <1> QED
    BY <1>1, SuiteInvariant, PTL

\* No view is served, and no subscription kept, without a watcher, and a Stop that
\* returned left nothing running (pkg/graphview: failClosed, admission, Stop).
THEOREM ViewIsNeverFrozen == SuiteSpec => []NoFrozenView
  <1>1. SuiteInv => NoFrozenView
    BY SuiteView DEF NoFrozenView
  <1> QED
    BY <1>1, SuiteInvariant, PTL

\* AckedIsAnswered, of the lane and of the suite, for any requests, redeliveries, faults and
\* restarts: a request leaves the stream only with its response retained, or because it
\* never parses (agentic-model, handleRequest).
THEOREM AcksAreAnswered == (Lane!Spec => []Lane!AckedIsAnswered) /\ (SuiteSpec => []AckedIsAnswered)
  <1>1. SuiteInv => AckedIsAnswered
    BY LaneImplies DEF SuiteInv, AckedIsAnswered
  <1> QED
    BY <1>1, LaneInvariant, LaneImplies, SuiteInvariant, PTL

\* RepeatedOnlyInDoubt for any requests, processes, redeliveries, late landings, faults and
\* restarts: a response is repeated no more often than a publish went unacknowledged or
\* two processes worked on the request at once (agentic-model, handleRequest).
THEOREM RepeatsAreInDoubt ==
  (Lane!Spec => []Lane!RepeatedOnlyInDoubt) /\ (SuiteSpec => []RepeatedOnlyInDoubt)
  <1>1. SuiteInv => RepeatedOnlyInDoubt
    BY LaneImplies DEF SuiteInv, RepeatedOnlyInDoubt
  <1> QED
    BY <1>1, LaneInvariant, LaneImplies, SuiteInvariant, PTL

\* FatalIsDeclared for every race of the latch, the observer, Stop and a restart
\* (deliverylane).
THEOREM LossIsDeclared == (Lane!Spec => []Lane!FatalIsDeclared) /\ (SuiteSpec => []FatalIsDeclared)
  <1>1. SuiteInv => FatalIsDeclared
    BY LaneImplies DEF SuiteInv, FatalIsDeclared
  <1> QED
    BY <1>1, LaneInvariant, LaneImplies, SuiteInvariant, PTL

\* DependencyOrder for every plan, every number of workers and every schedule of passes
\* that read units while they change: a unit is dispatched only after its prerequisites
\* completed, and selected only by a pass during which each of them was done and not reset;
\* a fan-out is complete only after all its units (gateddag, Evaluate).
THEOREM DispatchKeepsOrder ==
  (Dag!Spec => []Dag!DependencyOrder) /\ (SuiteSpec => []DependencyOrder)
  <1>1. SuiteInv => DependencyOrder
    BY DagImplies DEF SuiteInv, DependencyOrder
  <1> QED
    BY <1>1, DagInvariant, DagImplies, SuiteInvariant, PTL

\* OnceEach for every plan, every number of workers, queue slots, faults and restarts: the
\* hint, the claim and the message id together leave no gap in which a unit that was never
\* reset is dispatched again (gated-dag, reEvaluate and claimThenDispatch).
THEOREM DispatchedOnce == (Dag!Spec => []Dag!OnceEach) /\ (SuiteSpec => []OnceEach)
  <1>1. SuiteInv => OnceEach
    BY DagImplies DEF SuiteInv, OnceEach
  <1> QED
    BY <1>1, DagInvariant, DagImplies, SuiteInvariant, PTL

\* The watermark in the suite is the watermark of its own specification, so what is
\* proved of that holds here (pkg/revlag).
THEOREM SuiteWatermark ==
  SuiteSpec => Spec /\ [](NeverNewer /\ ExactWhenCaughtUp) /\ FloorMonotonic
  <1>1. SuiteInit => Init
    BY DEF SuiteInit
  <1>2. [SuiteNext]_suiteVars => [Next]_vars
    BY SuiteSteps
  <1>3. SuiteSpec => Spec
    BY <1>1, <1>2, PTL DEF SuiteSpec, Spec
  <1> QED
    BY <1>3, StalenessNeverUnderReported, CaughtUpIsExact, FloorNeverMovesBack, PTL
=============================================================================
