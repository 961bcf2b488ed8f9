------------------------------ MODULE ModelLane ------------------------------
(***************************************************************************)
(* The request lane of processor/agentic-model: a durable consumer that    *)
(* delivers one request at a time, the typed settlement of a delivery with *)
(* a heartbeat (natsclient), the lane's admission latch, its observer and  *)
(* its drain-once binding (internal/deliverylane), and the owner's Start,  *)
(* Stop and restart.                                                       *)
(*                                                                         *)
(* The processes are the JetStream server, the consume callback (one at a  *)
(* time), the work goroutine the callback starts, the observer and the     *)
(* caller of Start and Stop, and, in coarser steps, other processes on the *)
(* same durable consumer.  A successful heartbeat only renews the lease: a *)
(* lease that ends all the same is LeaseEnds.  Every fault the code has a  *)
(* branch for (a publish without acknowledgement, a failed heartbeat, a    *)
(* panic, a failed terminal method, a crash, a stop past its deadline) is a*)
(* step that spends one of MaxFaults.  A publish without acknowledgement   *)
(* may be lost, have landed, or land at any later time.                    *)
(***************************************************************************)
EXTENDS Naturals, Sequences, FiniteSets

CONSTANTS Reqs,        \* requests on the stream
          Malformed,   \* those whose payload does not parse
          MaxDeliver,  \* the consumer's delivery bound
          MaxFaults    \* bound on faults

VARIABLES
  req,        \* the server's state of a request
  tries,      \* deliveries of it so far
  responses,  \* responses to it on the retained stream
  wire,       \* responses to it that were sent, unacknowledged, and have not landed
  others,     \* other processes between their retained read and their publish of it
  doubts,     \* history: how often a second response to it became possible
  inbox,      \* deliveries waiting for the callback
  cb,         \* the callback: its step and its request
  work,       \* the work goroutine: its step, and its decision when done
  open,       \* Admission.open
  fatal,      \* the buffered fatal result is there
  recorded,   \* Component.deliveryFatalErr is set
  observer,   \* the goroutine Observe starts
  handle,     \* the consume handle
  drains,     \* calls of the handle's Drain
  cancelled,  \* the context of the consumer and the observer is done
  owner,      \* the component: Start, running, the steps of Stop
  late,       \* the context of Stop is done
  faults      \* faults so far

answers == <<responses, wire, others, doubts>>
server == <<req, tries, answers>>
lane == <<open, fatal, recorded>>
vars == <<server, inbox, cb, work, lane, observer, handle, drains, cancelled, owner,
          late, faults>>

NoReq == "none"
Idle == [pc |-> "idle", r |-> NoReq]
NoWork == [pc |-> "none", decision |-> "none", kind |-> "none", ctx |-> TRUE]
Settled == {"acked", "termed"}
Decisions == {"ack", "retry", "term", "quarantine"}

Fault == faults < MaxFaults /\ faults' = faults + 1
NoFault == UNCHANGED faults

Init ==
  /\ req = [r \in Reqs |-> "ready"]
  /\ tries = [r \in Reqs |-> 0]
  /\ responses = [r \in Reqs |-> 0] /\ wire = [r \in Reqs |-> 0]
  /\ others = [r \in Reqs |-> 0] /\ doubts = [r \in Reqs |-> 0]
  /\ inbox = <<>> /\ cb = Idle /\ work = NoWork
  /\ open = TRUE /\ fatal = FALSE /\ recorded = FALSE
  /\ observer = "none" /\ handle = "none" /\ drains = 0
  /\ cancelled = FALSE /\ owner = "down" /\ late = FALSE /\ faults = 0

-----------------------------------------------------------------------------
(* The server.                                                             *)

\* One delivery may be outstanding (MaxAckPending is 1).
Deliverable(r) ==
  req[r] = "ready" /\ tries[r] < MaxDeliver /\ \A q \in Reqs : req[q] # "pending"

Deliver(r) ==
  /\ handle = "consuming" /\ Deliverable(r)
  /\ req' = [req EXCEPT ![r] = "pending"]
  /\ tries' = [tries EXCEPT ![r] = @ + 1]
  /\ inbox' = Append(inbox, r)
  /\ UNCHANGED <<answers, cb, work, lane, observer, handle, drains, cancelled, owner,
                 late, faults>>

\* Redelivered while deliveries are left; otherwise never again.
Returned(r) == IF tries[r] < MaxDeliver THEN "ready" ELSE "exhausted"

\* AckWait passes without a settlement or a heartbeat the server saw.
LeaseEnds(r) ==
  /\ req[r] = "pending"
  /\ req' = [req EXCEPT ![r] = Returned(r)]
  /\ UNCHANGED <<tries, answers, inbox, cb, work, lane, observer, handle, drains,
                 cancelled, owner, late, faults>>

\* A response whose publish was not acknowledged lands after all.
Lands(r) ==
  /\ wire[r] > 0
  /\ wire' = [wire EXCEPT ![r] = @ - 1]
  /\ responses' = [responses EXCEPT ![r] = @ + 1]
  /\ UNCHANGED <<req, tries, others, doubts, inbox, cb, work, lane, observer, handle,
                 drains, cancelled, owner, late, faults>>

-----------------------------------------------------------------------------
(* deliverylane.Consume and ConsumeDeliveryWithHeartbeat.                  *)

\* A closed lane refuses: nothing is read, heartbeaten or settled.
Refuse ==
  /\ cb = Idle /\ inbox # <<>> /\ ~open
  /\ inbox' = Tail(inbox)
  /\ UNCHANGED <<server, cb, work, lane, observer, handle, drains, cancelled, owner,
                 late, faults>>

Admit ==
  /\ cb = Idle /\ inbox # <<>> /\ open
  /\ inbox' = Tail(inbox)
  /\ \/ /\ cb' = [pc |-> "working", r |-> Head(inbox)]
        /\ work' = [NoWork EXCEPT !.pc = "parsing", !.ctx = ~cancelled]
        /\ NoFault
     \/ /\ cb' = [pc |-> "latching", r |-> Head(inbox)]   \* metadata unavailable
        /\ UNCHANGED work
        /\ Fault
  /\ UNCHANGED <<server, lane, observer, handle, drains, cancelled, owner, late>>

\* InProgress fails: the work's context is cancelled and the work joined.
HeartbeatFails ==
  /\ cb.pc = "working" /\ work.pc # "done"
  /\ Fault
  /\ cb' = [cb EXCEPT !.pc = "lost"]
  /\ work' = [work EXCEPT !.ctx = FALSE]
  /\ UNCHANGED <<server, inbox, lane, observer, handle, drains, cancelled, owner, late>>

\* The delivery's context is done: the work is cancelled and joined, then settled.
DeliveryCancelled ==
  /\ cb.pc = "working" /\ cancelled /\ work.ctx
  /\ work' = [work EXCEPT !.ctx = FALSE]
  /\ UNCHANGED <<server, inbox, cb, lane, observer, handle, drains, cancelled, owner,
                 late, faults>>

\* What the server makes of a terminal method: a late one settles as well.
Settlement(r, decision) ==
  CASE decision = "ack" /\ req[r] # "termed" -> "acked"
    [] decision = "term" /\ req[r] # "acked" -> "termed"
    [] decision = "retry" /\ req[r] = "pending" -> Returned(r)
    [] OTHER -> req[r]

\* settleDeliveryDecision: one terminal method, which may fail locally; none for
\* a quarantined decision, which latches the lane.
Settle ==
  /\ cb.pc = "working" /\ work.pc = "done"
  /\ \/ /\ work.decision # "quarantine"
        /\ cb' = Idle
        /\ \/ req' = [req EXCEPT ![cb.r] = Settlement(cb.r, work.decision)] /\ NoFault
           \/ UNCHANGED req /\ Fault
     \/ /\ work.decision = "quarantine"
        /\ cb' = [cb EXCEPT !.pc = "latching"]
        /\ UNCHANGED req /\ NoFault
  /\ work' = NoWork
  /\ UNCHANGED <<tries, answers, inbox, lane, observer, handle, drains, cancelled,
                 owner, late>>

\* Control was lost: the joined result is never settled.
JoinLost ==
  /\ cb.pc = "lost" /\ work.pc = "done"
  /\ cb' = [cb EXCEPT !.pc = "latching"]
  /\ work' = NoWork
  /\ UNCHANGED <<server, inbox, lane, observer, handle, drains, cancelled, owner, late,
                 faults>>

\* Latch: the lane closes, the owner's record is made, the result is buffered.
LatchCloses ==
  /\ cb.pc = "latching"
  /\ IF open THEN open' = FALSE /\ cb' = [cb EXCEPT !.pc = "recording"]
             ELSE open' = open /\ cb' = Idle
  /\ UNCHANGED <<server, inbox, work, fatal, recorded, observer, handle, drains,
                 cancelled, owner, late, faults>>

OnFatal ==
  /\ cb.pc = "recording"
  /\ recorded' = TRUE
  /\ cb' = [cb EXCEPT !.pc = "buffering"]
  /\ UNCHANGED <<server, inbox, work, open, fatal, observer, handle, drains, cancelled,
                 owner, late, faults>>

LatchBuffers ==
  /\ cb.pc = "buffering"
  /\ fatal' = TRUE
  /\ cb' = Idle
  /\ UNCHANGED <<server, inbox, work, open, recorded, observer, handle, drains,
                 cancelled, owner, late, faults>>

-----------------------------------------------------------------------------
(* The work goroutine: Component.handleRequest.                            *)

WorkTo(w) ==
  /\ work' = w
  /\ UNCHANGED <<req, tries, inbox, cb, lane, observer, handle, drains, cancelled,
                 owner, late>>

Decided(d) == [work EXCEPT !.pc = "done", !.decision = d]

Parse ==
  /\ work.pc = "parsing"
  /\ WorkTo(IF cb.r \in Malformed THEN Decided("term") ELSE [work EXCEPT !.pc = "reading"])
  /\ UNCHANGED <<answers, faults>>

\* A read that finds nothing while another process is past its own read of it.
Overlaps(r, busy) == doubts' = [doubts EXCEPT ![r] = IF busy THEN @ + 1 ELSE @]

\* Mutant: the model is called without a look at the retained responses.
ReadRetained_Skipped ==
  /\ work.pc = "reading"
  /\ WorkTo([work EXCEPT !.pc = "calling"]) /\ NoFault
  /\ Overlaps(cb.r, others[cb.r] > 0) /\ UNCHANGED <<responses, wire, others>>

\* readRetainedAgentResponse: found, absent, a read that fails, or evidence that
\* contradicts the request.
ReadRetained ==
  /\ work.pc = "reading"
  /\ \/ /\ responses[cb.r] > 0 /\ WorkTo(Decided("ack")) /\ NoFault
        /\ UNCHANGED doubts
     \/ /\ responses[cb.r] = 0 /\ WorkTo([work EXCEPT !.pc = "calling"]) /\ NoFault
        /\ Overlaps(cb.r, others[cb.r] > 0)
     \/ WorkTo(Decided("retry")) /\ Fault /\ UNCHANGED doubts
     \/ /\ responses[cb.r] > 0 /\ WorkTo(Decided("quarantine")) /\ Fault
        /\ UNCHANGED doubts
  /\ UNCHANGED <<responses, wire, others>>

\* No endpoint, a failed call and a call cancelled with its context end in an
\* error response; the last two are published without the work's context.
CallModel ==
  /\ work.pc = "calling"
  /\ \E kind \in {"answer", "failure", "no endpoint"} :
       /\ kind = "answer" => work.ctx
       /\ WorkTo([work EXCEPT !.pc = "publishing", !.kind = kind])
  /\ UNCHANGED <<answers, faults>>

\* publishResponse, which carries no message id: stored, or sent and nothing heard.
Acknowledged(r) ==
  responses' = [responses EXCEPT ![r] = @ + 1] /\ UNCHANGED <<wire, doubts>>
Unacknowledged(r) ==
  /\ wire' = [wire EXCEPT ![r] = @ + 1]
  /\ doubts' = [doubts EXCEPT ![r] = @ + 1]
  /\ UNCHANGED responses

\* Mutant: a publish without acknowledgement counts as done.
Publish_Assumed ==
  /\ work.pc = "publishing"
  /\ \/ /\ work.ctx \/ work.kind = "failure"
        /\ Acknowledged(cb.r)
        /\ WorkTo(Decided("ack")) /\ NoFault
     \/ /\ Unacknowledged(cb.r)
        /\ WorkTo(Decided("ack"))
        /\ IF work.ctx \/ work.kind = "failure" THEN Fault ELSE NoFault
  /\ UNCHANGED others

\* Only an acknowledged response acknowledges the request.
Publish ==
  /\ work.pc = "publishing"
  /\ \/ /\ work.ctx \/ work.kind = "failure"
        /\ Acknowledged(cb.r)
        /\ WorkTo(Decided("ack")) /\ NoFault
     \/ /\ Unacknowledged(cb.r)
        /\ WorkTo(Decided("retry"))
        /\ IF work.ctx \/ work.kind = "failure" THEN Fault ELSE NoFault
  /\ UNCHANGED others

Panic ==
  /\ work.pc \in {"parsing", "reading", "calling", "publishing"}
  /\ WorkTo(Decided("quarantine")) /\ Fault
  /\ UNCHANGED answers

-----------------------------------------------------------------------------
(* handleRequest in another process of the same durable consumer, which is *)
(* handed a request once the lease of this process has ended, or before.   *)

Here == UNCHANGED <<inbox, cb, work, lane, observer, handle, drains, cancelled, owner, late>>

\* This process is past its retained read of r.
Answering(r) == cb.r = r /\ work.pc \in {"calling", "publishing"}

\* Delivered there, parsed, and the retained responses read.
OtherTakes(r) ==
  /\ Deliverable(r)
  /\ tries' = [tries EXCEPT ![r] = @ + 1]
  /\ \/ /\ r \in Malformed /\ req' = [req EXCEPT ![r] = "termed"]
        /\ UNCHANGED <<others, doubts>>
     \/ /\ r \notin Malformed /\ responses[r] > 0 /\ req' = [req EXCEPT ![r] = "acked"]
        /\ UNCHANGED <<others, doubts>>
     \/ /\ r \notin Malformed /\ responses[r] = 0 /\ req' = [req EXCEPT ![r] = "pending"]
        /\ others' = [others EXCEPT ![r] = @ + 1]
        /\ Overlaps(r, others[r] > 0 \/ Answering(r))
  /\ UNCHANGED <<responses, wire, faults>> /\ Here

OtherLeaves(r) == others[r] > 0 /\ others' = [others EXCEPT ![r] = @ - 1]

\* Published there and settled; the settlement may fail.
OtherAnswers(r) ==
  /\ OtherLeaves(r)
  /\ \/ /\ Acknowledged(r)
        /\ \/ req' = [req EXCEPT ![r] = Settlement(r, "ack")] /\ NoFault
           \/ UNCHANGED req /\ Fault
     \/ /\ Unacknowledged(r) /\ Fault
        /\ req' = [req EXCEPT ![r] = Settlement(r, "retry")]
  /\ UNCHANGED tries /\ Here

\* That process crashes, or latches its lane.
OtherEnds(r) ==
  /\ OtherLeaves(r) /\ Fault
  /\ UNCHANGED <<req, tries, responses, wire, doubts>> /\ Here

-----------------------------------------------------------------------------
(* Binding and Observe.                                                    *)

\* Mutant: the binding drains on every call.
Drained_EveryTime ==
  /\ handle' = IF handle = "consuming" THEN "draining" ELSE handle
  /\ drains' = drains + 1

\* drainOnce.
Drained == /\ handle' = IF handle = "consuming" THEN "draining" ELSE handle
           /\ drains' = IF handle = "consuming" THEN drains + 1 ELSE drains

Observe ==
  /\ observer = "running"
  /\ \/ fatal /\ fatal' = FALSE /\ observer' = "reacting"
     \/ cancelled /\ observer' = "exited" /\ UNCHANGED fatal
  /\ UNCHANGED <<server, inbox, cb, work, open, recorded, handle, drains, cancelled,
                 owner, late, faults>>

\* Mutant: the observer reports and leaves the handle alone.
ObserverDrains_Not ==
  /\ observer = "reacting"
  /\ observer' = "exited"
  /\ UNCHANGED <<server, inbox, cb, work, lane, handle, drains, cancelled, owner, late,
                 faults>>

ObserverDrains ==
  /\ observer = "reacting"
  /\ observer' = "exited"
  /\ Drained
  /\ UNCHANGED <<server, inbox, cb, work, lane, cancelled, owner, late, faults>>

\* A draining handle hands over what is buffered and then is closed.
HandleCloses ==
  /\ handle = "draining" /\ inbox = <<>> /\ cb = Idle
  /\ handle' = "closed"
  /\ UNCHANGED <<server, inbox, cb, work, lane, observer, drains, cancelled, owner,
                 late, faults>>

-----------------------------------------------------------------------------
(* The owner: Start, Stop and a crash.                                     *)

\* setupConsumer: the consumer delivers as soon as it is acquired; the observer
\* is started and the binding published after that.
Acquire ==
  /\ owner = "down"
  /\ owner' = "starting"
  /\ handle' = "consuming" /\ drains' = 0 /\ observer' = "none"
  /\ open' = TRUE /\ fatal' = FALSE /\ recorded' = FALSE
  /\ cancelled' = FALSE /\ late' = FALSE
  /\ UNCHANGED <<server, inbox, cb, work, faults>>

Started ==
  /\ owner = "starting"
  /\ owner' = "running"
  /\ observer' = "running"
  /\ UNCHANGED <<server, inbox, cb, work, lane, handle, drains, cancelled, late, faults>>

\* cleanup: drain, await the handle (or the deadline), cancel, join the observer.
Stop ==
  /\ owner = "running"
  /\ owner' = "closing"
  /\ Drained
  /\ UNCHANGED <<server, inbox, cb, work, lane, observer, cancelled, late, faults>>

StopDeadline ==
  /\ owner \in {"closing", "joining"} /\ ~late
  /\ Fault
  /\ late' = TRUE
  /\ UNCHANGED <<server, inbox, cb, work, lane, observer, handle, drains, cancelled, owner>>

StopCancels ==
  /\ owner = "closing" /\ (handle = "closed" \/ late)
  /\ owner' = "joining"
  /\ cancelled' = TRUE
  /\ UNCHANGED <<server, inbox, cb, work, lane, observer, handle, drains, late, faults>>

StopReturns ==
  /\ owner = "joining" /\ (observer = "exited" \/ late)
  /\ owner' = "stopped"
  /\ UNCHANGED <<server, inbox, cb, work, lane, observer, handle, drains, cancelled,
                 late, faults>>

\* The process ends, after Stop or by a crash: what it held is gone, the stream stays.
ProcessEnds ==
  /\ owner # "down"
  /\ IF owner = "stopped" THEN NoFault ELSE Fault
  /\ owner' = "down"
  /\ inbox' = <<>> /\ cb' = Idle /\ work' = NoWork
  /\ handle' = "none" /\ observer' = "none"
  /\ UNCHANGED <<server, lane, drains, cancelled, late>>

-----------------------------------------------------------------------------
CallbackNext == \/ Refuse \/ Admit \/ DeliveryCancelled \/ Settle \/ JoinLost
                \/ LatchCloses \/ OnFatal \/ LatchBuffers
WorkNext == Parse \/ ReadRetained \/ CallModel \/ Publish
ObserverNext == Observe \/ ObserverDrains
StopNext == StopCancels \/ StopReturns

Next ==
  \/ \E r \in Reqs : \/ Deliver(r) \/ LeaseEnds(r) \/ Lands(r)
                     \/ OtherTakes(r) \/ OtherAnswers(r) \/ OtherEnds(r)
  \/ CallbackNext \/ HeartbeatFails
  \/ WorkNext \/ Panic
  \/ ObserverNext \/ HandleCloses
  \/ Acquire \/ Started \/ Stop \/ StopDeadline \/ StopNext \/ ProcessEnds

\* Goroutines run, the server delivers and ends leases, a model call ends (every
\* call has a timeout) and a draining handle closes.  Stop, a restart and the
\* faults are owed to nobody.
Fairness ==
  /\ \A r \in Reqs : WF_vars(Deliver(r)) /\ WF_vars(LeaseEnds(r))
  /\ WF_vars(CallbackNext) /\ WF_vars(WorkNext) /\ WF_vars(ObserverNext)
  /\ WF_vars(HandleCloses) /\ WF_vars(Started) /\ WF_vars(StopNext)

Spec == Init /\ [][Next]_vars /\ Fairness

-----------------------------------------------------------------------------
(* Properties.                                                             *)

\* Every variable has its type.
TypeOK ==
  /\ req \in [Reqs -> {"ready", "pending", "acked", "termed", "exhausted"}]
  /\ tries \in [Reqs -> 0 .. MaxDeliver] /\ responses \in [Reqs -> Nat]
  /\ wire \in [Reqs -> Nat] /\ others \in [Reqs -> Nat] /\ doubts \in [Reqs -> Nat]
  /\ \A i \in DOMAIN inbox : inbox[i] \in Reqs
  /\ cb.pc \in {"idle", "working", "lost", "latching", "recording", "buffering"}
  /\ cb.r \in Reqs \union {NoReq}
  /\ work.pc \in {"none", "parsing", "reading", "calling", "publishing", "done"}
  /\ work.decision \in Decisions \union {"none"}
  /\ open \in BOOLEAN /\ fatal \in BOOLEAN /\ recorded \in BOOLEAN
  /\ observer \in {"none", "running", "reacting", "exited"}
  /\ handle \in {"none", "consuming", "draining", "closed"} /\ drains \in Nat
  /\ cancelled \in BOOLEAN /\ late \in BOOLEAN /\ faults \in 0 .. MaxFaults
  /\ owner \in {"down", "starting", "running", "closing", "joining", "stopped"}

\* A request leaves the stream only with its answer on the response stream:
\* whatever crashed, was cancelled, was redelivered or failed to publish, an
\* acknowledged request has its response retained, and a terminated one is one
\* that could never be parsed (handleRequest returns only after the response is
\* committed).
AckedIsAnswered ==
  \A r \in Reqs : /\ req[r] = "acked" => responses[r] > 0
                  /\ req[r] = "termed" => r \in Malformed

\* A response is repeated only where the contract allows it: the responses of a
\* request, on the stream and still on their way, exceed one by no more than the
\* publishes without acknowledgement and the reads that overlapped the work of
\* another process.  A redelivery, a failed settlement, a lost heartbeat, a crash or
\* a restart alone never repeats the provider's work (readRetainedAgentResponse before
\* the call; openspec/specs/agentic-model/spec.md, "PubAck uncertainty MAY repeat").
RepeatedOnlyInDoubt == \A r \in Reqs : responses[r] + wire[r] <= 1 + doubts[r]

\* The loss of control is on record before anything acts on it: health never reads
\* healthy once the observer reacts to a fatal result or the handle was drained
\* for it, a latched lane runs no work, and the handle is drained once however
\* Stop, the observer and an early fatal result (before Observe) race.
FatalIsDeclared ==
  /\ observer = "reacting" \/ fatal => recorded /\ ~open
  /\ handle \in {"draining", "closed"} /\ owner = "running" => recorded
  /\ ~open => work.pc = "none"
  /\ drains <= 1

\* The lane always comes to rest: while the process runs and the lane is open
\* every request is settled or spends its deliveries, a lane that latched is
\* drained to the end, and Stop returns, also when it races the observer's drain
\* of the same handle.
LaneProgress ==
  []<>/\ owner = "running" /\ open => \A r \in Reqs : req[r] \in Settled \union {"exhausted"}
      /\ ~open => handle \in {"closed", "none"}
      /\ owner \notin {"starting", "closing", "joining"}
=============================================================================
