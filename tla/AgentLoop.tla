------------------------------ MODULE AgentLoop ------------------------------
(***************************************************************************)
(* The life of one agent loop in processor/agentic-loop: its birth from a  *)
(* task, the answers of the model, a cancel, and the terminal owner that   *)
(* commits how it ended.                                                   *)
(*                                                                         *)
(* Several processes consume the same three durable lanes.  What they share*)
(* is the loop record (one key, written by Create and by compare-and-swap),*)
(* the marker COMPLETE_<loop> (Create only), the stream of model requests  *)
(* and the published terminal events.  What a process knows of the loop is *)
(* in its memory, which each of its lanes reads and changes.  A call that  *)
(* leaves the process is a step of its own; every fault the code has a     *)
(* branch for spends one of MaxFaults.                                     *)
(*                                                                         *)
(* The loop calls no tool, has no approval gate and gets no second turn:   *)
(* its requests are the first one and the retry of a truncated answer.     *)
(***************************************************************************)
EXTENDS Naturals, FiniteSets

CONSTANTS Procs,      \* processes
          Repeated,   \* requests the model may answer again
          FaultKinds, \* faults that happen: see Fault
          MaxFaults   \* bound on faults

VARIABLES
  record,   \* the loop record: its revision, state and published request
  marker,   \* COMPLETE_<loop>: the kind of the durable terminal
  events,   \* kinds of terminal event published
  stored,   \* model requests retained on the stream
  answer,   \* the model's answer to a request
  msg,      \* the server's state of a message
  mem,      \* a process's memory of the loop
  op,       \* what a lane of a process is doing
  latched,  \* lanes of a process that lost their delivery ownership
  faults    \* faults so far

durable == <<record, marker, events, stored>>
server == <<answer, msg>>
vars == <<durable, server, mem, op, latched, faults>>

Lanes == {"task", "response", "cancel"}
Kinds == {"complete", "failed", "cancelled"}
Reqs == {1, 2}      \* iteration 1 and its retry, in the order of looprequest.Compare
Msgs == {<<"task", 0>>, <<"cancel", 0>>} \union ({"response"} \X Reqs)

None == "none"
NoMem == [state |-> None, req |-> 0, out |-> 0, rev |-> 0]
Idle == [pc |-> "idle", r |-> 0, req |-> 0, rev |-> 0, kind |-> None, adopted |-> FALSE]
Newest == IF stored = {} THEN 0 ELSE CHOOSE r \in stored : \A q \in stored : q <= r

Final == {"settled", "termed"}     \* acknowledged, terminated

Held(p) == mem[p].state # None
Terminal(s) == s \in Kinds
Stale == record.state = None \/ Terminal(record.state)   \* loopPresenceStale

Init ==
  /\ record = [rev |-> 0, state |-> None, req |-> 0]
  /\ marker = None /\ events = {} /\ stored = {}
  /\ answer = [r \in Reqs |-> None]
  /\ msg = [m \in Msgs |-> IF m[1] = "response" THEN "unsent" ELSE "ready"]
  /\ mem = [p \in Procs |-> NoMem]
  /\ op = [p \in Procs |-> [l \in Lanes |-> Idle]]
  /\ latched = [p \in Procs |-> {}]
  /\ faults = 0

Fault(kind) == kind \in FaultKinds /\ faults < MaxFaults /\ faults' = faults + 1
NoFault == UNCHANGED faults

-----------------------------------------------------------------------------
(* Delivery and settlement.  A message is delivered to one lane of one     *)
(* process; a Retry returns it, a Terminate never does, a Quarantine       *)
(* returns it and latches the lane until the process is replaced.          *)

At(p, l, pc) == op[p][l].pc = pc
Message(p, l) == <<l, op[p][l].r>>
Go(p, l, o) == op' = [op EXCEPT ![p][l] = o]
Then(p, l, pc) == Go(p, l, [op[p][l] EXCEPT !.pc = pc])

Settle(p, l, s) ==
  /\ Go(p, l, Idle)
  /\ msg' = [msg EXCEPT ![Message(p, l)] = IF @ \in Final THEN @ ELSE s]
Ack(p, l) == Settle(p, l, "settled") /\ UNCHANGED <<answer, latched>>
Retry(p, l) == Settle(p, l, "ready") /\ UNCHANGED <<answer, latched>>
Terminate(p, l) == Settle(p, l, "termed") /\ UNCHANGED <<answer, latched>>
Quarantine(p, l) ==
  /\ Settle(p, l, "ready") /\ UNCHANGED answer
  /\ latched' = [latched EXCEPT ![p] = @ \union {l}]
Continue(p, l, pc) == Then(p, l, pc) /\ UNCHANGED <<server, latched>>

Remember(p, m) == mem' = [mem EXCEPT ![p] = m]
Release(p) == Remember(p, NoMem)

\* One message of a lane is outstanding at a time (MaxAckPending is 1).
Deliver(p, l) ==
  /\ At(p, l, "idle") /\ l \notin latched[p]
  /\ \A m \in Msgs : m[1] = l => msg[m] # "out"
  /\ \E m \in Msgs : /\ m[1] = l /\ msg[m] = "ready"
                     /\ msg' = [msg EXCEPT ![m] = "out"]
                     /\ Go(p, l, [Idle EXCEPT !.pc = "start", !.r = m[2]])
  /\ UNCHANGED <<durable, answer, mem, latched, faults>>

\* The server redelivers a message whose handler still runs.
LeaseEnds(p, l) ==
  /\ ~At(p, l, "idle") /\ msg[Message(p, l)] = "out" /\ Fault("lease")
  /\ msg' = [msg EXCEPT ![Message(p, l)] = "ready"]
  /\ UNCHANGED <<durable, answer, mem, op, latched>>

\* The process is replaced.
Crash(p) ==
  /\ Fault("crash")
  /\ \/ Held(p) \/ \E l \in Lanes : ~At(p, l, "idle") \/ l \in latched[p]
  /\ msg' = [m \in Msgs |->
       IF /\ msg[m] = "out" /\ ~At(p, m[1], "idle") /\ Message(p, m[1]) = m
          /\ \A q \in Procs \ {p} : At(q, m[1], "idle") \/ Message(q, m[1]) # m
       THEN "ready" ELSE msg[m]]
  /\ Release(p)
  /\ op' = [op EXCEPT ![p] = [l \in Lanes |-> Idle]]
  /\ latched' = [latched EXCEPT ![p] = {}]
  /\ UNCHANGED <<durable, answer>>

\* The model answers a retained request, and may answer it again, with another outcome,
\* after a publish that stayed in doubt (ModelLane).  A handler left over from a lease
\* that ended may act on either answer.  An error is not told apart from an answer that
\* fails the loop for another reason, as every answer may.
Model(r) ==
  /\ r \in stored
  /\ msg[<<"response", r>>] = "unsent" \/ (r \in Repeated /\ msg[<<"response", r>>] = "settled")
  /\ \E a \in {"complete", "truncated"} : answer' = [answer EXCEPT ![r] = a]
  /\ msg' = [msg EXCEPT ![<<"response", r>>] = "ready"]
  /\ UNCHANGED <<durable, mem, op, latched, faults>>

-----------------------------------------------------------------------------
(* The terminal owner: marker, event (with the stamp on the graph), record,*)
(* in this order, on whichever lane ended the loop.  A commit that does    *)
(* not land releases the loop.                                             *)

\* kind is the outcome this lane derived, and memory already holds it.
Commit(p, l, kind) ==
  /\ Remember(p, [mem[p] EXCEPT !.state = kind])
  /\ Go(p, l, [op[p][l] EXCEPT !.pc = "marker", !.kind = kind])
  /\ UNCHANGED <<server, latched>>

Unknown(p, l) == Release(p) /\ Quarantine(p, l)

\* Mutant: the marker of another lane is found and this lane's outcome kept.
createTerminalMarker_KeepsOwn(p, l) ==
  /\ At(p, l, "marker")
  /\ LET kind == op[p][l].kind
     IN \/ /\ marker' = (IF marker = None THEN kind ELSE marker)
           /\ Continue(p, l, "event") /\ NoFault /\ UNCHANGED mem
        \/ marker' \in {marker, kind} /\ Fault("kv") /\ Unknown(p, l)
  /\ UNCHANGED <<record, events, stored>>

\* A marker that is already there replaces the outcome of this lane.  The arm for a loop
\* without a bucket or an outcome without an event is left out: no lane here meets it.
createTerminalMarker(p, l) ==
  /\ At(p, l, "marker")
  /\ LET adopted == marker # None
         kind == IF adopted THEN marker ELSE op[p][l].kind
     IN \/ /\ marker' = kind /\ NoFault /\ UNCHANGED <<mem, server, latched>>
           /\ Go(p, l, [op[p][l] EXCEPT !.pc = "event", !.kind = kind, !.adopted = adopted])
        \/ marker' \in {marker, kind} /\ Fault("kv") /\ Unknown(p, l)
  /\ UNCHANGED <<record, events, stored>>

publishTerminal(p, l) ==
  /\ At(p, l, "event")
  /\ \/ /\ events' = events \union {op[p][l].kind}
        /\ NoFault /\ Continue(p, l, "persist") /\ UNCHANGED mem
     \/ /\ events' \in {events, events \union {op[p][l].kind}}
        /\ Fault("publish") /\ Unknown(p, l)
  /\ UNCHANGED <<record, marker, stored>>

Written(state, req) == record' = [rev |-> record.rev + 1, state |-> state, req |-> req]

\* settleTerminal re-seats the loop only when the marker was adopted; the record
\* is then rendered from memory as it is.
persistTerminal(p, l) ==
  /\ At(p, l, "persist")
  /\ LET held == mem[p]
         state == IF op[p][l].adopted THEN op[p][l].kind ELSE held.state
     IN \/ /\ ~Held(p) \/ held.rev = 0
           /\ Unknown(p, l) /\ NoFault /\ UNCHANGED record
        \/ /\ Held(p) /\ held.rev # 0 /\ held.rev # record.rev
           /\ Release(p) /\ Retry(p, l) /\ NoFault /\ UNCHANGED record
        \/ /\ Held(p) /\ held.rev # 0 /\ held.rev = record.rev
           /\ \/ Written(state, held.req) /\ Release(p) /\ Ack(p, l) /\ NoFault
              \/ /\ Written(state, held.req) \/ UNCHANGED record
                 /\ Fault("kv") /\ Unknown(p, l)
  /\ UNCHANGED <<marker, events, stored>>

\* TransitionTo refuses a loop that is gone or ended in another way: handleLoopFailure
\* then only releases it.
handleLoopFailure(p, l) ==
  IF mem[p].state \in {"live", "failed"} THEN Commit(p, l, "failed")
  ELSE Release(p) /\ Retry(p, l)

\* findLoopIDForRequest: a held loop, or a route that outlived its loop.
Routed(p) == Held(p) \/ mem[p].out = op[p]["response"].r

\* A record, a marker or a retained request that cannot be read is retried.  It changes
\* nothing, so it happens at any time and spends no fault.
ReadFails(p, l) ==
  /\ \/ op[p][l].pc \in {"guard", "restore", "unheld", "rewrite"}
     \/ At(p, l, "start") /\ l = "task" /\ ~Held(p)
     \/ At(p, l, "start") /\ l = "response" /\ ~Routed(p)
  /\ Retry(p, l)
  /\ UNCHANGED <<durable, mem, faults>>

\* settleTerminalGuard: the record decides.
settleTerminalGuard(p, l) ==
  /\ At(p, l, "guard")
  /\ IF Stale THEN Ack(p, l) ELSE Retry(p, l)
  /\ UNCHANGED <<durable, mem, faults>>

-----------------------------------------------------------------------------
(* The task lane: birth.                                                   *)

\* classifyRedeliveredTask: a held loop is HandleTask's to answer, otherwise the
\* record answers.
classifyRedeliveredTask(p) ==
  LET l == "task" IN
  /\ At(p, l, "start")
  /\ \/ ~Held(p) /\ Terminal(record.state) /\ Ack(p, l)
     \/ /\ ~Held(p) /\ record.state = "live"
        /\ IF record.req = 1 /\ stored = {}
           THEN /\ Go(p, l, [op[p][l] EXCEPT !.pc = "seat", !.rev = record.rev])
                /\ UNCHANGED <<server, latched>>
           ELSE Ack(p, l)
     \/ (Held(p) \/ record.state = None) /\ Continue(p, l, "seat")
  /\ UNCHANGED <<durable, mem, faults>>

\* HandleTask: a task whose loop is held is a duplicate, or is refused for good when
\* the loop ended; otherwise the loop is seated with its first request.
HandleTask(p) ==
  LET l == "task" IN
  /\ At(p, l, "seat")
  /\ \/ mem[p].state = "live" /\ Ack(p, l) /\ UNCHANGED mem
     \/ Terminal(mem[p].state) /\ Terminate(p, l) /\ UNCHANGED mem
     \/ /\ ~Held(p) /\ Continue(p, l, "graph")
        /\ Remember(p, [state |-> "live", req |-> 1, out |-> 1, rev |-> 0])
  /\ UNCHANGED <<durable, faults>>

\* WriteSpawnIdentity, and handleSpawnIdentityFailure when it fails.
WriteSpawnIdentity(p) ==
  LET l == "task" IN
  /\ At(p, l, "graph")
  /\ \/ Continue(p, l, "record") /\ NoFault /\ UNCHANGED mem
     \/ Fault("graph") /\ handleLoopFailure(p, l)
  /\ UNCHANGED durable

\* Mutant: a birth that failed keeps its loop.
createLoopState_KeepsLoop(p) ==
  LET l == "task" IN
  /\ At(p, l, "record")
  /\ \/ ~Held(p) /\ Retry(p, l) /\ NoFault /\ UNCHANGED <<record, mem>>
     \/ /\ Held(p) /\ op[p][l].rev # 0
        /\ Remember(p, [mem[p] EXCEPT !.rev = op[p][l].rev])
        /\ Continue(p, l, "publish") /\ NoFault /\ UNCHANGED record
     \/ /\ Held(p) /\ op[p][l].rev = 0 /\ record.state = None
        /\ \/ /\ Written(mem[p].state, mem[p].req)
              /\ Remember(p, [mem[p] EXCEPT !.rev = record.rev + 1])
              /\ Continue(p, l, "publish") /\ NoFault
           \/ Fault("kv") /\ Retry(p, l) /\ UNCHANGED <<record, mem>>
  /\ UNCHANGED <<marker, events, stored>>

\* A birth creates the record from memory as it is; a republication takes over the
\* revision of the record it read.  A record above the payload ceiling is refused by the
\* client, wherever the bucket stands, and fails the loop in memory.
createLoopState(p) ==
  LET l == "task" IN
  /\ At(p, l, "record")
  /\ LET refused == Release(p) /\ Retry(p, l)
     IN \/ ~Held(p) /\ refused /\ NoFault /\ UNCHANGED record
        \/ /\ Held(p) /\ op[p][l].rev # 0
           /\ Remember(p, [mem[p] EXCEPT !.rev = op[p][l].rev])
           /\ Continue(p, l, "publish") /\ NoFault /\ UNCHANGED record
        \/ /\ Held(p) /\ op[p][l].rev = 0 /\ record.state # None
           /\ refused /\ NoFault /\ UNCHANGED record
        \/ /\ Held(p) /\ op[p][l].rev = 0 /\ record.state = None
           /\ \/ /\ Written(mem[p].state, mem[p].req)
                 /\ Remember(p, [mem[p] EXCEPT !.rev = record.rev + 1])
                 /\ Continue(p, l, "publish") /\ NoFault
              \/ /\ Written(mem[p].state, mem[p].req) \/ UNCHANGED record
                 /\ Fault("kv") /\ refused
        \/ /\ Held(p) /\ op[p][l].rev = 0 /\ Fault("payload") /\ UNCHANGED record
           /\ Remember(p, [mem[p] EXCEPT !.state = IF @ = "live" THEN "failed" ELSE @])
           /\ Continue(p, l, "oversized")
  /\ UNCHANGED <<marker, events, stored>>

\* terminateOversizedBirth, after its stamp on the graph: no marker, no event, no record.
terminateOversizedBirth(p) ==
  LET l == "task" IN
  /\ At(p, l, "oversized")
  /\ Release(p) /\ Terminate(p, l)
  /\ UNCHANGED <<durable, faults>>

\* publishResults of the birth: the delivery is acknowledged once R1 is retained.
publishFirstRequest(p) ==
  LET l == "task" IN
  /\ At(p, l, "publish")
  /\ \/ stored' = stored \union {1} /\ Newest <= 1 /\ Ack(p, l) /\ NoFault /\ UNCHANGED mem
     \/ Newest > 1 /\ Unknown(p, l) /\ NoFault /\ UNCHANGED stored
     \/ /\ stored' \in {stored, stored \union {1}} /\ Newest = 0
        /\ Fault("publish") /\ Release(p) /\ Retry(p, l)
  /\ UNCHANGED <<record, marker, events>>

-----------------------------------------------------------------------------
(* The response lane.                                                      *)

\* settleResponseWithoutLoop: the record is made to name the newest retained request
\* and then orders the response.  The write commits only if nothing wrote since the
\* read, so both are one step; otherwise the delivery is retried.
settleResponseWithoutLoop(p) ==
  LET l == "response"
      r == op[p][l].r
      newer == Newest > record.req
      now == IF newer THEN Newest ELSE record.req
      rev == IF newer THEN record.rev + 1 ELSE record.rev
  IN
  /\ At(p, l, "start") /\ ~Routed(p)
  /\ \/ Stale /\ Ack(p, l) /\ NoFault /\ UNCHANGED record
     \/ /\ ~Stale /\ Newest \in 1..(record.req - 1)
        /\ Quarantine(p, l) /\ NoFault /\ UNCHANGED record
     \/ ~Stale /\ newer /\ Retry(p, l) /\ NoFault /\ UNCHANGED record
     \/ /\ ~Stale /\ newer /\ Fault("kv")
        /\ Retry(p, l) /\ (UNCHANGED record \/ Written("live", now))
     \/ /\ ~Stale /\ Newest \notin 1..(record.req - 1) /\ NoFault
        /\ IF newer THEN Written("live", now) ELSE UNCHANGED record
        /\ \/ r < now /\ Ack(p, l)
           \/ r > now /\ Retry(p, l)
           \/ /\ r = now /\ UNCHANGED <<server, latched>>
              /\ Go(p, l, [op[p][l] EXCEPT !.pc = "restore", !.req = now, !.rev = rev])
  /\ UNCHANGED <<marker, events, stored, mem>>

\* Mutant: the restored loop does not wait for its request.
restoreLoopFromEvidence_Untracked(p) ==
  LET l == "response" IN
  /\ At(p, l, "restore")
  /\ IF Newest # op[p][l].req \/ Held(p) THEN Retry(p, l) /\ UNCHANGED mem
     ELSE /\ Remember(p, [state |-> "live", req |-> op[p][l].req, out |-> 0, rev |-> op[p][l].rev])
          /\ Continue(p, l, "apply")
  /\ UNCHANGED <<durable, faults>>

\* restoreLoopFromEvidence refuses a request that moved and a loop that is held.
restoreLoopFromEvidence(p) ==
  LET l == "response" IN
  /\ At(p, l, "restore")
  /\ IF Newest # op[p][l].req \/ Held(p) THEN Retry(p, l) /\ UNCHANGED mem
     ELSE /\ Remember(p, [state |-> "live", req |-> op[p][l].req, out |-> op[p][l].req,
                          rev |-> op[p][l].rev])
          /\ Continue(p, l, "apply")
  /\ UNCHANGED <<durable, faults>>

\* HandleModelResponse orders the answer by the loop as GetLoop saw it: one the loop is
\* past is acknowledged, one it does not know yet is retried.
orderResponse(p) ==
  LET l == "response"
      r == op[p][l].r
  IN
  /\ At(p, l, "apply") \/ (At(p, l, "start") /\ Routed(p))
  /\ \/ ~Held(p) /\ Release(p) /\ Retry(p, l)
     \/ Held(p) /\ r < mem[p].req /\ Ack(p, l) /\ UNCHANGED mem
     \/ Held(p) /\ r > mem[p].req /\ Retry(p, l) /\ UNCHANGED mem
     \/ /\ Held(p) /\ r = mem[p].req /\ UNCHANGED mem
        /\ Continue(p, l, IF mem[p].state = "live" THEN "current" ELSE "ended")
  /\ UNCHANGED <<durable, faults>>

\* OutstandingRequest and SettleRequest: an answer the loop no longer waits for was
\* applied already.
settleRequest(p) ==
  LET l == "response"
      waits == mem[p].out = op[p][l].r
  IN
  /\ \/ op[p][l].pc \in {"current", "ended"} /\ ~waits /\ Ack(p, l) /\ UNCHANGED mem
     \/ At(p, l, "ended") /\ waits /\ Continue(p, l, "guard") /\ UNCHANGED mem
     \/ /\ At(p, l, "current") /\ waits /\ Continue(p, l, "decide")
        /\ Remember(p, [mem[p] EXCEPT !.out = 0])
  /\ UNCHANGED <<durable, faults>>

\* GenerateRequestID: the retry of the published request, or R1 for a loop that is gone.
Minted(p) == IF Held(p) THEN mem[p].req + 1 ELSE 1

\* The rest of HandleModelResponse.  The loop completes, fails (an error, a deadline,
\* an iteration limit, a truncation that is not retried) or, at a first truncation,
\* asks once more.  A transition that is refused goes through handleLoopFailure.
HandleModelResponse(p) ==
  LET l == "response"
      status == answer[op[p][l].r]
  IN
  /\ At(p, l, "decide")
  /\ \/ /\ status = "complete"
        /\ IF mem[p].state \in {"live", "complete"} THEN Commit(p, l, "complete")
           ELSE handleLoopFailure(p, l)
     \/ handleLoopFailure(p, l)
     \/ /\ status = "truncated" /\ mem[p].req < 2
        /\ Remember(p, [mem[p] EXCEPT !.out = Minted(p)])
        /\ Go(p, l, [op[p][l] EXCEPT !.pc = "carry", !.req = Minted(p)])
        /\ UNCHANGED <<server, latched>>
  /\ UNCHANGED <<durable, faults>>

\* persistHandlerResult, entry check: a loop that ended or is gone meanwhile.
persistHandlerResult(p) ==
  LET l == "response" IN
  /\ At(p, l, "carry")
  /\ Continue(p, l, IF mem[p].state = "live" THEN "publish" ELSE "guard")
  /\ UNCHANGED <<durable, mem, faults>>

\* publishResults with adoptRetainedRequest; a failure does not release the loop.
publishNextRequest(p) ==
  LET l == "response"
      n == op[p][l].req
  IN
  /\ At(p, l, "publish")
  /\ \/ stored' = stored \union {n} /\ Newest <= n /\ Continue(p, l, "stamp") /\ NoFault
     \/ Newest > n /\ Quarantine(p, l) /\ NoFault /\ UNCHANGED stored
     \/ /\ stored' \in {stored, stored \union {n}} /\ Newest < n
        /\ Fault("publish") /\ Quarantine(p, l)
  /\ UNCHANGED <<record, marker, events, mem>>

stampPublishedRequest(p) ==
  LET l == "response" IN
  /\ At(p, l, "stamp")
  /\ IF Held(p) THEN /\ Remember(p, [mem[p] EXCEPT !.req = op[p][l].req])
                     /\ Continue(p, l, "write")
     ELSE Continue(p, l, "guard") /\ UNCHANGED mem
  /\ UNCHANGED <<durable, faults>>

\* Mutant: the record is put whatever its revision.
writeLoopRecord_NoCAS(p) ==
  LET l == "response" IN
  /\ At(p, l, "write")
  /\ \/ /\ mem[p].state # "live" /\ Continue(p, l, "guard")
        /\ UNCHANGED <<record, mem>>
     \/ /\ mem[p].state = "live" /\ Written(mem[p].state, mem[p].req)
        /\ Remember(p, [mem[p] EXCEPT !.rev = record.rev + 1]) /\ Ack(p, l)
  /\ NoFault /\ UNCHANGED <<marker, events, stored>>

\* writeLoopRecord of a result that is not terminal.
writeLoopRecord(p) ==
  LET l == "response"
      written == Written(mem[p].state, mem[p].req)
  IN
  /\ At(p, l, "write")
  /\ \/ /\ mem[p].state # "live" /\ Continue(p, l, "guard")
        /\ NoFault /\ UNCHANGED <<record, mem>>
     \/ /\ mem[p].state = "live" /\ mem[p].rev = 0
        /\ Quarantine(p, l) /\ NoFault /\ UNCHANGED <<record, mem>>
     \/ /\ mem[p].state = "live" /\ mem[p].rev \notin {0, record.rev}
        /\ Release(p) /\ Retry(p, l) /\ NoFault /\ UNCHANGED record
     \/ /\ mem[p].state = "live" /\ mem[p].rev # 0 /\ mem[p].rev = record.rev
        /\ \/ /\ written /\ Remember(p, [mem[p] EXCEPT !.rev = record.rev + 1])
              /\ Ack(p, l) /\ NoFault
           \/ /\ written \/ UNCHANGED record
              /\ Fault("kv") /\ Quarantine(p, l) /\ UNCHANGED mem
  /\ UNCHANGED <<marker, events, stored>>

-----------------------------------------------------------------------------
(* The cancel lane.                                                        *)

\* CancelLoop ends a live loop in memory and commits; a loop that ended is done with.
handleCancelSignal(p) ==
  LET l == "cancel" IN
  /\ At(p, l, "start")
  /\ \/ mem[p].state = "live" /\ Commit(p, l, "cancelled")
     \/ Terminal(mem[p].state) /\ Ack(p, l) /\ UNCHANGED mem
     \/ ~Held(p) /\ Continue(p, l, "unheld") /\ UNCHANGED mem
  /\ UNCHANGED <<durable, faults>>

\* settleUncancellableLoop: a live record belongs to another process, unless the
\* marker already holds a cancel, which is then finished here.
settleUncancellableLoop(p) ==
  LET l == "cancel" IN
  /\ At(p, l, "unheld")
  /\ \/ Stale /\ Ack(p, l)
     \/ ~Stale /\ marker = "cancelled" /\ Continue(p, l, "adopt")
     \/ ~Stale /\ marker # "cancelled" /\ Retry(p, l)
  /\ UNCHANGED <<durable, mem, faults>>

adoptDurableCancel(p) ==
  LET l == "cancel" IN
  /\ At(p, l, "adopt")
  /\ \/ events' = events \union {marker} /\ Continue(p, l, "rewrite") /\ NoFault
     \/ /\ events' \in {events, events \union {marker}}
        /\ Fault("publish") /\ Quarantine(p, l)
  /\ UNCHANGED <<record, marker, stored, mem>>

\* The write commits only if nothing wrote since the read, so both are one step;
\* otherwise the delivery is retried.
writeRecordCancelled(p) ==
  LET l == "cancel" IN
  /\ At(p, l, "rewrite")
  /\ \/ Stale /\ Ack(p, l) /\ NoFault /\ UNCHANGED record
     \/ ~Stale /\ Retry(p, l) /\ NoFault /\ UNCHANGED record
     \/ ~Stale /\ Written("cancelled", record.req) /\ Ack(p, l) /\ NoFault
     \/ /\ ~Stale /\ (Written("cancelled", record.req) \/ UNCHANGED record)
        /\ Fault("kv") /\ Quarantine(p, l)
  /\ UNCHANGED <<marker, events, stored, mem>>

-----------------------------------------------------------------------------
Next ==
  \/ \E r \in Reqs : Model(r)
  \/ \E p \in Procs :
       \/ Crash(p)
       \/ \E l \in Lanes :
            \/ Deliver(p, l) \/ LeaseEnds(p, l) \/ ReadFails(p, l)
            \/ settleTerminalGuard(p, l)
            \/ createTerminalMarker(p, l) \/ publishTerminal(p, l) \/ persistTerminal(p, l)
       \/ classifyRedeliveredTask(p) \/ HandleTask(p) \/ WriteSpawnIdentity(p)
       \/ createLoopState(p) \/ terminateOversizedBirth(p) \/ publishFirstRequest(p)
       \/ settleResponseWithoutLoop(p) \/ restoreLoopFromEvidence(p)
       \/ orderResponse(p) \/ settleRequest(p) \/ HandleModelResponse(p)
       \/ persistHandlerResult(p) \/ publishNextRequest(p) \/ stampPublishedRequest(p)
       \/ writeLoopRecord(p)
       \/ handleCancelSignal(p) \/ settleUncancellableLoop(p) \/ adoptDurableCancel(p)
       \/ writeRecordCancelled(p)

Spec == Init /\ [][Next]_vars

-----------------------------------------------------------------------------
TypeOK ==
  /\ record \in [rev : Nat, state : {None, "live"} \union Kinds, req : {0} \union Reqs]
  /\ marker \in {None} \union Kinds /\ events \subseteq Kinds /\ stored \subseteq Reqs
  /\ answer \in [Reqs -> {None, "complete", "truncated"}]
  /\ msg \in [Msgs -> {"unsent", "ready", "out", "settled", "termed"}]
  /\ \A p \in Procs :
       /\ mem[p].state \in {None, "live"} \union Kinds /\ mem[p].req \in {0} \union Reqs
       /\ mem[p].out \in {0} \union Reqs /\ mem[p].rev \in 0..record.rev
       /\ latched[p] \subseteq Lanes
  /\ faults \in 0..MaxFaults

\* How the loop ended is decided once: every terminal event published, whichever
\* process and lane published it, is of the kind the marker holds, and no record is
\* written terminal before an event is out (commitTerminal's order and adoption).  A
\* record born terminal, revision 1, is the exception: a cancel between HandleTask and
\* createLoopState is written by the birth, ahead of its marker and its event.
CommitOrder ==
  /\ events \subseteq {marker}
  /\ Terminal(record.state) /\ record.rev > 1 => events # {}

\* An acknowledged task has its loop: a record, and while that is live the request it
\* names on the stream (handleTaskMessage's order and its releases).
TaskNotLost ==
  msg[<<"task", 0>>] = "settled" =>
    /\ record.state # None
    /\ record.state = "live" => record.req \in stored

\* Without a fault, an answer is acknowledged under a live record that waits for it
\* only while a process that ended the loop is still committing that, or once that end
\* was published (the orders of HandleModelResponse, settleResponseWithoutLoop and
\* settleTerminalGuard).  The second case happens: a response lane that restored the
\* loop under a cancel in progress makes that cancel write a live record and release
\* the loop, between GetLoop and OutstandingRequest of the answer.
AnswerNotLost ==
  \A r \in Reqs :
    /\ msg[<<"response", r>>] = "settled" /\ faults = 0
    /\ record.state = "live" /\ record.req = r
    => events # {} \/ \E p \in Procs : Terminal(mem[p].state)

\* A loop that ended never runs again and the record never goes back to an older
\* request (Create at birth, compare-and-swap afterwards).
RecordForward ==
  [][/\ Terminal(record.state) => Terminal(record'.state)
     /\ record'.req >= record.req]_record

\* A task whose graph birth fails does not close the task lane
\* (handleSpawnIdentityFailure).
IntakeOpen == \A p \in Procs : "task" \notin latched[p]
=============================================================================
