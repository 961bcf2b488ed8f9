--------------------------- MODULE AgentLoopProofs ---------------------------
(***************************************************************************)
(* Proofs about AgentLoop, for any number of processes and of faults of    *)
(* any kinds: how a loop ended is decided once, its record never goes      *)
(* back, and an acknowledged task has its loop; and, until a first fault,  *)
(* no answer is lost.                                                      *)
(***************************************************************************)
EXTENDS AgentLoop, TLAPS

States == {None, "live"} \union Kinds
Steps == {"idle", "start", "guard", "seat", "graph", "record", "publish", "restore", "apply",
          "current", "ended", "decide", "carry", "stamp", "write", "unheld", "adopt",
          "rewrite", "marker", "event", "persist", "oversized"}
Fates == {"unsent", "ready", "out"} \union Final
Ops == [pc : Steps, r : {0, 1, 2}, req : {0, 1, 2}, rev : Nat, kind : {None} \union Kinds,
        adopted : BOOLEAN]
Mems == [state : States, req : {0, 1, 2}, out : {0, 1, 2}, rev : Nat]

\* The shape of the state.
Shape ==
  /\ record \in [rev : Nat, state : States, req : {0, 1, 2}]
  /\ marker \in {None} \union Kinds /\ events \subseteq Kinds /\ stored \subseteq Reqs
  /\ mem \in [Procs -> Mems]
  /\ op \in [Procs -> [Lanes -> Ops]]
  /\ msg \in [Msgs -> Fates]

\* What is durable hangs together: a record is born with a request, the retry is
\* retained only after the first request, every terminal event is of the marker's
\* kind, and after its birth a record ends only behind an event.
Durable ==
  /\ record.rev = 0 <=> record.state = None
  /\ record.state = None <=> record.req = 0
  /\ record.req = 2 => 2 \in stored
  /\ 2 \in stored => 1 \in stored
  /\ CommitOrder

\* Memory never claims a revision it has not seen; at the record's revision it is no
\* older than the record and has ended if the record has.
Known(m) ==
  /\ m.rev <= record.rev
  /\ m.state = None => m.rev = 0 /\ m.req = 0
  /\ m.state # None => m.req # 0
  /\ m.req = 2 => 2 \in stored
  /\ m.rev = record.rev => m.req >= record.req
  /\ m.rev = record.rev /\ Terminal(record.state) => Terminal(m.state)

\* A lane between its calls: what it read of the record is the record's past or its
\* live present, ...
Sighted(o, l) ==
  /\ o.rev <= record.rev
  /\ o.rev # 0 /\ o.rev = record.rev => ~Terminal(record.state)
  /\ l = "task" /\ o.rev # 0 /\ o.rev = record.rev => record.req = 1
  /\ l = "task" /\ o.pc = "publish" => record.state # None
  /\ o.pc = "guard" => l = "response"
  /\ o.pc = "restore" => o.rev # 0 /\ (o.rev = record.rev => o.req >= record.req)

\* ... the request it carries is at least the one in memory and retained once it is
\* published or restored, ...
Carried(o, l, req) ==
  /\ o.pc = "restore" => o.req # 0
  /\ o.pc \in {"restore", "stamp"} /\ o.req = 2 => 2 \in stored
  /\ l = "response" /\ o.pc \in {"carry", "publish", "stamp"} => o.req # 0 /\ o.req >= req

\* ... and the terminal owner goes from the marker to the event to the record.
Owned(o) ==
  /\ o.pc = "marker" => o.kind \in Kinds
  /\ o.pc \in {"event", "persist"} => o.kind = marker /\ marker \in Kinds
  /\ o.pc \in {"persist", "rewrite"} => events # {}
  /\ o.pc = "adopt" => marker = "cancelled"

OpInv(p, l) ==
  Sighted(op[p][l], l) /\ Carried(op[p][l], l, mem[p].req) /\ Owned(op[p][l])

\* A process holds the loop before its first request is retained only in the middle
\* of its own birth.
Births == {"graph", "record", "oversized", "marker", "event", "persist"}
Rooted(m, pc) ==
  /\ m.state # None /\ pc # "publish" /\ (pc \notin Births \/ m.rev # 0)
  => record.state # None /\ stored # {}

MemInv(p) == Known(mem[p]) /\ Rooted(mem[p], op[p]["task"].pc)

\* No answer before a request; an acknowledged task has its record, and its first
\* request unless the loop has ended.
Messages ==
  /\ stored = {} => /\ \A r \in Reqs : msg[<<"response", r>>] = "unsent"
                    /\ \A p \in Procs : op[p]["response"].pc = "idle"
  /\ msg[<<"task", 0>>] = "settled" =>
       record.state # None /\ (record.state = "live" => stored # {})

\* The inductive invariant.
IInv ==
  /\ Shape /\ Durable /\ Messages
  /\ \A p \in Procs : MemInv(p)
  /\ \A p \in Procs, l \in Lanes : OpInv(p, l)

-----------------------------------------------------------------------------
(* What every step of a lane has in common.                                *)

\* The newest retained request.
LEMMA NewestFacts ==
  ASSUME stored \subseteq Reqs
  PROVE  /\ stored = {} => Newest = 0
         /\ stored # {} => Newest \in stored /\ Newest \in {1, 2}
         /\ 2 \in stored => Newest = 2
         /\ Newest = 2 => 2 \in stored
         /\ Newest \in {0, 1, 2}
  <1>1. CASE stored = {}
    BY <1>1 DEF Newest
  <1>2. CASE stored # {}
    <2>1. \E r \in stored : \A q \in stored : q <= r
      <3>1. CASE 2 \in stored
        BY <3>1 DEF Reqs
      <3>2. CASE 2 \notin stored
        <4>1. stored = {1}
          BY <1>2, <3>2 DEF Reqs
        <4> QED
          BY <4>1
      <3> QED
        BY <3>1, <3>2
    <2>2. Newest \in stored /\ \A q \in stored : q <= Newest
      BY <1>2, <2>1 DEF Newest
    <2> QED
      BY <1>2, <2>2 DEF Reqs
  <1> QED
    BY <1>1, <1>2

\* The durable state only moves on: one revision at a time, the marker once.
Grows ==
  /\ \/ record' = record
     \/ /\ record'.rev = record.rev + 1 /\ record'.state # None
        /\ record'.req >= record.req
        /\ Terminal(record.state) => Terminal(record'.state)
  /\ marker # None => marker' = marker
  /\ events \subseteq events' /\ stored \subseteq stored'
  /\ record' \in [rev : Nat, state : States, req : {0, 1, 2}]
  /\ marker' \in {None} \union Kinds /\ events' \subseteq Kinds /\ stored' \subseteq Reqs

\* The server's part in a step of a lane: nothing, or the settlement of its message.
Served(p, l, s) ==
  \/ s = "out" /\ msg' = msg
  \/ /\ s \in {"ready"} \union Final
     /\ msg' = [msg EXCEPT ![Message(p, l)] = IF @ \in Final THEN @ ELSE s]

\* Lane l of process p goes on with o, and the process then remembers m.
Moves(p, l, o, m) ==
  /\ p \in Procs /\ l \in Lanes /\ o \in Ops /\ m \in Mems
  /\ op' = [op EXCEPT ![p][l] = o] /\ mem' = [mem EXCEPT ![p] = m]

LEMMA MovesFacts ==
  ASSUME Shape, NEW p, NEW l, NEW o, NEW m, Moves(p, l, o, m)
  PROVE  /\ op' \in [Procs -> [Lanes -> Ops]] /\ mem' \in [Procs -> Mems]
         /\ op'[p][l] = o /\ mem'[p] = m
         /\ \A q \in Procs : q # p => op'[q] = op[q] /\ mem'[q] = mem[q]
         /\ \A k \in Lanes : k # l => op'[p][k] = op[p][k]
  BY DEF Moves, Shape

\* A settlement touches the message of its lane only.
LEMMA ServedFacts ==
  ASSUME Shape, NEW p \in Procs, NEW l \in Lanes, NEW s, Served(p, l, s)
  PROVE  /\ msg' \in [Msgs -> Fates]
         /\ l # "response" => \A r \in Reqs : msg'[<<"response", r>>] = msg[<<"response", r>>]
         /\ msg'[<<"task", 0>>] = "settled" =>
              msg[<<"task", 0>>] = "settled" \/ (l = "task" /\ s = "settled")
  <1>1. msg' \in [Msgs -> Fates]
    BY DEF Served, Shape, Fates, Final
  <1>2. /\ <<"task", 0>> \in Msgs
        /\ \A r \in Reqs : <<"response", r>> \in Msgs
    BY DEF Msgs
  <1>3. \A m \in Msgs : m # Message(p, l) => msg'[m] = msg[m]
    BY DEF Served, Shape
  <1>4. l # "response" => \A r \in Reqs : <<"response", r>> # Message(p, l)
    BY DEF Message
  <1>5. l # "task" => <<"task", 0>> # Message(p, l)
    BY DEF Message
  <1>6. ASSUME s # "settled", msg'[<<"task", 0>>] = "settled"
        PROVE  msg[<<"task", 0>>] = "settled"
    BY <1>2, <1>6 DEF Served, Shape, Final
  <1> QED
    BY <1>1, <1>2, <1>3, <1>4, <1>5, <1>6

\* What a lane relies on survives whatever the durable state moves on to.
LEMMA GrowsKeeps ==
  ASSUME Shape, Grows, NEW x \in Ops, NEW k, NEW req
  PROVE  /\ Sighted(x, k) => Sighted(x, k)'
         /\ Carried(x, k, req) => Carried(x, k, req)'
         /\ Owned(x) => Owned(x)'
  <1>1. x.rev \in Nat /\ record.rev \in Nat
    BY DEF Ops, Shape
  <1>2. Sighted(x, k) => Sighted(x, k)'
    <2>1. CASE record' = record
      BY <2>1 DEF Sighted
    <2>2. CASE record'.rev = record.rev + 1 /\ record'.state # None
      BY <1>1, <2>2 DEF Sighted
    <2> QED
      BY <2>1, <2>2 DEF Grows
  <1>3. Carried(x, k, req) => Carried(x, k, req)'
    BY DEF Carried, Grows
  <1>4. Owned(x) => Owned(x)'
    BY DEF Owned, Grows, Kinds, None
  <1> QED
    BY <1>2, <1>3, <1>4

LEMMA GrowsKeepsMem ==
  ASSUME Shape, Grows, NEW m \in Mems, NEW pc
  PROVE  /\ Known(m) => Known(m)'
         /\ Rooted(m, pc) => Rooted(m, pc)'
  <1>1. m.rev \in Nat /\ m.req \in {0, 1, 2} /\ record.rev \in Nat
    BY DEF Mems, Shape
  <1>2. CASE record' = record
    BY <1>2 DEF Known, Rooted, Grows
  <1>3. CASE record'.rev = record.rev + 1 /\ record'.state # None
    <2>1. m.rev <= record.rev => m.rev <= record'.rev /\ m.rev # record'.rev
      BY <1>1, <1>3
    <2> QED
      BY <1>3, <2>1 DEF Known, Rooted, Grows
  <1> QED
    BY <1>2, <1>3 DEF Grows

\* What the other processes know survives whatever the durable state moves on to.
LEMMA OthersKept ==
  ASSUME IInv, NEW p, NEW l, NEW o, NEW m, Moves(p, l, o, m), Grows,
         NEW q \in Procs, q # p
  PROVE  MemInv(q)' /\ \A k \in Lanes : OpInv(q, k)'
  <1>1. op'[q] = op[q] /\ mem'[q] = mem[q]
    BY MovesFacts DEF IInv
  <1>2. mem[q] \in Mems /\ \A k \in Lanes : op[q][k] \in Ops
    BY DEF IInv, Shape
  <1>3. PICK n \in Mems : mem[q] = n /\ mem'[q] = n
    BY <1>1, <1>2
  <1>4. MemInv(q)'
    <2>1. PICK pc : op[q]["task"].pc = pc /\ op'[q]["task"].pc = pc
      BY <1>1
    <2>2. Known(n) /\ Rooted(n, pc)
      BY <1>3, <2>1 DEF IInv, MemInv
    <2>3. Known(n)' /\ Rooted(n, pc)'
      BY <2>2, GrowsKeepsMem DEF IInv
    <2> QED
      BY <1>3, <2>1, <2>3 DEF MemInv
  <1>5. ASSUME NEW k \in Lanes PROVE OpInv(q, k)'
    <2>1. PICK x \in Ops : op[q][k] = x /\ op'[q][k] = x
      BY <1>1, <1>2
    <2>2. Sighted(x, k) /\ Carried(x, k, n.req) /\ Owned(x)
      BY <1>3, <2>1 DEF IInv, OpInv
    <2>3. Sighted(x, k)' /\ Carried(x, k, n.req)' /\ Owned(x)'
      BY <2>2, GrowsKeeps DEF IInv
    <2> QED
      BY <1>3, <2>1, <2>3 DEF OpInv
  <1> QED
    BY <1>4, <1>5

\* The other lanes of the process that moved: they depend on its memory only where
\* the response lane carries a request that memory must not have overtaken.
LEMMA LanesKept ==
  ASSUME IInv, NEW p, NEW l, NEW o, NEW m, Moves(p, l, o, m), Grows,
         l # "response" => m.req <= mem[p].req \/ m.req <= 1,
         NEW k \in Lanes, k # l
  PROVE  OpInv(p, k)'
  <1>1. op'[p][k] = op[p][k] /\ mem'[p] = m
    BY MovesFacts DEF IInv
  <1>2. p \in Procs /\ m \in Mems /\ mem[p] \in Mems /\ op[p][k] \in Ops
    BY DEF IInv, Shape, Moves
  <1>3. PICK x \in Ops : op[p][k] = x /\ op'[p][k] = x
    BY <1>1, <1>2
  <1>4. m.req \in {0, 1, 2} /\ mem[p].req \in {0, 1, 2} /\ x.req \in {0, 1, 2}
    BY <1>2, <1>3 DEF Mems, Ops
  <1>5. Sighted(x, k) /\ Carried(x, k, mem[p].req) /\ Owned(x)
    BY <1>2, <1>3 DEF IInv, OpInv
  <1>6. Carried(x, k, m.req)
    BY <1>4, <1>5 DEF Carried
  <1>7. Sighted(x, k)' /\ Carried(x, k, m.req)' /\ Owned(x)'
    BY <1>5, <1>6, GrowsKeeps DEF IInv
  <1> QED
    BY <1>1, <1>3, <1>7 DEF OpInv

\* What the messages say survives a step of a lane, unless it acknowledges the task.
LEMMA MessagesKept ==
  ASSUME IInv, NEW p, NEW l, NEW o, NEW m, Moves(p, l, o, m), Grows,
         ~At(p, l, "idle"), NEW s, Served(p, l, s),
         l = "task" /\ s = "settled" =>
           record'.state # None /\ (record'.state = "live" => stored' # {})
  PROVE  Messages'
  <1>1. /\ l # "response" => \A r \in Reqs : msg'[<<"response", r>>] = msg[<<"response", r>>]
        /\ msg'[<<"task", 0>>] = "settled" =>
             msg[<<"task", 0>>] = "settled" \/ (l = "task" /\ s = "settled")
    BY ServedFacts DEF IInv, Moves
  <1>2. /\ \A q \in Procs : q # p => op'[q] = op[q]
        /\ \A k \in Lanes : k # l => op'[p][k] = op[p][k]
        /\ p \in Procs /\ l \in Lanes
    BY MovesFacts DEF IInv, Moves
  <1>3. ASSUME stored' = {}
        PROVE  /\ \A r \in Reqs : msg'[<<"response", r>>] = "unsent"
               /\ \A q \in Procs : op'[q]["response"].pc = "idle"
    <2>1. stored = {}
      BY <1>3 DEF Grows
    <2>2. /\ \A r \in Reqs : msg[<<"response", r>>] = "unsent"
          /\ \A q \in Procs : op[q]["response"].pc = "idle"
      BY <2>1 DEF IInv, Messages
    <2>3. l # "response"
      BY <1>2, <2>2 DEF At
    <2>4. \A q \in Procs : op'[q]["response"] = op[q]["response"]
      BY <1>2, <2>3 DEF Lanes
    <2> QED
      BY <1>1, <2>2, <2>3, <2>4
  <1>4. ASSUME msg'[<<"task", 0>>] = "settled"
        PROVE  record'.state # None /\ (record'.state = "live" => stored' # {})
    <2>1. CASE msg[<<"task", 0>>] = "settled"
      <3>1. record.state # None /\ (record.state = "live" => stored # {})
        BY <2>1 DEF IInv, Messages
      <3>2. record.state \in States
        BY DEF IInv, Shape
      <3> QED
        BY <3>1, <3>2 DEF Grows, States, Terminal, Kinds, None
    <2>2. CASE l = "task" /\ s = "settled"
      BY <2>2
    <2> QED
      BY <1>1, <1>4, <2>1, <2>2
  <1> QED
    BY <1>3, <1>4 DEF Messages

\* A step of a process preserves the invariant if it preserves its own part of it.
LEMMA Assembled ==
  ASSUME IInv, NEW p, NEW l, NEW o, NEW m, Moves(p, l, o, m), Grows,
         l # "response" => m.req <= mem[p].req \/ m.req <= 1,
         NEW pc, pc = IF l = "task" THEN o.pc ELSE op[p]["task"].pc,
         msg' \in [Msgs -> Fates],
         Durable', Messages', Known(m)', Rooted(m, pc)',
         Sighted(o, l)', Carried(o, l, m.req)', Owned(o)'
  PROVE  IInv'
  <1>1. Shape'
    BY MovesFacts DEF IInv, Shape, Grows
  <1>2. op'[p][l] = o /\ mem'[p] = m /\ op'[p]["task"].pc = pc
    <2>1. /\ op'[p][l] = o /\ mem'[p] = m
          /\ \A k \in Lanes : k # l => op'[p][k] = op[p][k]
      BY MovesFacts DEF IInv
    <2> QED
      BY <2>1 DEF Lanes
  <1>3. MemInv(p)' /\ OpInv(p, l)'
    BY <1>2 DEF MemInv, OpInv
  <1>4. \A q \in Procs : MemInv(q)'
    BY <1>3, OthersKept
  <1>5. \A q \in Procs, k \in Lanes : OpInv(q, k)'
    BY <1>3, OthersKept, LanesKept
  <1> QED
    BY <1>1, <1>4, <1>5 DEF IInv

\* The same for a lane at work, which may settle its message.
LEMMA Frame ==
  ASSUME IInv, NEW p, NEW l, NEW o, NEW m, Moves(p, l, o, m), Grows,
         l # "response" => m.req <= mem[p].req \/ m.req <= 1,
         ~At(p, l, "idle"), NEW s, Served(p, l, s),
         l = "task" /\ s = "settled" =>
           record'.state # None /\ (record'.state = "live" => stored' # {}),
         NEW pc, pc = IF l = "task" THEN o.pc ELSE op[p]["task"].pc,
         Durable', Known(m)', Rooted(m, pc)',
         Sighted(o, l)', Carried(o, l, m.req)', Owned(o)'
  PROVE  IInv'
  <1>1. msg' \in [Msgs -> Fates]
    BY ServedFacts DEF IInv, Moves
  <1>2. Messages'
    BY MessagesKept
  <1> QED
    BY <1>1, <1>2, Assembled

-----------------------------------------------------------------------------
(* The kinds of step a lane takes.                                         *)

\* What is durable stays.
LEMMA Quiet ==
  ASSUME IInv, UNCHANGED durable
  PROVE  Grows /\ Durable'
  <1>1. record' = record /\ marker' = marker /\ events' = events /\ stored' = stored
    BY DEF durable
  <1>2. Grows
    BY <1>1 DEF IInv, Shape, Grows
  <1>3. Durable'
    BY <1>1 DEF IInv, Durable, CommitOrder
  <1> QED
    BY <1>2, <1>3

\* The record is written: it moves on, and ends only behind an event or at its birth.
LEMMA Writes ==
  ASSUME IInv, NEW s \in States \ {None}, NEW r \in {1, 2}, Written(s, r),
         UNCHANGED <<marker, events, stored>>,
         r >= record.req, Terminal(record.state) => Terminal(s), r = 2 => 2 \in stored,
         Terminal(s) => record.rev = 0 \/ events # {}
  PROVE  /\ Grows /\ Durable'
         /\ record'.rev = record.rev + 1 /\ record'.state = s /\ record'.req = r
  <1>1. /\ record'.rev = record.rev + 1 /\ record'.state = s /\ record'.req = r
        /\ record' = [rev |-> record.rev + 1, state |-> s, req |-> r]
    BY DEF Written
  <1>2. record.rev \in Nat
    BY DEF IInv, Shape
  <1>3. record' \in [rev : Nat, state : States, req : {0, 1, 2}]
    BY <1>1, <1>2
  <1>4. Grows
    BY <1>1, <1>3 DEF IInv, Shape, Grows
  <1>5. record'.rev # 0 /\ (record.rev = 0 => ~(record'.rev > 1))
    BY <1>1, <1>2
  <1>6. CommitOrder'
    BY <1>1, <1>5 DEF IInv, Durable, CommitOrder
  <1>7. Durable'
    BY <1>1, <1>5, <1>6 DEF IInv, Durable
  <1> QED
    BY <1>1, <1>4, <1>7

\* A lane that is done relies on nothing.
LEMMA IdleFacts ==
  ASSUME Shape, Grows, NEW l, NEW req
  PROVE  Idle \in Ops /\ Idle.pc = "idle"
         /\ Sighted(Idle, l)' /\ Carried(Idle, l, req)' /\ Owned(Idle)'
  <1>1. Idle \in Ops
    BY DEF Idle, Ops, Steps
  <1>2. record'.rev \in Nat
    BY DEF Grows
  <1>3. Sighted(Idle, l)'
    BY <1>2 DEF Sighted, Idle
  <1>4. Carried(Idle, l, req)' /\ Owned(Idle)'
    BY DEF Carried, Owned, Idle
  <1> QED
    BY <1>1, <1>3, <1>4 DEF Idle

\* A process that released the loop claims nothing.
LEMMA NoMemFacts ==
  ASSUME Shape, Grows, Durable', NEW pc
  PROVE  NoMem \in Mems /\ NoMem.req = 0 /\ Known(NoMem)' /\ Rooted(NoMem, pc)'
  <1>1. record'.rev \in Nat /\ record'.req \in {0, 1, 2}
    BY DEF Grows
  <1>2. NoMem.rev = 0 /\ NoMem.req = 0 /\ NoMem.state = None
    BY DEF NoMem
  <1>3. Known(NoMem)'
    BY <1>1, <1>2 DEF Known, Durable, Terminal, Kinds, None
  <1>4. NoMem \in Mems
    BY DEF NoMem, Mems, States
  <1> QED
    BY <1>2, <1>3, <1>4 DEF Rooted

\* The lane settles its message and the process releases the loop.
LEMMA Releases ==
  ASSUME IInv, NEW p \in Procs, NEW l \in Lanes, ~At(p, l, "idle"),
         NEW s \in {"ready"} \union Final, Settle(p, l, s), Release(p), Grows, Durable',
         l = "task" /\ s = "settled" =>
           record'.state # None /\ (record'.state = "live" => stored' # {})
  PROVE  IInv'
  <1>1. PICK pc : pc = IF l = "task" THEN Idle.pc ELSE op[p]["task"].pc
    OBVIOUS
  <1>2. Idle \in Ops /\ Sighted(Idle, l)' /\ Carried(Idle, l, NoMem.req)' /\ Owned(Idle)'
    BY IdleFacts DEF IInv
  <1>3. NoMem \in Mems /\ NoMem.req = 0 /\ Known(NoMem)' /\ Rooted(NoMem, pc)'
    BY NoMemFacts DEF IInv
  <1>4. Moves(p, l, Idle, NoMem)
    BY <1>2, <1>3 DEF Moves, Settle, Go, Release, Remember
  <1>5. Served(p, l, s)
    BY DEF Served, Settle
  <1> QED
    BY <1>1, <1>2, <1>3, <1>4, <1>5, Frame

\* The lane goes on, or settles its message, and the process remembers what it did.
LEMMA Keeps ==
  ASSUME IInv, NEW p \in Procs, NEW l \in Lanes, ~At(p, l, "idle"),
         NEW o \in Ops, Go(p, l, o), UNCHANGED mem, NEW s, Served(p, l, s), Grows, Durable',
         l = "task" /\ s = "settled" =>
           record'.state # None /\ (record'.state = "live" => stored' # {}),
         NEW m, m = mem[p], l = "task" => Rooted(m, o.pc)',
         Sighted(o, l)', Carried(o, l, m.req)', Owned(o)'
  PROVE  IInv'
  <1>1. PICK pc : pc = IF l = "task" THEN o.pc ELSE op[p]["task"].pc
    OBVIOUS
  <1>2. m \in Mems /\ m.req \in {0, 1, 2}
    BY DEF IInv, Shape, Mems
  <1>3. Moves(p, l, o, m)
    BY <1>2 DEF Moves, Go, IInv, Shape
  <1>4. Known(m) /\ (l # "task" => Rooted(m, pc))
    BY <1>1 DEF IInv, MemInv
  <1>5. Known(m)' /\ Rooted(m, pc)'
    BY <1>1, <1>2, <1>4, GrowsKeepsMem DEF IInv
  <1>6. m.req <= mem[p].req
    BY <1>2
  <1> QED
    BY <1>1, <1>3, <1>5, <1>6, Frame

\* The lane settles its message and the loop stays as it is.
LEMMA Leaves ==
  ASSUME IInv, NEW p \in Procs, NEW l \in Lanes, ~At(p, l, "idle"),
         NEW s \in {"ready"} \union Final, Settle(p, l, s), UNCHANGED mem, Grows, Durable',
         l = "task" /\ s = "settled" =>
           record'.state # None /\ (record'.state = "live" => stored' # {}),
         l = "task" /\ Held(p) => record'.state # None /\ stored' # {}
  PROVE  IInv'
  <1>1. PICK m : m = mem[p]
    OBVIOUS
  <1>2. Idle \in Ops /\ Sighted(Idle, l)' /\ Carried(Idle, l, m.req)' /\ Owned(Idle)'
    BY IdleFacts DEF IInv
  <1>3. l = "task" => Rooted(m, Idle.pc)'
    BY <1>1 DEF Rooted, Held
  <1>4. Go(p, l, Idle) /\ Served(p, l, s)
    BY DEF Served, Settle
  <1> QED
    BY <1>1, <1>2, <1>3, <1>4, Keeps

\* The lane goes on and the process remembers something else.
LEMMA Learns ==
  ASSUME IInv, NEW p \in Procs, NEW l \in Lanes, ~At(p, l, "idle"),
         NEW o \in Ops, Go(p, l, o), NEW m \in Mems, Remember(p, m),
         NEW s, Served(p, l, s), Grows, Durable',
         l = "task" /\ s = "settled" =>
           record'.state # None /\ (record'.state = "live" => stored' # {}),
         l # "response" => m.req <= mem[p].req \/ m.req <= 1,
         NEW pc, pc = IF l = "task" THEN o.pc ELSE op[p]["task"].pc,
         Known(m)', Rooted(m, pc)', Sighted(o, l)', Carried(o, l, m.req)', Owned(o)'
  PROVE  IInv'
  <1>1. Moves(p, l, o, m)
    BY DEF Moves, Go, Remember
  <1> QED
    BY <1>1, Frame

\* A lane that goes on to pc keeps what it read, what it carries and what it derived.
LEMMA ToStep ==
  ASSUME IInv, NEW p \in Procs, NEW l \in Lanes, NEW pc \in Steps
  PROVE  \E o \in Ops :
           /\ o = [op[p][l] EXCEPT !.pc = pc]
           /\ o.pc = pc /\ o.req = op[p][l].req /\ o.rev = op[p][l].rev
           /\ o.kind = op[p][l].kind
           /\ /\ pc # "restore" /\ (l = "task" => pc # "publish") /\ (pc = "guard" => l = "response")
              => Sighted(o, l)
  <1>1. op[p][l] \in Ops
    BY DEF IInv, Shape
  <1>2. PICK o : o = [op[p][l] EXCEPT !.pc = pc]
    OBVIOUS
  <1>3. o \in Ops /\ o.pc = pc /\ o.req = op[p][l].req /\ o.rev = op[p][l].rev
        /\ o.kind = op[p][l].kind
    BY <1>1, <1>2 DEF Ops
  <1>4. Sighted(op[p][l], l)
    BY DEF IInv, OpInv
  <1>5. /\ pc # "restore" /\ (l = "task" => pc # "publish") /\ (pc = "guard" => l = "response")
              => Sighted(o, l)
    BY <1>3, <1>4 DEF Sighted
  <1> QED
    BY <1>2, <1>3, <1>5

\* A lane that ends a loop it holds becomes its terminal owner.
LEMMA Commits ==
  ASSUME IInv, NEW p \in Procs, NEW l \in Lanes, ~At(p, l, "idle"), NEW kind \in Kinds,
         Commit(p, l, kind), Held(p), l = "task" => At(p, l, "graph"),
         Grows, Durable', UNCHANGED <<record, stored>>
  PROVE  IInv'
  <1>1. PICK x \in Ops : /\ x = [op[p][l] EXCEPT !.pc = "marker"]
                         /\ x.pc = "marker" /\ x.rev = op[p][l].rev /\ Sighted(x, l)
    BY ToStep DEF Steps
  <1>2. PICK o : o = [op[p][l] EXCEPT !.pc = "marker", !.kind = kind]
    OBVIOUS
  <1>3. op[p][l] \in Ops
    BY DEF IInv, Shape
  <1>4. o \in Ops /\ o.pc = "marker" /\ o.rev = x.rev /\ o.kind = kind
    BY <1>1, <1>2, <1>3 DEF Ops
  <1>5. Sighted(o, l)
    BY <1>1, <1>4 DEF Sighted
  <1>6. PICK n \in Mems : n = mem[p]
    BY DEF IInv, Shape
  <1>7. PICK m : m = [n EXCEPT !.state = kind]
    OBVIOUS
  <1>8. m \in Mems /\ m.state = kind /\ m.rev = n.rev /\ m.req = n.req
    BY <1>6, <1>7 DEF Mems, States
  <1>9. PICK pc : pc = IF l = "task" THEN o.pc ELSE op[p]["task"].pc
    OBVIOUS
  <1>10. Known(n) /\ Rooted(n, op[p]["task"].pc) /\ n.state # None
    BY <1>6 DEF IInv, MemInv, Held
  <1>11. Known(m) /\ Rooted(m, pc)
    <2>1. Known(m)
      BY <1>8, <1>10 DEF Known, Terminal, Kinds, None
    <2>2. Rooted(m, pc)
      BY <1>4, <1>8, <1>9, <1>10 DEF Rooted, At, Births
    <2> QED
      BY <2>1, <2>2
  <1>12. Known(m)' /\ Rooted(m, pc)' /\ Sighted(o, l)'
    BY <1>4, <1>5, <1>8, <1>11, GrowsKeeps, GrowsKeepsMem DEF IInv
  <1>13. Carried(o, l, m.req)' /\ Owned(o)'
    BY <1>4 DEF Carried, Owned
  <1>14. Go(p, l, o) /\ Remember(p, m) /\ Served(p, l, "out")
    BY <1>2, <1>6, <1>7 DEF Commit, Served, server
  <1>15. m.req <= mem[p].req
    BY <1>6, <1>8 DEF Mems
  <1> QED
    BY <1>4, <1>8, <1>9, <1>12, <1>13, <1>14, <1>15, Learns

-----------------------------------------------------------------------------
(* The terminal owner.                                                     *)

\* A lane that does not know how its call ended releases the loop and is latched.
LEMMA Unknowns ==
  ASSUME IInv, NEW p \in Procs, NEW l \in Lanes, ~At(p, l, "idle"), Unknown(p, l),
         Grows, Durable'
  PROVE  IInv'
  <1>1. Settle(p, l, "ready") /\ Release(p)
    BY DEF Unknown, Quarantine
  <1> QED
    BY <1>1, Releases

LEMMA MarkerStep ==
  ASSUME IInv, NEW p \in Procs, NEW l \in Lanes, createTerminalMarker(p, l)
  PROVE  IInv' /\ Grows
  <1>1. op[p][l].pc = "marker" /\ ~At(p, l, "idle") /\ op[p][l].kind \in Kinds
    BY DEF createTerminalMarker, At, IInv, OpInv, Owned
  <1>2. PICK kind \in Kinds : kind = IF marker # None THEN marker ELSE op[p][l].kind
    BY <1>1 DEF IInv, Shape
  <1>3. PICK adopted \in BOOLEAN : adopted = (marker # None)
    OBVIOUS
  <1>4. /\ marker' \in {marker, kind} /\ UNCHANGED <<record, events, stored>>
        /\ marker # None => kind = marker
    BY <1>2 DEF createTerminalMarker
  <1>5. Grows
    BY <1>4 DEF Grows, IInv, Shape
  <1>6. events \subseteq {marker'}
    <2>1. CASE marker = None
      BY <2>1 DEF IInv, Shape, Durable, CommitOrder, Kinds, None
    <2>2. CASE marker # None
      BY <1>4, <2>2 DEF IInv, Durable, CommitOrder
    <2> QED
      BY <2>1, <2>2
  <1>7. Durable'
    BY <1>4, <1>6 DEF IInv, Durable, CommitOrder
  <1>8. ASSUME Unknown(p, l) PROVE IInv'
    BY <1>1, <1>5, <1>7, <1>8, Unknowns
  <1>9. ASSUME marker' = kind, UNCHANGED <<mem, server, latched>>,
               Go(p, l, [op[p][l] EXCEPT !.pc = "event", !.kind = kind, !.adopted = adopted])
        PROVE  IInv'
    <2>1. PICK o : o = [op[p][l] EXCEPT !.pc = "event", !.kind = kind, !.adopted = adopted]
      OBVIOUS
    <2>2. op[p][l] \in Ops
      BY DEF IInv, Shape
    <2>3. o \in Ops /\ o.pc = "event" /\ o.kind = kind /\ o.rev = op[p][l].rev
      BY <2>1, <2>2 DEF Ops, Steps
    <2>4. Sighted(op[p][l], l)
      BY DEF IInv, OpInv
    <2>5. Sighted(o, l)
      BY <2>3, <2>4 DEF Sighted
    <2>6. PICK m \in Mems : m = mem[p]
      BY DEF IInv, Shape
    <2>7. l = "task" => Rooted(m, o.pc)
      BY <1>1, <2>3, <2>6 DEF IInv, MemInv, Rooted, Births
    <2>8. Sighted(o, l)' /\ (l = "task" => Rooted(m, o.pc)')
      BY <1>5, <2>3, <2>5, <2>7, GrowsKeeps, GrowsKeepsMem DEF IInv
    <2>9. Carried(o, l, m.req)' /\ Owned(o)'
      BY <1>9, <2>3 DEF Carried, Owned
    <2>10. Go(p, l, o) /\ Served(p, l, "out") /\ UNCHANGED mem
      BY <1>9, <2>1 DEF Served, server
    <2> QED
      BY <1>1, <1>5, <1>7, <2>3, <2>6, <2>8, <2>9, <2>10, Keeps
  <1>10. \/ /\ marker' = kind /\ UNCHANGED <<mem, server, latched>>
            /\ Go(p, l, [op[p][l] EXCEPT !.pc = "event", !.kind = kind, !.adopted = adopted])
         \/ Unknown(p, l)
    BY <1>2, <1>3, Zenon DEF createTerminalMarker
  <1> QED
    BY <1>5, <1>8, <1>9, <1>10

LEMMA EventStep ==
  ASSUME IInv, NEW p \in Procs, NEW l \in Lanes, publishTerminal(p, l)
  PROVE  IInv' /\ Grows
  <1>1. /\ op[p][l].pc = "event" /\ ~At(p, l, "idle")
        /\ op[p][l].kind = marker /\ marker \in Kinds
    BY DEF publishTerminal, At, IInv, OpInv, Owned
  <1>2. /\ events' \in {events, events \union {marker}} /\ UNCHANGED <<record, marker, stored>>
    BY <1>1 DEF publishTerminal
  <1>3. Grows
    BY <1>1, <1>2 DEF Grows, IInv, Shape
  <1>4. Durable'
    BY <1>2 DEF IInv, Durable, CommitOrder
  <1>5. ASSUME Unknown(p, l) PROVE IInv'
    BY <1>1, <1>3, <1>4, <1>5, Unknowns
  <1>6. ASSUME events' = events \union {op[p][l].kind}, Continue(p, l, "persist"), UNCHANGED mem
        PROVE  IInv'
    <2>1. PICK o \in Ops : /\ o = [op[p][l] EXCEPT !.pc = "persist"] /\ o.pc = "persist"
                           /\ o.kind = op[p][l].kind /\ Sighted(o, l)
      BY ToStep DEF Steps
    <2>2. PICK m \in Mems : m = mem[p]
      BY DEF IInv, Shape
    <2>3. l = "task" => Rooted(m, o.pc)
      BY <1>1, <2>1, <2>2 DEF IInv, MemInv, Rooted, Births
    <2>4. Sighted(o, l)' /\ (l = "task" => Rooted(m, o.pc)')
      BY <1>3, <2>1, <2>3, GrowsKeeps, GrowsKeepsMem DEF IInv
    <2>5. Carried(o, l, m.req)' /\ Owned(o)'
      BY <1>1, <1>2, <1>6, <2>1 DEF Carried, Owned
    <2>6. Go(p, l, o) /\ Served(p, l, "out") /\ UNCHANGED mem
      BY <1>6, <2>1 DEF Served, server, Continue, Then
    <2> QED
      BY <1>1, <1>3, <1>4, <2>2, <2>4, <2>5, <2>6, Keeps
  <1> QED
    BY <1>3, <1>5, <1>6 DEF publishTerminal

\* A lane goes on to a step that carries nothing new.
LEMMA Continues ==
  ASSUME IInv, NEW p \in Procs, NEW l \in Lanes, ~At(p, l, "idle"), NEW pc \in Steps,
         Continue(p, l, pc), UNCHANGED mem, Grows, Durable',
         pc # "restore", l = "task" => pc # "publish", pc = "guard" => l = "response",
         NEW m, m = mem[p], l = "task" => Rooted(m, pc)',
         NEW req, req = op[p][l].req,
         \A o \in Ops : o.pc = pc /\ o.req = req => Carried(o, l, m.req)' /\ Owned(o)'
  PROVE  IInv'
  <1>1. PICK o \in Ops : /\ o = [op[p][l] EXCEPT !.pc = pc] /\ o.pc = pc
                         /\ o.req = req /\ Sighted(o, l)
    BY ToStep
  <1>2. Sighted(o, l)' /\ (l = "task" => Rooted(m, o.pc)')
    BY <1>1, GrowsKeeps DEF IInv
  <1>3. Carried(o, l, m.req)' /\ Owned(o)'
    BY <1>1
  <1>4. Go(p, l, o) /\ Served(p, l, "out")
    BY <1>1 DEF Served, server, Continue, Then
  <1> QED
    BY <1>2, <1>3, <1>4, Keeps

\* The record ends behind an event and at the revision memory knows, or not at all.
LEMMA PersistStep ==
  ASSUME IInv, NEW p \in Procs, NEW l \in Lanes, persistTerminal(p, l)
  PROVE  IInv' /\ Grows
  <1>1. /\ op[p][l].pc = "persist" /\ ~At(p, l, "idle")
        /\ op[p][l].kind = marker /\ marker \in Kinds /\ events # {}
    BY DEF persistTerminal, At, IInv, OpInv, Owned
  <1>2. UNCHANGED <<marker, events, stored>>
    BY DEF persistTerminal
  <1>3. ASSUME UNCHANGED record PROVE Grows /\ Durable'
    BY <1>2, <1>3, Quiet DEF durable
  <1>4. PICK m \in Mems : m = mem[p]
    BY DEF IInv, Shape
  <1>5. PICK state : state = IF op[p][l].adopted THEN op[p][l].kind ELSE m.state
    OBVIOUS
  <1>6. Known(m) /\ (l = "task" => Rooted(m, "persist"))
    BY <1>1, <1>4 DEF IInv, MemInv
  <1>7. ASSUME m.state # None, m.rev # 0, m.rev = record.rev, Written(state, m.req)
        PROVE  /\ Grows /\ Durable' /\ record'.state # None
               /\ l = "task" => stored' # {}
    <2>1. state \in States \ {None} /\ (Terminal(record.state) => Terminal(state))
      BY <1>1, <1>4, <1>5, <1>6, <1>7 DEF Known, Terminal, States, Kinds, None, Mems
    <2>2. m.req \in {1, 2} /\ m.req >= record.req /\ (m.req = 2 => 2 \in stored)
      BY <1>4, <1>6, <1>7 DEF Known, Mems
    <2>3. Grows /\ Durable' /\ record'.state # None
      BY <1>1, <1>2, <1>7, <2>1, <2>2, Writes
    <2> QED
      BY <1>2, <1>6, <1>7, <2>3 DEF Rooted
  <1>8. \/ Unknown(p, l) /\ UNCHANGED record
        \/ Release(p) /\ Retry(p, l) /\ UNCHANGED record
        \/ /\ m.state # None /\ m.rev # 0 /\ m.rev = record.rev
           /\ \/ Written(state, m.req) /\ Release(p) /\ Ack(p, l)
              \/ (Written(state, m.req) \/ UNCHANGED record) /\ Unknown(p, l)
    BY <1>4, <1>5 DEF persistTerminal, Held
  <1>9. CASE Release(p) /\ Retry(p, l) /\ UNCHANGED record
    <2>1. Settle(p, l, "ready") /\ Release(p)
      BY <1>9 DEF Retry
    <2> QED
      BY <1>1, <1>3, <1>9, <2>1, Releases
  <1>10. CASE Unknown(p, l) /\ UNCHANGED record
    BY <1>1, <1>3, <1>10, Unknowns
  <1>11. CASE /\ m.state # None /\ m.rev # 0 /\ m.rev = record.rev
              /\ Written(state, m.req) /\ Unknown(p, l)
    BY <1>1, <1>7, <1>11, Unknowns
  <1>12. CASE /\ m.state # None /\ m.rev # 0 /\ m.rev = record.rev
              /\ Written(state, m.req) /\ Release(p) /\ Ack(p, l)
    <2>1. Settle(p, l, "settled") /\ Release(p)
      BY <1>12 DEF Ack
    <2> QED
      BY <1>1, <1>7, <1>12, <2>1, Releases DEF Final
  <1> QED
    BY <1>8, <1>9, <1>10, <1>11, <1>12

LEMMA GuardStep ==
  ASSUME IInv, NEW p \in Procs, NEW l \in Lanes, settleTerminalGuard(p, l)
  PROVE  IInv' /\ Grows
  <1>1. op[p][l].pc = "guard" /\ ~At(p, l, "idle") /\ UNCHANGED <<durable, mem>>
    BY DEF settleTerminalGuard, At
  <1>2. l # "task"
    BY <1>1 DEF IInv, OpInv, Sighted
  <1>3. Grows /\ Durable'
    BY <1>1, Quiet
  <1>4. PICK s \in {"ready"} \union Final : Settle(p, l, s)
    BY DEF settleTerminalGuard, Ack, Retry, Final
  <1>5. IInv'
    BY <1>1, <1>2, <1>3, <1>4, Leaves
  <1> QED
    BY <1>3, <1>5

\* A read that failed: the task lane reads only while it does not hold the loop.
LEMMA ReadFailsStep ==
  ASSUME IInv, NEW p \in Procs, NEW l \in Lanes, ReadFails(p, l)
  PROVE  IInv' /\ Grows
  <1>1. /\ op[p][l].pc \in {"guard", "restore", "unheld", "rewrite", "start"} /\ ~At(p, l, "idle")
        /\ Settle(p, l, "ready") /\ UNCHANGED <<durable, mem>>
    BY DEF ReadFails, Retry, At
  <1>2. Grows /\ Durable' /\ record' = record /\ stored' = stored
    BY <1>1, Quiet DEF durable
  <1>3. l = "task" /\ Held(p) => record'.state # None /\ stored' # {}
    BY <1>1, <1>2 DEF IInv, MemInv, Rooted, Births, Held
  <1> QED
    BY <1>1, <1>2, <1>3, Leaves

\* A loop that fails is committed by the lane that holds it, or released.
LEMMA Fails ==
  ASSUME IInv, NEW p \in Procs, NEW l \in Lanes, ~At(p, l, "idle"), handleLoopFailure(p, l),
         l = "task" => At(p, l, "graph"), UNCHANGED durable
  PROVE  IInv'
  <1>1. Grows /\ Durable' /\ record' = record /\ stored' = stored
    BY Quiet DEF durable
  <1>2. CASE mem[p].state \in {"live", "failed"}
    <2>1. Commit(p, l, "failed") /\ Held(p) /\ "failed" \in Kinds
      BY <1>2 DEF handleLoopFailure, Held, Kinds, None
    <2> QED
      BY <1>1, <2>1, Commits
  <1>3. CASE mem[p].state \notin {"live", "failed"}
    <2>1. Settle(p, l, "ready") /\ Release(p)
      BY <1>3 DEF handleLoopFailure, Retry
    <2> QED
      BY <1>1, <2>1, Releases
  <1> QED
    BY <1>2, <1>3

-----------------------------------------------------------------------------
(* The task lane.                                                          *)

LEMMA ClassifyStep ==
  ASSUME IInv, NEW p \in Procs, classifyRedeliveredTask(p)
  PROVE  IInv' /\ Grows
  <1> DEFINE l == "task"
  <1>1. /\ op[p][l].pc = "start" /\ ~At(p, l, "idle") /\ l \in Lanes
        /\ UNCHANGED <<durable, mem>>
    BY DEF classifyRedeliveredTask, At, Lanes
  <1>2. Grows /\ Durable' /\ record' = record /\ stored' = stored
    BY <1>1, Quiet DEF durable
  <1>3. ASSUME ~Held(p), record.state # None, record.state = "live" => stored # {}, Ack(p, l)
        PROVE  IInv'
    <2>1. Settle(p, l, "settled")
      BY <1>3 DEF Ack
    <2> QED
      BY <1>1, <1>2, <1>3, <2>1, Leaves DEF Final
  <1>4. PICK m \in Mems : m = mem[p]
    BY DEF IInv, Shape
  <1>5. Rooted(m, "seat")'
    BY <1>1, <1>2, <1>4 DEF IInv, MemInv, Rooted, Births
  <1>6. ASSUME Continue(p, l, "seat") PROVE IInv'
    <2>1. \A o \in Ops : o.pc = "seat" => Carried(o, l, m.req)' /\ Owned(o)'
      BY DEF Carried, Owned
    <2> QED
      BY <1>1, <1>2, <1>4, <1>5, <1>6, <2>1, Continues DEF Steps
  <1>7. ASSUME record.state = "live", record.req = 1, UNCHANGED <<server, latched>>,
               Go(p, l, [op[p][l] EXCEPT !.pc = "seat", !.rev = record.rev])
        PROVE  IInv'
    <2>1. PICK o : o = [op[p][l] EXCEPT !.pc = "seat", !.rev = record.rev]
      OBVIOUS
    <2>2. op[p][l] \in Ops /\ record.rev \in Nat
      BY DEF IInv, Shape, Lanes
    <2>3. o \in Ops /\ o.pc = "seat" /\ o.rev = record.rev
      BY <2>1, <2>2 DEF Ops, Steps
    <2>4. Sighted(o, l)
      BY <1>7, <2>2, <2>3 DEF Sighted, Terminal, Kinds
    <2>5. Sighted(o, l)'
      BY <1>2, <2>3, <2>4, GrowsKeeps DEF IInv
    <2>6. Carried(o, l, m.req)' /\ Owned(o)' /\ Rooted(m, o.pc)'
      BY <1>5, <2>3 DEF Carried, Owned
    <2>7. Go(p, l, o) /\ Served(p, l, "out") /\ UNCHANGED mem
      BY <1>1, <1>7, <2>1 DEF Served, server
    <2> QED
      BY <1>1, <1>2, <1>4, <2>3, <2>5, <2>6, <2>7, Keeps
  <1>8. \/ ~Held(p) /\ Terminal(record.state) /\ Ack(p, l)
        \/ /\ ~Held(p) /\ record.state = "live" /\ (record.req # 1 \/ stored # {})
           /\ Ack(p, l)
        \/ /\ record.state = "live" /\ record.req = 1 /\ UNCHANGED <<server, latched>>
           /\ Go(p, l, [op[p][l] EXCEPT !.pc = "seat", !.rev = record.rev])
        \/ Continue(p, l, "seat")
    BY Zenon DEF classifyRedeliveredTask
  <1>9. record.state = "live" /\ record.req # 1 => stored # {}
    BY DEF IInv, Durable, Shape, None
  <1>10. Terminal(record.state) => record.state # None /\ record.state # "live"
    BY DEF Terminal, Kinds, None
  <1>11. "live" # None
    BY DEF None
  <1>12. IInv'
    BY <1>3, <1>6, <1>7, <1>8, <1>9, <1>10, <1>11
  <1> QED
    BY <1>2, <1>12

LEMMA TaskStep ==
  ASSUME IInv, NEW p \in Procs, HandleTask(p)
  PROVE  IInv' /\ Grows
  <1> DEFINE l == "task"
             m == [state |-> "live", req |-> 1, out |-> 1, rev |-> 0]
  <1>1. op[p][l].pc = "seat" /\ ~At(p, l, "idle") /\ l \in Lanes /\ UNCHANGED durable
    BY DEF HandleTask, At, Lanes
  <1>2. Grows /\ Durable' /\ record' = record /\ stored' = stored
    BY <1>1, Quiet DEF durable
  <1>3. CASE Held(p)
    <2>1. PICK s \in {"ready"} \union Final : Settle(p, l, s) /\ UNCHANGED mem
      BY <1>3 DEF HandleTask, Ack, Terminate, Final
    <2>2. record.state # None /\ stored # {}
      BY <1>1, <1>3 DEF IInv, MemInv, Rooted, Births, Held
    <2> QED
      BY <1>1, <1>2, <2>1, <2>2, Leaves
  <1>4. CASE ~Held(p)
    <2>1. Remember(p, m) /\ Continue(p, l, "graph")
      BY <1>4 DEF HandleTask, Held, Terminal, Kinds, None
    <2>2. PICK o \in Ops : /\ o = [op[p][l] EXCEPT !.pc = "graph"] /\ o.pc = "graph"
                           /\ Sighted(o, l)
      BY <1>1, ToStep DEF Steps
    <2>3. m \in Mems /\ m.req <= 1
      BY DEF Mems, States
    <2>4. Known(m)
      BY DEF Known, IInv, Durable, Shape, Terminal, Kinds, None
    <2>5. Rooted(m, o.pc)
      BY <2>2 DEF Rooted, Births
    <2>6. Known(m)' /\ Rooted(m, o.pc)' /\ Sighted(o, l)'
      BY <1>2, <2>2, <2>3, <2>4, <2>5, GrowsKeeps, GrowsKeepsMem DEF IInv
    <2>7. Carried(o, l, m.req)' /\ Owned(o)'
      BY <2>2 DEF Carried, Owned
    <2>8. Go(p, l, o) /\ Served(p, l, "out")
      BY <2>1, <2>2 DEF Served, server, Continue, Then
    <2>9. o.pc = IF l = "task" THEN o.pc ELSE op[p]["task"].pc
      OBVIOUS
    <2> QED
      BY <1>1, <1>2, <2>1, <2>2, <2>3, <2>6, <2>7, <2>8, <2>9, Learns
  <1> QED
    BY <1>2, <1>3, <1>4

LEMMA SpawnStep ==
  ASSUME IInv, NEW p \in Procs, WriteSpawnIdentity(p)
  PROVE  IInv' /\ Grows
  <1> DEFINE l == "task"
  <1>1. op[p][l].pc = "graph" /\ ~At(p, l, "idle") /\ l \in Lanes /\ UNCHANGED durable
    BY DEF WriteSpawnIdentity, At, Lanes
  <1>2. Grows /\ Durable' /\ record' = record /\ stored' = stored
    BY <1>1, Quiet DEF durable
  <1>3. CASE handleLoopFailure(p, l)
    BY <1>1, <1>2, <1>3, Fails DEF At
  <1>4. CASE Continue(p, l, "record") /\ UNCHANGED mem
    <2>1. PICK m \in Mems : m = mem[p]
      BY DEF IInv, Shape
    <2>2. Rooted(m, "record")'
      BY <1>1, <1>2, <2>1 DEF IInv, MemInv, Rooted, Births
    <2>3. \A o \in Ops : o.pc = "record" => Carried(o, l, m.req)' /\ Owned(o)'
      BY DEF Carried, Owned
    <2> QED
      BY <1>1, <1>2, <1>4, <2>1, <2>2, <2>3, Continues DEF Steps
  <1> QED
    BY <1>2, <1>3, <1>4 DEF WriteSpawnIdentity

\* A birth writes the first revision; a republication takes over the one it read.
LEMMA BirthStep ==
  ASSUME IInv, NEW p \in Procs, createLoopState(p)
  PROVE  IInv' /\ Grows
  <1> DEFINE l == "task"
  <1>1. /\ op[p][l].pc = "record" /\ ~At(p, l, "idle") /\ l \in Lanes
        /\ UNCHANGED <<marker, events, stored>>
    BY DEF createLoopState, At, Lanes
  <1>2. ASSUME UNCHANGED record PROVE Grows /\ Durable'
    BY <1>1, <1>2, Quiet DEF durable
  <1>3. PICK n \in Mems : n = mem[p]
    BY DEF IInv, Shape
  <1>4. Known(n)
    BY <1>3 DEF IInv, MemInv
  <1>5. PICK rev \in Nat : rev = op[p][l].rev
    BY <1>1 DEF IInv, Shape, Ops
  <1>6. record.rev \in Nat /\ n.req \in {0, 1, 2} /\ n.rev \in Nat /\ n.state \in States
    BY <1>3 DEF IInv, Shape, Mems
  <1>7. PICK o \in Ops : /\ o = [op[p][l] EXCEPT !.pc = "publish"] /\ o.pc = "publish"
                         /\ o.rev = rev
    BY <1>1, <1>5, ToStep DEF Steps
  <1>8. ASSUME NEW k \in Nat, Remember(p, [mem[p] EXCEPT !.rev = k]),
               Continue(p, l, "publish"), Grows, Durable',
               k <= record'.rev, record'.state # None,
               k = record'.rev => /\ n.req >= record'.req
                                  /\ Terminal(record'.state) => Terminal(n.state),
               n.state # None, Sighted(o, l)'
        PROVE  IInv'
    <2>1. PICK m : m = [n EXCEPT !.rev = k]
      OBVIOUS
    <2>2. m \in Mems /\ m.state = n.state /\ m.req = n.req /\ m.rev = k
      BY <1>3, <1>8, <2>1 DEF Mems
    <2>3. Known(m)'
      <3>1. m.req = 2 => 2 \in stored'
        BY <1>1, <1>4, <2>2 DEF Known
      <3>2. m.req # 0
        BY <1>4, <1>8, <2>2 DEF Known
      <3> QED
        BY <1>8, <2>2, <3>1, <3>2 DEF Known
    <2>4. Rooted(m, o.pc)' /\ Carried(o, l, m.req)' /\ Owned(o)'
      BY <1>7 DEF Rooted, Carried, Owned
    <2>5. Go(p, l, o) /\ Served(p, l, "out") /\ Remember(p, m)
      BY <1>3, <1>7, <1>8, <2>1 DEF Served, server, Continue, Then
    <2>6. m.req <= mem[p].req
      BY <1>3, <1>6, <2>2
    <2>7. o.pc = IF l = "task" THEN o.pc ELSE op[p]["task"].pc
      OBVIOUS
    <2> QED
      BY <1>1, <1>7, <1>8, <2>2, <2>3, <2>4, <2>5, <2>6, <2>7, Learns
  <1>9. Sighted(op[p][l], l)
    BY <1>1 DEF IInv, OpInv
  <1>10. ASSUME n.state # None, rev # 0, UNCHANGED record, Continue(p, l, "publish"),
                Remember(p, [mem[p] EXCEPT !.rev = op[p][l].rev])
         PROVE  IInv' /\ Grows
    <2>1. /\ rev <= record.rev /\ record.rev # 0
          /\ rev = record.rev => ~Terminal(record.state) /\ record.req = 1
      BY <1>5, <1>6, <1>9, <1>10 DEF Sighted
    <2>2. record.state # None
      BY <2>1 DEF IInv, Durable
    <2>3. Sighted(o, l)
      BY <1>7, <2>1, <2>2 DEF Sighted
    <2>4. Grows /\ Durable' /\ Sighted(o, l)'
      BY <1>2, <1>7, <1>10, <2>3, GrowsKeeps DEF IInv
    <2>5. n.req >= 1
      BY <1>4, <1>6, <1>10 DEF Known
    <2>6. IInv'
      BY <1>5, <1>8, <1>10, <2>1, <2>2, <2>4, <2>5
    <2> QED
      BY <2>4, <2>6
  <1>11. ASSUME n.state # None, record.state = None, Written(n.state, n.req)
         PROVE  /\ Grows /\ Durable' /\ record.rev = 0
                /\ record'.rev = record.rev + 1 /\ record'.state = n.state
                /\ record'.req = n.req
    <2>1. record.rev = 0 /\ record.req = 0 /\ ~Terminal(record.state)
      BY <1>11 DEF IInv, Durable, Terminal, Kinds, None
    <2>2. n.req \in {1, 2} /\ n.req >= record.req /\ (n.req = 2 => 2 \in stored)
      BY <1>4, <1>6, <1>11, <2>1 DEF Known
    <2> QED
      BY <1>1, <1>6, <1>11, <2>1, <2>2, Writes
  <1>12. ASSUME n.state # None, rev = 0, record.state = None, Written(n.state, n.req),
                Remember(p, [mem[p] EXCEPT !.rev = record.rev + 1]),
                Continue(p, l, "publish")
         PROVE  IInv' /\ Grows
    <2>1. /\ Grows /\ Durable' /\ record.rev = 0
          /\ record'.rev = record.rev + 1 /\ record'.state = n.state /\ record'.req = n.req
      BY <1>11, <1>12
    <2>2. PICK k \in Nat : k = record.rev + 1 /\ k = record'.rev
      BY <1>6, <2>1
    <2>3. Sighted(o, l)'
      BY <1>7, <1>12, <2>1, <2>2 DEF Sighted
    <2>4. Remember(p, [mem[p] EXCEPT !.rev = k])
      BY <1>12, <2>2
    <2>5. /\ k <= record'.rev /\ n.req >= record'.req /\ record'.state # None
          /\ Terminal(record'.state) => Terminal(n.state)
      BY <1>6, <1>12, <2>1, <2>2
    <2>6. IInv'
      BY <1>8, <1>12, <2>1, <2>2, <2>3, <2>4, <2>5
    <2> QED
      BY <2>1, <2>6
  <1>13. ASSUME Release(p), Retry(p, l), Grows, Durable' PROVE IInv'
    <2>1. Settle(p, l, "ready")
      BY <1>13 DEF Retry
    <2> QED
      BY <1>1, <1>13, <2>1, Releases
  <1>14. \/ Release(p) /\ Retry(p, l) /\ UNCHANGED record
         \/ /\ n.state # None /\ rev # 0 /\ UNCHANGED record /\ Continue(p, l, "publish")
            /\ Remember(p, [mem[p] EXCEPT !.rev = op[p][l].rev])
         \/ /\ n.state # None /\ rev = 0 /\ record.state = None
            /\ \/ /\ Written(n.state, n.req) /\ Continue(p, l, "publish")
                  /\ Remember(p, [mem[p] EXCEPT !.rev = record.rev + 1])
               \/ (Written(n.state, n.req) \/ UNCHANGED record) /\ Release(p) /\ Retry(p, l)
         \/ /\ n.state # None /\ UNCHANGED record /\ Continue(p, l, "oversized")
            /\ Remember(p, [n EXCEPT !.state = IF n.state = "live" THEN "failed" ELSE n.state])
    <2>1. CASE /\ Held(p) /\ UNCHANGED record /\ Continue(p, l, "oversized")
               /\ Remember(p, [mem[p] EXCEPT !.state = IF @ = "live" THEN "failed" ELSE @])
      BY <1>3, <2>1 DEF Held
    <2>2. CASE ~(/\ Held(p) /\ UNCHANGED record /\ Continue(p, l, "oversized")
                 /\ Remember(p, [mem[p] EXCEPT !.state = IF @ = "live" THEN "failed" ELSE @]))
      BY <1>3, <1>5, <2>2, Zenon DEF createLoopState, Held
    <2> QED
      BY <2>1, <2>2
  <1>15. ASSUME n.state # None, UNCHANGED record, Continue(p, l, "oversized"),
                Remember(p, [n EXCEPT !.state = IF n.state = "live" THEN "failed" ELSE n.state])
         PROVE  IInv' /\ Grows
    <2>1. Grows /\ Durable'
      BY <1>2, <1>15
    <2>2. PICK x \in Ops : /\ x = [op[p][l] EXCEPT !.pc = "oversized"] /\ x.pc = "oversized"
                           /\ Sighted(x, l)
      BY <1>1, ToStep DEF Steps
    <2>3. PICK m : m = [n EXCEPT !.state = IF n.state = "live" THEN "failed" ELSE n.state]
      OBVIOUS
    <2>4. /\ m \in Mems /\ m.req = n.req /\ m.rev = n.rev /\ m.state # None
          /\ Terminal(n.state) => Terminal(m.state)
      BY <1>3, <1>15, <2>3 DEF Mems, States, Kinds, None, Terminal
    <2>5. Known(m)
      BY <1>4, <1>15, <2>4 DEF Known
    <2>6. Rooted(m, x.pc)
      BY <1>1, <1>3, <1>15, <2>2, <2>4 DEF IInv, MemInv, Rooted, Births
    <2>7. Known(m)' /\ Rooted(m, x.pc)' /\ Sighted(x, l)'
      BY <2>1, <2>2, <2>4, <2>5, <2>6, GrowsKeeps, GrowsKeepsMem DEF IInv
    <2>8. Carried(x, l, m.req)' /\ Owned(x)'
      BY <2>2 DEF Carried, Owned
    <2>9. Go(p, l, x) /\ Served(p, l, "out") /\ Remember(p, m)
      BY <1>15, <2>2, <2>3 DEF Served, server, Continue, Then
    <2>10. m.req <= mem[p].req /\ x.pc = IF l = "task" THEN x.pc ELSE op[p]["task"].pc
      BY <1>3, <1>6, <2>4
    <2>11. IInv'
      BY <1>1, <2>1, <2>2, <2>4, <2>7, <2>8, <2>9, <2>10, Learns
    <2> QED
      BY <2>1, <2>11
  <1> QED
    BY <1>2, <1>10, <1>11, <1>12, <1>13, <1>14, <1>15

\* A birth too large for the store ends with the loop released and the task terminated.
LEMMA OversizedStep ==
  ASSUME IInv, NEW p \in Procs, terminateOversizedBirth(p)
  PROVE  IInv' /\ Grows
  <1> DEFINE l == "task"
  <1>1. /\ ~At(p, l, "idle") /\ l \in Lanes /\ UNCHANGED durable
        /\ Settle(p, l, "termed") /\ Release(p)
    BY DEF terminateOversizedBirth, Terminate, At, Lanes
  <1>2. Grows /\ Durable'
    BY <1>1, Quiet
  <1> QED
    BY <1>1, <1>2, Releases DEF Final

\* The request is retained, one stream of it after the other.
LEMMA Retains ==
  ASSUME IInv, NEW r \in Reqs, stored' \in {stored, stored \union {r}},
         r = 2 => 1 \in stored, UNCHANGED <<record, marker, events>>
  PROVE  Grows /\ Durable'
  <1>1. Grows
    BY DEF Grows, IInv, Shape
  <1>2. Durable'
    BY DEF IInv, Durable, CommitOrder, Reqs
  <1> QED
    BY <1>1, <1>2

\* A task is acknowledged once its first request is retained.
LEMMA FirstStep ==
  ASSUME IInv, NEW p \in Procs, publishFirstRequest(p)
  PROVE  IInv' /\ Grows
  <1> DEFINE l == "task"
  <1>1. /\ op[p][l].pc = "publish" /\ ~At(p, l, "idle") /\ l \in Lanes
        /\ UNCHANGED <<record, marker, events>>
    BY DEF publishFirstRequest, At, Lanes
  <1>2. stored' \in {stored, stored \union {1}}
    BY DEF publishFirstRequest
  <1>3. Grows /\ Durable'
    BY <1>1, <1>2, Retains DEF Reqs
  <1>4. record'.state # None
    BY <1>1 DEF IInv, OpInv, Sighted
  <1>5. CASE stored' = stored \union {1} /\ Ack(p, l) /\ UNCHANGED mem
    <2>1. Settle(p, l, "settled") /\ stored' # {}
      BY <1>5 DEF Ack
    <2> QED
      BY <1>1, <1>3, <1>4, <1>5, <2>1, Leaves DEF Final
  <1>6. CASE Unknown(p, l)
    BY <1>1, <1>3, <1>6, Unknowns
  <1>7. CASE Release(p) /\ Retry(p, l)
    <2>1. Settle(p, l, "ready")
      BY <1>7 DEF Retry
    <2> QED
      BY <1>1, <1>3, <1>7, <2>1, Releases
  <1> QED
    BY <1>3, <1>5, <1>6, <1>7 DEF publishFirstRequest

-----------------------------------------------------------------------------
(* The response lane.                                                      *)

\* A response is being handled: a request is retained.
LEMMA Asked ==
  ASSUME IInv, NEW p \in Procs, ~At(p, "response", "idle")
  PROVE  stored # {} /\ 1 \in stored
  <1>1. stored # {}
    BY DEF IInv, Messages, At
  <1> QED
    BY <1>1 DEF IInv, Durable, Shape, Reqs

\* A lane other than the task lane settles its message and leaves the loop as it is.
LEMMA LeavesLoop ==
  ASSUME IInv, NEW p \in Procs, NEW l \in Lanes, l # "task", ~At(p, l, "idle"),
         Ack(p, l) \/ Retry(p, l) \/ Quarantine(p, l), UNCHANGED mem, Grows, Durable'
  PROVE  IInv'
  <1>1. PICK s \in {"ready"} \union Final : Settle(p, l, s)
    BY DEF Ack, Retry, Quarantine, Final
  <1> QED
    BY <1>1, Leaves

\* The record is made to name the newest retained request before it orders a response.
LEMMA UnheldStep ==
  ASSUME IInv, NEW p \in Procs, settleResponseWithoutLoop(p)
  PROVE  IInv' /\ Grows
  <1> DEFINE l == "response"
  <1>1. /\ op[p][l].pc = "start" /\ ~At(p, l, "idle") /\ l \in Lanes /\ l # "task"
        /\ UNCHANGED <<marker, events, stored, mem>>
    BY DEF settleResponseWithoutLoop, At, Lanes
  <1>2. PICK newest \in {0, 1, 2} : newest = Newest /\ (newest = 2 => 2 \in stored)
    BY NewestFacts DEF IInv, Shape
  <1>3. PICK now : now = IF newest > record.req THEN newest ELSE record.req
    OBVIOUS
  <1>4. record.rev \in Nat /\ record.req \in {0, 1, 2} /\ record.state \in States
    BY DEF IInv, Shape
  <1>5. PICK rev : rev = IF newest > record.req THEN record.rev + 1 ELSE record.rev
    OBVIOUS
  <1>6. ~Stale => record.state = "live" /\ record.req # 0 /\ record.rev # 0
    BY <1>4 DEF Stale, States, Terminal, IInv, Durable
  <1>7. ASSUME UNCHANGED record PROVE Grows /\ Durable'
    BY <1>1, <1>7, Quiet DEF durable
  <1>8. ASSUME ~Stale, newest > record.req, Written("live", now)
        PROVE  Grows /\ Durable' /\ record'.rev = rev /\ record'.state = "live"
               /\ record'.req = now
    <2>1. now = newest /\ now \in {1, 2} /\ now >= record.req /\ (now = 2 => 2 \in stored)
          /\ rev = record.rev + 1
      BY <1>2, <1>3, <1>4, <1>5, <1>8
    <2>2. "live" \in States \ {None} /\ ~Terminal("live") /\ ~Terminal(record.state)
      BY <1>8 DEF States, None, Terminal, Kinds, Stale
    <2> QED
      BY <1>1, <1>8, <2>1, <2>2, Writes
  <1>9. ASSUME Grows, Durable', Ack(p, l) \/ Retry(p, l) \/ Quarantine(p, l)
        PROVE  IInv'
    BY <1>1, <1>9, LeavesLoop
  <1>10. ASSUME ~Stale, newest > record.req => Written("live", now),
                ~(newest > record.req) => UNCHANGED record
         PROVE  Grows /\ Durable' /\ record'.rev = rev /\ record'.state = "live"
                /\ record'.req = now /\ now \in {1, 2} /\ rev \in Nat /\ rev # 0
                /\ (now = 2 => 2 \in stored')
    <2>1. CASE newest > record.req
      BY <1>1, <1>2, <1>3, <1>4, <1>5, <1>8, <1>10, <2>1
    <2>2. CASE ~(newest > record.req)
      <3>1. Grows /\ Durable'
        BY <1>7, <1>10, <2>2
      <3>2. record.req = 2 => 2 \in stored
        BY DEF IInv, Durable
      <3> QED
        BY <1>1, <1>3, <1>4, <1>5, <1>6, <1>10, <2>2, <3>1, <3>2
    <2> QED
      BY <2>1, <2>2
  <1>11. ASSUME ~Stale, newest > record.req => Written("live", now),
                ~(newest > record.req) => UNCHANGED record, UNCHANGED <<server, latched>>,
                Go(p, l, [op[p][l] EXCEPT !.pc = "restore", !.req = now, !.rev = rev])
         PROVE  IInv'
    <2>1. Grows /\ Durable' /\ record'.rev = rev /\ record'.state = "live"
          /\ record'.req = now /\ now \in {1, 2} /\ rev \in Nat /\ rev # 0
          /\ (now = 2 => 2 \in stored')
      BY <1>10, <1>11
    <2>2. PICK o : o = [op[p][l] EXCEPT !.pc = "restore", !.req = now, !.rev = rev]
      OBVIOUS
    <2>3. op[p][l] \in Ops
      BY <1>1 DEF IInv, Shape
    <2>4. o \in Ops /\ o.pc = "restore" /\ o.req = now /\ o.rev = rev
      BY <2>1, <2>2, <2>3 DEF Ops, Steps
    <2>5. PICK m \in Mems : m = mem[p]
      BY DEF IInv, Shape
    <2>6. Sighted(o, l)'
      BY <2>1, <2>4 DEF Sighted, Terminal, Kinds
    <2>7. Carried(o, l, m.req)' /\ Owned(o)'
      BY <2>1, <2>4 DEF Carried, Owned
    <2>8. Go(p, l, o) /\ Served(p, l, "out") /\ UNCHANGED mem
      BY <1>1, <1>11, <2>2 DEF Served, server
    <2> QED
      BY <1>1, <2>1, <2>4, <2>5, <2>6, <2>7, <2>8, Keeps
  <1>12. \/ UNCHANGED record /\ (Ack(p, l) \/ Quarantine(p, l))
         \/ /\ ~Stale /\ newest > record.req /\ Retry(p, l)
            /\ UNCHANGED record \/ Written("live", now)
         \/ /\ ~Stale /\ (newest > record.req => Written("live", now))
            /\ ~(newest > record.req) => UNCHANGED record
            /\ \/ Ack(p, l) \/ Retry(p, l)
               \/ /\ UNCHANGED <<server, latched>>
                  /\ Go(p, l, [op[p][l] EXCEPT !.pc = "restore", !.req = now, !.rev = rev])
    BY <1>2, <1>3, <1>5 DEF settleResponseWithoutLoop
  <1> QED
    BY <1>7, <1>8, <1>9, <1>10, <1>11, <1>12

LEMMA RestoreStep ==
  ASSUME IInv, NEW p \in Procs, restoreLoopFromEvidence(p)
  PROVE  IInv' /\ Grows
  <1> DEFINE l == "response"
  <1>1. /\ op[p][l].pc = "restore" /\ ~At(p, l, "idle") /\ l \in Lanes /\ l # "task"
        /\ UNCHANGED durable
    BY DEF restoreLoopFromEvidence, At, Lanes
  <1>2. Grows /\ Durable'
    BY <1>1, Quiet
  <1>3. CASE Retry(p, l) /\ UNCHANGED mem
    BY <1>1, <1>2, <1>3, LeavesLoop
  <1>4. ASSUME Continue(p, l, "apply"),
               Remember(p, [state |-> "live", req |-> op[p][l].req, out |-> op[p][l].req,
                            rev |-> op[p][l].rev])
        PROVE  IInv'
    <2>1. PICK o \in Ops : /\ o = [op[p][l] EXCEPT !.pc = "apply"] /\ o.pc = "apply"
                           /\ Sighted(o, l)
      BY <1>1, ToStep DEF Steps
    <2>2. PICK m : m = [state |-> "live", req |-> op[p][l].req, out |-> op[p][l].req,
                        rev |-> op[p][l].rev]
      OBVIOUS
    <2>3. op[p][l] \in Ops
      BY <1>1 DEF IInv, Shape
    <2>4. m \in Mems /\ m.state = "live" /\ m.req = op[p][l].req /\ m.rev = op[p][l].rev
      BY <2>2, <2>3 DEF Mems, Ops, States
    <2>5. Sighted(op[p][l], l) /\ Carried(op[p][l], l, mem[p].req)
      BY <1>1 DEF IInv, OpInv
    <2>6. /\ m.rev <= record.rev /\ m.rev # 0 /\ m.req # 0 /\ (m.req = 2 => 2 \in stored)
          /\ m.rev = record.rev => ~Terminal(record.state) /\ m.req >= record.req
      BY <1>1, <2>4, <2>5 DEF Sighted, Carried
    <2>7. PICK pc : pc = IF l = "task" THEN o.pc ELSE op[p]["task"].pc
      OBVIOUS
    <2>8. record.rev # 0
      BY <2>4, <2>6 DEF IInv, Shape, Mems
    <2>9. Known(m) /\ Rooted(m, pc)
      <3>1. record.state # None
        BY <2>8 DEF IInv, Durable
      <3>2. stored # {}
        BY <1>1, Asked
      <3> QED
        BY <2>4, <2>6, <3>1, <3>2 DEF Known, Rooted, None
    <2>10. Known(m)' /\ Rooted(m, pc)' /\ Sighted(o, l)'
      BY <1>2, <2>1, <2>4, <2>9, GrowsKeeps, GrowsKeepsMem DEF IInv
    <2>11. Carried(o, l, m.req)' /\ Owned(o)'
      BY <2>1 DEF Carried, Owned
    <2>12. Go(p, l, o) /\ Served(p, l, "out") /\ Remember(p, m)
      BY <1>4, <2>1, <2>2 DEF Served, server, Continue, Then
    <2> QED
      BY <1>1, <1>2, <2>1, <2>4, <2>7, <2>10, <2>11, <2>12, Learns
  <1> QED
    BY <1>2, <1>3, <1>4 DEF restoreLoopFromEvidence

\* A lane other than the task lane goes on to a step that relies on nothing more.
LEMMA GoesOn ==
  ASSUME IInv, NEW p \in Procs, NEW l \in Lanes, l # "task", ~At(p, l, "idle"),
         NEW pc \in {"guard", "current", "ended", "unheld"}, pc = "guard" => l = "response",
         Continue(p, l, pc), UNCHANGED mem, Grows, Durable'
  PROVE  IInv'
  <1>1. PICK m : m = mem[p]
    OBVIOUS
  <1>2. \A o \in Ops : o.pc = pc => Carried(o, l, m.req)' /\ Owned(o)'
    BY DEF Carried, Owned
  <1>3. pc \in Steps /\ pc # "restore"
    BY DEF Steps
  <1> QED
    BY <1>1, <1>2, <1>3, Continues

\* What a process waits for is no part of what it knows.
LEMMA Waits ==
  ASSUME IInv, NEW p \in Procs, NEW out \in {0, 1, 2}
  PROVE  \E m \in Mems : /\ m = [mem[p] EXCEPT !.out = out] /\ Known(m) /\ m.req = mem[p].req
                         /\ Rooted(m, op[p]["task"].pc)
  <1>1. PICK n \in Mems : n = mem[p]
    BY DEF IInv, Shape
  <1>2. PICK m : m = [n EXCEPT !.out = out]
    OBVIOUS
  <1>3. m \in Mems /\ m.state = n.state /\ m.rev = n.rev /\ m.req = n.req
    BY <1>1, <1>2 DEF Mems
  <1>4. Known(n) /\ Rooted(n, op[p]["task"].pc)
    BY <1>1 DEF IInv, MemInv
  <1> QED
    BY <1>1, <1>2, <1>3, <1>4 DEF Known, Rooted

LEMMA OrderStep ==
  ASSUME IInv, NEW p \in Procs, orderResponse(p)
  PROVE  IInv' /\ Grows
  <1> DEFINE l == "response"
  <1>1. /\ ~At(p, l, "idle") /\ l \in Lanes /\ l # "task" /\ UNCHANGED durable
    BY DEF orderResponse, At, Lanes
  <1>2. Grows /\ Durable'
    BY <1>1, Quiet
  <1>3. CASE Release(p) /\ Retry(p, l)
    <2>1. Settle(p, l, "ready")
      BY <1>3 DEF Retry
    <2> QED
      BY <1>1, <1>2, <1>3, <2>1, Releases
  <1>4. CASE (Ack(p, l) \/ Retry(p, l)) /\ UNCHANGED mem
    BY <1>1, <1>2, <1>4, LeavesLoop
  <1>5. CASE (Continue(p, l, "current") \/ Continue(p, l, "ended")) /\ UNCHANGED mem
    BY <1>1, <1>2, <1>5, GoesOn
  <1> QED
    BY <1>2, <1>3, <1>4, <1>5 DEF orderResponse

LEMMA SettleStep ==
  ASSUME IInv, NEW p \in Procs, settleRequest(p)
  PROVE  IInv' /\ Grows
  <1> DEFINE l == "response"
  <1>1. /\ ~At(p, l, "idle") /\ l \in Lanes /\ l # "task" /\ UNCHANGED durable
    BY DEF settleRequest, At, Lanes
  <1>2. Grows /\ Durable'
    BY <1>1, Quiet
  <1>4. CASE Ack(p, l) /\ UNCHANGED mem
    BY <1>1, <1>2, <1>4, LeavesLoop
  <1>5. CASE Continue(p, l, "guard") /\ UNCHANGED mem
    BY <1>1, <1>2, <1>5, GoesOn
  <1>6. CASE Continue(p, l, "decide") /\ Remember(p, [mem[p] EXCEPT !.out = 0])
    <2>1. PICK o \in Ops : /\ o = [op[p][l] EXCEPT !.pc = "decide"] /\ o.pc = "decide"
                           /\ Sighted(o, l)
      BY <1>1, ToStep DEF Steps
    <2>2. PICK m \in Mems : /\ m = [mem[p] EXCEPT !.out = 0] /\ Known(m)
                            /\ Rooted(m, op[p]["task"].pc)
      BY Waits
    <2>3. PICK pc : pc = IF l = "task" THEN o.pc ELSE op[p]["task"].pc
      OBVIOUS
    <2>4. Known(m)' /\ Rooted(m, pc)' /\ Sighted(o, l)'
      BY <1>2, <2>1, <2>2, <2>3, GrowsKeeps, GrowsKeepsMem DEF IInv
    <2>5. Carried(o, l, m.req)' /\ Owned(o)'
      BY <2>1 DEF Carried, Owned
    <2>6. Go(p, l, o) /\ Served(p, l, "out") /\ Remember(p, m)
      BY <1>6, <2>1, <2>2 DEF Served, server, Continue, Then
    <2> QED
      BY <1>1, <1>2, <2>1, <2>2, <2>3, <2>4, <2>5, <2>6, Learns
  <1> QED
    BY <1>2, <1>4, <1>5, <1>6 DEF settleRequest

LEMMA ResponseStep ==
  ASSUME IInv, NEW p \in Procs, HandleModelResponse(p)
  PROVE  IInv' /\ Grows
  <1> DEFINE l == "response"
  <1>1. /\ ~At(p, l, "idle") /\ l \in Lanes /\ l # "task" /\ UNCHANGED durable
    BY DEF HandleModelResponse, At, Lanes
  <1>2. Grows /\ Durable' /\ record' = record /\ stored' = stored
    BY <1>1, Quiet DEF durable
  <1>3. CASE handleLoopFailure(p, l)
    BY <1>1, <1>2, <1>3, Fails
  <1>4. CASE mem[p].state \in {"live", "complete"} /\ Commit(p, l, "complete")
    <2>1. Held(p) /\ "complete" \in Kinds
      BY <1>4 DEF Held, Kinds, None
    <2> QED
      BY <1>1, <1>2, <1>4, <2>1, Commits
  <1>5. ASSUME mem[p].req < 2, Remember(p, [mem[p] EXCEPT !.out = Minted(p)]),
               Go(p, l, [op[p][l] EXCEPT !.pc = "carry", !.req = Minted(p)]),
               UNCHANGED <<server, latched>>
        PROVE  IInv'
    <2>1. mem[p].req \in {0, 1, 2}
      BY DEF IInv, Shape, Mems
    <2>2. PICK n \in {1, 2} : n = Minted(p) /\ n >= mem[p].req
      BY <1>5, <2>1 DEF Minted
    <2>3. PICK m \in Mems : /\ m = [mem[p] EXCEPT !.out = n] /\ Known(m)
                            /\ m.req = mem[p].req /\ Rooted(m, op[p]["task"].pc)
      BY <2>2, Waits
    <2>4. PICK o : o = [op[p][l] EXCEPT !.pc = "carry", !.req = n]
      OBVIOUS
    <2>5. op[p][l] \in Ops
      BY <1>1 DEF IInv, Shape
    <2>6. o \in Ops /\ o.pc = "carry" /\ o.req = n /\ o.rev = op[p][l].rev
      BY <2>2, <2>4, <2>5 DEF Ops, Steps
    <2>7. Sighted(op[p][l], l)
      BY <1>1 DEF IInv, OpInv
    <2>8. Sighted(o, l)
      BY <2>6, <2>7 DEF Sighted
    <2>9. PICK pc : pc = IF l = "task" THEN o.pc ELSE op[p]["task"].pc
      OBVIOUS
    <2>10. Known(m)' /\ Rooted(m, pc)' /\ Sighted(o, l)'
      BY <1>2, <2>3, <2>6, <2>8, <2>9, GrowsKeeps, GrowsKeepsMem DEF IInv
    <2>11. Carried(o, l, m.req)' /\ Owned(o)'
      BY <2>1, <2>2, <2>3, <2>6 DEF Carried, Owned
    <2>12. Go(p, l, o) /\ Served(p, l, "out") /\ Remember(p, m)
      BY <1>5, <2>2, <2>3, <2>4 DEF Served, server
    <2> QED
      BY <1>1, <1>2, <2>3, <2>6, <2>9, <2>10, <2>11, <2>12, Learns
  <1> QED
    BY <1>2, <1>3, <1>4, <1>5 DEF HandleModelResponse

LEMMA CarryStep ==
  ASSUME IInv, NEW p \in Procs, persistHandlerResult(p)
  PROVE  IInv' /\ Grows
  <1> DEFINE l == "response"
  <1>1. /\ op[p][l].pc = "carry" /\ ~At(p, l, "idle") /\ l \in Lanes /\ l # "task"
        /\ UNCHANGED <<durable, mem>>
    BY DEF persistHandlerResult, At, Lanes
  <1>2. Grows /\ Durable'
    BY <1>1, Quiet
  <1>3. CASE Continue(p, l, "guard")
    BY <1>1, <1>2, <1>3, GoesOn
  <1>4. CASE Continue(p, l, "publish")
    <2>1. PICK m : m = mem[p]
      OBVIOUS
    <2>2. PICK req : req = op[p][l].req
      OBVIOUS
    <2>3. req # 0 /\ req >= m.req
      BY <1>1, <2>1, <2>2 DEF IInv, OpInv, Carried
    <2>4. \A o \in Ops : o.pc = "publish" /\ o.req = req => Carried(o, l, m.req)' /\ Owned(o)'
      BY <2>3 DEF Carried, Owned
    <2>5. "publish" \in Steps
      BY DEF Steps
    <2> QED
      BY <1>1, <1>2, <1>4, <2>1, <2>2, <2>4, <2>5, Continues
  <1> QED
    BY <1>2, <1>3, <1>4 DEF persistHandlerResult

\* The retry is retained after the first request, and memory does not go back to it.
LEMMA NextStep ==
  ASSUME IInv, NEW p \in Procs, publishNextRequest(p)
  PROVE  IInv' /\ Grows
  <1> DEFINE l == "response"
  <1>1. /\ op[p][l].pc = "publish" /\ ~At(p, l, "idle") /\ l \in Lanes /\ l # "task"
        /\ UNCHANGED <<record, marker, events, mem>>
    BY DEF publishNextRequest, At, Lanes
  <1>2. PICK m : m = mem[p]
    OBVIOUS
  <1>3. PICK n \in {1, 2} : n = op[p][l].req /\ n >= m.req
    <2>1. op[p][l].req \in {0, 1, 2}
      BY <1>1 DEF IInv, Shape, Ops
    <2>2. op[p][l].req # 0 /\ op[p][l].req >= m.req
      BY <1>1, <1>2 DEF IInv, OpInv, Carried
    <2> QED
      BY <2>1, <2>2
  <1>4. Grows /\ Durable'
    <2>1. 1 \in stored
      BY <1>1, Asked
    <2>2. stored' \in {stored, stored \union {n}}
      BY <1>3 DEF publishNextRequest
    <2>3. n \in Reqs
      BY DEF Reqs
    <2> QED
      BY <1>1, <2>1, <2>2, <2>3, Retains
  <1>5. CASE Quarantine(p, l)
    BY <1>1, <1>4, <1>5, LeavesLoop
  <1>6. CASE stored' = stored \union {n} /\ Continue(p, l, "stamp")
    <2>1. \A o \in Ops : o.pc = "stamp" /\ o.req = n => Carried(o, l, m.req)' /\ Owned(o)'
      BY <1>3, <1>6 DEF Carried, Owned
    <2>2. "stamp" \in Steps
      BY DEF Steps
    <2> QED
      BY <1>1, <1>2, <1>3, <1>4, <1>6, <2>1, <2>2, Continues
  <1> QED
    BY <1>3, <1>4, <1>5, <1>6 DEF publishNextRequest

\* The published request never takes memory back.
LEMMA StampStep ==
  ASSUME IInv, NEW p \in Procs, stampPublishedRequest(p)
  PROVE  IInv' /\ Grows
  <1> DEFINE l == "response"
  <1>1. /\ op[p][l].pc = "stamp" /\ ~At(p, l, "idle") /\ l \in Lanes /\ l # "task"
        /\ UNCHANGED durable
    BY DEF stampPublishedRequest, At, Lanes
  <1>2. Grows /\ Durable'
    BY <1>1, Quiet
  <1>3. CASE Continue(p, l, "guard") /\ UNCHANGED mem
    BY <1>1, <1>2, <1>3, GoesOn
  <1>4. ASSUME Held(p), Remember(p, [mem[p] EXCEPT !.req = op[p][l].req]), Continue(p, l, "write")
        PROVE  IInv'
    <2>1. PICK o \in Ops : /\ o = [op[p][l] EXCEPT !.pc = "write"] /\ o.pc = "write"
                           /\ Sighted(o, l)
      BY <1>1, ToStep DEF Steps
    <2>2. PICK n \in Mems : n = mem[p]
      BY DEF IInv, Shape
    <2>3. PICK r \in {0, 1, 2} : r = op[p][l].req
      BY <1>1 DEF IInv, Shape, Ops
    <2>4. r # 0 /\ r >= n.req /\ (r = 2 => 2 \in stored)
      BY <1>1, <2>2, <2>3 DEF IInv, OpInv, Carried
    <2>5. PICK m : m = [n EXCEPT !.req = r]
      OBVIOUS
    <2>6. m \in Mems /\ m.state = n.state /\ m.rev = n.rev /\ m.req = r
      BY <2>2, <2>3, <2>5 DEF Mems
    <2>7. PICK pc : pc = IF l = "task" THEN o.pc ELSE op[p]["task"].pc
      OBVIOUS
    <2>8. Known(n) /\ Rooted(n, pc) /\ n.state # None
      BY <1>4, <2>2, <2>7 DEF IInv, MemInv, Held
    <2>9. n.req \in {0, 1, 2} /\ record.req \in {0, 1, 2}
      BY <2>2 DEF IInv, Shape, Mems
    <2>10. Known(m) /\ Rooted(m, pc)
      BY <2>4, <2>6, <2>8, <2>9 DEF Known, Rooted
    <2>11. Known(m)' /\ Rooted(m, pc)' /\ Sighted(o, l)'
      BY <1>2, <2>1, <2>6, <2>10, GrowsKeeps, GrowsKeepsMem DEF IInv
    <2>12. Carried(o, l, m.req)' /\ Owned(o)'
      BY <2>1 DEF Carried, Owned
    <2>13. Go(p, l, o) /\ Served(p, l, "out") /\ Remember(p, m)
      BY <1>4, <2>1, <2>2, <2>3, <2>5 DEF Served, server, Continue, Then
    <2> QED
      BY <1>1, <1>2, <2>1, <2>6, <2>7, <2>11, <2>12, <2>13, Learns
  <1> QED
    BY <1>2, <1>3, <1>4 DEF stampPublishedRequest

\* A result that is not terminal is written at the revision memory knows, or not at all.
LEMMA WriteStep ==
  ASSUME IInv, NEW p \in Procs, writeLoopRecord(p)
  PROVE  IInv' /\ Grows
  <1> DEFINE l == "response"
  <1>1. /\ op[p][l].pc = "write" /\ ~At(p, l, "idle") /\ l \in Lanes /\ l # "task"
        /\ UNCHANGED <<marker, events, stored>>
    BY DEF writeLoopRecord, At, Lanes
  <1>2. ASSUME UNCHANGED record PROVE Grows /\ Durable'
    BY <1>1, <1>2, Quiet DEF durable
  <1>3. PICK n \in Mems : n = mem[p]
    BY DEF IInv, Shape
  <1>4. Known(n) /\ Rooted(n, op[p]["task"].pc)
    BY <1>3 DEF IInv, MemInv
  <1>5. n.req \in {0, 1, 2} /\ n.rev \in Nat /\ record.rev \in Nat
    BY <1>3 DEF IInv, Shape, Mems
  <1>6. ASSUME n.state = "live", n.rev # 0, n.rev = record.rev, Written("live", n.req)
        PROVE  /\ Grows /\ Durable' /\ record'.rev = record.rev + 1
               /\ record'.state = "live" /\ record'.req = n.req
    <2>1. "live" \in States \ {None} /\ ~Terminal("live") /\ ~Terminal(record.state)
      BY <1>4, <1>6 DEF Known, States, None, Terminal, Kinds
    <2>2. n.req \in {1, 2} /\ n.req >= record.req /\ (n.req = 2 => 2 \in stored)
      BY <1>4, <1>5, <1>6, <2>1 DEF Known
    <2> QED
      BY <1>1, <1>6, <2>1, <2>2, Writes
  <1>7. ASSUME n.state = "live", n.rev # 0, n.rev = record.rev, Written("live", n.req),
               Remember(p, [mem[p] EXCEPT !.rev = record.rev + 1]), Ack(p, l)
        PROVE  IInv' /\ Grows
    <2>1. /\ Grows /\ Durable' /\ record'.rev = record.rev + 1
          /\ record'.state = "live" /\ record'.req = n.req
      BY <1>6, <1>7
    <2>2. PICK k \in Nat : k = record.rev + 1 /\ k = record'.rev
      BY <1>5, <2>1
    <2>3. PICK m : m = [n EXCEPT !.rev = k]
      OBVIOUS
    <2>4. m \in Mems /\ m.state = "live" /\ m.req = n.req /\ m.rev = k
      BY <1>3, <1>7, <2>2, <2>3 DEF Mems
    <2>5. PICK pc : pc = IF l = "task" THEN Idle.pc ELSE op[p]["task"].pc
      OBVIOUS
    <2>6. Known(m)'
      <3>1. m.req # 0 /\ (m.req = 2 => 2 \in stored')
        BY <1>1, <1>4, <1>7, <2>4 DEF Known, None
      <3>2. ~Terminal(record'.state) /\ m.state # None
        BY <2>1, <2>4 DEF Terminal, Kinds, None
      <3> QED
        BY <1>5, <2>1, <2>2, <2>4, <3>1, <3>2 DEF Known
    <2>7. Rooted(m, pc)'
      BY <1>1, <1>4, <1>7, <2>1, <2>4, <2>5 DEF Rooted, None
    <2>8. Idle \in Ops /\ Sighted(Idle, l)' /\ Carried(Idle, l, m.req)' /\ Owned(Idle)'
      BY <2>1, IdleFacts DEF IInv
    <2>9. Go(p, l, Idle) /\ Served(p, l, "settled") /\ Remember(p, m)
      BY <1>3, <1>7, <2>2, <2>3 DEF Served, Ack, Settle, Final
    <2>10. IInv'
      BY <1>1, <2>1, <2>4, <2>5, <2>6, <2>7, <2>8, <2>9, Learns
    <2> QED
      BY <2>1, <2>10
  <1>8. CASE Continue(p, l, "guard") /\ UNCHANGED <<record, mem>>
    BY <1>1, <1>2, <1>8, GoesOn
  <1>9. CASE Quarantine(p, l) /\ UNCHANGED <<record, mem>>
    BY <1>1, <1>2, <1>9, LeavesLoop
  <1>10. CASE Release(p) /\ Retry(p, l) /\ UNCHANGED record
    <2>1. Settle(p, l, "ready")
      BY <1>10 DEF Retry
    <2> QED
      BY <1>1, <1>2, <1>10, <2>1, Releases
  <1>11. ASSUME n.state = "live", n.rev # 0, n.rev = record.rev, Written("live", n.req),
                Quarantine(p, l), UNCHANGED mem
         PROVE  IInv' /\ Grows
    BY <1>1, <1>6, <1>11, LeavesLoop
  <1> QED
    BY <1>3, <1>7, <1>8, <1>9, <1>10, <1>11 DEF writeLoopRecord

-----------------------------------------------------------------------------
(* The cancel lane.                                                        *)

LEMMA CancelStep ==
  ASSUME IInv, NEW p \in Procs, handleCancelSignal(p)
  PROVE  IInv' /\ Grows
  <1> DEFINE l == "cancel"
  <1>1. ~At(p, l, "idle") /\ l \in Lanes /\ l # "task" /\ UNCHANGED durable
    BY DEF handleCancelSignal, At, Lanes
  <1>2. Grows /\ Durable' /\ record' = record /\ stored' = stored
    BY <1>1, Quiet DEF durable
  <1>3. CASE mem[p].state = "live" /\ Commit(p, l, "cancelled")
    <2>1. Held(p) /\ "cancelled" \in Kinds
      BY <1>3 DEF Held, Kinds, None
    <2> QED
      BY <1>1, <1>2, <1>3, <2>1, Commits
  <1>4. CASE Ack(p, l) /\ UNCHANGED mem
    BY <1>1, <1>2, <1>4, LeavesLoop
  <1>5. CASE Continue(p, l, "unheld") /\ UNCHANGED mem
    BY <1>1, <1>2, <1>5, GoesOn
  <1> QED
    BY <1>2, <1>3, <1>4, <1>5 DEF handleCancelSignal

LEMMA UncancellableStep ==
  ASSUME IInv, NEW p \in Procs, settleUncancellableLoop(p)
  PROVE  IInv' /\ Grows
  <1> DEFINE l == "cancel"
  <1>1. ~At(p, l, "idle") /\ l \in Lanes /\ l # "task" /\ UNCHANGED <<durable, mem>>
    BY DEF settleUncancellableLoop, At, Lanes
  <1>2. Grows /\ Durable' /\ marker' = marker
    BY <1>1, Quiet DEF durable
  <1>3. CASE Ack(p, l) \/ Retry(p, l)
    BY <1>1, <1>2, <1>3, LeavesLoop
  <1>4. CASE marker = "cancelled" /\ Continue(p, l, "adopt")
    <2>1. PICK m : m = mem[p]
      OBVIOUS
    <2>2. \A o \in Ops : o.pc = "adopt" => Carried(o, l, m.req)' /\ Owned(o)'
      BY <1>2, <1>4 DEF Carried, Owned
    <2>3. "adopt" \in Steps
      BY DEF Steps
    <2> QED
      BY <1>1, <1>2, <1>4, <2>1, <2>2, <2>3, Continues
  <1> QED
    BY <1>2, <1>3, <1>4 DEF settleUncancellableLoop

LEMMA AdoptStep ==
  ASSUME IInv, NEW p \in Procs, adoptDurableCancel(p)
  PROVE  IInv' /\ Grows
  <1> DEFINE l == "cancel"
  <1>1. /\ op[p][l].pc = "adopt" /\ ~At(p, l, "idle") /\ l \in Lanes /\ l # "task"
        /\ UNCHANGED <<record, marker, stored, mem>>
    BY DEF adoptDurableCancel, At, Lanes
  <1>2. marker = "cancelled" /\ events' \in {events, events \union {marker}}
    BY <1>1 DEF adoptDurableCancel, IInv, OpInv, Owned
  <1>3. Grows
    BY <1>1, <1>2 DEF Grows, IInv, Shape, Kinds
  <1>4. Durable'
    BY <1>1, <1>2 DEF IInv, Durable, CommitOrder
  <1>5. CASE Quarantine(p, l)
    BY <1>1, <1>3, <1>4, <1>5, LeavesLoop
  <1>6. CASE events' = events \union {marker} /\ Continue(p, l, "rewrite")
    <2>1. PICK m : m = mem[p]
      OBVIOUS
    <2>2. \A o \in Ops : o.pc = "rewrite" => Carried(o, l, m.req)' /\ Owned(o)'
      BY <1>6 DEF Carried, Owned
    <2>3. "rewrite" \in Steps
      BY DEF Steps
    <2> QED
      BY <1>1, <1>3, <1>4, <1>6, <2>1, <2>2, <2>3, Continues
  <1> QED
    BY <1>3, <1>5, <1>6 DEF adoptDurableCancel

LEMMA RewriteStep ==
  ASSUME IInv, NEW p \in Procs, writeRecordCancelled(p)
  PROVE  IInv' /\ Grows
  <1> DEFINE l == "cancel"
  <1>1. /\ op[p][l].pc = "rewrite" /\ ~At(p, l, "idle") /\ l \in Lanes /\ l # "task"
        /\ UNCHANGED <<marker, events, stored, mem>>
    BY DEF writeRecordCancelled, At, Lanes
  <1>2. events # {}
    BY <1>1 DEF IInv, OpInv, Owned
  <1>3. ASSUME UNCHANGED record PROVE Grows /\ Durable'
    BY <1>1, <1>3, Quiet DEF durable
  <1>4. ASSUME ~Stale, Written("cancelled", record.req) PROVE Grows /\ Durable'
    <2>1. PICK r \in {0, 1, 2} : r = record.req
      BY DEF IInv, Shape
    <2>2. r # 0 /\ (r = 2 => 2 \in stored)
      BY <1>4, <2>1 DEF IInv, Durable, Stale
    <2>3. "cancelled" \in States \ {None} /\ Terminal("cancelled")
      BY DEF States, Kinds, None, Terminal
    <2>4. r \in {1, 2} /\ r >= record.req /\ Written("cancelled", r)
      BY <1>4, <2>1, <2>2
    <2> QED
      BY <1>1, <1>2, <2>2, <2>3, <2>4, Writes
  <1>5. /\ UNCHANGED record \/ (~Stale /\ Written("cancelled", record.req))
        /\ Ack(p, l) \/ Retry(p, l) \/ Quarantine(p, l)
    BY DEF writeRecordCancelled
  <1>6. Grows /\ Durable'
    BY <1>3, <1>4, <1>5
  <1> QED
    BY <1>1, <1>5, <1>6, LeavesLoop

-----------------------------------------------------------------------------
(* The server, the model and a crash.                                      *)

LEMMA DeliverStep ==
  ASSUME IInv, NEW p \in Procs, NEW l \in Lanes, Deliver(p, l)
  PROVE  IInv' /\ Grows
  <1>1. UNCHANGED <<durable, mem>>
    BY DEF Deliver
  <1>2. Grows /\ Durable' /\ record' = record /\ stored' = stored
    BY <1>1, Quiet DEF durable
  <1>3. PICK d \in Msgs : /\ d[1] = l /\ msg[d] = "ready" /\ msg' = [msg EXCEPT ![d] = "out"]
                          /\ Go(p, l, [Idle EXCEPT !.pc = "start", !.r = d[2]])
    BY DEF Deliver
  <1>4. PICK r \in {0, 1, 2} : r = d[2]
    BY DEF Msgs, Reqs
  <1>5. PICK o : o = [Idle EXCEPT !.pc = "start", !.r = r]
    OBVIOUS
  <1>6. o \in Ops /\ o.pc = "start" /\ o.rev = 0
    BY <1>4, <1>5 DEF Ops, Idle, Steps
  <1>7. PICK m \in Mems : m = mem[p]
    BY DEF IInv, Shape
  <1>8. PICK pc : pc = IF l = "task" THEN o.pc ELSE op[p]["task"].pc
    OBVIOUS
  <1>9. Known(m) /\ Rooted(m, op[p]["task"].pc)
    BY <1>7 DEF IInv, MemInv
  <1>10. Rooted(m, pc)
    <2>1. At(p, l, "idle")
      BY DEF Deliver
    <2> QED
      BY <1>6, <1>8, <1>9, <2>1 DEF Rooted, Births, At
  <1>11. Known(m)' /\ Rooted(m, pc)'
    BY <1>2, <1>7, <1>9, <1>10, GrowsKeepsMem DEF IInv
  <1>12. Sighted(o, l)' /\ Carried(o, l, m.req)' /\ Owned(o)'
    <2>1. record'.rev \in Nat
      BY <1>2 DEF Grows
    <2> QED
      BY <1>6, <2>1 DEF Sighted, Carried, Owned
  <1>13. msg' \in [Msgs -> Fates]
    BY <1>3 DEF IInv, Shape, Fates
  <1>14. Moves(p, l, o, m)
    BY <1>1, <1>3, <1>4, <1>5, <1>6, <1>7 DEF Moves, Go, IInv, Shape
  <1>15. Messages'
    <2>1. ASSUME stored = {} PROVE l # "response"
      <3>1. \A q \in Reqs : msg[<<"response", q>>] = "unsent"
        BY <2>1 DEF IInv, Messages
      <3>2. l = "response" => \E q \in Reqs : d = <<"response", q>>
        BY <1>3 DEF Msgs
      <3> QED
        BY <1>3, <3>1, <3>2
    <2>2. l # "response" => \A q \in Procs : op'[q]["response"] = op[q]["response"]
      BY <1>14, MovesFacts DEF IInv, Lanes
    <2>3. l # "response" => \A q \in Reqs : msg'[<<"response", q>>] = msg[<<"response", q>>]
      BY <1>3 DEF IInv, Shape, Msgs
    <2>4. msg'[<<"task", 0>>] = "settled" => msg[<<"task", 0>>] = "settled"
      BY <1>3 DEF IInv, Shape, Msgs
    <2> QED
      BY <1>2, <2>1, <2>2, <2>3, <2>4 DEF IInv, Messages
  <1>16. m.req <= mem[p].req
    BY <1>7 DEF Mems
  <1> QED
    BY <1>2, <1>8, <1>11, <1>12, <1>13, <1>14, <1>15, <1>16, Assembled

\* A step of the server alone.
LEMMA ServerOnly ==
  ASSUME IInv, UNCHANGED <<durable, mem, op>>,
         msg' \in [Msgs -> Fates], Messages'
  PROVE  IInv' /\ Grows
  <1>1. Grows /\ Durable' /\ record' = record /\ stored' = stored /\ marker' = marker
        /\ events' = events /\ mem' = mem /\ op' = op
    BY Quiet DEF durable
  <1>2. Shape'
    BY <1>1 DEF IInv, Shape
  <1>3. \A p \in Procs : MemInv(p)'
    BY <1>1 DEF IInv, MemInv, Known, Rooted
  <1>4. \A p \in Procs, l \in Lanes : OpInv(p, l)'
    BY <1>1 DEF IInv, OpInv, Sighted, Carried, Owned
  <1> QED
    BY <1>1, <1>2, <1>3, <1>4 DEF IInv

LEMMA LeaseStep ==
  ASSUME IInv, NEW p \in Procs, NEW l \in Lanes, LeaseEnds(p, l)
  PROVE  IInv' /\ Grows
  <1>1. /\ UNCHANGED <<durable, mem, op>> /\ ~At(p, l, "idle") /\ msg[Message(p, l)] = "out"
        /\ msg' = [msg EXCEPT ![Message(p, l)] = "ready"]
    BY DEF LeaseEnds
  <1>2. msg' \in [Msgs -> Fates]
    BY <1>1 DEF IInv, Shape, Fates
  <1>3. Messages'
    <2>1. stored = {} => l # "response"
      BY <1>1 DEF IInv, Messages, At
    <2>2. l # "response" => \A q \in Reqs : msg'[<<"response", q>>] = msg[<<"response", q>>]
      BY <1>1 DEF IInv, Shape, Msgs, Message
    <2>3. msg'[<<"task", 0>>] = "settled" => msg[<<"task", 0>>] = "settled"
      BY <1>1 DEF IInv, Shape, Msgs
    <2>4. record' = record /\ stored' = stored /\ op' = op
      BY <1>1 DEF durable
    <2> QED
      BY <2>1, <2>2, <2>3, <2>4 DEF IInv, Messages
  <1> QED
    BY <1>1, <1>2, <1>3, ServerOnly

LEMMA ModelStep ==
  ASSUME IInv, NEW r \in Reqs, Model(r)
  PROVE  IInv' /\ Grows
  <1>1. /\ UNCHANGED <<durable, mem, op>> /\ r \in stored
        /\ msg' = [msg EXCEPT ![<<"response", r>>] = "ready"]
    BY DEF Model
  <1>2. msg' \in [Msgs -> Fates]
    BY <1>1 DEF IInv, Shape, Fates
  <1>3. Messages'
    <2>1. msg'[<<"task", 0>>] = msg[<<"task", 0>>]
      BY <1>1 DEF IInv, Shape, Msgs
    <2>2. record' = record /\ stored' = stored /\ stored # {}
      BY <1>1 DEF durable
    <2> QED
      BY <2>1, <2>2 DEF IInv, Messages
  <1> QED
    BY <1>1, <1>2, <1>3, ServerOnly

LEMMA CrashStep ==
  ASSUME IInv, NEW p \in Procs, Crash(p)
  PROVE  IInv' /\ Grows
  <1>1. /\ UNCHANGED durable /\ mem' = [mem EXCEPT ![p] = NoMem]
        /\ op' = [op EXCEPT ![p] = [l \in Lanes |-> Idle]]
    BY DEF Crash, Release, Remember
  <1>2. Grows /\ Durable' /\ record' = record /\ stored' = stored /\ marker' = marker
        /\ events' = events
    BY <1>1, Quiet DEF durable
  <1>3. NoMem \in Mems /\ Known(NoMem)' /\ \A pc : Rooted(NoMem, pc)'
    BY <1>2, NoMemFacts DEF IInv
  <1>4. Idle \in Ops /\ Idle.pc = "idle" /\ \A l \in Lanes :
          Sighted(Idle, l)' /\ Carried(Idle, l, NoMem.req)' /\ Owned(Idle)'
    BY <1>2, IdleFacts DEF IInv
  <1>5. mem' \in [Procs -> Mems] /\ op' \in [Procs -> [Lanes -> Ops]]
    BY <1>1, <1>3, <1>4 DEF IInv, Shape
  <1>6. /\ mem'[p] = NoMem /\ \A l \in Lanes : op'[p][l] = Idle
        /\ \A q \in Procs : q # p => mem'[q] = mem[q] /\ op'[q] = op[q]
    BY <1>1 DEF IInv, Shape
  <1>7. /\ DOMAIN msg' = Msgs
        /\ \A d \in Msgs : msg'[d] = msg[d] \/ (msg[d] = "out" /\ msg'[d] = "ready")
        /\ msg' = [d \in Msgs |-> msg'[d]]
    BY DEF Crash
  <1>8. msg' \in [Msgs -> Fates]
    <2>1. \A d \in Msgs : msg'[d] \in Fates
      BY <1>7 DEF IInv, Shape, Fates
    <2> QED
      BY <1>7, <2>1
  <1>9. Shape'
    BY <1>2, <1>5, <1>8 DEF IInv, Shape
  <1>10. Messages'
    <2>1. \A r \in Reqs : <<"response", r>> \in Msgs
      BY DEF Msgs
    <2>2. <<"task", 0>> \in Msgs
      BY DEF Msgs
    <2>3. "response" \in Lanes
      BY DEF Lanes
    <2>4. stored = {} => \A r \in Reqs : msg'[<<"response", r>>] = "unsent"
      BY <1>7, <2>1 DEF IInv, Messages
    <2>5. stored = {} => \A q \in Procs : op'[q]["response"].pc = "idle"
      BY <1>4, <1>6, <2>3 DEF IInv, Messages
    <2>6. msg'[<<"task", 0>>] = "settled" => msg[<<"task", 0>>] = "settled"
      BY <1>7, <2>2
    <2> QED
      BY <1>2, <2>4, <2>5, <2>6 DEF IInv, Messages
  <1>11. ASSUME NEW q \in Procs PROVE MemInv(q)' /\ \A l \in Lanes : OpInv(q, l)'
    <2>1. CASE q = p
      BY <1>3, <1>4, <1>6, <2>1 DEF MemInv, OpInv
    <2>2. CASE q # p
      <3>1. mem'[q] = mem[q] /\ op'[q] = op[q]
        BY <1>6, <2>2
      <3>2. MemInv(q)'
        BY <1>2, <3>1 DEF IInv, MemInv, Known, Rooted
      <3>3. \A l \in Lanes : OpInv(q, l)'
        BY <1>2, <3>1 DEF IInv, OpInv, Sighted, Carried, Owned
      <3> QED
        BY <3>2, <3>3
    <2> QED
      BY <2>1, <2>2
  <1> QED
    BY <1>2, <1>9, <1>10, <1>11 DEF IInv

-----------------------------------------------------------------------------
(* The theorems.                                                           *)

LEMMA InitLoop == Init => IInv
  <1> SUFFICES ASSUME Init PROVE IInv
    OBVIOUS
  <1>1. Idle \in Ops /\ NoMem \in Mems
    BY DEF Idle, Ops, Steps, NoMem, Mems, States
  <1>2. Shape
    BY <1>1 DEF Init, Shape, States, Msgs, Fates
  <1>3. Durable
    BY DEF Init, Durable, CommitOrder, Terminal, Kinds, None
  <1>4. Messages
    BY DEF Init, Messages, Msgs, Idle, Lanes
  <1>5. \A p \in Procs : MemInv(p)
    BY DEF Init, MemInv, Known, Rooted, NoMem, Terminal, Kinds, None
  <1>6. \A p \in Procs, l \in Lanes : OpInv(p, l)
    BY DEF Init, OpInv, Sighted, Carried, Owned, Idle
  <1> QED
    BY <1>2, <1>3, <1>4, <1>5, <1>6 DEF IInv

LEMMA StepLoop == IInv /\ [Next]_vars => IInv' /\ Grows
  <1> SUFFICES ASSUME IInv, [Next]_vars PROVE IInv' /\ Grows
    OBVIOUS
  <1>1. CASE UNCHANGED vars
    <2>1. UNCHANGED <<durable, mem, op, msg>>
      BY <1>1 DEF vars, server
    <2>2. msg' \in [Msgs -> Fates] /\ Messages'
      BY <2>1 DEF IInv, Shape, Messages, durable
    <2> QED
      BY <2>1, <2>2, ServerOnly
  <1>2. CASE \E r \in Reqs : Model(r)
    BY <1>2, ModelStep
  <1>3. ASSUME NEW p \in Procs,
               \/ Crash(p)
               \/ \E l \in Lanes :
                    \/ Deliver(p, l) \/ LeaseEnds(p, l) \/ ReadFails(p, l)
                    \/ settleTerminalGuard(p, l)
                    \/ createTerminalMarker(p, l) \/ publishTerminal(p, l)
                    \/ persistTerminal(p, l)
        PROVE  IInv' /\ Grows
    BY <1>3, CrashStep, DeliverStep, LeaseStep, ReadFailsStep, GuardStep, MarkerStep, EventStep, PersistStep
  <1>4. ASSUME NEW p \in Procs,
               \/ classifyRedeliveredTask(p) \/ HandleTask(p) \/ WriteSpawnIdentity(p)
               \/ createLoopState(p) \/ terminateOversizedBirth(p) \/ publishFirstRequest(p)
        PROVE  IInv' /\ Grows
    BY <1>4, ClassifyStep, TaskStep, SpawnStep, BirthStep, OversizedStep, FirstStep
  <1>5. ASSUME NEW p \in Procs,
               \/ settleResponseWithoutLoop(p) \/ restoreLoopFromEvidence(p)
               \/ orderResponse(p) \/ settleRequest(p) \/ HandleModelResponse(p)
               \/ persistHandlerResult(p) \/ publishNextRequest(p)
               \/ stampPublishedRequest(p) \/ writeLoopRecord(p)
        PROVE  IInv' /\ Grows
    BY <1>5, UnheldStep, RestoreStep, OrderStep, SettleStep, ResponseStep, CarryStep, NextStep,
       StampStep, WriteStep
  <1>6. ASSUME NEW p \in Procs,
               \/ handleCancelSignal(p) \/ settleUncancellableLoop(p)
               \/ adoptDurableCancel(p) \/ writeRecordCancelled(p)
        PROVE  IInv' /\ Grows
    BY <1>6, CancelStep, UncancellableStep, AdoptStep, RewriteStep
  <1> QED
    BY <1>1, <1>2, <1>3, <1>4, <1>5, <1>6 DEF Next

\* The invariant holds in every behaviour of any number of processes, with crashes,
\* ended leases and failures of the store, the stream and the graph in any number.
THEOREM LoopInvariant == Spec => []IInv
  BY InitLoop, StepLoop, PTL DEF Spec

\* How the loop ended is decided once, and after its birth a record ends only behind
\* the terminal event (commitTerminal's marker, event, record).
THEOREM EndsAreDecidedOnce == Spec => []CommitOrder
  <1>1. IInv => CommitOrder
    BY DEF IInv, Durable
  <1> QED
    BY <1>1, LoopInvariant, PTL

\* An acknowledged task has its loop: a record, and while that is live the request it
\* names on the stream (handleTaskMessage).
THEOREM TasksAreNotLost == Spec => []TaskNotLost
  <1>1. IInv => TaskNotLost
    BY DEF IInv, Messages, Durable, Shape, TaskNotLost, Reqs, None
  <1> QED
    BY <1>1, LoopInvariant, PTL

\* A loop that ended never runs again and its record never names an older request
\* (Create at birth, compare-and-swap afterwards).
THEOREM RecordsGoForward == Spec => RecordForward
  <1>1. IInv /\ [Next]_vars =>
          [/\ Terminal(record.state) => Terminal(record'.state)
           /\ record'.req >= record.req]_record
    <2> SUFFICES ASSUME IInv, [Next]_vars
                 PROVE  [/\ Terminal(record.state) => Terminal(record'.state)
                         /\ record'.req >= record.req]_record
      OBVIOUS
    <2>1. Grows
      BY StepLoop
    <2> QED
      BY <2>1 DEF Grows
  <1> QED
    BY <1>1, LoopInvariant, PTL DEF Spec, RecordForward

-----------------------------------------------------------------------------
(* Without a fault, until a terminal event is out: what happens to an      *)
(* answer.                                                                 *)

Waiting == {"idle", "start", "restore", "apply", "current", "ended", "guard"}
Committing == {"marker", "event"}
Retrying == {"carry", "publish", "stamp", "write"}

\* Each lane is at work in one process at a time, on a message that is out.
Exclusive ==
  \A l \in Lanes, p \in Procs : op[p][l].pc # "idle" =>
    /\ Message(p, l) \in Msgs /\ msg[Message(p, l)] = "out"
    /\ \A q \in Procs : op[q][l].pc # "idle" => q = p

\* The birth is over once its request is retained.
Born ==
  stored # {} => /\ record.state # None /\ msg[<<"task", 0>>] = "settled"
                 /\ \A p \in Procs : op[p]["task"].pc = "idle"

\* The revisions of a live record count its requests.
Counted == record.state = "live" => record.rev = record.req

\* A process between its calls.  m is its memory, t and c are the steps of its task and
\* cancel lanes, o is the work of its response lane.
Ordered(m, t, c, o) ==
  /\ t \in {"idle", "start", "seat", "graph", "record", "publish"}
  /\ o.pc \in Waiting \union Committing \union Retrying \union {"decide"}
  /\ m.state # None => m.rev # 0 \/ t \in {"graph", "record"}
  /\ Terminal(m.state) => c \in Committing \/ o.pc \in Committing
  /\ o.pc \in Committing => m.state # "live"
  /\ m.state = "live" /\ o.pc \in Waiting => m.out = m.req /\ (m.req = 2 => record.req = 2)
  /\ m.state # None /\ o.pc \in Waiting /\ m.req = 2 => m.out = 2
  /\ o.pc \in {"current", "ended"} => m.state # None /\ o.r = m.req
  /\ o.pc = "current" /\ o.r = 2 => record.req = 2
  /\ m.state # None /\ o.pc = "decide" => o.r = m.req
  /\ m.state # None /\ o.pc \in Retrying =>
       /\ o.r = 1 /\ o.req = 2 /\ m.out = 2
       /\ o.pc = "write" => m.req = 2
       /\ m.rev = record.rev => record.req = 1
  /\ o.pc \in {"publish", "stamp", "write"} => o.req = 2
  /\ o.pc = "restore" => o.req <= record.req

Steady(p) == Ordered(mem[p], op[p]["task"].pc, op[p]["cancel"].pc, op[p]["response"])

\* The process that ended the loop and will write so.
Ends(m, c, o) ==
  /\ Terminal(m.state) /\ m.rev # 0 /\ m.rev = record.rev
  /\ c \in Committing /\ o.pc \in Waiting

Ending(p) == Ends(mem[p], op[p]["cancel"].pc, op[p]["response"])

\* The retry's answer is settled only by the end; the first one's by the end, by the
\* retry, or by a process that is about to write the end.
Settled ==
  /\ msg[<<"response", 2>>] = "settled" => Terminal(record.state)
  /\ msg[<<"response", 1>>] = "settled" =>
       Terminal(record.state) \/ record.req = 2 \/ \E p \in Procs : Ending(p)

Smooth ==
  Exclusive /\ Born /\ Counted /\ Settled /\ \A p \in Procs : Steady(p)

Calm == faults \in Nat /\ (faults = 0 /\ events = {} => Smooth)

-----------------------------------------------------------------------------
(* What a step of a lane has in common, without a fault.                   *)

\* Lane l of process p, at work, goes on with o or ends, and settles its message as s.
Turn(p, l, o, m, s) ==
  /\ Moves(p, l, o, m) /\ Served(p, l, s) /\ answer' = answer
  /\ op[p][l].pc # "idle"
  /\ IF o.pc = "idle" THEN s \in {"ready"} \union Final ELSE s = "out" /\ o.r = op[p][l].r

LEMMA TurnFacts ==
  ASSUME Shape, Exclusive, NEW p, NEW l, NEW o, NEW m, NEW s, Turn(p, l, o, m, s)
  PROVE  /\ p \in Procs /\ l \in Lanes
         /\ Message(p, l) \in Msgs /\ msg[Message(p, l)] = "out"
         /\ s # "out" => msg'[Message(p, l)] = s
         /\ \A d \in Msgs : d # Message(p, l) \/ s = "out" => msg'[d] = msg[d]
         /\ \A d \in Msgs : msg[d] = "settled" => msg'[d] = "settled"
         /\ \A d \in Msgs : msg[d] = "unsent" => msg'[d] = "unsent"
         /\ l = "task" => Message(p, l) = <<"task", 0>>
         /\ l = "cancel" => Message(p, l) = <<"cancel", 0>>
         /\ l = "response" => op[p][l].r \in {1, 2}
  <1>1. p \in Procs /\ l \in Lanes /\ op[p][l].pc # "idle" /\ Served(p, l, s)
    BY DEF Turn, Moves
  <1>2. Message(p, l) \in Msgs /\ msg[Message(p, l)] = "out"
    BY <1>1 DEF Exclusive
  <1>3. PICK d \in Msgs : d = Message(p, l)
    BY <1>2
  <1>4. (s = "out" /\ msg' = msg) \/ (s # "out" /\ msg' = [msg EXCEPT ![d] = s])
    BY <1>1, <1>2, <1>3 DEF Served, Final
  <1>5. /\ s # "out" => msg'[d] = s
        /\ \A e \in Msgs : e # d \/ s = "out" => msg'[e] = msg[e]
    BY <1>4 DEF Shape
  <1>6. d = <<l, op[p][l].r>>
    BY <1>3 DEF Message
  <1>7. /\ l = "task" => d = <<"task", 0>>
        /\ l = "cancel" => d = <<"cancel", 0>>
        /\ l = "response" => op[p][l].r \in {1, 2}
    BY <1>6 DEF Msgs, Reqs
  <1> QED
    BY <1>1, <1>2, <1>3, <1>5, <1>7

LEMMA ExclusiveKept ==
  ASSUME Shape, Exclusive, NEW p, NEW l, NEW o, NEW m, NEW s, Turn(p, l, o, m, s)
  PROVE  Exclusive'
  <1> SUFFICES ASSUME NEW k \in Lanes, NEW q \in Procs, op'[q][k].pc # "idle"
               PROVE  /\ Message(q, k)' \in Msgs /\ msg'[Message(q, k)'] = "out"
                      /\ \A z \in Procs : op'[z][k].pc # "idle" => z = q
    BY DEF Exclusive
  <1>1. /\ op'[p][l] = o
        /\ \A z \in Procs : z # p => op'[z] = op[z]
        /\ \A j \in Lanes : j # l => op'[p][j] = op[p][j]
    BY MovesFacts DEF Turn
  <1>2. /\ p \in Procs /\ l \in Lanes
        /\ \A d \in Msgs : d # Message(p, l) \/ s = "out" => msg'[d] = msg[d]
    BY TurnFacts
  <1>3. op[p][l].pc # "idle" /\ (o.pc # "idle" => s = "out" /\ o.r = op[p][l].r)
    BY DEF Turn
  <1>4. \A z \in Procs : op'[z][k].pc # "idle" => op[z][k].pc # "idle"
    BY <1>1, <1>3
  <1>5. op'[q][k].r = op[q][k].r
    BY <1>1, <1>3
  <1>6. /\ Message(q, k) \in Msgs /\ msg[Message(q, k)] = "out"
        /\ \A z \in Procs : op[z][k].pc # "idle" => z = q
    BY <1>4 DEF Exclusive
  <1>7. Message(q, k)' = Message(q, k)
    BY <1>5 DEF Message
  <1>8. Message(q, k) # Message(p, l) \/ s = "out"
    <2> SUFFICES ASSUME Message(q, k) = Message(p, l) PROVE s = "out"
      OBVIOUS
    <2>1. k = l
      BY DEF Message
    <2>2. q = p
      BY <1>2, <1>3, <1>6, <2>1
    <2> QED
      BY <1>1, <1>3, <2>1, <2>2
  <1> QED
    BY <1>2, <1>4, <1>6, <1>7, <1>8

LEMMA BornKept ==
  ASSUME Shape, Exclusive, Born, Grows,
         NEW p, NEW l, NEW o, NEW m, NEW s, Turn(p, l, o, m, s),
         \/ stored' = stored \/ stored # {}
         \/ l = "task" /\ s = "settled" /\ record'.state # None
  PROVE  Born'
  <1>1. /\ op'[p][l] = o
        /\ \A z \in Procs : z # p => op'[z] = op[z]
        /\ \A j \in Lanes : j # l => op'[p][j] = op[p][j]
    BY MovesFacts DEF Turn
  <1>2. /\ p \in Procs /\ l \in Lanes /\ <<"task", 0>> \in Msgs
        /\ \A d \in Msgs : msg[d] = "settled" => msg'[d] = "settled"
        /\ l = "task" => Message(p, l) = <<"task", 0>>
        /\ s # "out" => msg'[Message(p, l)] = s
    BY TurnFacts DEF Msgs
  <1>3. op[p][l].pc # "idle" /\ (o.pc # "idle" => s = "out")
    BY DEF Turn
  <1>4. CASE stored # {}
    <2>1. record.state # None /\ msg[<<"task", 0>>] = "settled"
          /\ \A q \in Procs : op[q]["task"].pc = "idle"
      BY <1>4 DEF Born
    <2>2. l # "task" /\ "task" \in Lanes
      BY <1>2, <1>3, <2>1 DEF Lanes
    <2>3. \A q \in Procs : op'[q]["task"].pc = "idle"
      BY <1>1, <2>1, <2>2
    <2>4. record'.state # None
      BY <2>1 DEF Grows
    <2> QED
      BY <1>2, <2>1, <2>3, <2>4 DEF Born
  <1>5. CASE stored = {} /\ stored' = stored
    BY <1>5 DEF Born
  <1>6. CASE l = "task" /\ s = "settled" /\ record'.state # None
    <2>1. o.pc = "idle" /\ msg'[<<"task", 0>>] = "settled"
      BY <1>2, <1>3, <1>6
    <2>2. \A q \in Procs : q # p => op[q]["task"].pc = "idle"
      BY <1>2, <1>3, <1>6 DEF Exclusive
    <2>3. \A q \in Procs : op'[q]["task"].pc = "idle"
      BY <1>1, <1>6, <2>1, <2>2
    <2> QED
      BY <1>6, <2>1, <2>3 DEF Born
  <1> QED
    BY <1>4, <1>5, <1>6

\* What a process knows of the order survives the steps of the others.
LEMMA OrderedKept ==
  ASSUME Shape, Grows, NEW m \in Mems, NEW t, NEW c, NEW x \in Ops, Known(m),
         Ordered(m, t, c, x)
  PROVE  Ordered(m, t, c, x)'
  <1>1. /\ m.rev \in Nat /\ record.rev \in Nat /\ x.req \in {0, 1, 2}
        /\ record.req \in {0, 1, 2} /\ record'.req \in {0, 1, 2}
    BY DEF Mems, Ops, Shape, Grows
  <1>2. CASE record' = record
    BY <1>2 DEF Ordered
  <1>3. CASE record'.rev = record.rev + 1 /\ record'.req >= record.req
    <2>1. m.rev # record'.rev
      BY <1>1, <1>3 DEF Known
    <2>2. /\ record.req = 2 => record'.req = 2
          /\ x.req <= record.req => x.req <= record'.req
      BY <1>1, <1>3
    <2> QED
      BY <2>1, <2>2 DEF Ordered
  <1> QED
    BY <1>2, <1>3 DEF Grows

\* An answer is settled by a step that leaves the loop ended, asking again, or about to
\* be written ended; and such an end is not given up.
LEMMA SettledKept ==
  ASSUME IInv, Exclusive, Settled, Grows,
         NEW p, NEW l, NEW o, NEW m, NEW s, Turn(p, l, o, m, s), stored # {},
         l = "response" /\ s = "settled" /\ op[p][l].r = 2 => Terminal(record'.state),
         l = "response" /\ s = "settled" /\ op[p][l].r = 1 =>
           Terminal(record'.state) \/ record'.req = 2 \/ Ending(p)',
         record' = record \/ Terminal(record'.state) \/ record'.req = 2,
         Ending(p) => \/ Terminal(record'.state) \/ record'.req = 2 \/ Ending(p)'
                      \/ msg'[<<"response", 1>>] # "settled"
  PROVE  Settled'
  <1>1. \A z \in Procs : z # p => op'[z] = op[z] /\ mem'[z] = mem[z]
    BY MovesFacts DEF Turn, IInv
  <1>2. /\ p \in Procs /\ l \in Lanes
        /\ \A d \in Msgs : d # Message(p, l) \/ s = "out" => msg'[d] = msg[d]
        /\ s # "out" => msg'[Message(p, l)] = s
    BY TurnFacts DEF IInv
  <1>3. <<"response", 1>> \in Msgs /\ <<"response", 2>> \in Msgs
    BY DEF Msgs, Reqs
  <1>4. ASSUME NEW r \in {1, 2}, msg'[<<"response", r>>] = "settled"
        PROVE  \/ msg[<<"response", r>>] = "settled"
               \/ l = "response" /\ s = "settled" /\ op[p][l].r = r
    <2>1. CASE <<"response", r>> # Message(p, l) \/ s = "out"
      BY <1>2, <1>3, <1>4, <2>1
    <2>2. CASE <<"response", r>> = Message(p, l) /\ s # "out"
      <3>1. l = "response" /\ op[p][l].r = r
        BY <2>2 DEF Message
      <3> QED
        BY <1>2, <1>4, <2>2, <3>1
    <2> QED
      BY <2>1, <2>2
  <1>5. /\ Terminal(record.state) => Terminal(record'.state)
        /\ record.req = 2 => record'.req = 2
    <2>1. CASE record' = record
      BY <2>1
    <2>2. CASE record'.req >= record.req /\ (Terminal(record.state) => Terminal(record'.state))
      <3>1. record'.req \in {0, 1, 2}
        BY DEF Grows
      <3> QED
        BY <2>2, <3>1
    <2> QED
      BY <2>1, <2>2 DEF Grows
  <1>6. ASSUME NEW q \in Procs, Ending(q), msg'[<<"response", 1>>] = "settled"
        PROVE  Terminal(record'.state) \/ record'.req = 2 \/ Ending(q)'
    <2>1. CASE q = p
      BY <1>6, <2>1
    <2>2. CASE q # p
      <3>1. CASE record' = record
        BY <1>1, <1>6, <2>2, <3>1 DEF Ending, Ends
      <3> QED
        BY <3>1
    <2> QED
      BY <2>1, <2>2
  <1>7. msg'[<<"response", 2>>] = "settled" => Terminal(record'.state)
    BY <1>4, <1>5 DEF Settled
  <1>8. ASSUME msg'[<<"response", 1>>] = "settled"
        PROVE  Terminal(record'.state) \/ record'.req = 2 \/ \E q \in Procs : Ending(q)'
    <2>1. CASE l = "response" /\ s = "settled" /\ op[p][l].r = 1
      BY <1>2, <2>1
    <2>2. CASE msg[<<"response", 1>>] = "settled"
      <3>1. Terminal(record.state) \/ record.req = 2 \/ \E q \in Procs : Ending(q)
        BY <2>2 DEF Settled
      <3> QED
        BY <1>5, <1>6, <1>8, <3>1
    <2> QED
      BY <1>4, <1>8, <2>1, <2>2
  <1> QED
    BY <1>7, <1>8 DEF Settled

\* The end of a lane's work, or a step of it, keeps the order if its process keeps it.
LEMMA SmoothKept ==
  ASSUME IInv, IInv', Grows, Smooth,
         NEW p, NEW l, NEW o, NEW m, NEW s, Turn(p, l, o, m, s),
         \/ stored' = stored \/ stored # {}
         \/ l = "task" /\ s = "settled" /\ record'.state # None,
         record' = record \/ Counted',
         NEW t, t = IF l = "task" THEN o.pc ELSE op[p]["task"].pc,
         NEW c, c = IF l = "cancel" THEN o.pc ELSE op[p]["cancel"].pc,
         NEW x, x = IF l = "response" THEN o ELSE op[p]["response"],
         Ordered(m, t, c, x)',
         stored # {} =>
           /\ l = "response" /\ s = "settled" /\ op[p][l].r = 2 => Terminal(record'.state)
           /\ l = "response" /\ s = "settled" /\ op[p][l].r = 1 =>
                Terminal(record'.state) \/ record'.req = 2 \/ Ends(m, c, x)'
           /\ record' = record \/ Terminal(record'.state) \/ record'.req = 2
           /\ Ending(p) => \/ Terminal(record'.state) \/ record'.req = 2 \/ Ends(m, c, x)'
                           \/ msg'[<<"response", 1>>] # "settled"
  PROVE  Smooth'
  <1>1. /\ op'[p][l] = o /\ mem'[p] = m
        /\ \A z \in Procs : z # p => op'[z] = op[z] /\ mem'[z] = mem[z]
        /\ \A j \in Lanes : j # l => op'[p][j] = op[p][j]
    BY MovesFacts DEF Turn, IInv
  <1>2. /\ p \in Procs /\ l \in Lanes
        /\ \A d \in Msgs : msg[d] = "settled" => msg'[d] = "settled"
        /\ \A d \in Msgs : msg[d] = "unsent" => msg'[d] = "unsent"
    BY TurnFacts DEF IInv, Smooth
  <1>3. mem'[p] = m /\ op'[p]["task"].pc = t /\ op'[p]["cancel"].pc = c /\ op'[p]["response"] = x
    BY <1>1 DEF Lanes
  <1>4. Exclusive' /\ Born'
    BY ExclusiveKept, BornKept DEF Smooth, IInv
  <1>5. Counted'
    <2>1. CASE record' = record
      BY <2>1 DEF Smooth, Counted
    <2> QED
      BY <2>1
  <1>6. ASSUME NEW q \in Procs PROVE Steady(q)'
    <2>1. CASE q = p
      BY <1>3, <2>1 DEF Steady
    <2>2. CASE q # p
      <3>1. PICK n \in Mems : n = mem[q]
        BY DEF IInv, Shape
      <3>2. PICK y \in Ops : y = op[q]["response"]
        BY DEF IInv, Shape, Lanes
      <3>3. PICK u, v : u = op[q]["task"].pc /\ v = op[q]["cancel"].pc
        OBVIOUS
      <3>4. Ordered(n, u, v, y) /\ Known(n)
        BY <3>1, <3>2, <3>3 DEF Smooth, Steady, IInv, MemInv
      <3>5. Ordered(n, u, v, y)'
        BY <3>4, OrderedKept DEF IInv
      <3>6. mem'[q] = n /\ op'[q]["task"].pc = u /\ op'[q]["cancel"].pc = v
            /\ op'[q]["response"] = y
        BY <1>1, <2>2, <3>1, <3>2, <3>3
      <3> QED
        BY <3>5, <3>6 DEF Steady
    <2> QED
      BY <2>1, <2>2
  <1>7. Settled'
    <2>1. CASE stored = {}
      <3>1. \A r \in Reqs : msg[<<"response", r>>] = "unsent" /\ <<"response", r>> \in Msgs
        BY <2>1 DEF IInv, Messages, Msgs
      <3>2. 1 \in Reqs /\ 2 \in Reqs
        BY DEF Reqs
      <3>3. msg'[<<"response", 1>>] = "unsent" /\ msg'[<<"response", 2>>] = "unsent"
        BY <1>2, <3>1, <3>2
      <3> QED
        BY <3>3 DEF Settled
    <2>2. CASE stored # {}
      <3>1. Ending(p)' <=> Ends(m, c, x)'
        BY <1>3 DEF Ending
      <3> QED
        BY <2>2, <3>1, SettledKept DEF Smooth
    <2> QED
      BY <2>1, <2>2
  <1> QED
    BY <1>4, <1>5, <1>6, <1>7 DEF Smooth

\* The lane's work ends.
LEMMA EndsTurn ==
  ASSUME IInv, NEW p \in Procs, NEW l \in Lanes, ~At(p, l, "idle"),
         NEW s \in {"ready"} \union Final, Settle(p, l, s), UNCHANGED answer,
         NEW m \in Mems, Remember(p, m) \/ (m = mem[p] /\ UNCHANGED mem)
  PROVE  Turn(p, l, Idle, m, s) /\ Idle \in Ops /\ Idle.pc = "idle"
  <1>1. Idle \in Ops /\ Idle.pc = "idle"
    BY DEF Idle, Ops, Steps
  <1>2. mem' = [mem EXCEPT ![p] = m]
    BY DEF Remember, IInv, Shape
  <1>3. Moves(p, l, Idle, m) /\ Served(p, l, s)
    BY <1>1, <1>2 DEF Moves, Settle, Go, Served
  <1> QED
    BY <1>1, <1>3 DEF Turn, At

\* The lane's work goes on.
LEMMA GoesTurn ==
  ASSUME IInv, NEW p \in Procs, NEW l \in Lanes, ~At(p, l, "idle"),
         NEW o \in Ops, o.pc # "idle", o.r = op[p][l].r, Go(p, l, o), UNCHANGED server,
         NEW m \in Mems, Remember(p, m) \/ (m = mem[p] /\ UNCHANGED mem)
  PROVE  Turn(p, l, o, m, "out")
  <1>1. mem' = [mem EXCEPT ![p] = m]
    BY DEF Remember, IInv, Shape
  <1>2. Moves(p, l, o, m) /\ Served(p, l, "out") /\ answer' = answer
    BY <1>1 DEF Moves, Go, Served, server
  <1> QED
    BY <1>2 DEF Turn, At

LEMMA ContinueTurn ==
  ASSUME IInv, NEW p \in Procs, NEW l \in Lanes, ~At(p, l, "idle"),
         NEW pc \in Steps \ {"idle"}, Continue(p, l, pc),
         NEW m \in Mems, Remember(p, m) \/ (m = mem[p] /\ UNCHANGED mem)
  PROVE  \E o \in Ops : /\ o.pc = pc /\ o.r = op[p][l].r /\ o.req = op[p][l].req
                        /\ Turn(p, l, o, m, "out")
  <1>1. PICK o : o = [op[p][l] EXCEPT !.pc = pc]
    OBVIOUS
  <1>2. op[p][l] \in Ops
    BY DEF IInv, Shape
  <1>3. o \in Ops /\ o.pc = pc /\ o.r = op[p][l].r /\ o.req = op[p][l].req
    BY <1>1, <1>2 DEF Ops
  <1>4. Go(p, l, o) /\ UNCHANGED server
    BY <1>1 DEF Continue, Then
  <1> QED
    BY <1>3, <1>4, GoesTurn

\* What a process holds and does.
LEMMA View ==
  ASSUME IInv, Smooth, NEW p \in Procs
  PROVE  \E m \in Mems, t \in Steps, c \in Steps, x \in Ops :
           /\ m = mem[p] /\ t = op[p]["task"].pc /\ c = op[p]["cancel"].pc
           /\ x = op[p]["response"]
           /\ Ordered(m, t, c, x) /\ Known(m) /\ (Ending(p) <=> Ends(m, c, x))
           /\ stored # {} => t = "idle" /\ record.state # None
           /\ stored = {} => x.pc = "idle" /\ m.req # 2
  <1>1. PICK m \in Mems : m = mem[p]
    BY DEF IInv, Shape
  <1>2. PICK x \in Ops : x = op[p]["response"]
    BY DEF IInv, Shape, Lanes
  <1>3. op[p]["task"] \in Ops /\ op[p]["cancel"] \in Ops
    BY DEF IInv, Shape, Lanes
  <1>4. PICK t \in Steps, c \in Steps : t = op[p]["task"].pc /\ c = op[p]["cancel"].pc
    BY <1>3 DEF Ops
  <1>5. Ordered(m, t, c, x) /\ Known(m) /\ (Ending(p) <=> Ends(m, c, x))
    BY <1>1, <1>2, <1>4 DEF Smooth, Steady, IInv, MemInv, Ending
  <1>6. stored # {} => t = "idle" /\ record.state # None
    BY <1>4 DEF Smooth, Born
  <1>7. stored = {} => x.pc = "idle" /\ m.req # 2
    BY <1>2, <1>5 DEF IInv, Messages, Known
  <1> QED
    BY <1>1, <1>2, <1>4, <1>5, <1>6, <1>7

-----------------------------------------------------------------------------
(* The birth, without a fault.                                             *)

\* A step of the task lane: nothing is retained before it.
LEMMA SmoothTask ==
  ASSUME IInv, IInv', Grows, Smooth,
         NEW p, NEW o, NEW m, NEW s, Turn(p, "task", o, m, s),
         stored' = stored \/ (s = "settled" /\ record'.state # None),
         record' = record \/ Counted',
         NEW c, c = op[p]["cancel"].pc, NEW x, x = op[p]["response"],
         Ordered(m, o.pc, c, x)'
  PROVE  Smooth'
  <1>1. p \in Procs /\ op[p]["task"].pc # "idle"
    BY DEF Turn, Moves
  <1>2. stored = {}
    BY <1>1 DEF Smooth, Born
  <1> QED
    BY <1>2, SmoothKept

LEMMA SmoothClassify ==
  ASSUME IInv, IInv', Grows, Smooth, NEW p \in Procs, classifyRedeliveredTask(p)
  PROVE  Smooth'
  <1> DEFINE l == "task"
  <1>1. PICK m \in Mems, t \in Steps, c \in Steps, x \in Ops :
          /\ m = mem[p] /\ t = op[p]["task"].pc /\ c = op[p]["cancel"].pc
          /\ x = op[p]["response"] /\ Ordered(m, t, c, x)
    BY View
  <1>2. /\ t = "start" /\ ~At(p, l, "idle") /\ l \in Lanes /\ UNCHANGED <<durable, mem>>
    BY <1>1 DEF classifyRedeliveredTask, At, Lanes
  <1>3. record' = record /\ stored' = stored
    BY <1>2 DEF durable
  <1>4. Ordered(m, "idle", c, x)' /\ Ordered(m, "seat", c, x)'
    BY <1>1, <1>2, <1>3 DEF Ordered
  <1>5. CASE Ack(p, l)
    <2>1. Turn(p, l, Idle, m, "settled") /\ Idle.pc = "idle"
      BY <1>1, <1>2, <1>5, EndsTurn DEF Ack, Final
    <2> QED
      BY <1>1, <1>3, <1>4, <2>1, SmoothTask
  <1>6. CASE Go(p, l, [op[p][l] EXCEPT !.pc = "seat", !.rev = record.rev])
             /\ UNCHANGED <<server, latched>>
    <2>1. PICK o : o = [op[p][l] EXCEPT !.pc = "seat", !.rev = record.rev]
      OBVIOUS
    <2>2. op[p][l] \in Ops /\ record.rev \in Nat
      BY <1>2 DEF IInv, Shape
    <2>3. o \in Ops /\ o.pc = "seat" /\ o.r = op[p][l].r
      BY <2>1, <2>2 DEF Ops, Steps
    <2>4. Turn(p, l, o, m, "out")
      BY <1>1, <1>2, <1>6, <2>1, <2>3, GoesTurn
    <2> QED
      BY <1>1, <1>3, <1>4, <2>3, <2>4, SmoothTask
  <1>7. CASE Continue(p, l, "seat")
    <2>1. PICK o \in Ops : o.pc = "seat" /\ Turn(p, l, o, m, "out")
      BY <1>1, <1>2, <1>7, ContinueTurn DEF Steps
    <2> QED
      BY <1>1, <1>3, <1>4, <2>1, SmoothTask
  <1> QED
    BY <1>5, <1>6, <1>7 DEF classifyRedeliveredTask

LEMMA SmoothSeat ==
  ASSUME IInv, IInv', Grows, Smooth, NEW p \in Procs, HandleTask(p)
  PROVE  Smooth'
  <1> DEFINE l == "task"
  <1>1. PICK m \in Mems, t \in Steps, c \in Steps, x \in Ops :
          /\ m = mem[p] /\ t = op[p]["task"].pc /\ c = op[p]["cancel"].pc
          /\ x = op[p]["response"] /\ Ordered(m, t, c, x)
          /\ stored # {} => t = "idle"
          /\ stored = {} => x.pc = "idle"
    BY View
  <1>2. /\ t = "seat" /\ ~At(p, l, "idle") /\ l \in Lanes /\ UNCHANGED durable
    BY <1>1 DEF HandleTask, At, Lanes
  <1>3. record' = record /\ stored' = stored
    BY <1>2 DEF durable
  <1>4. CASE Ack(p, l) /\ UNCHANGED mem
    <2>1. Turn(p, l, Idle, m, "settled") /\ Idle.pc = "idle"
      BY <1>1, <1>2, <1>4, EndsTurn DEF Ack, Final
    <2>2. Ordered(m, "idle", c, x)'
      BY <1>1, <1>2, <1>3 DEF Ordered
    <2> QED
      BY <1>1, <1>3, <2>1, <2>2, SmoothTask
  <1>6. CASE Terminate(p, l) /\ UNCHANGED mem
    <2>1. Turn(p, l, Idle, m, "termed") /\ Idle.pc = "idle"
      BY <1>1, <1>2, <1>6, EndsTurn DEF Terminate, Final
    <2>2. Ordered(m, "idle", c, x)'
      BY <1>1, <1>2, <1>3 DEF Ordered
    <2> QED
      BY <1>1, <1>3, <2>1, <2>2, SmoothTask
  <1>5. CASE Remember(p, [state |-> "live", req |-> 1, out |-> 1, rev |-> 0])
             /\ Continue(p, l, "graph")
    <2>1. PICK n : n = [state |-> "live", req |-> 1, out |-> 1, rev |-> 0]
      OBVIOUS
    <2>2. n \in Mems /\ n.state = "live" /\ n.req = 1 /\ n.out = 1
      BY <2>1 DEF Mems, States
    <2>3. PICK o \in Ops : o.pc = "graph" /\ Turn(p, l, o, n, "out")
      BY <1>2, <1>5, <2>1, <2>2, ContinueTurn DEF Steps
    <2>4. x.pc = "idle"
      BY <1>1, <1>2
    <2>5. Ordered(n, "graph", c, x)'
      BY <2>2, <2>4 DEF Ordered, Terminal, Kinds, None, Waiting, Committing, Retrying
    <2> QED
      BY <1>1, <1>3, <2>3, <2>5, SmoothTask
  <1> QED
    BY <1>4, <1>5, <1>6 DEF HandleTask

LEMMA SmoothSpawn ==
  ASSUME IInv, IInv', Grows, Smooth, NEW p \in Procs, WriteSpawnIdentity(p), NoFault,
         faults \in Nat
  PROVE  Smooth'
  <1> DEFINE l == "task"
  <1>1. PICK m \in Mems, t \in Steps, c \in Steps, x \in Ops :
          /\ m = mem[p] /\ t = op[p]["task"].pc /\ c = op[p]["cancel"].pc
          /\ x = op[p]["response"] /\ Ordered(m, t, c, x)
    BY View
  <1>2. /\ t = "graph" /\ ~At(p, l, "idle") /\ l \in Lanes /\ UNCHANGED durable
    BY <1>1 DEF WriteSpawnIdentity, At, Lanes
  <1>3. record' = record /\ stored' = stored
    BY <1>2 DEF durable
  <1>4. Continue(p, l, "record") /\ UNCHANGED mem
    BY DEF WriteSpawnIdentity, Fault, NoFault
  <1>5. PICK o \in Ops : o.pc = "record" /\ Turn(p, l, o, m, "out")
    BY <1>1, <1>2, <1>4, ContinueTurn DEF Steps
  <1>6. Ordered(m, "record", c, x)'
    BY <1>1, <1>2, <1>3 DEF Ordered
  <1> QED
    BY <1>1, <1>3, <1>5, <1>6, SmoothTask

\* A process that released the loop is at rest.
LEMMA Released ==
  ASSUME NEW m, NEW t, NEW c, NEW x, NEW u, NEW v, NEW y, Ordered(m, t, c, x)',
         u \in {t, "idle"}, y.pc = "idle"
  PROVE  NoMem \in Mems /\ Ordered(NoMem, u, v, y)' /\ ~Ends(NoMem, v, y)'
  <1>1. NoMem \in Mems /\ NoMem.state = None
    BY DEF NoMem, Mems, States
  <1>2. Ordered(NoMem, u, v, y)'
    BY <1>1 DEF Ordered, Terminal, Kinds, None, Waiting, Committing, Retrying
  <1> QED
    BY <1>1, <1>2 DEF Ends, Terminal, Kinds, None

LEMMA SmoothBirth ==
  ASSUME IInv, IInv', Grows, Smooth, NEW p \in Procs, createLoopState(p), NoFault,
         faults \in Nat
  PROVE  Smooth'
  <1> DEFINE l == "task"
  <1>1. PICK m \in Mems, t \in Steps, c \in Steps, x \in Ops :
          /\ m = mem[p] /\ t = op[p]["task"].pc /\ c = op[p]["cancel"].pc
          /\ x = op[p]["response"] /\ Ordered(m, t, c, x) /\ Known(m)
          /\ stored # {} => t = "idle"
          /\ stored = {} => x.pc = "idle" /\ m.req # 2
    BY View
  <1>2. /\ t = "record" /\ ~At(p, l, "idle") /\ l \in Lanes /\ stored' = stored
    BY <1>1 DEF createLoopState, At, Lanes
  <1>3. x.pc = "idle" /\ m.req # 2 /\ m.req \in {0, 1, 2} /\ m.rev \in Nat
    BY <1>1, <1>2 DEF Mems
  <1>4. Ordered(m, t, c, x)'
    BY <1>1, OrderedKept DEF IInv
  <1>5. CASE Release(p) /\ Retry(p, l) /\ UNCHANGED record
    <2>1. NoMem \in Mems /\ Ordered(NoMem, "idle", c, x)'
      BY <1>3, <1>4, Released
    <2>2. Turn(p, l, Idle, NoMem, "ready") /\ Idle.pc = "idle"
      BY <1>2, <1>5, <2>1, EndsTurn DEF Retry, Release
    <2> QED
      BY <1>1, <1>2, <1>5, <2>1, <2>2, SmoothTask
  <1>6. ASSUME NEW rev \in Nat, rev # 0, Held(p), Continue(p, l, "publish"),
               Remember(p, [mem[p] EXCEPT !.rev = rev]), record' = record \/ Counted'
        PROVE  Smooth'
    <2>1. PICK n : n = [m EXCEPT !.rev = rev]
      OBVIOUS
    <2>2. n \in Mems /\ n.state = m.state /\ n.req = m.req /\ n.out = m.out /\ n.rev = rev
      BY <2>1 DEF Mems
    <2>3. PICK o \in Ops : o.pc = "publish" /\ Turn(p, l, o, n, "out")
      BY <1>1, <1>2, <1>6, <2>1, <2>2, ContinueTurn DEF Steps
    <2>4. Ordered(n, "publish", c, x)'
      BY <1>3, <1>4, <1>6, <2>2 DEF Ordered, Waiting, Committing, Retrying
    <2> QED
      BY <1>1, <1>2, <1>6, <2>3, <2>4, SmoothTask
  <1>7. CASE Held(p) /\ op[p][l].rev # 0 /\ Remember(p, [mem[p] EXCEPT !.rev = op[p][l].rev])
             /\ Continue(p, l, "publish") /\ UNCHANGED record
    <2>1. op[p][l].rev \in Nat
      BY <1>2 DEF IInv, Shape, Ops
    <2> QED
      BY <1>6, <1>7, <2>1
  <1>8. CASE /\ Held(p) /\ record.state = None /\ Written(mem[p].state, mem[p].req)
             /\ Remember(p, [mem[p] EXCEPT !.rev = record.rev + 1])
             /\ Continue(p, l, "publish")
    <2>1. record.rev = 0
      BY <1>8 DEF IInv, Durable
    <2>2. m.req = 1
      BY <1>1, <1>3, <1>8 DEF Known, Held
    <2>3. record'.rev = 1 /\ record'.req = 1
      BY <1>1, <1>8, <2>1, <2>2 DEF Written
    <2>4. Counted'
      BY <2>3 DEF Counted
    <2>5. record.rev + 1 \in Nat /\ record.rev + 1 # 0
      BY <2>1
    <2> QED
      BY <1>6, <1>8, <2>4, <2>5
  <1>9. faults' # faults + 1
    BY DEF NoFault
  <1>10. \/ Release(p) /\ Retry(p, l) /\ UNCHANGED record
         \/ /\ Held(p) /\ op[p][l].rev # 0 /\ Remember(p, [mem[p] EXCEPT !.rev = op[p][l].rev])
            /\ Continue(p, l, "publish") /\ UNCHANGED record
         \/ /\ Held(p) /\ record.state = None /\ Written(mem[p].state, mem[p].req)
            /\ Remember(p, [mem[p] EXCEPT !.rev = record.rev + 1])
            /\ Continue(p, l, "publish")
    BY <1>9, Zenon DEF createLoopState, Fault
  <1> QED
    BY <1>5, <1>7, <1>8, <1>10

LEMMA SmoothFirst ==
  ASSUME IInv, IInv', Grows, Smooth, NEW p \in Procs, publishFirstRequest(p), NoFault,
         faults \in Nat
  PROVE  Smooth'
  <1> DEFINE l == "task"
  <1>1. PICK m \in Mems, t \in Steps, c \in Steps, x \in Ops :
          /\ m = mem[p] /\ t = op[p]["task"].pc /\ c = op[p]["cancel"].pc
          /\ x = op[p]["response"] /\ Ordered(m, t, c, x)
          /\ stored # {} => t = "idle"
    BY View
  <1>2. /\ t = "publish" /\ ~At(p, l, "idle") /\ l \in Lanes /\ UNCHANGED record
    BY <1>1 DEF publishFirstRequest, At, Lanes
  <1>3. stored = {} /\ Newest = 0
    BY <1>1, <1>2, NewestFacts DEF Reqs
  <1>4. record.state # None
    BY <1>1, <1>2 DEF IInv, OpInv, Sighted
  <1>5. Ack(p, l) /\ UNCHANGED mem
    <2>1. faults' # faults + 1 /\ ~(Newest > 1)
      BY <1>3 DEF NoFault
    <2> QED
      BY <2>1, Zenon DEF publishFirstRequest, Fault
  <1>6. Turn(p, l, Idle, m, "settled") /\ Idle.pc = "idle"
    BY <1>1, <1>2, <1>5, EndsTurn DEF Ack, Final
  <1>7. Ordered(m, "idle", c, x)'
    BY <1>1, <1>2 DEF Ordered
  <1> QED
    BY <1>1, <1>2, <1>4, <1>6, <1>7, SmoothTask

-----------------------------------------------------------------------------
(* The answers, without a fault.                                           *)

\* A step of the response lane: the birth is over.
LEMMA SmoothResponse ==
  ASSUME IInv, IInv', Grows, Smooth,
         NEW p, NEW o, NEW m, NEW s, Turn(p, "response", o, m, s),
         record' = record \/ (Counted' /\ (Terminal(record'.state) \/ record'.req = 2)),
         NEW c, c = op[p]["cancel"].pc, Ordered(m, "idle", c, o)',
         s = "settled" /\ op[p]["response"].r = 2 => Terminal(record'.state),
         s = "settled" /\ op[p]["response"].r = 1 =>
           Terminal(record'.state) \/ record'.req = 2 \/ Ends(m, c, o)',
         Ending(p) => \/ Terminal(record'.state) \/ record'.req = 2 \/ Ends(m, c, o)'
                      \/ msg'[<<"response", 1>>] # "settled"
  PROVE  Smooth'
  <1>1. p \in Procs /\ op[p]["response"].pc # "idle"
    BY DEF Turn, Moves
  <1>2. stored # {}
    BY <1>1 DEF IInv, Messages
  <1>3. op[p]["task"].pc = "idle"
    BY <1>1, <1>2 DEF Smooth, Born
  <1> QED
    BY <1>2, <1>3, SmoothKept

\* What the process of a response lane at work holds and does.
LEMMA ViewResponse ==
  ASSUME IInv, Smooth, NEW p \in Procs, ~At(p, "response", "idle")
  PROVE  \E m \in Mems, c \in Steps, x \in Ops :
           /\ m = mem[p] /\ c = op[p]["cancel"].pc /\ x = op[p]["response"]
           /\ Ordered(m, "idle", c, x) /\ Known(m) /\ (Ending(p) <=> Ends(m, c, x))
           /\ x.r \in {1, 2} /\ record.state # None /\ stored # {}
           /\ record.req \in {1, 2} /\ record.rev \in Nat \ {0}
           /\ m.state # None => m.rev # 0
  <1>1. PICK m \in Mems, t \in Steps, c \in Steps, x \in Ops :
           /\ m = mem[p] /\ t = op[p]["task"].pc /\ c = op[p]["cancel"].pc
           /\ x = op[p]["response"]
           /\ Ordered(m, t, c, x) /\ Known(m) /\ (Ending(p) <=> Ends(m, c, x))
           /\ stored # {} => t = "idle" /\ record.state # None
           /\ stored = {} => x.pc = "idle"
    BY View
  <1>2. stored # {} /\ t = "idle" /\ record.state # None
    BY <1>1 DEF At
  <1>3. record.req \in {1, 2} /\ record.rev \in Nat \ {0}
    BY <1>2 DEF IInv, Durable, Shape
  <1>4. Message(p, "response") \in Msgs
    BY DEF Smooth, Exclusive, At, Lanes
  <1>5. x.r \in {1, 2}
    BY <1>1, <1>4 DEF Message, Msgs, Reqs
  <1>6. m.state # None => m.rev # 0
    BY <1>1, <1>2 DEF Ordered
  <1> QED
    BY <1>1, <1>2, <1>3, <1>5, <1>6

\* A record that is written for the next request moves on by one revision.
LEMMA SmoothWrites ==
  ASSUME IInv, Smooth, NEW r \in {1, 2}, Written("live", r), record.state = "live",
         r = record.req + 1
  PROVE  Counted'
  <1>1. record.req \in {0, 1, 2} /\ record.rev \in Nat
    BY DEF IInv, Shape
  <1>2. record'.rev = record.rev + 1 /\ record'.req = r
    BY DEF Written
  <1>3. record.rev = record.req
    BY DEF Smooth, Counted
  <1> QED
    BY <1>1, <1>2, <1>3 DEF Counted

LEMMA SmoothGuard ==
  ASSUME IInv, IInv', Grows, Smooth, NEW p \in Procs, NEW l \in Lanes,
         settleTerminalGuard(p, l)
  PROVE  Smooth'
  <1>1. op[p][l].pc = "guard" /\ ~At(p, l, "idle") /\ UNCHANGED <<durable, mem>>
    BY DEF settleTerminalGuard, At
  <1>2. l = "response"
    BY <1>1 DEF IInv, OpInv, Sighted
  <1>3. PICK m \in Mems, c \in Steps, x \in Ops :
          /\ m = mem[p] /\ c = op[p]["cancel"].pc /\ x = op[p]["response"]
          /\ Ordered(m, "idle", c, x) /\ (Ending(p) <=> Ends(m, c, x))
          /\ record.state # None
    BY <1>1, <1>2, ViewResponse
  <1>4. record' = record /\ stored' = stored /\ x.pc = "guard" /\ Idle.pc = "idle"
    BY <1>1, <1>2, <1>3 DEF durable, Idle
  <1>5. Ordered(m, "idle", c, Idle)' /\ (Ends(m, c, x) => Ends(m, c, Idle)')
    BY <1>3, <1>4 DEF Ordered, Ends, Waiting, Committing, Retrying
  <1>6. CASE Stale /\ Ack(p, l)
    <2>1. Terminal(record'.state)
      BY <1>3, <1>4, <1>6 DEF Stale
    <2>2. Turn(p, "response", Idle, m, "settled")
      BY <1>1, <1>2, <1>3, <1>6, EndsTurn DEF Ack, Final
    <2> QED
      BY <1>3, <1>4, <1>5, <2>1, <2>2, SmoothResponse
  <1>7. CASE Retry(p, l)
    <2>1. Turn(p, "response", Idle, m, "ready")
      BY <1>1, <1>2, <1>3, <1>7, EndsTurn DEF Retry
    <2> QED
      BY <1>3, <1>4, <1>5, <2>1, SmoothResponse
  <1> QED
    BY <1>6, <1>7 DEF settleTerminalGuard

LEMMA SmoothUnheld ==
  ASSUME IInv, IInv', Grows, Smooth, NEW p \in Procs, settleResponseWithoutLoop(p), NoFault,
         faults \in Nat
  PROVE  Smooth'
  <1> DEFINE l == "response"
  <1>1. /\ op[p][l].pc = "start" /\ ~At(p, l, "idle") /\ l \in Lanes /\ ~Held(p)
        /\ UNCHANGED <<stored, mem>>
    BY DEF settleResponseWithoutLoop, At, Lanes, Routed
  <1>2. PICK m \in Mems, c \in Steps, x \in Ops :
          /\ m = mem[p] /\ c = op[p]["cancel"].pc /\ x = op[p]["response"]
          /\ Ordered(m, "idle", c, x) /\ (Ending(p) <=> Ends(m, c, x))
          /\ x.r \in {1, 2} /\ record.state # None /\ record.req \in {1, 2}
          /\ record.rev \in Nat \ {0}
    BY <1>1, ViewResponse
  <1>3. m.state = None /\ Idle.pc = "idle" /\ ~Ending(p)
    BY <1>1, <1>2 DEF Held, Idle, Ends, Terminal, Kinds, None
  <1>4. \A o : o.pc = "idle" \/ (o.pc = "restore" /\ o.req <= record'.req)
          => Ordered(m, "idle", c, o)'
    BY <1>3 DEF Ordered, Terminal, Kinds, None, Waiting, Committing, Retrying
  <1>5. PICK newest : newest = Newest
    OBVIOUS
  <1>6. newest \in {0, 1, 2}
    BY <1>5, NewestFacts DEF IInv, Shape
  <1>7. PICK now : now = IF newest > record.req THEN newest ELSE record.req
    OBVIOUS
  <1>8. now \in {1, 2} /\ (newest > record.req => now = 2 /\ now = record.req + 1)
    BY <1>2, <1>6, <1>7
  <1>9. PICK rev : rev = IF newest > record.req THEN record.rev + 1 ELSE record.rev
    OBVIOUS
  <1>10. rev \in Nat
    BY <1>2, <1>9
  <1>11. CASE Stale /\ Ack(p, l) /\ UNCHANGED record
    <2>1. Terminal(record'.state)
      BY <1>2, <1>11 DEF Stale
    <2>2. Turn(p, "response", Idle, m, "settled")
      BY <1>1, <1>2, <1>11, EndsTurn DEF Ack, Final
    <2> QED
      BY <1>2, <1>3, <1>4, <1>11, <2>1, <2>2, SmoothResponse
  <1>12. CASE (Quarantine(p, l) \/ Retry(p, l)) /\ UNCHANGED record
    <2>1. Turn(p, "response", Idle, m, "ready")
      BY <1>1, <1>2, <1>12, EndsTurn DEF Quarantine, Retry
    <2> QED
      BY <1>2, <1>3, <1>4, <1>12, <2>1, SmoothResponse
  <1>13. ASSUME NEW o \in Ops, NEW s, Turn(p, l, o, m, s), ~Stale,
                IF newest > record.req THEN Written("live", now) ELSE UNCHANGED record,
                o.pc = "idle" \/ (o.pc = "restore" /\ o.req = now),
                s = "settled" => op[p][l].r < now
         PROVE  Smooth'
    <2>1. record'.req = now
      BY <1>7, <1>13 DEF Written
    <2>2. record.state = "live"
      BY <1>13 DEF IInv, Shape, States, Stale, Terminal
    <2>3. record' = record \/ (Counted' /\ record'.req = 2)
      <3>1. CASE newest > record.req
        <4>1. Counted'
          BY <1>8, <1>13, <2>2, <3>1, SmoothWrites
        <4> QED
          BY <1>8, <2>1, <3>1, <4>1
      <3>2. CASE ~(newest > record.req)
        BY <1>13, <3>2
      <3> QED
        BY <3>1, <3>2
    <2>4. Ordered(m, "idle", c, o)'
      BY <1>4, <1>8, <1>13, <2>1
    <2>5. s = "settled" => op[p][l].r = 1 /\ record'.req = 2
      BY <1>2, <1>8, <1>13, <2>1
    <2> QED
      BY <1>2, <1>3, <1>13, <2>3, <2>4, <2>5, SmoothResponse
  <1>14. CASE /\ ~Stale
              /\ IF newest > record.req THEN Written("live", now) ELSE UNCHANGED record
              /\ \/ op[p][l].r < now /\ Ack(p, l)
                 \/ Retry(p, l)
    <2>1. ASSUME Ack(p, l) PROVE Turn(p, l, Idle, m, "settled") /\ Idle \in Ops
      BY <1>1, <1>2, <2>1, EndsTurn DEF Ack, Final
    <2>2. ASSUME Retry(p, l) PROVE Turn(p, l, Idle, m, "ready") /\ Idle \in Ops
      BY <1>1, <1>2, <2>2, EndsTurn DEF Retry
    <2> QED
      BY <1>3, <1>13, <1>14, <2>1, <2>2
  <1>15. CASE /\ ~Stale
              /\ IF newest > record.req THEN Written("live", now) ELSE UNCHANGED record
              /\ UNCHANGED <<server, latched>>
              /\ Go(p, l, [op[p][l] EXCEPT !.pc = "restore", !.req = now, !.rev = rev])
    <2>1. PICK o : o = [op[p][l] EXCEPT !.pc = "restore", !.req = now, !.rev = rev]
      OBVIOUS
    <2>2. op[p][l] \in Ops
      BY <1>1 DEF IInv, Shape
    <2>3. o \in Ops /\ o.pc = "restore" /\ o.r = op[p][l].r /\ o.req = now
      BY <1>8, <1>10, <2>1, <2>2 DEF Ops, Steps
    <2>4. Turn(p, l, o, m, "out")
      BY <1>1, <1>2, <1>15, <2>1, <2>3, GoesTurn
    <2> QED
      BY <1>13, <1>15, <2>3, <2>4
  <1>16. faults' # faults + 1
    BY DEF NoFault
  <1>17. \/ Stale /\ Ack(p, l) /\ UNCHANGED record
         \/ (Quarantine(p, l) \/ Retry(p, l)) /\ UNCHANGED record
         \/ /\ ~Stale
            /\ IF newest > record.req THEN Written("live", now) ELSE UNCHANGED record
            /\ \/ op[p][l].r < now /\ Ack(p, l)
               \/ Retry(p, l)
               \/ /\ UNCHANGED <<server, latched>>
                  /\ Go(p, l, [op[p][l] EXCEPT !.pc = "restore", !.req = now, !.rev = rev])
    BY <1>5, <1>7, <1>9, <1>16, Zenon DEF settleResponseWithoutLoop, Fault
  <1> QED
    BY <1>11, <1>12, <1>14, <1>15, <1>17

LEMMA SmoothRestore ==
  ASSUME IInv, IInv', Grows, Smooth, NEW p \in Procs, restoreLoopFromEvidence(p)
  PROVE  Smooth'
  <1> DEFINE l == "response"
  <1>1. op[p][l].pc = "restore" /\ ~At(p, l, "idle") /\ l \in Lanes /\ UNCHANGED durable
    BY DEF restoreLoopFromEvidence, At, Lanes
  <1>2. PICK m \in Mems, c \in Steps, x \in Ops :
          /\ m = mem[p] /\ c = op[p]["cancel"].pc /\ x = op[p]["response"]
          /\ Ordered(m, "idle", c, x) /\ (Ending(p) <=> Ends(m, c, x))
          /\ record.req \in {1, 2}
    BY <1>1, ViewResponse
  <1>3. record' = record /\ x.pc = "restore" /\ Idle.pc = "idle"
    BY <1>1, <1>2 DEF durable, Idle
  <1>4. CASE Retry(p, l) /\ UNCHANGED mem
    <2>1. Turn(p, "response", Idle, m, "ready")
      BY <1>1, <1>2, <1>4, EndsTurn DEF Retry
    <2>2. Ordered(m, "idle", c, Idle)' /\ (Ends(m, c, x) => Ends(m, c, Idle)')
      BY <1>2, <1>3 DEF Ordered, Ends, Waiting, Committing, Retrying
    <2> QED
      BY <1>2, <1>3, <2>1, <2>2, SmoothResponse
  <1>5. CASE /\ ~Held(p) /\ Continue(p, l, "apply")
             /\ Remember(p, [state |-> "live", req |-> op[p][l].req, out |-> op[p][l].req,
                             rev |-> op[p][l].rev])
    <2>1. PICK n : n = [state |-> "live", req |-> x.req, out |-> x.req, rev |-> x.rev]
      OBVIOUS
    <2>2. x.rev # 0 /\ x.req \in {0, 1, 2} /\ x.rev \in Nat
      BY <1>2, <1>3 DEF IInv, OpInv, Sighted, Ops, Lanes
    <2>3. n \in Mems /\ n.state = "live" /\ n.req = x.req /\ n.out = x.req /\ n.rev = x.rev
      BY <2>1, <2>2 DEF Mems, States
    <2>4. PICK o \in Ops : o.pc = "apply" /\ Turn(p, l, o, n, "out")
      BY <1>1, <1>2, <1>5, <2>1, <2>3, ContinueTurn DEF Steps
    <2>5. x.req = 2 => record.req = 2
      BY <1>2, <1>3 DEF Ordered
    <2>6. Ordered(n, "idle", c, o)'
      BY <1>3, <2>2, <2>3, <2>4, <2>5
      DEF Ordered, Terminal, Kinds, None, Waiting, Committing, Retrying
    <2>7. ~Ending(p)
      BY <1>2, <1>5 DEF Ends, Held, Terminal, Kinds, None
    <2> QED
      BY <1>2, <1>3, <2>4, <2>6, <2>7, SmoothResponse
  <1> QED
    BY <1>4, <1>5 DEF restoreLoopFromEvidence

\* An answer the process is past, or no longer waits for, has been taken over: by the
\* retry, or by an end that this process is about to write.
LEMMA TakenOver ==
  ASSUME IInv, Smooth, NEW p \in Procs, ~At(p, "response", "idle"),
         NEW m \in Mems, NEW c, NEW x \in Ops,
         m = mem[p], c = op[p]["cancel"].pc, x = op[p]["response"], x.pc \in Waiting,
         m.state # None, x.r < m.req \/ (x.r = m.req /\ m.out # x.r)
  PROVE  x.r = 1 /\ (Terminal(record.state) \/ record.req = 2 \/ Ends(m, c, x))
  <1>1. /\ Ordered(m, "idle", c, x) /\ Known(m)
        /\ x.r \in {1, 2} /\ record.state # None
        /\ record.req \in {1, 2} /\ record.rev \in Nat \ {0} /\ m.rev # 0
    BY ViewResponse
  <1>2. m.req \in {0, 1, 2} /\ m.rev \in Nat /\ m.state \in States
    BY DEF Mems
  <1>3. x.r = 1
    BY <1>1, <1>2 DEF Ordered
  <1>4. CASE m.state = "live"
    BY <1>1, <1>2, <1>3, <1>4 DEF Ordered
  <1>5. CASE Terminal(m.state)
    <2>1. c \in Committing
      BY <1>1, <1>5 DEF Ordered, Waiting, Committing
    <2>3. CASE record.state = "live" /\ record.req = 1
      <3>1. record.rev = 1
        BY <2>3 DEF Smooth, Counted
      <3>2. m.rev = record.rev
        BY <1>1, <1>2, <3>1 DEF Known
      <3> QED
        BY <1>1, <1>3, <1>5, <2>1, <3>2 DEF Ends
    <2>4. record.state \in States
      BY DEF IInv, Shape
    <2> QED
      BY <1>1, <1>3, <2>3, <2>4 DEF States, Terminal
  <1> QED
    BY <1>2, <1>4, <1>5 DEF States, Terminal

LEMMA SmoothOrder ==
  ASSUME IInv, IInv', Grows, Smooth, NEW p \in Procs, orderResponse(p)
  PROVE  Smooth'
  <1> DEFINE l == "response"
  <1>1. /\ op[p][l].pc \in {"apply", "start"} /\ ~At(p, l, "idle") /\ l \in Lanes
        /\ UNCHANGED durable
    BY DEF orderResponse, At, Lanes
  <1>2. PICK m \in Mems, c \in Steps, x \in Ops :
          /\ m = mem[p] /\ c = op[p]["cancel"].pc /\ x = op[p]["response"]
          /\ Ordered(m, "idle", c, x) /\ (Ending(p) <=> Ends(m, c, x)) /\ x.r \in {1, 2}
    BY <1>1, ViewResponse
  <1>3. record' = record /\ x.pc \in {"apply", "start"} /\ Idle.pc = "idle" /\ x.pc \in Waiting
    BY <1>1, <1>2 DEF durable, Idle, Waiting
  <1>4. Ordered(m, "idle", c, Idle)' /\ (Ends(m, c, x) => Ends(m, c, Idle)')
    BY <1>2, <1>3 DEF Ordered, Ends, Waiting, Committing, Retrying
  <1>5. CASE ~Held(p) /\ Release(p) /\ Retry(p, l)
    <2>1. Ordered(m, "idle", c, x)'
      BY <1>2, <1>3 DEF Ordered
    <2>2. NoMem \in Mems /\ Ordered(NoMem, "idle", c, Idle)'
      BY <1>3, <2>1, Released
    <2>3. Turn(p, "response", Idle, NoMem, "ready")
      BY <1>1, <1>5, <2>2, EndsTurn DEF Retry, Release
    <2>4. ~Ending(p)
      BY <1>2, <1>5 DEF Ends, Held, Terminal, Kinds, None
    <2> QED
      BY <1>2, <1>3, <2>2, <2>3, <2>4, SmoothResponse
  <1>6. CASE Held(p) /\ Ack(p, l) /\ UNCHANGED mem /\ x.r < m.req
    <2>1. x.r = 1 /\ (Terminal(record.state) \/ record.req = 2 \/ Ends(m, c, x))
      BY <1>1, <1>2, <1>3, <1>6, TakenOver DEF Held
    <2>2. Turn(p, "response", Idle, m, "settled")
      BY <1>1, <1>2, <1>6, EndsTurn DEF Ack, Final
    <2> QED
      BY <1>2, <1>3, <1>4, <2>1, <2>2, SmoothResponse
  <1>7. CASE Retry(p, l) /\ UNCHANGED mem
    <2>1. Turn(p, "response", Idle, m, "ready")
      BY <1>1, <1>2, <1>7, EndsTurn DEF Retry
    <2> QED
      BY <1>2, <1>3, <1>4, <2>1, SmoothResponse
  <1>8. ASSUME NEW pc \in {"current", "ended"}, pc = "current" => m.state = "live",
               Held(p), x.r = m.req, Continue(p, l, pc), UNCHANGED mem
        PROVE  Smooth'
    <2>1. PICK o \in Ops : o.pc = pc /\ o.r = x.r /\ Turn(p, l, o, m, "out")
      BY <1>1, <1>2, <1>8, ContinueTurn DEF Steps
    <2>2. m.state # None
      BY <1>2, <1>8 DEF Held
    <2>3. pc = "current" /\ x.r = 2 => record.req = 2
      BY <1>2, <1>3, <1>8 DEF Ordered
    <2>4. Ordered(m, "idle", c, o)' /\ (Ends(m, c, x) => Ends(m, c, o)')
      BY <1>2, <1>3, <1>8, <2>1, <2>2, <2>3 DEF Ordered, Ends, Waiting, Committing, Retrying
    <2> QED
      BY <1>2, <1>3, <2>1, <2>4, SmoothResponse
  <1>9. \/ ~Held(p) /\ Release(p) /\ Retry(p, l)
        \/ Held(p) /\ Ack(p, l) /\ UNCHANGED mem /\ x.r < m.req
        \/ Retry(p, l) /\ UNCHANGED mem
        \/ /\ Held(p) /\ x.r = m.req /\ UNCHANGED mem
           /\ Continue(p, l, IF m.state = "live" THEN "current" ELSE "ended")
    BY <1>2, Zenon DEF orderResponse
  <1> QED
    BY <1>5, <1>6, <1>7, <1>8, <1>9

\* Until an event is out nobody releases the loop under a response, so an answer the
\* loop does not wait for any more was taken over.
LEMMA SmoothSettle ==
  ASSUME IInv, IInv', Grows, Smooth, NEW p \in Procs, settleRequest(p)
  PROVE  Smooth'
  <1> DEFINE l == "response"
  <1>1. /\ op[p][l].pc \in {"current", "ended"} /\ ~At(p, l, "idle") /\ l \in Lanes
        /\ UNCHANGED durable
    BY DEF settleRequest, At, Lanes
  <1>2. PICK m \in Mems, c \in Steps, x \in Ops :
          /\ m = mem[p] /\ c = op[p]["cancel"].pc /\ x = op[p]["response"]
          /\ Ordered(m, "idle", c, x) /\ (Ending(p) <=> Ends(m, c, x)) /\ x.r \in {1, 2}
    BY <1>1, ViewResponse
  <1>3. /\ record' = record /\ x.pc \in {"current", "ended"} /\ Idle.pc = "idle"
        /\ x.pc \in Waiting
    BY <1>1, <1>2 DEF durable, Idle, Waiting
  <1>4. m.state # None /\ x.r = m.req
    BY <1>2, <1>3 DEF Ordered
  <1>5. \A o : o.pc \in {"idle", "guard"} =>
          Ordered(m, "idle", c, o)' /\ (Ends(m, c, x) => Ends(m, c, o)')
    BY <1>2, <1>3 DEF Ordered, Ends, Waiting, Committing, Retrying
  <1>6. CASE Ack(p, l) /\ UNCHANGED mem /\ m.out # x.r
    <2>1. x.r = 1 /\ (Terminal(record.state) \/ record.req = 2 \/ Ends(m, c, x))
      BY <1>1, <1>2, <1>3, <1>4, <1>6, TakenOver
    <2>2. Turn(p, "response", Idle, m, "settled")
      BY <1>1, <1>2, <1>6, EndsTurn DEF Ack, Final
    <2>3. Ordered(m, "idle", c, Idle)' /\ (Ends(m, c, x) => Ends(m, c, Idle)')
      BY <1>3, <1>5
    <2> QED
      BY <1>2, <1>3, <2>1, <2>2, <2>3, SmoothResponse
  <1>7. CASE Continue(p, l, "guard") /\ UNCHANGED mem
    <2>1. PICK o \in Ops : o.pc = "guard" /\ Turn(p, l, o, m, "out")
      BY <1>1, <1>2, <1>7, ContinueTurn DEF Steps
    <2>2. Ordered(m, "idle", c, o)' /\ (Ends(m, c, x) => Ends(m, c, o)')
      BY <1>5, <2>1
    <2> QED
      BY <1>2, <1>3, <2>1, <2>2, SmoothResponse
  <1>8. CASE /\ x.pc = "current" /\ Continue(p, l, "decide")
             /\ Remember(p, [mem[p] EXCEPT !.out = 0])
    <2>1. PICK n : n = [m EXCEPT !.out = 0]
      OBVIOUS
    <2>2. n \in Mems /\ n.state = m.state /\ n.req = m.req /\ n.rev = m.rev
      BY <2>1 DEF Mems
    <2>3. PICK o \in Ops : o.pc = "decide" /\ o.r = x.r /\ Turn(p, l, o, n, "out")
      BY <1>1, <1>2, <1>8, <2>1, <2>2, ContinueTurn DEF Steps
    <2>4. Ordered(n, "idle", c, o)'
      BY <1>2, <1>3, <1>4, <1>8, <2>2, <2>3
      DEF Ordered, Waiting, Committing, Retrying
    <2>5. record'.req = 2 \/ msg'[<<"response", 1>>] # "settled"
      <3>1. CASE x.r = 1
        <4>1. msg[Message(p, l)] = "out" /\ Message(p, l) \in Msgs
              /\ \A d \in Msgs : msg'[d] = msg[d]
          BY <2>3, TurnFacts DEF IInv, Smooth
        <4>2. Message(p, l) = <<"response", 1>>
          BY <1>2, <3>1 DEF Message
        <4> QED
          BY <4>1, <4>2
      <3>2. CASE x.r = 2
        BY <1>2, <1>3, <1>8, <3>2 DEF Ordered
      <3> QED
        BY <1>2, <3>1, <3>2
    <2> QED
      BY <1>2, <1>3, <2>3, <2>4, <2>5, SmoothResponse
  <1>9. \/ Ack(p, l) /\ UNCHANGED mem /\ m.out # x.r
        \/ Continue(p, l, "guard") /\ UNCHANGED mem
        \/ /\ x.pc = "current" /\ Continue(p, l, "decide")
           /\ Remember(p, [mem[p] EXCEPT !.out = 0])
    BY <1>2, Zenon DEF settleRequest, At
  <1> QED
    BY <1>6, <1>7, <1>8, <1>9

\* The response lane gives up the loop, which it was not waiting for.
LEMMA SmoothDrops ==
  ASSUME IInv, IInv', Grows, Smooth, NEW p \in Procs, Release(p), Retry(p, "response"),
         ~At(p, "response", "idle"), op[p]["response"].pc \notin Waiting, record' = record
  PROVE  Smooth'
  <1>1. PICK m \in Mems, c \in Steps, x \in Ops :
          /\ m = mem[p] /\ c = op[p]["cancel"].pc /\ x = op[p]["response"]
          /\ Ordered(m, "idle", c, x) /\ (Ending(p) <=> Ends(m, c, x))
    BY ViewResponse
  <1>2. Ordered(m, "idle", c, x)'
    BY <1>1 DEF Ordered
  <1>3. NoMem \in Mems /\ Ordered(NoMem, "idle", c, Idle)'
    BY <1>2, Released DEF Idle
  <1>4. Turn(p, "response", Idle, NoMem, "ready")
    BY <1>3, EndsTurn DEF Retry, Release, Lanes
  <1>5. ~Ending(p)
    BY <1>1 DEF Ends
  <1> QED
    BY <1>1, <1>3, <1>4, <1>5, SmoothResponse

\* The response lane ends the loop.
LEMMA SmoothCommits ==
  ASSUME IInv, IInv', Grows, Smooth, NEW p \in Procs, NEW kind \in Kinds,
         Commit(p, "response", kind), op[p]["response"].pc = "decide", Held(p),
         record' = record
  PROVE  Smooth'
  <1>1. ~At(p, "response", "idle") /\ "response" \in Lanes
    BY DEF At, Lanes
  <1>2. PICK m \in Mems, c \in Steps, x \in Ops :
          /\ m = mem[p] /\ c = op[p]["cancel"].pc /\ x = op[p]["response"]
          /\ Ordered(m, "idle", c, x) /\ (Ending(p) <=> Ends(m, c, x))
          /\ m.state # None => m.rev # 0
          /\ stored # {}
    BY <1>1, ViewResponse
  <1>3. PICK n : n = [m EXCEPT !.state = kind]
    OBVIOUS
  <1>4. n \in Mems /\ n.state = kind /\ n.req = m.req /\ n.rev = m.rev
    BY <1>3 DEF Mems, States
  <1>5. PICK o : o = [x EXCEPT !.pc = "marker", !.kind = kind]
    OBVIOUS
  <1>6. o \in Ops /\ o.pc = "marker" /\ o.r = x.r
    BY <1>5 DEF Ops, Steps
  <1>7. Turn(p, "response", o, n, "out")
    BY <1>1, <1>2, <1>3, <1>4, <1>5, <1>6, GoesTurn DEF Commit
  <1>8. n.rev # 0
    BY <1>2, <1>4 DEF Held
  <1>9. Ordered(n, "idle", c, o)'
    BY <1>2, <1>4, <1>6, <1>8 DEF Ordered, Terminal, Kinds, None, Waiting, Committing, Retrying
  <1>10. ~Ending(p)
    BY <1>2 DEF Ends, Waiting
  <1> QED
    BY <1>2, <1>7, <1>9, <1>10, SmoothResponse

LEMMA SmoothDecide ==
  ASSUME IInv, IInv', Grows, Smooth, NEW p \in Procs, HandleModelResponse(p)
  PROVE  Smooth'
  <1> DEFINE l == "response"
  <1>1. op[p][l].pc = "decide" /\ ~At(p, l, "idle") /\ l \in Lanes /\ UNCHANGED durable
    BY DEF HandleModelResponse, At, Lanes
  <1>2. PICK m \in Mems, c \in Steps, x \in Ops :
          /\ m = mem[p] /\ c = op[p]["cancel"].pc /\ x = op[p]["response"]
          /\ Ordered(m, "idle", c, x) /\ Known(m) /\ (Ending(p) <=> Ends(m, c, x))
          /\ x.r \in {1, 2} /\ record.req \in {1, 2}
    BY <1>1, ViewResponse
  <1>3. record' = record /\ x.pc = "decide" /\ x.pc \notin Waiting
    BY <1>1, <1>2 DEF durable, Waiting
  <1>4. CASE mem[p].state \in {"live", "complete"} /\ Commit(p, l, "complete")
    <2>1. Held(p) /\ "complete" \in Kinds
      BY <1>4 DEF Held, Kinds, None
    <2> QED
      BY <1>1, <1>3, <1>4, <2>1, SmoothCommits
  <1>5. CASE handleLoopFailure(p, l)
    <2>1. CASE mem[p].state \in {"live", "failed"} /\ Commit(p, l, "failed")
      <3>1. Held(p) /\ "failed" \in Kinds
        BY <2>1 DEF Held, Kinds, None
      <3> QED
        BY <1>1, <1>3, <2>1, <3>1, SmoothCommits
    <2>2. CASE Release(p) /\ Retry(p, l)
      BY <1>1, <1>2, <1>3, <2>2, SmoothDrops
    <2> QED
      BY <1>5, <2>1, <2>2 DEF handleLoopFailure
  <1>6. CASE /\ mem[p].req < 2 /\ Remember(p, [mem[p] EXCEPT !.out = Minted(p)])
             /\ Go(p, l, [op[p][l] EXCEPT !.pc = "carry", !.req = Minted(p)])
             /\ UNCHANGED <<server, latched>>
    <2>1. PICK next : next = Minted(p)
      OBVIOUS
    <2>2. m.req \in {0, 1} /\ m.rev \in Nat
      BY <1>2, <1>6 DEF Mems
    <2>3. /\ m.state # None => m.req = 1 /\ next = 2
          /\ next \in {1, 2}
      BY <1>2, <2>1, <2>2 DEF Minted, Held, Known
    <2>4. PICK n : n = [m EXCEPT !.out = next]
      OBVIOUS
    <2>5. n \in Mems /\ n.state = m.state /\ n.req = m.req /\ n.rev = m.rev /\ n.out = next
      BY <2>3, <2>4 DEF Mems
    <2>6. PICK o : o = [x EXCEPT !.pc = "carry", !.req = next]
      OBVIOUS
    <2>7. o \in Ops /\ o.pc = "carry" /\ o.r = x.r /\ o.req = next
      BY <2>3, <2>6 DEF Ops, Steps
    <2>8. Turn(p, l, o, n, "out")
      BY <1>1, <1>2, <1>6, <2>1, <2>4, <2>5, <2>6, <2>7, GoesTurn
    <2>9. m.state # None => x.r = 1 /\ (m.rev = record.rev => record.req = 1)
      BY <1>2, <1>3, <2>2, <2>3 DEF Ordered, Known
    <2>10. Ordered(n, "idle", c, o)'
      BY <1>2, <1>3, <2>3, <2>5, <2>7, <2>9 DEF Ordered, Waiting, Committing, Retrying
    <2>11. ~Ending(p)
      BY <1>2, <1>3 DEF Ends
    <2> QED
      BY <1>2, <1>3, <2>8, <2>10, <2>11, SmoothResponse
  <1> QED
    BY <1>4, <1>5, <1>6, Zenon DEF HandleModelResponse

\* The retry goes on with the loop as it is, or ends at the guard.
LEMMA SmoothRetries ==
  ASSUME IInv, IInv', Grows, Smooth, NEW p \in Procs, UNCHANGED mem,
         op[p]["response"].pc \in Retrying,
         NEW pc, Continue(p, "response", pc), record' = record,
         \/ pc = "guard" /\ mem[p].state # "live"
         \/ pc = "publish" /\ mem[p].state = "live"
         \/ pc = "stamp" /\ op[p]["response"].req = 2
  PROVE  Smooth'
  <1> DEFINE l == "response"
  <1>1. ~At(p, l, "idle") /\ l \in Lanes /\ pc \in Steps \ {"idle"}
    BY DEF At, Lanes, Retrying, Steps
  <1>2. PICK m \in Mems, c \in Steps, x \in Ops :
          /\ m = mem[p] /\ c = op[p]["cancel"].pc /\ x = op[p]["response"]
          /\ Ordered(m, "idle", c, x) /\ (Ending(p) <=> Ends(m, c, x))
    BY <1>1, ViewResponse
  <1>3. PICK o \in Ops : /\ o.pc = pc /\ o.r = x.r /\ o.req = x.req
                         /\ Turn(p, l, o, m, "out")
    BY <1>1, <1>2, ContinueTurn
  <1>4. ~Ending(p)
    BY <1>2 DEF Ends, Retrying, Waiting
  <1>5. Ordered(m, "idle", c, o)'
    BY <1>2, <1>3 DEF Ordered, Terminal, Kinds, None, Waiting, Committing, Retrying
  <1> QED
    BY <1>2, <1>3, <1>4, <1>5, SmoothResponse

LEMMA SmoothCarry ==
  ASSUME IInv, IInv', Grows, Smooth, NEW p \in Procs, persistHandlerResult(p)
  PROVE  Smooth'
  <1>1. /\ op[p]["response"].pc = "carry" /\ UNCHANGED mem /\ record' = record
        /\ Continue(p, "response", IF mem[p].state = "live" THEN "publish" ELSE "guard")
    BY DEF persistHandlerResult, At, durable
  <1>2. "carry" \in Retrying
    BY DEF Retrying
  <1> QED
    BY <1>1, <1>2, SmoothRetries

LEMMA SmoothNext ==
  ASSUME IInv, IInv', Grows, Smooth, NEW p \in Procs, publishNextRequest(p), NoFault,
         faults \in Nat
  PROVE  Smooth'
  <1>1. op[p]["response"].pc = "publish" /\ UNCHANGED mem /\ record' = record
    BY DEF publishNextRequest, At
  <1>2. "publish" \in Retrying
    BY DEF Retrying
  <1>3. op[p]["response"].req = 2
    BY <1>1 DEF Smooth, Steady, Ordered
  <1>4. ~(Newest > op[p]["response"].req) /\ faults' # faults + 1
    BY <1>3, NewestFacts DEF IInv, Shape, NoFault
  <1>5. Continue(p, "response", "stamp")
    BY <1>4, Zenon DEF publishNextRequest, Fault
  <1> QED
    BY <1>1, <1>2, <1>3, <1>5, SmoothRetries

LEMMA SmoothStamp ==
  ASSUME IInv, IInv', Grows, Smooth, NEW p \in Procs, stampPublishedRequest(p)
  PROVE  Smooth'
  <1> DEFINE l == "response"
  <1>1. op[p][l].pc = "stamp" /\ ~At(p, l, "idle") /\ l \in Lanes /\ record' = record
    BY DEF stampPublishedRequest, At, Lanes, durable
  <1>2. CASE ~Held(p) /\ Continue(p, l, "guard") /\ UNCHANGED mem
    <2>1. "stamp" \in Retrying /\ mem[p].state # "live"
      BY <1>2 DEF Retrying, Held, None
    <2> QED
      BY <1>1, <1>2, <2>1, SmoothRetries
  <1>3. CASE /\ Held(p) /\ Remember(p, [mem[p] EXCEPT !.req = op[p][l].req])
             /\ Continue(p, l, "write")
    <2>1. PICK m \in Mems, c \in Steps, x \in Ops :
            /\ m = mem[p] /\ c = op[p]["cancel"].pc /\ x = op[p]["response"]
            /\ Ordered(m, "idle", c, x) /\ (Ending(p) <=> Ends(m, c, x))
      BY <1>1, ViewResponse
    <2>2. x.req = 2 /\ m.state # None
      BY <1>1, <1>3, <2>1 DEF Ordered, Held
    <2>3. PICK n : n = [m EXCEPT !.req = 2]
      OBVIOUS
    <2>4. n \in Mems /\ n.state = m.state /\ n.req = 2 /\ n.rev = m.rev /\ n.out = m.out
      BY <2>3 DEF Mems
    <2>5. Remember(p, n)
      BY <1>3, <2>1, <2>2, <2>3
    <2>6. PICK o \in Ops : /\ o.pc = "write" /\ o.r = x.r /\ o.req = x.req
                           /\ Turn(p, l, o, n, "out")
      BY <1>1, <1>3, <2>1, <2>4, <2>5, ContinueTurn DEF Steps
    <2>7. ~Ending(p)
      BY <1>1, <2>1 DEF Ends, Waiting
    <2>8. Ordered(n, "idle", c, o)'
      BY <1>1, <2>1, <2>2, <2>4, <2>6 DEF Ordered, Waiting, Committing, Retrying
    <2> QED
      BY <1>1, <2>1, <2>6, <2>7, <2>8, SmoothResponse
  <1> QED
    BY <1>2, <1>3 DEF stampPublishedRequest

LEMMA SmoothWrite ==
  ASSUME IInv, IInv', Grows, Smooth, NEW p \in Procs, writeLoopRecord(p), NoFault,
         faults \in Nat
  PROVE  Smooth'
  <1> DEFINE l == "response"
  <1>1. op[p][l].pc = "write" /\ ~At(p, l, "idle") /\ l \in Lanes
    BY DEF writeLoopRecord, At, Lanes
  <1>2. PICK m \in Mems, c \in Steps, x \in Ops :
          /\ m = mem[p] /\ c = op[p]["cancel"].pc /\ x = op[p]["response"]
          /\ Ordered(m, "idle", c, x) /\ Known(m) /\ (Ending(p) <=> Ends(m, c, x))
          /\ record.req \in {1, 2} /\ record.rev \in Nat \ {0} /\ record.state # None
          /\ m.state # None => m.rev # 0
    BY <1>1, ViewResponse
  <1>3. x.pc = "write" /\ x.pc \notin Waiting /\ Idle.pc = "idle"
    BY <1>1, <1>2 DEF Waiting, Idle
  <1>4. CASE mem[p].state # "live" /\ Continue(p, l, "guard") /\ UNCHANGED <<record, mem>>
    <2>1. "write" \in Retrying
      BY DEF Retrying
    <2> QED
      BY <1>1, <1>4, <2>1, SmoothRetries
  <1>5. CASE Release(p) /\ Retry(p, l) /\ UNCHANGED record
    BY <1>1, <1>2, <1>3, <1>5, SmoothDrops
  <1>6. CASE /\ mem[p].state = "live" /\ mem[p].rev = record.rev
             /\ Written(mem[p].state, mem[p].req) /\ Ack(p, l)
             /\ Remember(p, [mem[p] EXCEPT !.rev = record.rev + 1])
    <2>1. x.r = 1 /\ m.out = 2 /\ m.req = 2 /\ record.req = 1 /\ m.state = "live"
      BY <1>2, <1>3, <1>6 DEF Ordered, Retrying, None
    <2>2. PICK n : n = [m EXCEPT !.rev = record.rev + 1]
      OBVIOUS
    <2>3. n \in Mems /\ n.state = "live" /\ n.req = 2 /\ n.out = 2 /\ n.rev # 0
      BY <1>2, <2>1, <2>2 DEF Mems
    <2>4. Turn(p, l, Idle, n, "settled")
      BY <1>1, <1>2, <1>6, <2>2, <2>3, EndsTurn DEF Ack, Final
    <2>5. record'.req = 2
      BY <1>2, <1>6, <2>1 DEF Written
    <2>6. Counted'
      <3>1. Written("live", 2) /\ 2 = record.req + 1
        BY <1>2, <1>6, <2>1
      <3>2. record.state = "live"
        <4>1. ~Terminal(record.state)
          BY <1>2, <1>6, <2>1 DEF Known, Terminal, Kinds
        <4> QED
          BY <1>2, <4>1 DEF IInv, Shape, States, Terminal
      <3> QED
        BY <3>1, <3>2, SmoothWrites
    <2>7. Ordered(n, "idle", c, Idle)'
      BY <1>3, <2>3, <2>5 DEF Ordered, Terminal, Kinds, None, Waiting, Committing, Retrying
    <2> QED
      BY <1>2, <2>1, <2>4, <2>5, <2>6, <2>7, SmoothResponse
  <1>7. faults' # faults + 1 /\ ~(mem[p].state = "live" /\ mem[p].rev = 0)
    BY <1>2 DEF NoFault, None
  <1>8. \/ mem[p].state # "live" /\ Continue(p, l, "guard") /\ UNCHANGED <<record, mem>>
        \/ Release(p) /\ Retry(p, l) /\ UNCHANGED record
        \/ /\ mem[p].state = "live" /\ mem[p].rev = record.rev
           /\ Written(mem[p].state, mem[p].req) /\ Ack(p, l)
           /\ Remember(p, [mem[p] EXCEPT !.rev = record.rev + 1])
    BY <1>7, Zenon DEF writeLoopRecord, Fault
  <1> QED
    BY <1>4, <1>5, <1>6, <1>8

-----------------------------------------------------------------------------
(* The terminal owner, without a fault.                                    *)

\* The terminal owner is on the response lane or on the cancel lane.
LEMMA OwnerLanes ==
  ASSUME Smooth, NEW p \in Procs, NEW l \in Lanes, op[p][l].pc \in Committing
  PROVE  l \in {"response", "cancel"} /\ ~At(p, l, "idle")
  <1>1. op[p]["task"].pc \in {"idle", "start", "seat", "graph", "record", "publish"}
    BY DEF Smooth, Steady, Ordered
  <1> QED
    BY <1>1 DEF Lanes, Committing, At

\* The step from the marker to the event.
LEMMA SmoothOwner ==
  ASSUME IInv, IInv', Grows, Smooth, NEW p \in Procs, NEW l \in Lanes,
         op[p][l].pc \in Committing, NEW o \in Ops, o.pc \in Committing, o.r = op[p][l].r,
         Go(p, l, o), UNCHANGED <<record, stored, mem, server>>
  PROVE  Smooth'
  <1>1. l \in {"response", "cancel"} /\ ~At(p, l, "idle") /\ o.pc # "idle"
    BY OwnerLanes DEF Committing
  <1>2. PICK m \in Mems, t \in Steps, c \in Steps, x \in Ops :
          /\ m = mem[p] /\ t = op[p]["task"].pc /\ c = op[p]["cancel"].pc
          /\ x = op[p]["response"]
          /\ Ordered(m, t, c, x) /\ (Ending(p) <=> Ends(m, c, x))
    BY View
  <1>3. Turn(p, l, o, m, "out")
    BY <1>1, <1>2, GoesTurn
  <1>4. CASE l = "response"
    <2>1. Ordered(m, t, c, o)'
      BY <1>2, <1>4 DEF Ordered, Waiting, Committing, Retrying
    <2>2. ~Ending(p)
      BY <1>2, <1>4 DEF Ends, Waiting, Committing
    <2> QED
      BY <1>2, <1>3, <1>4, <2>1, <2>2, SmoothKept
  <1>5. CASE l = "cancel"
    <2>1. Ordered(m, t, o.pc, x)' /\ (Ends(m, c, x) => Ends(m, o.pc, x)')
      BY <1>2, <1>5 DEF Ordered, Ends
    <2> QED
      BY <1>2, <1>3, <1>5, <2>1, SmoothKept
  <1> QED
    BY <1>1, <1>4, <1>5

LEMMA SmoothMarker ==
  ASSUME IInv, IInv', Grows, Smooth, NEW p \in Procs, NEW l \in Lanes,
         createTerminalMarker(p, l), NoFault, faults \in Nat
  PROVE  Smooth'
  <1>1. /\ op[p][l].pc = "marker" /\ op[p][l].kind \in Kinds /\ op[p][l] \in Ops
        /\ UNCHANGED <<record, stored>>
    BY DEF createTerminalMarker, At, IInv, OpInv, Owned, Shape
  <1>2. PICK kind \in Kinds : kind = IF marker # None THEN marker ELSE op[p][l].kind
    BY <1>1 DEF IInv, Shape
  <1>3. PICK adopted \in BOOLEAN : adopted = (marker # None)
    OBVIOUS
  <1>4. PICK o : o = [op[p][l] EXCEPT !.pc = "event", !.kind = kind, !.adopted = adopted]
    OBVIOUS
  <1>5. o \in Ops /\ o.pc = "event" /\ o.r = op[p][l].r
    BY <1>1, <1>4 DEF Ops, Steps
  <1>6. faults' # faults + 1
    BY DEF NoFault
  <1>7. UNCHANGED <<mem, server>> /\ Go(p, l, o)
    BY <1>2, <1>3, <1>4, <1>6, Zenon DEF createTerminalMarker, Fault
  <1>8. "marker" \in Committing /\ "event" \in Committing
    BY DEF Committing
  <1>9. UNCHANGED <<record, stored, mem, server>>
    BY <1>1, <1>7
  <1> QED
    BY <1>1, <1>5, <1>7, <1>8, <1>9, SmoothOwner

-----------------------------------------------------------------------------
(* The cancel, the server and the model, without a fault.                  *)

\* A step of a cancel that ends nothing itself.
LEMMA SmoothAsks ==
  ASSUME IInv, IInv', Grows, Smooth, NEW p \in Procs, UNCHANGED <<stored, mem>>,
         NEW o, NEW s, Turn(p, "cancel", o, mem[p], s),
         op[p]["cancel"].pc \notin Committing, record' = record
  PROVE  Smooth'
  <1>1. PICK m \in Mems, t \in Steps, c \in Steps, x \in Ops :
          /\ m = mem[p] /\ t = op[p]["task"].pc /\ c = op[p]["cancel"].pc
          /\ x = op[p]["response"]
          /\ Ordered(m, t, c, x) /\ Known(m) /\ (Ending(p) <=> Ends(m, c, x))
    BY View
  <1>2. Ordered(m, t, c, x)'
    BY <1>1, OrderedKept DEF IInv
  <1>3. Ordered(m, t, o.pc, x)'
    BY <1>1, <1>2 DEF Ordered
  <1>4. ~Ending(p)
    BY <1>1 DEF Ends
  <1> QED
    BY <1>1, <1>3, <1>4, SmoothKept

LEMMA SmoothCancels ==
  ASSUME IInv, IInv', Grows, Smooth, NEW p \in Procs, handleCancelSignal(p)
  PROVE  Smooth'
  <1> DEFINE l == "cancel"
  <1>1. /\ op[p][l].pc = "start" /\ ~At(p, l, "idle") /\ l \in Lanes
        /\ record' = record /\ UNCHANGED stored
    BY DEF handleCancelSignal, At, Lanes, durable
  <1>2. mem[p] \in Mems /\ op[p][l].pc \notin Committing
    BY <1>1 DEF IInv, Shape, Committing
  <1>3. CASE Ack(p, l) /\ UNCHANGED mem
    <2>1. Turn(p, l, Idle, mem[p], "settled")
      BY <1>1, <1>2, <1>3, EndsTurn DEF Ack, Final
    <2> QED
      BY <1>1, <1>2, <1>3, <2>1, SmoothAsks
  <1>4. CASE Continue(p, l, "unheld") /\ UNCHANGED mem
    <2>1. PICK o \in Ops : Turn(p, l, o, mem[p], "out")
      BY <1>1, <1>2, <1>4, ContinueTurn DEF Steps
    <2> QED
      BY <1>1, <1>2, <1>4, <2>1, SmoothAsks
  <1>5. CASE mem[p].state = "live" /\ Commit(p, l, "cancelled")
    <2>1. PICK m \in Mems, t \in Steps, c \in Steps, x \in Ops :
            /\ m = mem[p] /\ t = op[p]["task"].pc /\ c = op[p]["cancel"].pc
            /\ x = op[p]["response"]
            /\ Ordered(m, t, c, x) /\ (Ending(p) <=> Ends(m, c, x))
      BY View
    <2>2. PICK n : n = [m EXCEPT !.state = "cancelled"]
      OBVIOUS
    <2>3. /\ n \in Mems /\ n.state = "cancelled" /\ n.req = m.req /\ n.rev = m.rev
          /\ n.out = m.out
      BY <2>2 DEF Mems, States, Kinds
    <2>4. PICK o : o = [op[p][l] EXCEPT !.pc = "marker", !.kind = "cancelled"]
      OBVIOUS
    <2>5. op[p][l] \in Ops
      BY <1>1 DEF IInv, Shape
    <2>6. o \in Ops /\ o.pc = "marker" /\ o.r = op[p][l].r
      BY <2>4, <2>5 DEF Ops, Steps, Kinds
    <2>7. Turn(p, l, o, n, "out")
      BY <1>1, <1>5, <2>1, <2>2, <2>3, <2>4, <2>6, GoesTurn DEF Commit
    <2>8. Ordered(n, t, "marker", x)'
      BY <1>1, <1>5, <2>1, <2>3
      DEF Ordered, Terminal, Kinds, None, Waiting, Committing, Retrying
    <2>9. ~Ending(p)
      BY <1>5, <2>1 DEF Ends, Terminal, Kinds
    <2> QED
      BY <1>1, <2>1, <2>6, <2>7, <2>8, <2>9, SmoothKept
  <1> QED
    BY <1>3, <1>4, <1>5 DEF handleCancelSignal

LEMMA SmoothUncancellable ==
  ASSUME IInv, IInv', Grows, Smooth, NEW p \in Procs, settleUncancellableLoop(p)
  PROVE  Smooth'
  <1> DEFINE l == "cancel"
  <1>1. /\ op[p][l].pc = "unheld" /\ ~At(p, l, "idle") /\ l \in Lanes
        /\ record' = record /\ UNCHANGED <<stored, mem>>
    BY DEF settleUncancellableLoop, At, Lanes, durable
  <1>2. mem[p] \in Mems /\ op[p][l].pc \notin Committing
    BY <1>1 DEF IInv, Shape, Committing
  <1>3. ASSUME NEW s \in {"ready"} \union Final, Settle(p, l, s), UNCHANGED answer
        PROVE  Smooth'
    <2>1. Turn(p, l, Idle, mem[p], s)
      BY <1>1, <1>2, <1>3, EndsTurn
    <2> QED
      BY <1>1, <1>2, <2>1, SmoothAsks
  <1>4. CASE Continue(p, l, "adopt")
    <2>1. PICK o \in Ops : Turn(p, l, o, mem[p], "out")
      BY <1>1, <1>2, <1>4, ContinueTurn DEF Steps
    <2> QED
      BY <1>1, <1>2, <2>1, SmoothAsks
  <1> QED
    BY <1>3, <1>4 DEF settleUncancellableLoop, Ack, Retry, Final

\* A read that failed.
LEMMA SmoothReadFails ==
  ASSUME IInv, IInv', Grows, Smooth, NEW p \in Procs, NEW l \in Lanes, ReadFails(p, l)
  PROVE  Smooth'
  <1>1. /\ op[p][l].pc \in {"guard", "restore", "unheld", "rewrite", "start"} /\ ~At(p, l, "idle")
        /\ Settle(p, l, "ready") /\ UNCHANGED answer
        /\ record' = record /\ UNCHANGED <<stored, mem>>
    BY DEF ReadFails, Retry, At, durable
  <1>2. PICK m \in Mems, t \in Steps, c \in Steps, x \in Ops :
          /\ m = mem[p] /\ t = op[p]["task"].pc /\ c = op[p]["cancel"].pc
          /\ x = op[p]["response"]
          /\ Ordered(m, t, c, x) /\ (Ending(p) <=> Ends(m, c, x))
          /\ stored # {} => t = "idle"
          /\ stored = {} => x.pc = "idle"
    BY View
  <1>3. Turn(p, l, Idle, m, "ready") /\ Idle.pc = "idle"
    BY <1>1, <1>2, EndsTurn
  <1>4. CASE l = "task"
    <2>1. Ordered(m, "idle", c, x)'
      BY <1>1, <1>2, <1>4 DEF Ordered
    <2> QED
      BY <1>1, <1>2, <1>3, <1>4, <2>1, SmoothTask
  <1>5. CASE l = "cancel"
    <2>1. op[p]["cancel"].pc \notin Committing
      BY <1>1, <1>5 DEF Committing
    <2> QED
      BY <1>1, <1>2, <1>3, <1>5, <2>1, SmoothAsks
  <1>6. CASE l = "response"
    <2>1. t = "idle" /\ x.pc \in {"guard", "restore", "start"}
      BY <1>1, <1>2, <1>6 DEF Ordered, Waiting, Committing, Retrying
    <2>2. Ordered(m, "idle", c, Idle)' /\ (Ends(m, c, x) => Ends(m, c, Idle)')
      BY <1>1, <1>2, <1>3, <2>1 DEF Ordered, Ends, Waiting, Committing, Retrying
    <2> QED
      BY <1>1, <1>2, <1>3, <1>6, <2>2, SmoothResponse
  <1> QED
    BY <1>4, <1>5, <1>6 DEF Lanes

\* A message is delivered to a lane that nobody works on.
LEMMA SmoothDeliver ==
  ASSUME IInv, Smooth, NEW p \in Procs, NEW l \in Lanes, Deliver(p, l)
  PROVE  Smooth'
  <1>1. /\ op[p][l].pc = "idle" /\ \A d \in Msgs : d[1] = l => msg[d] # "out"
        /\ UNCHANGED <<record, stored, answer, mem>>
    BY DEF Deliver, At, durable
  <1>2. PICK d \in Msgs : /\ d[1] = l /\ msg[d] = "ready" /\ msg' = [msg EXCEPT ![d] = "out"]
                          /\ Go(p, l, [Idle EXCEPT !.pc = "start", !.r = d[2]])
    BY DEF Deliver
  <1>3. PICK r \in {0, 1, 2} : r = d[2] /\ d = <<l, r>>
    BY <1>2 DEF Msgs, Reqs
  <1>4. PICK o : o = [Idle EXCEPT !.pc = "start", !.r = r]
    OBVIOUS
  <1>5. o \in Ops /\ o.pc = "start" /\ o.r = r
    BY <1>4 DEF Ops, Idle, Steps
  <1>6. op' = [op EXCEPT ![p][l] = o]
    BY <1>2, <1>3, <1>4 DEF Go
  <1>7. /\ op'[p][l] = o
        /\ \A q \in Procs : q # p => op'[q] = op[q]
        /\ \A k \in Lanes : k # l => op'[p][k] = op[p][k]
    BY <1>6 DEF IInv, Shape
  <1>8. /\ msg'[d] = "out" /\ \A e \in Msgs : e # d => msg'[e] = msg[e]
    BY <1>2 DEF IInv, Shape
  <1>9. \A q \in Procs : op[q][l].pc = "idle"
    <2>1. ASSUME NEW q \in Procs, op[q][l].pc # "idle" PROVE FALSE
      <3>1. Message(q, l) \in Msgs /\ msg[Message(q, l)] = "out"
        BY <2>1 DEF Smooth, Exclusive
      <3>2. PICK e \in Msgs : e = Message(q, l)
        BY <3>1
      <3>3. e[1] = l
        BY <3>2 DEF Message
      <3> QED
        BY <1>1, <3>1, <3>2, <3>3
    <2> QED
      BY <2>1
  <1>10. Exclusive'
    <2> SUFFICES ASSUME NEW k \in Lanes, NEW q \in Procs, op'[q][k].pc # "idle"
                 PROVE  /\ Message(q, k)' \in Msgs /\ msg'[Message(q, k)'] = "out"
                        /\ \A z \in Procs : op'[z][k].pc # "idle" => z = q
      BY DEF Exclusive
    <2>1. CASE k = l
      <3>1. \A z \in Procs : op'[z][k].pc # "idle" => z = p
        BY <1>7, <1>9, <2>1
      <3>2. Message(q, k)' = d
        BY <1>3, <1>5, <1>7, <2>1, <3>1 DEF Message
      <3> QED
        BY <1>8, <3>1, <3>2
    <2>2. CASE k # l
      <3>1. \A z \in Procs : op'[z][k] = op[z][k]
        BY <1>7, <2>2
      <3>2. /\ Message(q, k) \in Msgs /\ msg[Message(q, k)] = "out"
            /\ \A z \in Procs : op[z][k].pc # "idle" => z = q
        BY <3>1 DEF Smooth, Exclusive
      <3>3. Message(q, k)' = Message(q, k)
        BY <3>1 DEF Message
      <3>4. Message(q, k) # d
        BY <1>2, <3>2
      <3> QED
        BY <1>8, <3>1, <3>2, <3>3, <3>4
    <2> QED
      BY <2>1, <2>2
  <1>12. Born'
    <2>1. ASSUME stored # {}
          PROVE  record.state # None /\ msg[<<"task", 0>>] = "settled"
                 /\ \A q \in Procs : op[q]["task"].pc = "idle"
      BY <2>1 DEF Smooth, Born
    <2>2. ASSUME stored # {} PROVE l # "task"
      BY <1>2, <1>3, <2>1, <2>2 DEF Msgs, Reqs
    <2>3. <<"task", 0>> \in Msgs /\ "task" \in Lanes
      BY DEF Msgs, Lanes
    <2> QED
      BY <1>1, <1>2, <1>7, <1>8, <2>1, <2>2, <2>3 DEF Born
  <1>13. Counted'
    BY <1>1 DEF Smooth, Counted
  <1>14. ASSUME NEW q \in Procs PROVE Steady(q)' /\ (Ending(q) => Ending(q)')
    <2>1. CASE q # p
      BY <1>1, <1>7, <2>1 DEF Smooth, Steady, Ordered, Ending, Ends
    <2>2. CASE q = p
      <3>1. PICK m \in Mems, t \in Steps, c \in Steps, x \in Ops :
              /\ m = mem[p] /\ t = op[p]["task"].pc /\ c = op[p]["cancel"].pc
              /\ x = op[p]["response"]
              /\ Ordered(m, t, c, x) /\ (Ending(p) <=> Ends(m, c, x))
        BY View
      <3>2. mem'[p] = m
        BY <1>1, <3>1
      <3>3. CASE l = "task"
        <4>1. Ordered(m, "start", c, x)' /\ (Ends(m, c, x) => Ends(m, c, x)')
          BY <1>1, <3>1, <3>3 DEF Ordered, Ends
        <4>2. op'[p]["task"].pc = "start" /\ op'[p]["cancel"].pc = c /\ op'[p]["response"] = x
          BY <1>5, <1>7, <3>1, <3>3 DEF Lanes
        <4> QED
          BY <2>2, <3>1, <3>2, <4>1, <4>2 DEF Steady, Ending
      <3>4. CASE l = "cancel"
        <4>1. Ordered(m, t, "start", x)' /\ ~Ends(m, c, x)
          BY <1>1, <3>1, <3>4 DEF Ordered, Ends, Committing
        <4>2. op'[p]["task"].pc = t /\ op'[p]["cancel"].pc = "start" /\ op'[p]["response"] = x
          BY <1>5, <1>7, <3>1, <3>4 DEF Lanes
        <4> QED
          BY <2>2, <3>1, <3>2, <4>1, <4>2 DEF Steady
      <3>5. CASE l = "response"
        <4>1. Ordered(m, t, c, o)' /\ (Ends(m, c, x) => Ends(m, c, o)')
          BY <1>1, <1>5, <3>1, <3>5 DEF Ordered, Ends, Waiting, Committing, Retrying
        <4>2. op'[p]["task"].pc = t /\ op'[p]["cancel"].pc = c /\ op'[p]["response"] = o
          BY <1>5, <1>7, <3>1, <3>5 DEF Lanes
        <4> QED
          BY <2>2, <3>1, <3>2, <4>1, <4>2 DEF Steady, Ending
      <3> QED
        BY <3>3, <3>4, <3>5 DEF Lanes
    <2> QED
      BY <2>1, <2>2
  <1>15. Settled'
    <2>1. <<"response", 1>> \in Msgs /\ <<"response", 2>> \in Msgs
      BY DEF Msgs, Reqs
    <2>2. \A e \in Msgs : msg'[e] = "settled" => msg[e] = "settled"
      BY <1>8
    <2> QED
      BY <1>1, <1>14, <2>1, <2>2 DEF Smooth, Settled
  <1> QED
    BY <1>10, <1>12, <1>13, <1>14, <1>15 DEF Smooth

\* A first or a repeated answer.
LEMMA SmoothModel ==
  ASSUME IInv, Smooth, NEW r \in Reqs, Model(r)
  PROVE  Smooth'
  <1>1. /\ UNCHANGED <<record, stored, mem, op>>
        /\ msg[<<"response", r>>] \in {"unsent", "settled"}
        /\ msg' = [msg EXCEPT ![<<"response", r>>] = "ready"]
    BY DEF Model, durable
  <1>2. PICK d \in Msgs : d = <<"response", r>>
    BY DEF Msgs
  <1>3. msg'[d] = "ready" /\ msg[d] # "out" /\ \A e \in Msgs : e # d => msg'[e] = msg[e]
    BY <1>1, <1>2 DEF IInv, Shape
  <1>4. Exclusive'
    <2> SUFFICES ASSUME NEW k \in Lanes, NEW q \in Procs, op'[q][k].pc # "idle"
                 PROVE  /\ Message(q, k)' \in Msgs /\ msg'[Message(q, k)'] = "out"
                        /\ \A z \in Procs : op'[z][k].pc # "idle" => z = q
      BY DEF Exclusive
    <2>1. /\ Message(q, k) \in Msgs /\ msg[Message(q, k)] = "out"
          /\ \A z \in Procs : op[z][k].pc # "idle" => z = q
      BY <1>1 DEF Smooth, Exclusive
    <2>2. Message(q, k)' = Message(q, k)
      BY <1>1 DEF Message
    <2> QED
      BY <1>1, <1>3, <2>1, <2>2
  <1>5. \A e \in Msgs : msg'[e] = "settled" => msg[e] = "settled"
    BY <1>3
  <1>6. <<"task", 0>> \in Msgs /\ <<"response", 1>> \in Msgs /\ <<"response", 2>> \in Msgs
    BY DEF Msgs, Reqs
  <1>7. Born' /\ Counted'
    <2>1. <<"task", 0>> # d
      BY <1>2
    <2> QED
      BY <1>1, <1>3, <1>6, <2>1 DEF Smooth, Born, Counted
  <1>8. \A q \in Procs : Steady(q)' /\ (Ending(q) => Ending(q)')
    BY <1>1 DEF Smooth, Steady, Ordered, Ending, Ends
  <1>9. Settled'
    BY <1>1, <1>5, <1>6, <1>8 DEF Smooth, Settled
  <1> QED
    BY <1>4, <1>7, <1>8, <1>9 DEF Smooth

-----------------------------------------------------------------------------
(* An answer is not lost.                                                  *)

LEMMA InitCalm == Init => Calm
  <1> SUFFICES ASSUME Init PROVE Calm
    OBVIOUS
  <1>1. /\ \A p \in Procs : mem[p] = NoMem /\ \A l \in Lanes : op[p][l] = Idle
        /\ stored = {} /\ record.state = None /\ record.rev = 0 /\ record.req = 0
        /\ faults = 0
    BY DEF Init
  <1>2. Idle.pc = "idle" /\ NoMem.state = None
    BY DEF Idle, NoMem
  <1>3. /\ \A r \in Reqs : msg[<<"response", r>>] = "unsent"
        /\ 1 \in Reqs /\ 2 \in Reqs
    BY DEF Init, Msgs, Reqs
  <1>4. Exclusive /\ Born /\ Counted
    BY <1>1, <1>2 DEF Exclusive, Born, Counted, None
  <1>5. Settled
    BY <1>3 DEF Settled
  <1>6. ASSUME NEW p \in Procs PROVE Steady(p)
    <2>1. /\ mem[p] = NoMem /\ op[p]["task"].pc = "idle" /\ op[p]["cancel"].pc = "idle"
          /\ op[p]["response"] = Idle
      BY <1>1, <1>2 DEF Lanes
    <2>2. Ordered(NoMem, "idle", "idle", Idle)
      BY <1>2 DEF Ordered, Terminal, Kinds, None, Waiting, Committing, Retrying
    <2> QED
      BY <2>1, <2>2 DEF Steady
  <1> QED
    BY <1>1, <1>4, <1>5, <1>6 DEF Calm, Smooth

\* A step takes at most one fault.
LEMMA OneFault ==
  ASSUME [Next]_vars
  PROVE  faults' \in {faults, faults + 1}
  <1>1. CASE UNCHANGED vars
    BY <1>1 DEF vars
  <1>2. ASSUME NEW r \in Reqs, Model(r) PROVE faults' = faults
    BY <1>2 DEF Model
  <1>3. ASSUME NEW p \in Procs,
               \/ Crash(p)
               \/ \E l \in Lanes :
                    \/ Deliver(p, l) \/ LeaseEnds(p, l) \/ ReadFails(p, l)
                    \/ settleTerminalGuard(p, l)
                    \/ createTerminalMarker(p, l) \/ publishTerminal(p, l)
                    \/ persistTerminal(p, l)
        PROVE  faults' = faults \/ faults' = faults + 1
    BY <1>3, Zenon DEF Crash, Deliver, LeaseEnds, ReadFails, settleTerminalGuard,
       createTerminalMarker, publishTerminal, persistTerminal, Fault, NoFault
  <1>4. ASSUME NEW p \in Procs,
               \/ classifyRedeliveredTask(p) \/ HandleTask(p) \/ WriteSpawnIdentity(p)
               \/ createLoopState(p) \/ terminateOversizedBirth(p) \/ publishFirstRequest(p)
        PROVE  faults' = faults \/ faults' = faults + 1
    BY <1>4, Zenon DEF classifyRedeliveredTask, HandleTask, WriteSpawnIdentity,
       createLoopState, terminateOversizedBirth, publishFirstRequest, Fault, NoFault
  <1>5. ASSUME NEW p \in Procs,
               \/ settleResponseWithoutLoop(p) \/ restoreLoopFromEvidence(p)
               \/ orderResponse(p) \/ settleRequest(p) \/ HandleModelResponse(p)
               \/ persistHandlerResult(p) \/ publishNextRequest(p)
               \/ stampPublishedRequest(p) \/ writeLoopRecord(p)
        PROVE  faults' = faults \/ faults' = faults + 1
    BY <1>5, Zenon DEF settleResponseWithoutLoop, restoreLoopFromEvidence, orderResponse,
       settleRequest, HandleModelResponse, persistHandlerResult, publishNextRequest,
       stampPublishedRequest, writeLoopRecord, Fault, NoFault
  <1>6. ASSUME NEW p \in Procs,
               \/ handleCancelSignal(p) \/ settleUncancellableLoop(p)
               \/ adoptDurableCancel(p) \/ writeRecordCancelled(p)
        PROVE  faults' = faults \/ faults' = faults + 1
    BY <1>6, Zenon DEF handleCancelSignal, settleUncancellableLoop, adoptDurableCancel,
       writeRecordCancelled, Fault, NoFault
  <1> QED
    BY <1>1, <1>2, <1>3, <1>4, <1>5, <1>6 DEF Next

LEMMA StepCalm == IInv /\ Calm /\ [Next]_vars => Calm'
  <1> SUFFICES ASSUME IInv, Calm, [Next]_vars PROVE Calm'
    OBVIOUS
  <1>1. IInv' /\ Grows
    BY StepLoop
  <1>2. faults \in Nat /\ faults' \in Nat
    BY OneFault DEF Calm
  <1> SUFFICES ASSUME faults' = 0, events' = {} PROVE Smooth'
    BY <1>2 DEF Calm
  <1>3. faults = 0 /\ faults' = faults /\ faults' # faults + 1
    BY <1>2, OneFault
  <1>11. events = {}
    BY <1>1 DEF Grows
  <1>4. Smooth /\ NoFault
    BY <1>3, <1>11 DEF Calm, NoFault
  <1>5. CASE UNCHANGED vars
    <2>1. UNCHANGED <<record, stored, answer, msg, mem, op>>
      BY <1>5 DEF vars, durable, server
    <2>2. Exclusive' /\ Born' /\ Counted'
      BY <1>4, <2>1 DEF Smooth, Exclusive, Message, Born, Counted
    <2>3. Settled' /\ \A p \in Procs : Steady(p)'
      BY <1>4, <2>1 DEF Smooth, Settled, Ending, Ends, Steady, Ordered
    <2> QED
      BY <2>2, <2>3 DEF Smooth
  <1>6. CASE \E r \in Reqs : Model(r)
    BY <1>4, <1>6, SmoothModel
  <1>7. ASSUME NEW p \in Procs,
               \/ Crash(p)
               \/ \E l \in Lanes :
                    \/ Deliver(p, l) \/ LeaseEnds(p, l) \/ ReadFails(p, l)
                    \/ settleTerminalGuard(p, l)
                    \/ createTerminalMarker(p, l) \/ publishTerminal(p, l)
                    \/ persistTerminal(p, l)
        PROVE  Smooth'
    <2>1. ~Crash(p) /\ \A l \in Lanes : ~LeaseEnds(p, l)
      BY <1>3, Zenon DEF Crash, LeaseEnds, Fault
    <2>2. ASSUME NEW l \in Lanes, publishTerminal(p, l) PROVE FALSE
      <3>1. events' = events \union {op[p][l].kind}
        BY <1>3, <2>2, Zenon DEF publishTerminal, Fault
      <3> QED
        BY <3>1
    <2>3. ASSUME NEW l \in Lanes, persistTerminal(p, l) PROVE FALSE
      BY <1>11, <2>3 DEF persistTerminal, At, IInv, OpInv, Owned
    <2> QED
      BY <1>1, <1>2, <1>4, <1>7, <2>1, <2>2, <2>3, SmoothDeliver, SmoothReadFails, SmoothGuard,
         SmoothMarker
  <1>8. ASSUME NEW p \in Procs,
               \/ classifyRedeliveredTask(p) \/ HandleTask(p) \/ WriteSpawnIdentity(p)
               \/ createLoopState(p) \/ terminateOversizedBirth(p) \/ publishFirstRequest(p)
        PROVE  Smooth'
    <2>1. ~terminateOversizedBirth(p)
      BY <1>4 DEF terminateOversizedBirth, At, Smooth, Steady, Ordered
    <2> QED
      BY <1>1, <1>2, <1>4, <1>8, <2>1, SmoothClassify, SmoothSeat, SmoothSpawn, SmoothBirth,
         SmoothFirst
  <1>9. ASSUME NEW p \in Procs,
               \/ settleResponseWithoutLoop(p) \/ restoreLoopFromEvidence(p)
               \/ orderResponse(p) \/ settleRequest(p) \/ HandleModelResponse(p)
               \/ persistHandlerResult(p) \/ publishNextRequest(p)
               \/ stampPublishedRequest(p) \/ writeLoopRecord(p)
        PROVE  Smooth'
    BY <1>1, <1>2, <1>4, <1>9, SmoothUnheld, SmoothRestore, SmoothOrder, SmoothSettle,
       SmoothDecide, SmoothCarry, SmoothNext, SmoothStamp, SmoothWrite
  <1>10. ASSUME NEW p \in Procs,
               \/ handleCancelSignal(p) \/ settleUncancellableLoop(p)
               \/ adoptDurableCancel(p) \/ writeRecordCancelled(p)
        PROVE  Smooth'
    <2>1. ~writeRecordCancelled(p)
      BY <1>11 DEF writeRecordCancelled, At, IInv, OpInv, Owned, Lanes
    <2>2. ASSUME adoptDurableCancel(p) PROVE FALSE
      <3>1. events' = events \union {marker}
        BY <1>3, <2>2, Zenon DEF adoptDurableCancel, Fault
      <3> QED
        BY <3>1
    <2> QED
      BY <1>1, <1>2, <1>4, <1>10, <2>1, <2>2, SmoothCancels, SmoothUncancellable
  <1> QED
    BY <1>5, <1>6, <1>7, <1>8, <1>9, <1>10 DEF Next

\* Until a first fault and until a terminal event is out, each lane is at work in one
\* process at a time, the birth is over once its request is retained, and a settled
\* answer has been taken over by the end of the loop, by its retry, or by a process that
\* is about to write the end.
THEOREM CalmInvariant == Spec => []Calm
  BY InitCalm, StepCalm, LoopInvariant, PTL DEF Spec

\* Without a fault, however often the model repeats its answers, one that is acknowledged
\* under a live record that waits for it was taken over by an end of the loop: a process
\* is still committing that, or its event is out (the orders of HandleModelResponse,
\* settleResponseWithoutLoop and settleTerminalGuard).
THEOREM AnswersAreNotLost == Spec => []AnswerNotLost
  <1>1. Calm => AnswerNotLost
    <2> SUFFICES ASSUME Calm, NEW r \in Reqs, msg[<<"response", r>>] = "settled", faults = 0,
                        record.state = "live", record.req = r, events = {}
                 PROVE  \E p \in Procs : Terminal(mem[p].state)
      BY DEF AnswerNotLost
    <2>1. Settled /\ ~Terminal(record.state)
      BY DEF Calm, Smooth, Terminal, Kinds
    <2>2. r = 1
      BY <2>1 DEF Settled, Reqs
    <2>3. \E p \in Procs : Ending(p)
      BY <2>1, <2>2 DEF Settled
    <2> QED
      BY <2>3 DEF Ending, Ends
  <1> QED
    BY <1>1, CalmInvariant, PTL

-----------------------------------------------------------------------------
(* The types of what the invariant does not need.                          *)

Rest ==
  /\ answer \in [Reqs -> {None, "complete", "truncated"}]
  /\ latched \in [Procs -> SUBSET Lanes]
  /\ faults \in 0..MaxFaults

\* How a step changes them: the model answers, a lane is latched, a process is replaced.
RestStep ==
  /\ \/ answer' = answer
     \/ \E r \in Reqs, a \in {"complete", "truncated"} :
          answer' = [answer EXCEPT ![r] = a]
  /\ \/ latched' = latched
     \/ \E p \in Procs, l \in Lanes : latched' = [latched EXCEPT ![p] = @ \union {l}]
     \/ \E p \in Procs : latched' = [latched EXCEPT ![p] = {}]
  /\ faults' = faults \/ (faults < MaxFaults /\ faults' = faults + 1)

LEMMA RestChanges ==
  ASSUME [Next]_vars
  PROVE  RestStep
  <1> USE DEF RestStep, Fault, NoFault, server, Ack, Retry, Terminate, Quarantine, Continue,
              Commit, Unknown, Release, handleLoopFailure
  <1>1. CASE UNCHANGED vars
    BY <1>1 DEF vars
  <1>2. ASSUME NEW r \in Reqs, Model(r) PROVE RestStep
    BY <1>2, Zenon DEF Model
  <1>3. ASSUME NEW p \in Procs, NEW l \in Lanes,
               Deliver(p, l) \/ LeaseEnds(p, l) \/ ReadFails(p, l) \/ settleTerminalGuard(p, l)
        PROVE  RestStep
    BY <1>3, Zenon DEF Deliver, LeaseEnds, ReadFails, settleTerminalGuard
  <1>4. ASSUME NEW p \in Procs, NEW l \in Lanes,
               createTerminalMarker(p, l) \/ publishTerminal(p, l) \/ persistTerminal(p, l)
        PROVE  RestStep
    BY <1>4, Zenon DEF createTerminalMarker, publishTerminal, persistTerminal
  <1>5. ASSUME NEW p \in Procs, Crash(p) PROVE RestStep
    BY <1>5, Zenon DEF Crash
  <1>6. "task" \in Lanes /\ "response" \in Lanes /\ "cancel" \in Lanes
    BY DEF Lanes
  <1>7. ASSUME NEW p \in Procs,
               \/ classifyRedeliveredTask(p) \/ HandleTask(p) \/ WriteSpawnIdentity(p)
               \/ createLoopState(p) \/ terminateOversizedBirth(p) \/ publishFirstRequest(p)
        PROVE  RestStep
    BY <1>6, <1>7, Zenon DEF classifyRedeliveredTask, HandleTask, WriteSpawnIdentity,
       createLoopState, terminateOversizedBirth, publishFirstRequest
  <1>8. ASSUME NEW p \in Procs,
               \/ settleResponseWithoutLoop(p) \/ restoreLoopFromEvidence(p)
               \/ orderResponse(p) \/ settleRequest(p) \/ HandleModelResponse(p)
        PROVE  RestStep
    BY <1>6, <1>8, Zenon DEF settleResponseWithoutLoop, restoreLoopFromEvidence, orderResponse,
       settleRequest, HandleModelResponse
  <1>9. ASSUME NEW p \in Procs,
               \/ persistHandlerResult(p) \/ publishNextRequest(p)
               \/ stampPublishedRequest(p) \/ writeLoopRecord(p)
        PROVE  RestStep
    BY <1>6, <1>9, Zenon DEF persistHandlerResult, publishNextRequest, stampPublishedRequest,
       writeLoopRecord
  <1>10. ASSUME NEW p \in Procs,
               \/ handleCancelSignal(p) \/ settleUncancellableLoop(p)
               \/ adoptDurableCancel(p) \/ writeRecordCancelled(p)
        PROVE  RestStep
    BY <1>6, <1>10, Zenon DEF handleCancelSignal, settleUncancellableLoop, adoptDurableCancel,
       writeRecordCancelled
  <1> QED
    BY <1>1, <1>2, <1>3, <1>4, <1>5, <1>7, <1>8, <1>9, <1>10 DEF Next

\* The type invariant, for any number of processes and of faults: no process claims a
\* revision the record has not reached.
THEOREM LoopTypes == ASSUME MaxFaults \in Nat PROVE Spec => []TypeOK
  <1>1. Init => Rest
    BY DEF Init, Rest
  <1>2. Rest /\ [Next]_vars => Rest'
    <2> SUFFICES ASSUME Rest, [Next]_vars PROVE Rest'
      OBVIOUS
    <2>1. RestStep
      BY RestChanges
    <2>2. answer' \in [Reqs -> {None, "complete", "truncated"}]
      BY <2>1 DEF Rest, RestStep
    <2>3. latched' \in [Procs -> SUBSET Lanes]
      BY <2>1 DEF Rest, RestStep
    <2>4. faults' \in 0..MaxFaults
      BY <2>1 DEF Rest, RestStep
    <2> QED
      BY <2>2, <2>3, <2>4 DEF Rest
  <1>3. IInv /\ Rest => TypeOK
    <2> SUFFICES ASSUME IInv, Rest PROVE TypeOK
      OBVIOUS
    <2>1. ASSUME NEW p \in Procs
          PROVE  /\ mem[p].state \in {None, "live"} \union Kinds /\ mem[p].req \in {0} \union Reqs
                 /\ mem[p].out \in {0} \union Reqs /\ mem[p].rev \in 0..record.rev
                 /\ latched[p] \subseteq Lanes
      <3>1. mem[p] \in Mems /\ mem[p].rev <= record.rev /\ record.rev \in Nat
        BY DEF IInv, Shape, MemInv, Known
      <3>2. mem[p].state \in States /\ mem[p].req \in {0, 1, 2} /\ mem[p].out \in {0, 1, 2}
            /\ mem[p].rev \in Nat
        BY <3>1 DEF Mems
      <3>3. latched[p] \subseteq Lanes
        BY DEF Rest
      <3> QED
        BY <3>1, <3>2, <3>3 DEF States, Reqs
    <2>2. /\ record \in [rev : Nat, state : {None, "live"} \union Kinds, req : {0} \union Reqs]
          /\ marker \in {None} \union Kinds /\ events \subseteq Kinds /\ stored \subseteq Reqs
          /\ msg \in [Msgs -> {"unsent", "ready", "out", "settled", "termed"}]
      BY DEF IInv, Shape, States, Reqs, Fates, Final
    <2> QED
      BY <2>1, <2>2 DEF TypeOK, Rest
  <1> QED
    BY <1>1, <1>2, <1>3, LoopInvariant, PTL DEF Spec
=============================================================================
