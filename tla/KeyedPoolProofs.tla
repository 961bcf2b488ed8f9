--------------------------- MODULE KeyedPoolProofs ---------------------------
(***************************************************************************)
(* The keyed pool, proved for every set of callers, lanes and stoppers and *)
(* every queue depth: the items of a lane are processed once and in the    *)
(* order they were sent, and a Stop that returns nil has drained the pool. *)
(***************************************************************************)
EXTENDS KeyedPool, SequenceTheorems, TLAPS

\* TypeOK names the values of the three maps of sequences; their domain is Lanes.
Mapped ==
  /\ queue \in [Lanes -> Seq(Callers)]
  /\ accepted \in [Lanes -> Seq(Callers)] /\ processed \in [Lanes -> Seq(Callers)]

\* A lane goroutine holds an item exactly while it is in runOne.
HoldsItem ==
  \A l \in Lanes : lane[l].pc \in {"work", "drainWork"} <=> lane[l].item # None

\* A submit that returned nil has sent its item to the lane of its key.
OkIsAccepted ==
  \A c \in Callers : submit[c] = "ok" =>
    \E i \in DOMAIN accepted[ItemLane(c)] : accepted[ItemLane(c)][i] = c

(***************************************************************************)
(* The order of a Stop: stopped is set first, drainCh is closed when no    *)
(* submitter is left and none can enter, a lane drains only after that,    *)
(* with a live run context it leaves only with an empty buffer, and        *)
(* stopDone and the nil of a Stop come after the last lane has left.       *)
(***************************************************************************)
StopOrder ==
  /\ coord # "idle" => stopped
  /\ drainClosed => \A c \in Callers : submit[c] # "sending"
  /\ \A l \in Lanes :
       /\ lane[l].pc \in {"drain", "drainWork"} => drainClosed
       /\ runCtx /\ lane[l].pc = "exited" => drainClosed /\ queue[l] = <<>>
       /\ coord = "done" => lane[l].pc = "exited"
  /\ \A s \in Stoppers : stop[s] = "nil" => coord = "done"

IInv == TypeOK /\ Mapped /\ HoldsItem /\ LaneOrder /\ OkIsAccepted /\ StopOrder

-----------------------------------------------------------------------------
\* The item in the hands of a lane, as a sequence of none or one.
InHand(item) == IF item = None THEN <<>> ELSE <<item>>

LEMMA PendingParts ==
  ASSUME TypeOK, Mapped, NEW l \in Lanes
  PROVE  /\ Pending(l) = InHand(lane[l].item) \o queue[l]
         /\ InHand(lane[l].item) \in Seq(Callers)
         /\ processed[l] \in Seq(Callers) /\ queue[l] \in Seq(Callers)
<1>1. lane[l].item \in Callers \cup {None}
  BY DEF TypeOK
<1>2. InHand(lane[l].item) \in Seq(Callers)
  <2>1. CASE lane[l].item = None
    BY <2>1, EmptySeq DEF InHand
  <2>2. CASE lane[l].item # None
    BY <2>2, <1>1 DEF InHand
  <2> QED
    BY <2>1, <2>2
<1> QED
  BY <1>2 DEF Pending, InHand, Mapped

(* What the three moves of an item do to the order of a lane.              *)

\* Sent: at the end of what was accepted, and at the end of what is owed.
LEMMA SentLast ==
  ASSUME NEW s \in Seq(Callers), NEW t \in Seq(Callers), NEW q \in Seq(Callers), NEW c \in Callers
  PROVE  Append(s \o (t \o q), c) = s \o (t \o Append(q, c))
<1>1. /\ t \o q \in Seq(Callers) /\ s \o (t \o q) \in Seq(Callers) /\ <<c>> \in Seq(Callers)
  BY ConcatProperties
<1>2. Append(s \o (t \o q), c) = (s \o (t \o q)) \o <<c>>
  BY <1>1, AppendIsConcat
<1>3. (s \o (t \o q)) \o <<c>> = s \o ((t \o q) \o <<c>>)
  BY <1>1, ConcatAssociative
<1>4. (t \o q) \o <<c>> = t \o (q \o <<c>>)
  BY <1>1, ConcatAssociative
<1>5. q \o <<c>> = Append(q, c)
  BY AppendIsConcat
<1> QED
  BY <1>2, <1>3, <1>4, <1>5

\* Received: from the head of the buffer into the hands of the lane.
LEMMA TakenFirst ==
  ASSUME NEW q \in Seq(Callers), q # <<>>
  PROVE  <<>> \o q = <<Head(q)>> \o Tail(q)
<1>1. Head(q) \in Callers /\ Tail(q) \in Seq(Callers) /\ Len(Tail(q)) = Len(q) - 1
  BY HeadTailProperties
<1>2. <<Head(q)>> \in Seq(Callers) /\ Len(<<Head(q)>>) = 1 /\ <<Head(q)>>[1] = Head(q)
  BY <1>1
<1>3. /\ <<Head(q)>> \o Tail(q) \in Seq(Callers)
      /\ Len(<<Head(q)>> \o Tail(q)) = Len(q)
      /\ \A i \in 1..Len(q) : (<<Head(q)>> \o Tail(q))[i] =
           IF i <= 1 THEN <<Head(q)>>[i] ELSE Tail(q)[i - 1]
  BY <1>1, <1>2, ConcatProperties, LenProperties
<1>4. \A i \in 1..Len(q) : (<<Head(q)>> \o Tail(q))[i] = q[i]
  <2> TAKE i \in 1..Len(q)
  <2>1. CASE i = 1
    BY <2>1, <1>2, <1>3
  <2>2. CASE i # 1
    <3>1. i - 1 \in 1..Len(Tail(q))
      BY <2>2, <1>1, LenProperties
    <3>2. Tail(q)[i - 1] = q[(i - 1) + 1]
      BY <3>1, HeadTailProperties
    <3> QED
      BY <2>2, <3>2, <1>3, LenProperties
  <2> QED
    BY <2>1, <2>2
<1>5. <<Head(q)>> \o Tail(q) = q
  BY <1>3, <1>4, SeqEqual
<1> QED
  BY <1>5, ConcatEmptySeq

\* Processed: from the hands of the lane to the end of what was processed.
LEMMA FinishedNext ==
  ASSUME NEW s \in Seq(Callers), NEW q \in Seq(Callers), NEW c \in Callers
  PROVE  s \o (<<c>> \o q) = Append(s, c) \o (<<>> \o q)
<1>1. <<c>> \in Seq(Callers)
  OBVIOUS
<1>2. (s \o <<c>>) \o q = s \o (<<c>> \o q)
  BY <1>1, ConcatAssociative
<1>3. Append(s, c) = s \o <<c>>
  BY AppendIsConcat
<1> QED
  BY <1>2, <1>3, ConcatEmptySeq

\* The three moves in a pool that keeps LaneOrder.
LEMMA MovesKeepOrder ==
  ASSUME TypeOK, Mapped, LaneOrder, NEW l \in Lanes
  PROVE  /\ \A c \in Callers :
              Append(accepted[l], c) = processed[l] \o (InHand(lane[l].item) \o Append(queue[l], c))
         /\ queue[l] # <<>> =>
              <<>> \o queue[l] = <<Head(queue[l])>> \o Tail(queue[l])
         /\ \A c \in Callers :
              processed[l] \o (<<c>> \o queue[l]) = Append(processed[l], c) \o (<<>> \o queue[l])
<1>1. /\ processed[l] \in Seq(Callers) /\ queue[l] \in Seq(Callers)
      /\ InHand(lane[l].item) \in Seq(Callers)
  BY PendingParts
<1>2. accepted[l] = processed[l] \o (InHand(lane[l].item) \o queue[l])
  BY PendingParts DEF LaneOrder
<1>3. ASSUME NEW c \in Callers
      PROVE  Append(processed[l] \o (InHand(lane[l].item) \o queue[l]), c)
               = processed[l] \o (InHand(lane[l].item) \o Append(queue[l], c))
  BY <1>1, SentLast, Zenon
<1>4. queue[l] # <<>> => <<>> \o queue[l] = <<Head(queue[l])>> \o Tail(queue[l])
  BY <1>1, TakenFirst, Zenon
<1>5. ASSUME NEW c \in Callers
      PROVE  processed[l] \o (<<c>> \o queue[l]) = Append(processed[l], c) \o (<<>> \o queue[l])
  BY <1>1, FinishedNext, Zenon
<1> QED
  BY <1>2, <1>3, <1>4, <1>5, Zenon

-----------------------------------------------------------------------------
LEMMA InitIInv == Init => IInv
<1> SUFFICES ASSUME Init PROVE IInv
  OBVIOUS
<1> USE PoolAssumption DEF Init
<1>1. TypeOK
  <2>1. lane \in [Lanes -> [pc : {"recv", "work", "drain", "drainWork", "exited"},
                           item : Callers \cup {None}]]
    OBVIOUS
  <2>2. /\ submit \in [Callers -> {"new", "sending"} \cup Results]
        /\ stop \in [Stoppers -> {"new", "waiting", "nil", "err"}]
    BY DEF Results
  <2>3. \A l \in Lanes : /\ queue[l] = <<>> /\ accepted[l] = <<>> /\ processed[l] = <<>>
                         /\ Len(queue[l]) = 0 /\ <<>> \in Seq(Callers)
    BY EmptySeq
  <2>4. stopped \in BOOLEAN /\ runCtx \in BOOLEAN
    BY Zenon
  <2>5. \A l \in Lanes : Len(queue[l]) <= QueueDepth
    BY <2>3
  <2> QED
    BY <2>1, <2>2, <2>3, <2>4, <2>5, Zenon DEF TypeOK
<1>2. Mapped /\ HoldsItem /\ OkIsAccepted /\ StopOrder
  BY DEF Mapped, HoldsItem, OkIsAccepted, StopOrder, drainClosed
<1>3. LaneOrder
  BY ConcatEmptySeq DEF LaneOrder, Pending
<1> QED
  BY <1>1, <1>2, <1>3 DEF IInv

(***************************************************************************)
(* A caller's step that sends nothing: it enters, gives up or is           *)
(* cancelled.  Only Enter can make it a sender, and not once stopped.      *)
(***************************************************************************)
LEMMA CallerKeeps ==
  ASSUME IInv, NEW c \in Callers, Enter(c) \/ GiveUp(c) \/ CancelCaller(c)
  PROVE  IInv'
<1> USE PoolAssumption DEF IInv
<1>0. \A r \in Errors(c) : r \in {"ErrLaneFull", "ctxErr", "ErrStopped"}
  BY Zenon DEF Errors
<1>1. /\ UNCHANGED <<stopped, coord, runCtx, queue, lane, stop, accepted, processed>>
      /\ cancelled' \subseteq Blocking
  BY DEF Enter, GiveUp, CancelCaller, TypeOK
<1>2. \E r \in {"sending"} \cup (Results \ {"ok"}) :
           /\ submit' = submit \/ submit' = [submit EXCEPT ![c] = r]
           /\ r = "sending" /\ submit' # submit => ~stopped
  <2>1. CASE Enter(c)
    <3>1. CASE stopped
      <4>1. submit' = [submit EXCEPT ![c] = "ErrStopped"]
        BY <2>1, <3>1, Zenon DEF Enter, Return
      <4>2. "ErrStopped" \in {"sending"} \cup (Results \ {"ok"}) /\ "ErrStopped" # "sending"
        BY DEF Results
      <4> QED
        BY <4>1, <4>2, Zenon
    <3>2. CASE ~stopped
      <4>1. submit' = [submit EXCEPT ![c] = "sending"]
        BY <2>1, <3>2, Zenon DEF Enter, Return
      <4> QED
        BY <3>2, <4>1
    <3> QED
      BY <3>1, <3>2
  <2>2. CASE GiveUp(c)
    BY <2>2, <1>0 DEF GiveUp, Return, Results
  <2>3. CASE CancelCaller(c)
    BY <2>3 DEF CancelCaller, Results
  <2> QED
    BY <2>1, <2>2, <2>3
<1> PICK r \in {"sending"} \cup (Results \ {"ok"}) :
           /\ submit' = submit \/ submit' = [submit EXCEPT ![c] = r]
           /\ r = "sending" /\ submit' # submit => ~stopped
  BY <1>2
<1>3. TypeOK'
  BY <1>1 DEF TypeOK, Results
<1>4. \A d \in Callers : submit'[d] \in {submit[d], r}
  BY DEF TypeOK
<1>5. Mapped' /\ HoldsItem' /\ LaneOrder'
  BY <1>1 DEF Mapped, HoldsItem, LaneOrder, Pending
<1>6. OkIsAccepted'
  BY <1>1, <1>4 DEF OkIsAccepted, Results, ItemLane
<1>7. StopOrder'
  BY <1>1, <1>4 DEF StopOrder, drainClosed, Results
<1> QED
  BY <1>3, <1>5, <1>6, <1>7

(***************************************************************************)
(* A send: the item goes to the end of its lane.  The sender is counted in *)
(* submitWG, so drainCh is open and no lane has left for good.             *)
(***************************************************************************)
LEMMA SendKeeps ==
  ASSUME IInv, NEW c \in Callers, Send(c)
  PROVE  IInv'
<1> USE PoolAssumption DEF IInv
<1> DEFINE l == ItemLane(c)
<1>1. l \in Lanes
  BY DEF ItemLane
<1>2. /\ submit[c] = "sending" /\ Len(queue[l]) < QueueDepth
      /\ queue' = [queue EXCEPT ![l] = Append(@, c)]
      /\ accepted' = [accepted EXCEPT ![l] = Append(@, c)]
      /\ submit' = [submit EXCEPT ![c] = "ok"]
      /\ UNCHANGED <<stopped, coord, cancelled, runCtx, lane, stop, processed>>
  BY DEF Send, Return
<1>3. /\ Append(queue[l], c) \in Seq(Callers) /\ Len(Append(queue[l], c)) = Len(queue[l]) + 1
      /\ Append(accepted[l], c) \in Seq(Callers)
      /\ Append(accepted[l], c)[Len(accepted[l]) + 1] = c
      /\ Len(Append(accepted[l], c)) = Len(accepted[l]) + 1
      /\ \A i \in 1..Len(accepted[l]) : Append(accepted[l], c)[i] = accepted[l][i]
  BY <1>1, AppendProperties DEF Mapped
<1>4. /\ \A m \in Lanes : queue'[m] = IF m = l THEN Append(queue[l], c) ELSE queue[m]
      /\ \A m \in Lanes : accepted'[m] = IF m = l THEN Append(accepted[l], c) ELSE accepted[m]
      /\ \A d \in Callers : submit'[d] = IF d = c THEN "ok" ELSE submit[d]
  BY <1>1, <1>2 DEF Mapped, TypeOK
<1>5. Mapped'
  BY <1>1, <1>2, <1>3 DEF Mapped
<1>6. TypeOK'
  <2>1. \A m \in Lanes : Len(queue'[m]) <= QueueDepth
    <3> TAKE m \in Lanes
    <3>1. CASE m = l
      BY <3>1, <1>2, <1>3, <1>4, LenProperties DEF Mapped
    <3>2. CASE m # l
      BY <3>2, <1>4 DEF TypeOK
    <3> QED
      BY <3>1, <3>2
  <2>2. submit' \in [Callers -> {"new", "sending"} \cup Results]
    BY <1>2 DEF TypeOK, Results
  <2>3. \A m \in Lanes : /\ queue'[m] \in Seq(Callers)
                         /\ accepted'[m] \in Seq(Callers) /\ processed'[m] \in Seq(Callers)
    BY <1>5 DEF Mapped
  <2> QED
    BY <1>2, <2>1, <2>2, <2>3 DEF TypeOK
<1>7. HoldsItem'
  BY <1>2 DEF HoldsItem
<1>8. LaneOrder'
  <2> SUFFICES ASSUME NEW m \in Lanes PROVE accepted'[m] = processed'[m] \o Pending(m)'
    BY DEF LaneOrder
  <2>1. Pending(m)' = InHand(lane[m].item) \o queue'[m] /\ processed'[m] = processed[m]
    BY <1>2 DEF Pending, InHand
  <2>2. CASE m = l
    <3>1. accepted'[m] = Append(accepted[m], c) /\ queue'[m] = Append(queue[m], c)
      BY <2>2, <1>4
    <3>2. Append(accepted[m], c) = processed[m] \o (InHand(lane[m].item) \o Append(queue[m], c))
      BY MovesKeepOrder, Zenon
    <3> QED
      BY <2>1, <3>1, <3>2, Zenon
  <2>3. CASE m # l
    BY <2>1, <2>3, <1>4, PendingParts DEF LaneOrder
  <2> QED
    BY <2>2, <2>3
<1>9. OkIsAccepted'
  <2> SUFFICES ASSUME NEW d \in Callers, submit'[d] = "ok"
               PROVE  \E i \in DOMAIN accepted'[ItemLane(d)] : accepted'[ItemLane(d)][i] = d
    BY DEF OkIsAccepted, ItemLane
  <2>0. ItemLane(d) \in Lanes
    BY DEF ItemLane
  <2>1. \A m \in Lanes : DOMAIN accepted[m] = 1..Len(accepted[m]) /\ Len(accepted[m]) \in Nat
    BY LenProperties DEF Mapped
  <2>2. DOMAIN accepted'[l] = 1..(Len(accepted[l]) + 1)
    BY <1>1, <1>3, <1>4, LenProperties
  <2>3. CASE d = c
    <3>1. Len(accepted[l]) + 1 \in DOMAIN accepted'[l]
      BY <2>1, <2>2, <1>1
    <3> QED
      BY <2>3, <3>1, <1>1, <1>3, <1>4
  <2>4. CASE d # c
    <3>1. PICK i \in DOMAIN accepted[ItemLane(d)] : accepted[ItemLane(d)][i] = d
      BY <2>4, <1>4 DEF OkIsAccepted
    <3>2. CASE ItemLane(d) = l
      <4>1. i \in 1..Len(accepted[l])
        BY <3>1, <3>2, <2>1, <1>1
      <4>2. accepted'[l][i] = d
        BY <3>1, <3>2, <4>1, <1>1, <1>3, <1>4
      <4>3. i \in 1..(Len(accepted[l]) + 1)
        BY <4>1, <2>1, <1>1
      <4> QED
        BY <3>2, <4>2, <4>3, <2>2
    <3>3. CASE ItemLane(d) # l
      BY <3>1, <3>3, <2>0, <1>4
    <3> QED
      BY <3>2, <3>3
  <2> QED
    BY <2>3, <2>4
<1>10. StopOrder'
  BY <1>2, <1>4 DEF StopOrder, drainClosed
<1> QED
  BY <1>5, <1>6, <1>7, <1>8, <1>9, <1>10

(***************************************************************************)
(* A lane goroutine receives.                                              *)
(***************************************************************************)
LEMMA ReceiveKeeps ==
  ASSUME IInv, NEW l \in Lanes, Receive(l)
  PROVE  IInv'
<1> USE DEF IInv
<1> DEFINE pc == IF lane[l].pc = "recv" THEN "work" ELSE "drainWork"
<1>1. /\ lane[l].pc \in {"recv", "drain"} /\ queue[l] # <<>>
      /\ lane' = [lane EXCEPT ![l] = [pc |-> pc, item |-> Head(queue[l])]]
      /\ queue' = [queue EXCEPT ![l] = Tail(queue[l])]
      /\ UNCHANGED <<stopped, coord, submit, cancelled, runCtx, stop, accepted, processed>>
  BY DEF Receive
<1>2. /\ queue[l] \in Seq(Callers) /\ Head(queue[l]) \in Callers
      /\ Tail(queue[l]) \in Seq(Callers) /\ Len(Tail(queue[l])) = Len(queue[l]) - 1
      /\ Len(queue[l]) <= QueueDepth
  BY <1>1, HeadTailProperties DEF Mapped, TypeOK
<1>3. lane[l].item = None /\ Head(queue[l]) # None
  BY <1>1, <1>2, PoolAssumption DEF HoldsItem
<1>4. /\ \A m \in Lanes : queue'[m] = IF m = l THEN Tail(queue[l]) ELSE queue[m]
      /\ \A m \in Lanes : lane'[m] = IF m = l THEN [pc |-> pc, item |-> Head(queue[l])]
                                     ELSE lane[m]
  BY <1>1 DEF Mapped, TypeOK
<1>5. Mapped'
  BY <1>1, <1>2 DEF Mapped
<1>6. TypeOK'
  <2>1. \A m \in Lanes : Len(queue'[m]) <= QueueDepth
    <3> TAKE m \in Lanes
    <3>1. CASE m = l
      <4>1. queue'[m] = Tail(queue[l])
        BY <3>1, <1>4
      <4>2. Len(queue[l]) \in Nat /\ QueueDepth \in Nat
        BY <1>2, LenProperties, PoolAssumption
      <4> QED
        BY <1>2, <4>1, <4>2
    <3>2. CASE m # l
      BY <3>2, <1>4 DEF TypeOK
    <3> QED
      BY <3>1, <3>2
  <2>2. lane' \in [Lanes -> [pc : {"recv", "work", "drain", "drainWork", "exited"},
                             item : Callers \cup {None}]]
    BY <1>1, <1>2 DEF TypeOK
  <2> QED
    BY <1>1, <1>5, <2>1, <2>2 DEF TypeOK, Mapped
<1>7. HoldsItem'
  BY <1>1, <1>3, <1>4 DEF HoldsItem
<1>8. LaneOrder'
  <2> SUFFICES ASSUME NEW m \in Lanes PROVE accepted'[m] = processed'[m] \o Pending(m)'
    BY DEF LaneOrder
  <2>1. CASE m = l
    <3>1. Pending(l)' = <<Head(queue[l])>> \o Tail(queue[l])
      <4>1. lane'[l].item = Head(queue[l]) /\ queue'[l] = Tail(queue[l])
        BY <1>4
      <4> QED
        BY <4>1, <1>3, Zenon DEF Pending
    <3>2. Pending(l) = <<>> \o queue[l]
      BY <1>3 DEF Pending
    <3>3. Pending(l)' = Pending(l)
      BY <1>1, <3>1, <3>2, MovesKeepOrder, Zenon
    <3> QED
      BY <1>1, <2>1, <3>3 DEF LaneOrder
  <2>2. CASE m # l
    BY <1>1, <1>4, <2>2 DEF LaneOrder, Pending
  <2> QED
    BY <2>1, <2>2
<1>9. OkIsAccepted'
  BY <1>1 DEF OkIsAccepted, ItemLane
<1>10. StopOrder'
  BY <1>1, <1>4 DEF StopOrder, drainClosed
<1> QED
  BY <1>5, <1>6, <1>7, <1>8, <1>9, <1>10

(***************************************************************************)
(* Process returns: the item in hand is the next one in order.             *)
(***************************************************************************)
LEMMA RunOneKeeps ==
  ASSUME IInv, NEW l \in Lanes, RunOne(l)
  PROVE  IInv'
<1> USE DEF IInv
<1> DEFINE pc == IF lane[l].pc = "work" THEN "recv" ELSE "drain"
           item == lane[l].item
<1>1. /\ lane[l].pc \in {"work", "drainWork"}
      /\ processed' = [processed EXCEPT ![l] = Append(processed[l], item)]
      /\ lane' = [lane EXCEPT ![l] = [pc |-> pc, item |-> None]]
      /\ UNCHANGED <<stopped, coord, submit, cancelled, runCtx, queue, stop, accepted>>
  BY DEF RunOne
<1>2. item \in Callers /\ item # None
  BY <1>1 DEF HoldsItem, TypeOK
<1>3. Append(processed[l], item) \in Seq(Callers)
  BY <1>2, AppendProperties DEF Mapped
<1>4. /\ \A m \in Lanes : processed'[m] = IF m = l THEN Append(processed[l], item)
                                          ELSE processed[m]
      /\ \A m \in Lanes : lane'[m] = IF m = l THEN [pc |-> pc, item |-> None] ELSE lane[m]
  BY <1>1 DEF Mapped, TypeOK
<1>5. Mapped'
  BY <1>1, <1>3 DEF Mapped
<1>6. TypeOK'
  <2>1. lane' \in [Lanes -> [pc : {"recv", "work", "drain", "drainWork", "exited"},
                             item : Callers \cup {None}]]
    BY <1>1 DEF TypeOK
  <2> QED
    BY <1>1, <1>5, <2>1 DEF TypeOK, Mapped
<1>7. HoldsItem'
  BY <1>1, <1>4 DEF HoldsItem
<1>8. LaneOrder'
  <2> SUFFICES ASSUME NEW m \in Lanes PROVE accepted'[m] = processed'[m] \o Pending(m)'
    BY DEF LaneOrder
  <2>1. CASE m = l
    <3>1. Pending(l)' = <<>> \o queue[l] /\ processed'[l] = Append(processed[l], item)
      <4>1. lane'[l].item = None /\ queue'[l] = queue[l]
        BY <1>1, <1>4
      <4>2. processed'[l] = Append(processed[l], item)
        BY <1>4, Zenon
      <4> QED
        BY <4>1, <4>2, Zenon DEF Pending
    <3>2. Pending(l) = <<item>> \o queue[l]
      BY <1>2 DEF Pending
    <3>3. processed[l] \o (<<item>> \o queue[l]) = Append(processed[l], item) \o (<<>> \o queue[l])
      BY <1>2, MovesKeepOrder, Zenon
    <3>4. accepted[l] = processed[l] \o Pending(l) /\ accepted' = accepted
      BY <1>1 DEF LaneOrder
    <3> QED
      BY <2>1, <3>1, <3>2, <3>3, <3>4, Zenon
  <2>2. CASE m # l
    BY <1>1, <1>4, <2>2 DEF LaneOrder, Pending
  <2> QED
    BY <2>1, <2>2
<1>9. OkIsAccepted'
  BY <1>1 DEF OkIsAccepted, ItemLane
<1>10. StopOrder'
  BY <1>1, <1>4 DEF StopOrder, drainClosed
<1> QED
  BY <1>5, <1>6, <1>7, <1>8, <1>9, <1>10

(***************************************************************************)
(* A lane that sees drainCh, and a lane that leaves.                       *)
(***************************************************************************)
LEMMA LeaveKeeps ==
  ASSUME IInv, NEW l \in Lanes, SeeDrain(l) \/ Exit(l)
  PROVE  IInv'
<1> USE DEF IInv
<1>1. PICK pc \in {"drain", "exited"} :
         /\ lane' = [lane EXCEPT ![l].pc = pc]
         /\ lane[l].pc \in {"recv", "drain"}
         /\ pc = "drain" => drainClosed
         /\ runCtx /\ pc = "exited" => drainClosed /\ queue[l] = <<>>
  <2>1. CASE SeeDrain(l)
    BY <2>1 DEF SeeDrain
  <2>2. CASE Exit(l)
    BY <2>2 DEF Exit, StopOrder
  <2> QED
    BY <2>1, <2>2
<1>2. UNCHANGED <<stopped, coord, submit, cancelled, runCtx, queue, stop, accepted, processed>>
  BY DEF SeeDrain, Exit
<1>3. \A m \in Lanes : /\ lane'[m].item = lane[m].item
                       /\ lane'[m].pc = IF m = l THEN pc ELSE lane[m].pc
  BY <1>1 DEF TypeOK
<1>4. TypeOK' /\ Mapped'
  BY <1>1, <1>2 DEF TypeOK, Mapped
<1>5. HoldsItem'
  BY <1>1, <1>3 DEF HoldsItem
<1>6. LaneOrder' /\ OkIsAccepted'
  BY <1>2, <1>3 DEF LaneOrder, Pending, OkIsAccepted, ItemLane
<1>7. StopOrder'
  BY <1>1, <1>2, <1>3 DEF StopOrder, drainClosed
<1> QED
  BY <1>4, <1>5, <1>6, <1>7

(***************************************************************************)
(* Stop, its coordinator and the run context.                              *)
(***************************************************************************)
LEMMA StopKeeps ==
  ASSUME IInv,
         \/ CancelRun \/ CloseDrain \/ CloseStopDone
         \/ \E s \in Stoppers : CallStop(s) \/ StopReturns(s)
  PROVE  IInv'
<1> USE DEF IInv
<1>1. UNCHANGED <<submit, cancelled, queue, lane, accepted, processed>>
  BY DEF CancelRun, CloseDrain, CloseStopDone, CallStop, StopReturns
<1>2. Mapped' /\ HoldsItem' /\ LaneOrder' /\ OkIsAccepted'
  BY <1>1 DEF Mapped, HoldsItem, LaneOrder, Pending, OkIsAccepted, ItemLane
<1>3. CASE CancelRun
  BY <1>1, <1>2, <1>3 DEF CancelRun, TypeOK, StopOrder, drainClosed
<1>4. CASE CloseDrain
  BY <1>1, <1>2, <1>4 DEF CloseDrain, TypeOK, StopOrder, drainClosed
<1>5. CASE CloseStopDone
  BY <1>1, <1>2, <1>5 DEF CloseStopDone, TypeOK, StopOrder, drainClosed
<1>6. ASSUME NEW s \in Stoppers, CallStop(s) PROVE IInv'
  BY <1>1, <1>2, <1>6 DEF CallStop, TypeOK, StopOrder, drainClosed
<1>7. ASSUME NEW s \in Stoppers, StopReturns(s) PROVE IInv'
  BY <1>1, <1>2, <1>7 DEF StopReturns, TypeOK, StopOrder, drainClosed, stopDone
<1> QED
  BY <1>3, <1>4, <1>5, <1>6, <1>7

LEMMA NextKeeps == IInv /\ [Next]_vars => IInv'
<1> SUFFICES ASSUME IInv, [Next]_vars PROVE IInv'
  OBVIOUS
<1>1. CASE UNCHANGED vars
  BY <1>1 DEF vars, IInv, TypeOK, Mapped, HoldsItem, LaneOrder, Pending, OkIsAccepted,
              ItemLane, StopOrder, drainClosed
<1>2. CASE Next
  BY <1>2, CallerKeeps, SendKeeps, ReceiveKeeps, RunOneKeeps, LeaveKeeps, StopKeeps
     DEF Next, LaneStep, Coordinate
<1> QED
  BY <1>1, <1>2

-----------------------------------------------------------------------------
(***************************************************************************)
(* The inductive invariant holds in every reachable state.                 *)
(***************************************************************************)
THEOREM PoolInvariant == Spec => []IInv
<1> QED
  BY InitIInv, NextKeeps, PTL DEF Spec

(***************************************************************************)
(* Every accepted item is processed once and in the order of its lane.     *)
(***************************************************************************)
THEOREM LanesKeepOrder == Spec => []LaneOrder
<1>1. IInv => LaneOrder
  BY DEF IInv
<1> QED
  BY PoolInvariant, <1>1, PTL

(***************************************************************************)
(* With a live run context a lane that left has left nothing behind.       *)
(***************************************************************************)
THEOREM NothingIsStranded == Spec => []NothingStranded
<1>1. IInv => NothingStranded
  BY DEF IInv, StopOrder, NothingStranded
<1> QED
  BY PoolInvariant, <1>1, PTL

(***************************************************************************)
(* A Stop that returned nil under a live run context has processed every   *)
(* accepted item: all lanes have left, so they owe nothing, and what they  *)
(* processed is what they accepted.                                        *)
(***************************************************************************)
THEOREM StopDrains == Spec => []StopMeansDrained
<1>1. IInv => StopMeansDrained
  <2> SUFFICES ASSUME IInv, runCtx, NEW s \in Stoppers, stop[s] = "nil", NEW c \in Callers
               PROVE  /\ submit[c] = "ok" =>
                           \E i \in DOMAIN processed[ItemLane(c)] : processed[ItemLane(c)][i] = c
                      /\ submit[c] # "sending"
    BY DEF StopMeansDrained
  <2>1. ItemLane(c) \in Lanes
    BY PoolAssumption DEF ItemLane
  <2>2. coord = "done" /\ submit[c] # "sending"
    BY DEF IInv, StopOrder, drainClosed
  <2>3. lane[ItemLane(c)].pc = "exited" /\ queue[ItemLane(c)] = <<>>
    BY <2>1, <2>2 DEF IInv, StopOrder
  <2>4. lane[ItemLane(c)].item = None
    BY <2>1, <2>3 DEF IInv, HoldsItem
  <2>5. Pending(ItemLane(c)) = <<>> \o <<>>
    BY <2>3, <2>4 DEF Pending
  <2>6. accepted[ItemLane(c)] = processed[ItemLane(c)]
    BY <2>1, <2>5, ConcatEmptySeq, EmptySeq DEF IInv, LaneOrder, Mapped
  <2> QED
    BY <2>2, <2>6 DEF IInv, OkIsAccepted
<1> QED
  BY PoolInvariant, <1>1, PTL
=============================================================================
