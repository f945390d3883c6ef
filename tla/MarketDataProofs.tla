--------------------------- MODULE MarketDataProofs ---------------------------
(***************************************************************************)
(* Proofs about RingBuffer, for every capacity and every set of elements,  *)
(* and about the market data session that uses it.                         *)
(*                                                                         *)
(* That the two threads of a ring keep out of each other's slot is not     *)
(* inductive: each of them has found out something about the other's index *)
(* when it entered (Admitted), and that stays true while the other moves   *)
(* on.  That the ring is a FIFO needs more: what lies between the two      *)
(* indices is what was pushed, and stays there until it is popped          *)
(* (Contents).                                                             *)
(*                                                                         *)
(* The market data session uses its tick ring as RingBuffer says: the SPI  *)
(* thread pushes and the worker pops, one step at a time, whatever happens *)
(* to the connection, the subscriptions and the gateway.  So what the      *)
(* first part shows of a ring holds of the tick ring.                      *)
(***************************************************************************)
EXTENDS MarketData, SequenceTheorems, TLAPS

\* What the thread that is inside knows: a push, that there is a free slot
\* after the one it fills; a pop, that the ring is not empty.
Admitted ==
    /\ producer # "idle" => After(write_pos) # read_pos
    /\ consumer # "idle" => read_pos # write_pos

RingInv == TypeOK /\ Admitted

\* The step around the ring stays in the ring and takes no two indices to one.
LEMMA AfterFacts ==
    /\ \A i \in Index : After(i) \in Index /\ After(i) # i
    /\ \A i, j \in Index : After(i) = After(j) => i = j
BY CapacityAssumption DEF Index, After

\* The invariant holds in every reachable state.
THEOREM RingInvariant == Spec => []RingInv
<1>1. Init => RingInv
  <2> SUFFICES ASSUME Init PROVE RingInv
    OBVIOUS
  <2>1. write_pos \in Index /\ read_pos \in Index
    BY CapacityAssumption DEF Init, Index
  <2>2. buffer \in [Index -> Values \cup {None}] /\ alive \in [Index -> BOOLEAN]
    BY DEF Init
  <2> QED BY <2>1, <2>2 DEF Init, RingInv, TypeOK, Admitted
<1>2. RingInv /\ [Next]_vars => RingInv'
  <2> SUFFICES ASSUME RingInv, [Next]_vars PROVE RingInv'
    OBVIOUS
  <2> USE DEF RingInv, TypeOK, Admitted
  <2>1. CASE PushFull
    BY <2>1 DEF PushFull, popVars
  <2>2. ASSUME NEW v \in Values, PushStart(v) PROVE RingInv'
    BY <2>2 DEF PushStart, popVars
  <2>3. CASE PushConstruct
    BY <2>3 DEF PushConstruct, popVars
  <2>4. CASE PushPublish
    BY <2>4, AfterFacts DEF PushPublish, popVars
  <2>5. CASE PopStart
    BY <2>5 DEF PopStart, HasElement, pushVars
  <2>6. CASE PopMove
    BY <2>6 DEF PopMove, pushVars
  <2>7. CASE PopDestroy
    BY <2>7 DEF PopDestroy, pushVars
  <2>8. CASE PopRelease
    BY <2>8, AfterFacts DEF PopRelease, pushVars
  <2>9. CASE UNCHANGED vars
    BY <2>9 DEF vars, pushVars, popVars
  <2> QED BY <2>1, <2>2, <2>3, <2>4, <2>5, <2>6, <2>7, <2>8, <2>9
          DEF Next, Push, Pop
<1> QED BY <1>1, <1>2, PTL DEF Spec

\* Indices stay in the ring and slots hold elements.
THEOREM RingTypes == Spec => []TypeOK
<1>1. RingInv => TypeOK
  BY DEF RingInv
<1> QED BY <1>1, RingInvariant, PTL

\* A push and a pop never work on the same slot, whatever the capacity and
\* however long either of them is held up between its load and its store.
THEOREM ThreadsApart == Spec => []SlotsApart
<1>1. RingInv => SlotsApart
  BY DEF RingInv, Admitted, SlotsApart
<1> QED BY <1>1, RingInvariant, PTL

----------------------------------------------------------------------------
(* Objects and elements.                                                   *)

\* The slots from read_pos to write_pos, without counting.
InRing(i) ==
    IF read_pos <= write_pos THEN read_pos <= i /\ i < write_pos
    ELSE read_pos <= i \/ i < write_pos

\* A push has written its element before it publishes it, a pop has read the
\* oldest one before it gives it back.
Contents ==
    /\ producer # "idle" => item \in Values
    /\ producer = "publish" => buffer[write_pos] = item
    /\ consumer \in {"destroy", "release"} => out = buffer[read_pos]

AliveInRing ==
    \A i \in Index :
        alive[i] <=>
            \/ InRing(i) /\ ~(consumer = "release" /\ i = read_pos)
            \/ producer = "publish" /\ i = write_pos

RingDetail == RingInv /\ Contents /\ AliveInRing

\* Counting the slots from the oldest finds the same ones.
LEMMA SlotsCounted ==
    ASSUME write_pos \in Index, read_pos \in Index
    PROVE  /\ Count \in 0 .. Capacity - 1
           /\ \A k \in 1 .. Count : SlotOf(k) \in Index /\ InRing(SlotOf(k))
           /\ \A i \in Index : InRing(i) => \E k \in 1 .. Count : i = SlotOf(k)
<1> USE CapacityAssumption DEF Index, Count, SlotOf, InRing
<1>1. Count \in 0 .. Capacity - 1
  OBVIOUS
<1>2. \A k \in 1 .. Count : SlotOf(k) \in Index /\ InRing(SlotOf(k))
  OBVIOUS
<1>3. ASSUME NEW i \in Index, InRing(i)
      PROVE  \E k \in 1 .. Count : i = SlotOf(k)
  <2> DEFINE k == IF read_pos <= i THEN i - read_pos + 1
                  ELSE i - read_pos + 1 + Capacity
  <2>1. k \in 1 .. Count /\ i = SlotOf(k)
    BY <1>3
  <2> QED BY <2>1
<1> QED BY <1>1, <1>2, <1>3

\* The invariant of the slots holds in every reachable state.
THEOREM RingDetailHolds == Spec => []RingDetail
<1>1. Init => Contents /\ AliveInRing
  BY CapacityAssumption DEF Init, Contents, AliveInRing, InRing, Index
<1>2. ASSUME RingDetail, RingInv', [Next]_vars
      PROVE  Contents' /\ AliveInRing'
  <2> USE <1>2 DEF RingDetail, RingInv, TypeOK, Admitted, Contents
  <2>1. CASE PushFull
    BY <2>1 DEF PushFull, popVars, AliveInRing, InRing
  <2>2. ASSUME NEW v \in Values, PushStart(v) PROVE Contents' /\ AliveInRing'
    BY <2>2 DEF PushStart, popVars, AliveInRing, InRing
  <2>3. CASE PushConstruct
    BY <2>3 DEF PushConstruct, popVars, AliveInRing, InRing
  <2>4. CASE PushPublish
    <3>1. Contents'
      BY <2>4 DEF PushPublish, popVars
    <3>2. \A i \in Index : InRing(i)' <=> InRing(i) \/ i = write_pos
      BY <2>4, CapacityAssumption DEF PushPublish, popVars, InRing, Index, After
    <3>3. write_pos # read_pos \/ consumer # "release"
      BY <2>4
    <3> QED BY <2>4, <3>1, <3>2, <3>3 DEF PushPublish, popVars, AliveInRing
  <2>5. CASE PopStart
    BY <2>5 DEF PopStart, pushVars, AliveInRing, InRing
  <2>6. CASE PopMove
    BY <2>6 DEF PopMove, pushVars, AliveInRing, InRing
  <2>7. CASE PopDestroy
    BY <2>7 DEF PopDestroy, pushVars, AliveInRing, InRing
  <2>8. CASE PopRelease
    <3>1. Contents'
      BY <2>8 DEF PopRelease, pushVars
    <3>2. \A i \in Index : InRing(i)' <=> InRing(i) /\ i # read_pos
      BY <2>8, CapacityAssumption DEF PopRelease, pushVars, InRing, Index, After
    <3> QED BY <2>8, <3>1, <3>2 DEF PopRelease, pushVars, AliveInRing
  <2>9. CASE UNCHANGED vars
    BY <2>9 DEF vars, pushVars, popVars, AliveInRing, InRing
  <2> QED BY <2>1, <2>2, <2>3, <2>4, <2>5, <2>6, <2>7, <2>8, <2>9
          DEF Next, Push, Pop
<1>3. RingDetail /\ RingInv' /\ [Next]_vars => RingDetail'
  BY <1>2 DEF RingDetail
<1>4. RingDetail <=> RingInv /\ Contents /\ AliveInRing
  BY DEF RingDetail
<1> QED BY <1>1, <1>3, <1>4, RingInvariant, PTL DEF Spec

\* Exactly the published elements are alive: no push constructs over one and no
\* pop reads or destroys a dead one, whatever the capacity.
THEOREM ObjectsAlive == Spec => []AliveExactly
<1>1. ASSUME RingDetail PROVE AliveExactly
  <2>1. write_pos \in Index /\ read_pos \in Index
    BY <1>1 DEF RingDetail, RingInv, TypeOK
  <2>2. \A i \in Index : InRing(i) <=> \E k \in 1 .. Count : i = SlotOf(k)
    BY <2>1, SlotsCounted
  <2> QED BY <1>1, <2>2 DEF RingDetail, AliveInRing, AliveExactly
<1> QED BY <1>1, RingDetailHolds, PTL

----------------------------------------------------------------------------
(* The queue.                                                              *)

Elements == Values \cup {None}

\* A function on 1 .. n is a sequence of length n.
LEMMA IsSequence ==
    ASSUME NEW n \in Nat, NEW S, NEW f \in [1 .. n -> S]
    PROVE  f \in Seq(S) /\ Len(f) = n
<1>1. f \in Seq(S)
  BY SeqDef
<1> QED BY <1>1, LenProperties

\* What the ring holds is a sequence of Count elements.
LEMMA PendingSequence ==
    ASSUME TypeOK
    PROVE  /\ Count \in Nat
           /\ Pending \in Seq(Elements) /\ Len(Pending) = Count
           /\ \A k \in 1 .. Count : Pending[k] = buffer[SlotOf(k)]
<1>1. write_pos \in Index /\ read_pos \in Index
  BY DEF TypeOK
<1>2. Count \in 0 .. Capacity - 1 /\ \A k \in 1 .. Count : SlotOf(k) \in Index
  BY <1>1, SlotsCounted
<1>3. Count \in Nat
  BY <1>2, CapacityAssumption
<1>4. Pending \in [1 .. Count -> Elements]
  BY <1>2 DEF Pending, TypeOK, Elements
<1>5. Pending \in Seq(Elements) /\ Len(Pending) = Count
  BY <1>3, <1>4, IsSequence
<1> QED BY <1>3, <1>5 DEF Pending

\* While neither index moves, a push writes only outside the queue.
LEMMA QueueStays ==
    ASSUME TypeOK, TypeOK', write_pos' = write_pos, read_pos' = read_pos,
           \A i \in Index : InRing(i) => buffer'[i] = buffer[i]
    PROVE  Pending' = Pending
<1>1. write_pos \in Index /\ read_pos \in Index
  BY DEF TypeOK
<1>2. Count' = Count /\ \A k \in 1 .. Count : SlotOf(k)' = SlotOf(k)
  BY DEF Count, SlotOf
<1>3. \A k \in 1 .. Count : buffer'[SlotOf(k)] = buffer[SlotOf(k)]
  BY <1>1, SlotsCounted
<1> QED BY <1>2, <1>3 DEF Pending

\* A push that publishes appends its element.
LEMMA QueueGrows ==
    ASSUME RingDetail, TypeOK', PushPublish
    PROVE  Count < Capacity - 1 /\ Pending' = Append(Pending, item)
<1> USE DEF RingDetail, RingInv
<1>0. write_pos \in Index /\ read_pos \in Index /\ After(write_pos) # read_pos
      /\ write_pos' = After(write_pos) /\ read_pos' = read_pos /\ buffer' = buffer
      /\ item \in Values /\ buffer[write_pos] = item
  BY DEF PushPublish, TypeOK, Admitted, Contents, popVars
<1>1. /\ Count < Capacity - 1 /\ Count' = Count + 1
      /\ \A k \in 1 .. Count + 1 : SlotOf(k)' = IF k = Count + 1 THEN write_pos
                                                ELSE SlotOf(k)
  BY <1>0, CapacityAssumption DEF Count, SlotOf, After, Index
<1>2. /\ Count \in Nat
      /\ Pending \in Seq(Elements) /\ Len(Pending) = Count
      /\ \A k \in 1 .. Count : Pending[k] = buffer[SlotOf(k)]
      /\ \A k \in 1 .. Count : SlotOf(k) \in Index
  BY <1>0, PendingSequence, SlotsCounted
<1>3. /\ Pending' \in Seq(Elements) /\ Len(Pending') = Count'
      /\ \A k \in 1 .. Count' : Pending'[k] = buffer[SlotOf(k)']
  <2>1. Count' \in Nat /\ \A k \in 1 .. Count' : SlotOf(k)' \in Index
    BY <1>0, <1>1, <1>2
  <2>2. Pending' \in [1 .. Count' -> Elements]
    BY <1>0, <2>1 DEF Pending, TypeOK, Elements
  <2>3. Pending' \in Seq(Elements) /\ Len(Pending') = Count'
    BY <2>1, <2>2, IsSequence
  <2> QED BY <1>0, <2>3 DEF Pending
<1>4. /\ Append(Pending, item) \in Seq(Elements)
      /\ Len(Append(Pending, item)) = Count + 1
      /\ \A k \in 1 .. Count + 1 : Append(Pending, item)[k] =
              IF k = Count + 1 THEN item ELSE Pending[k]
  BY <1>0, <1>2, AppendProperties DEF Elements
<1>5. \A k \in 1 .. Count + 1 : Pending'[k] = Append(Pending, item)[k]
  BY <1>0, <1>1, <1>2, <1>3, <1>4
<1>6. Pending' = Append(Pending, item)
  BY <1>1, <1>3, <1>4, <1>5, SeqEqual
<1> QED BY <1>1, <1>6

\* A pop that releases its slot takes the oldest element.
LEMMA QueueShrinks ==
    ASSUME RingDetail, TypeOK', PopRelease
    PROVE  Pending # <<>> /\ out = Head(Pending) /\ Pending' = Tail(Pending)
<1> USE DEF RingDetail, RingInv
<1>0. write_pos \in Index /\ read_pos \in Index /\ read_pos # write_pos
      /\ read_pos' = After(read_pos) /\ write_pos' = write_pos /\ buffer' = buffer
      /\ out = buffer[read_pos]
  BY DEF PopRelease, TypeOK, Admitted, Contents, pushVars
<1>1. /\ Count >= 1 /\ Count' = Count - 1
      /\ SlotOf(1) = read_pos
      /\ \A k \in 1 .. Count - 1 : SlotOf(k)' = SlotOf(k + 1)
  BY <1>0, CapacityAssumption DEF Count, SlotOf, After, Index
<1>2. /\ Count \in Nat
      /\ Pending \in Seq(Elements) /\ Len(Pending) = Count
      /\ \A k \in 1 .. Count : Pending[k] = buffer[SlotOf(k)]
      /\ \A k \in 1 .. Count : SlotOf(k) \in Index
  BY <1>0, PendingSequence, SlotsCounted
<1>3. /\ Pending' \in Seq(Elements) /\ Len(Pending') = Count'
      /\ \A k \in 1 .. Count' : Pending'[k] = buffer[SlotOf(k)']
  <2>1. Count' \in Nat /\ \A k \in 1 .. Count' : SlotOf(k)' \in Index
    BY <1>0, <1>1, <1>2
  <2>2. Pending' \in [1 .. Count' -> Elements]
    BY <1>0, <2>1 DEF Pending, TypeOK, Elements
  <2>3. Pending' \in Seq(Elements) /\ Len(Pending') = Count'
    BY <2>1, <2>2, IsSequence
  <2> QED BY <1>0, <2>3 DEF Pending
<1>4. Pending # <<>>
  BY <1>1, <1>2, EmptySeq
<1>5. Head(Pending) = Pending[1]
  BY <1>2, <1>4
<1>6. /\ Tail(Pending) \in Seq(Elements)
      /\ Len(Tail(Pending)) = Count - 1
      /\ \A k \in 1 .. Count - 1 : Tail(Pending)[k] = Pending[k + 1]
  BY <1>2, <1>4, HeadTailProperties
<1>7. \A k \in 1 .. Count - 1 : Pending'[k] = Tail(Pending)[k]
  BY <1>0, <1>1, <1>2, <1>3, <1>6
<1>8. Pending' = Tail(Pending)
  BY <1>1, <1>3, <1>6, <1>7, SeqEqual
<1> QED BY <1>0, <1>1, <1>2, <1>4, <1>5, <1>8

\* A full ring holds Capacity - 1 elements.
LEMMA FullCount ==
    ASSUME write_pos \in Index, read_pos \in Index, After(write_pos) = read_pos
    PROVE  Count = Capacity - 1
BY CapacityAssumption DEF Count, After, Index

\* The ring implements the bounded queue: whatever the capacity and wherever
\* either thread is held up, its elements come out once each and in order, and
\* a push is refused only when Capacity - 1 of them are inside.
THEOREM RingImplementsFifo == Spec => ImplementsFifo
<1>1. Init => Fifo!Init
  <2> SUFFICES ASSUME Init PROVE Fifo!Init
    OBVIOUS
  <2>1. Count = 0
    BY DEF Init, Count
  <2>2. Pending = <<>>
    BY <2>1 DEF Pending
  <2> QED BY <2>2 DEF Init, Fifo!Init
<1>2. RingDetail /\ RingDetail' /\ [Next]_vars
          => [Fifo!Next]_<<Pending, full, popped>>
  <2> SUFFICES ASSUME RingDetail, RingDetail', [Next]_vars
               PROVE  [Fifo!Next]_<<Pending, full, popped>>
    OBVIOUS
  <2>0. TypeOK /\ TypeOK' /\ Len(Pending) = Count
    BY PendingSequence DEF RingDetail, RingInv
  <2>1. CASE PushFull
    <3>1. Count = Capacity - 1
      BY <2>0, <2>1, FullCount DEF PushFull, TypeOK
    <3>2. Pending' = Pending
      BY <2>0, <2>1, QueueStays DEF PushFull, popVars
    <3> QED BY <2>0, <2>1, <3>1, <3>2 DEF PushFull, popVars, Fifo!Next, Fifo!Refuse
  <2>2. ASSUME NEW v \in Values, PushStart(v)
        PROVE  UNCHANGED <<Pending, full, popped>>
    BY <2>0, <2>2, QueueStays DEF PushStart, popVars
  <2>3. CASE PushConstruct
    <3>1. \A i \in Index : InRing(i) => buffer'[i] = buffer[i]
      BY <2>0, <2>3 DEF PushConstruct, TypeOK, InRing, Index
    <3>2. Pending' = Pending
      BY <2>0, <2>3, <3>1, QueueStays DEF PushConstruct, popVars
    <3> QED BY <2>3, <3>2 DEF PushConstruct, popVars
  <2>4. CASE PushPublish
    <3>1. Count < Capacity - 1 /\ Pending' = Append(Pending, item)
      BY <2>0, <2>4, QueueGrows
    <3>2. item \in Values
      BY <2>4 DEF PushPublish, RingDetail, Contents
    <3>3. Fifo!Push(item)
      BY <2>0, <2>4, <3>1 DEF PushPublish, popVars, Fifo!Push
    <3> QED BY <3>2, <3>3 DEF Fifo!Next
  <2>5. CASE PopStart
    BY <2>0, <2>5, QueueStays DEF PopStart, pushVars
  <2>6. CASE PopMove
    BY <2>0, <2>6, QueueStays DEF PopMove, pushVars
  <2>7. CASE PopDestroy
    BY <2>0, <2>7, QueueStays DEF PopDestroy, pushVars
  <2>8. CASE PopRelease
    <3>1. Pending # <<>> /\ out = Head(Pending) /\ Pending' = Tail(Pending)
      BY <2>0, <2>8, QueueShrinks
    <3> QED BY <2>8, <3>1 DEF PopRelease, pushVars, Fifo!Next, Fifo!Pop
  <2>9. CASE UNCHANGED vars
    BY <2>0, <2>9, QueueStays DEF vars, pushVars, popVars
  <2> QED BY <2>1, <2>2, <2>3, <2>4, <2>5, <2>6, <2>7, <2>8, <2>9
          DEF Next, Push, Pop
<1> QED BY <1>1, <1>2, RingDetailHolds, PTL DEF Spec, ImplementsFifo, Fifo!Spec

----------------------------------------------------------------------------
(* The market data session.                                                *)

\* Every pass of the worker is a pop or leaves the ring alone.
LEMMA WorkerRing == mdWorkerLoop => [Next]_vars
<1> SUFFICES ASSUME mdWorkerLoop PROVE [Next]_vars
  OBVIOUS
<1>1. CASE LoopHead
  BY <1>1 DEF LoopHead, ringVars
<1>2. CASE ReqUserLogin
  BY <1>2 DEF ReqUserLogin, ringVars
<1>3. CASE TakeLogin
  BY <1>3 DEF TakeLogin, ringVars
<1>4. CASE Subscribe
  BY <1>4 DEF Subscribe, ringVars
<1>5. CASE PopTick
  BY <1>5 DEF PopTick, Next
<1>6. CASE Drained
  BY <1>6 DEF Drained, ringVars
<1> QED BY <1>1, <1>2, <1>3, <1>4, <1>5, <1>6 DEF mdWorkerLoop

\* The front sends ticks only of instruments there are.
Subscriptions == subscribed \subseteq Values

\* Subscriptions stay among the instruments.
LEMMA SubscriptionsKept == Subscriptions /\ [MdNext]_mdVars => Subscriptions'
<1> SUFFICES ASSUME Subscriptions, [MdNext]_mdVars PROVE Subscriptions'
  OBVIOUS
<1> USE DEF Subscriptions
<1>1. CASE start \/ stop \/ Release \/ Join
  BY <1>1 DEF start, stop, Release, Join, sessionVars
<1>2. CASE OnFrontConnected \/ OnFrontDisconnected \/ OnRspUserLogin
  BY <1>2 DEF OnFrontConnected, OnFrontDisconnected, OnRspUserLogin
<1>3. CASE OnRtnDepthMarketData \/ FinishPush
  BY <1>3 DEF OnRtnDepthMarketData, FinishPush, sessionVars
<1>4. ASSUME NEW v \in Values, subscribe(v) \/ unsubscribe(v)
      PROVE  Subscriptions'
  BY <1>4 DEF subscribe, unsubscribe, Subscribed
<1>5. CASE mdWorkerLoop
  BY <1>5, SubscribeAssumption
     DEF mdWorkerLoop, LoopHead, ReqUserLogin, TakeLogin, Subscribe, PopTick,
         Drained, Subscribed, sessionVars
<1>6. CASE UNCHANGED mdVars
  BY <1>6 DEF mdVars, sessionVars
<1> QED BY <1>1, <1>2, <1>3, <1>4, <1>5, <1>6 DEF MdNext

\* Every step of the session is a step of the ring or leaves it alone.
LEMMA MarketDataStep == Subscriptions /\ [MdNext]_mdVars => [Next]_vars
<1> SUFFICES ASSUME Subscriptions, [MdNext]_mdVars PROVE [Next]_vars
  OBVIOUS
<1>1. CASE start \/ stop \/ Release \/ Join
  BY <1>1 DEF start, stop, Release, Join, ringVars
<1>2. CASE OnFrontConnected \/ OnFrontDisconnected \/ OnRspUserLogin
  BY <1>2 DEF OnFrontConnected, OnFrontDisconnected, OnRspUserLogin, ringVars
<1>3. CASE OnRtnDepthMarketData
  BY <1>3 DEF OnRtnDepthMarketData, Subscriptions, Next, Push
<1>4. CASE FinishPush
  BY <1>4 DEF FinishPush, Next, Push
<1>5. ASSUME NEW v \in Values, subscribe(v) \/ unsubscribe(v) PROVE [Next]_vars
  BY <1>5 DEF subscribe, unsubscribe, ringVars
<1>6. CASE UNCHANGED mdVars
  BY <1>6 DEF mdVars, ringVars
<1> QED BY <1>1, <1>2, <1>3, <1>4, <1>5, <1>6, WorkerRing DEF MdNext

\* The market data session works on its ring only by the steps of tryPush and
\* tryPop, one thread at each end.
THEOREM MarketDataImplementsRing == MdSpec => Spec
<1>1. MdInit => Init /\ Subscriptions
  BY DEF MdInit, Subscriptions
<1> QED BY <1>1, SubscriptionsKept, MarketDataStep, PTL DEF MdSpec, Spec

\* In the session the callback and the worker never work on the same slot, for
\* every capacity of the ring and through every reconnect and stop.
THEOREM TickSlotsApart == MdSpec => []SlotsApart
BY MarketDataImplementsRing, ThreadsApart, PTL

\* No tick is constructed over a live one or read after it was destroyed.
THEOREM TicksAlive == MdSpec => []AliveExactly
BY MarketDataImplementsRing, ObjectsAlive, PTL

\* Ticks reach processTick once each and in the order they were pushed, and one
\* is dropped only when Capacity - 1 of them wait.
THEOREM TicksInOrder == MdSpec => ImplementsFifo
BY MarketDataImplementsRing, RingImplementsFifo, PTL

----------------------------------------------------------------------------
(* The session's own state.                                                *)

\* The part of the types that is the session's own.
SessionTypes ==
    /\ link \in {"down", "up", "logged"} /\ requests \in Nat
    /\ subscribed \subseteq Values
    /\ link # "logged" => subscribed = {}
    /\ flag \in [front_connected : BOOLEAN, login_success : BOOLEAN]
    /\ running \in BOOLEAN /\ api \in BOOLEAN
    /\ at \in {"none", "head", "log_in", "login", "subscribe", "drain", "done"}
    /\ main \in {"new", "running", "stopping", "released", "stopped"}
    /\ connects \in 0 .. MaxConnects /\ calls \in 0 .. MaxCalls
    /\ crashed \in BOOLEAN

\* Each connection is worth one login request: its flag is set, the worker is
\* about to ask, or it has asked.
LoginsFollow ==
    /\ requests <= connects
    /\ flag.front_connected => requests + 1 <= connects
    /\ at = "log_in" => requests + 1 <= connects
    /\ flag.front_connected /\ at = "log_in" => requests + 2 <= connects

MdInv == SessionTypes /\ LoginsFollow

\* Every step keeps the session's types.
LEMMA SessionTypesKept == SessionTypes /\ [MdNext]_mdVars => SessionTypes'
<1> SUFFICES ASSUME SessionTypes, [MdNext]_mdVars PROVE SessionTypes'
  OBVIOUS
<1>0. MaxConnects \in Nat /\ MaxCalls \in Nat /\ SubscribeList \subseteq Values
  BY SubscribeAssumption
<1> USE DEF SessionTypes
<1>1. CASE start \/ stop \/ Join
  BY <1>1 DEF start, stop, Join, sessionVars
<1>2. CASE Release
  BY <1>2 DEF Release
<1>3. CASE OnFrontConnected
  <2>1. connects' \in 0 .. MaxConnects
    BY <1>0, <1>3 DEF OnFrontConnected
  <2> QED BY <2>1, <1>3 DEF OnFrontConnected, threadVars
<1>4. CASE OnFrontDisconnected
  BY <1>4 DEF OnFrontDisconnected, threadVars
<1>5. CASE OnRspUserLogin
  <2>1. requests' \in Nat
    BY <1>5 DEF OnRspUserLogin
  <2>2. flag' \in [front_connected : BOOLEAN, login_success : BOOLEAN]
    BY <1>5 DEF OnRspUserLogin
  <2> QED BY <2>1, <2>2, <1>5 DEF OnRspUserLogin, threadVars
<1>6. CASE OnRtnDepthMarketData \/ FinishPush \/ PopTick
  BY <1>6 DEF OnRtnDepthMarketData, FinishPush, PopTick, sessionVars, threadVars
<1>7. ASSUME NEW v \in Values, subscribe(v) \/ unsubscribe(v)
      PROVE  SessionTypes'
  <2>1. calls' \in 0 .. MaxCalls
    BY <1>0, <1>7 DEF subscribe, unsubscribe
  <2> QED BY <2>1, <1>7 DEF subscribe, unsubscribe, Subscribed
<1>8. CASE LoopHead
  BY <1>8 DEF LoopHead, Goes
<1>9. CASE ReqUserLogin
  <2>1. requests' \in Nat
    BY <1>9 DEF ReqUserLogin
  <2> QED BY <2>1, <1>9 DEF ReqUserLogin
<1>10. CASE TakeLogin
  BY <1>10 DEF TakeLogin, Goes
<1>11. CASE Subscribe
  BY <1>0, <1>11 DEF Subscribe, Subscribed, Goes
<1>12. CASE Drained
  BY <1>12 DEF Drained, Goes, sessionVars
<1>13. CASE UNCHANGED mdVars
  BY <1>13 DEF mdVars, sessionVars, threadVars
<1> QED BY <1>1, <1>2, <1>3, <1>4, <1>5, <1>6, <1>7, <1>8, <1>9, <1>10, <1>11,
           <1>12, <1>13 DEF MdNext, mdWorkerLoop

\* Every step asks for at most one login per connection.
LEMMA LoginsKept == MdInv /\ [MdNext]_mdVars => LoginsFollow'
<1> SUFFICES ASSUME MdInv, [MdNext]_mdVars PROVE LoginsFollow'
  OBVIOUS
<1>0. /\ requests \in Nat /\ connects \in Nat /\ running \in BOOLEAN
      /\ flag \in [front_connected : BOOLEAN, login_success : BOOLEAN]
  BY SubscribeAssumption DEF MdInv, SessionTypes
<1>a. LoginsFollow
  BY DEF MdInv
<1>1. CASE start
  BY <1>0, <1>a, <1>1 DEF LoginsFollow, start, sessionVars
<1>2. CASE stop \/ Join
  BY <1>0, <1>a, <1>2 DEF LoginsFollow, stop, Join, sessionVars
<1>3. CASE Release
  BY <1>0, <1>a, <1>3 DEF LoginsFollow, Release
<1>4. CASE OnFrontConnected
  <2>1. /\ requests' = requests /\ connects' = connects + 1 /\ at' = at
        /\ flag'.front_connected
    BY <1>0, <1>4 DEF OnFrontConnected, threadVars
  <2> QED BY <2>1, <1>0, <1>a DEF LoginsFollow
<1>5. CASE OnFrontDisconnected
  <2>1. /\ requests' = 0 /\ connects' = connects /\ at' = at
        /\ ~flag'.front_connected
    BY <1>0, <1>5 DEF OnFrontDisconnected, threadVars
  <2> QED BY <2>1, <1>0, <1>a DEF LoginsFollow
<1>6. CASE OnRspUserLogin
  <2>1. /\ requests > 0 /\ requests' = requests - 1
        /\ connects' = connects /\ at' = at
    BY <1>6 DEF OnRspUserLogin, threadVars
  <2>2. flag'.front_connected = flag.front_connected
    BY <1>0, <1>6 DEF OnRspUserLogin
  <2> QED BY <2>1, <2>2, <1>0, <1>a DEF LoginsFollow
<1>7. CASE UNCHANGED <<requests, connects, flag, at>>
  BY <1>7, <1>a DEF LoginsFollow
<1>8. CASE LoopHead
  <2>1. /\ requests' = requests /\ connects' = connects /\ at = "head"
        /\ at' = IF ~running THEN "done"
                 ELSE IF flag.front_connected THEN "log_in" ELSE "login"
    BY <1>8 DEF LoopHead, Goes
  <2>2. flag'.front_connected = (flag.front_connected /\ ~running)
    BY <1>0, <1>8 DEF LoopHead
  <2> QED BY <2>1, <2>2, <1>0, <1>a DEF LoginsFollow
<1>9. CASE ReqUserLogin
  <2>1. /\ connects' = connects /\ flag' = flag /\ at = "log_in"
        /\ \/ at' = "login" /\ (requests' = requests \/ requests' = requests + 1)
           \/ at' = at /\ requests' = requests
    BY <1>9 DEF ReqUserLogin
  <2> QED BY <2>1, <1>0, <1>a DEF LoginsFollow
<1>10. CASE TakeLogin
  <2>1. /\ requests' = requests /\ connects' = connects /\ at = "login"
        /\ at' \in {"subscribe", "drain"}
    BY <1>10 DEF TakeLogin, Goes
  <2>2. flag'.front_connected = flag.front_connected
    BY <1>0, <1>10 DEF TakeLogin
  <2> QED BY <2>1, <2>2, <1>a DEF LoginsFollow
<1>11. CASE Subscribe \/ Drained
  <2>1. /\ requests' = requests /\ connects' = connects /\ flag' = flag
        /\ at' \in {"drain", "head"}
    BY <1>11 DEF Subscribe, Drained, Goes, sessionVars
  <2> QED BY <2>1, <1>a DEF LoginsFollow
<1>12. ASSUME \/ OnRtnDepthMarketData \/ FinishPush \/ PopTick
              \/ \E v \in Values : subscribe(v) \/ unsubscribe(v)
              \/ UNCHANGED mdVars
       PROVE  UNCHANGED <<requests, connects, flag, at>>
  BY <1>12 DEF OnRtnDepthMarketData, FinishPush, PopTick, subscribe, unsubscribe,
               mdVars, sessionVars, threadVars
<1> QED BY <1>1, <1>2, <1>3, <1>4, <1>5, <1>6, <1>7, <1>8, <1>9, <1>10, <1>11,
           <1>12 DEF MdNext, mdWorkerLoop

\* Types of the session: no more logins are asked for than connections were made,
\* and nobody but a logged-in front has subscriptions.
THEOREM MdTypes == MdSpec => []MdTypeOK
<1>1. MdInit => MdInv
  <2> SUFFICES ASSUME MdInit PROVE MdInv
    OBVIOUS
  <2>1. 0 \in 0 .. MaxConnects /\ 0 \in 0 .. MaxCalls
    BY SubscribeAssumption
  <2>2. SessionTypes
    BY <2>1 DEF MdInit, SessionTypes
  <2>3. requests = 0 /\ connects = 0 /\ at = "none" /\ ~flag.front_connected
    BY DEF MdInit
  <2>4. LoginsFollow
    BY <2>3 DEF LoginsFollow
  <2> QED BY <2>2, <2>4 DEF MdInv
<1>2. MdInv /\ [MdNext]_mdVars => MdInv'
  BY SessionTypesKept, LoginsKept DEF MdInv
<1>3. MdInv /\ TypeOK => MdTypeOK
  <2> SUFFICES ASSUME MdInv, TypeOK PROVE MdTypeOK
    OBVIOUS
  <2>1. /\ requests \in Nat /\ connects \in 0 .. MaxConnects /\ requests <= connects
        /\ MaxConnects \in Nat
    BY SubscribeAssumption DEF MdInv, SessionTypes, LoginsFollow
  <2>2. requests \in 0 .. MaxConnects
    BY <2>1
  <2> QED BY <2>2 DEF MdInv, SessionTypes, MdTypeOK
<1> QED BY <1>1, <1>2, <1>3, MarketDataImplementsRing, RingTypes, PTL DEF MdSpec

=============================================================================
