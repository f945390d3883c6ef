----------------------------- MODULE DeskProofs -----------------------------
(***************************************************************************)
(* The desk calls the book only as PositionManager's clients may: every    *)
(* step of the desk is one call of the book or leaves it alone.  So what   *)
(* PositionManagerProofs shows of a book under any calls holds of the book *)
(* of the gateway.  The invariant needed says that what travels in the     *)
(* rings is what the orders and their fills are made of.                   *)
(*                                                                         *)
(* Then the lots.  That the book mirrors the exchange once the trades are  *)
(* processed is not inductive: every trade on its way must find the lots   *)
(* it takes, so the invariant says which lots the book will hold after     *)
(* each of them (Replays).  The lots frozen for opening are counted over   *)
(* the four places an order can be in (Alive), and a release is not cut    *)
(* off because what it releases is still counted.  The lots frozen for     *)
(* closing are counted the same way on a side with one listed slot.        *)
(*                                                                         *)
(* Then the money, counted with other weights: a slot has no more margin   *)
(* frozen than its live orders would freeze at today's price, and, where   *)
(* orders only open, no more commission (MarginInv, CommissionInv).        *)
(***************************************************************************)
EXTENDS Desk, PositionManagerProofs, SequenceTheorems, FiniteSetTheorems

\* A final report of an order: no more lots are left than it had.
CancelMsg == {r \in [req : Orders, unfilled : Nat \ {0}] : r.unfilled <= r.req.vol}

DeskInv ==
    /\ sent \in 0 .. MaxOrders
    /\ DOMAIN working \subseteq 1 .. sent
    /\ \A k \in DOMAIN working : working[k] \in CancelMsg
    /\ cancels \in Seq(CancelMsg)
    /\ fills \in Seq(Trades)
    /\ undo \in Seq(Orders)
    /\ lots \in [Slots -> Nat]
    /\ blind \subseteq Instruments \X Sides
    /\ repriced \subseteq Instruments

\* Orders ask for one lot at least, and concern a slot.
LEMMA OrderFacts ==
    ASSUME NEW o \in Orders
    PROVE  /\ o \in DealType /\ o.vol \in Nat \ {0}
           /\ [req |-> o, unfilled |-> o.vol] \in CancelMsg
           /\ SlotTraded(o) \in Slots
<1>1. o \in DealType
  BY InputAssumption
<1>2. o.vol \in Nat \ {0} /\ o.inst \in Instruments
  BY <1>1 DEF DealType
<1>3. SlotTraded(o) \in Slots
  BY <1>2 DEF SlotTraded, SideOpened, SideClosed, Slots, Sides, Dates
<1> QED BY <1>1, <1>2, <1>3 DEF CancelMsg

\* What is left of an order is a report of it as well.
LEMMA UnfilledKeeps ==
    ASSUME DeskInv, NEW k \in DOMAIN working, NEW v \in 1 .. working[k].unfilled,
           working' = Unfilled(k, v), sent' = sent
    PROVE  /\ DOMAIN working' \subseteq 1 .. sent'
           /\ \A j \in DOMAIN working' : working'[j] \in CancelMsg
<1>1. CASE working[k].unfilled = v
  BY <1>1 DEF Unfilled, DeskInv
<1>2. CASE working[k].unfilled # v
  <2>1. working[k] \in CancelMsg /\ working[k].req.vol \in Nat
    BY OrderFacts DEF DeskInv, CancelMsg
  <2>2. /\ DOMAIN working' = DOMAIN working
        /\ \A j \in DOMAIN working \ {k} : working'[j] = working[j]
        /\ working'[k] = [working[k] EXCEPT !.unfilled = @ - v]
    BY <1>2 DEF Unfilled
  <2>3. working'[k] \in CancelMsg
    BY <1>2, <2>1, <2>2 DEF CancelMsg
  <2> QED BY <2>2, <2>3 DEF DeskInv
<1> QED BY <1>1, <1>2

\* The step of the exchange that fills keeps the invariant.
LEMMA FillKeeps ==
    ASSUME DeskInv, NEW k \in DOMAIN working, NEW v \in 1 .. working[k].unfilled,
           NEW better \in {0, 1}, Fill(k, v, better)
    PROVE  DeskInv'
<1> DEFINE o == working[k].req
           s == SlotTraded(o)
<1>1. o \in Orders /\ working[k].unfilled \in Nat /\ working[k].unfilled <= o.vol
      /\ s \in Slots /\ o.vol \in Nat
  BY OrderFacts DEF DeskInv, CancelMsg
<1>2. v \in 1 .. o.vol /\ v \in Nat
  BY <1>1
<1>3. Filled(o, v, better) \in Trades
  BY <1>1, <1>2, TradesAssumption DEF Fill
<1>4. fills' \in Seq(Trades)
  BY <1>3, AppendProperties DEF Fill, DeskInv
<1>5. lots' \in [Slots -> Nat]
  <2>1. lots \in [Slots -> Nat]
    BY DEF DeskInv
  <2>2. CASE o.offset = "open"
    <3>1. lots' = [lots EXCEPT ![s] = @ + v]
      BY <2>2 DEF Fill
    <3> QED BY <1>1, <1>2, <2>1, <3>1
  <2>3. CASE o.offset # "open"
    <3>1. lots' = [lots EXCEPT ![s] = @ - v] /\ lots[s] >= v
      BY <2>3 DEF Fill
    <3> QED BY <1>1, <1>2, <2>1, <3>1
  <2> QED BY <2>2, <2>3
<1>6. working' = Unfilled(k, v) /\ UNCHANGED <<sent, cancels, undo, blind, repriced>>
  BY DEF Fill, history
<1> QED BY <1>4, <1>5, <1>6, UnfilledKeeps DEF DeskInv

\* Every step keeps it.
LEMMA DeskInvKept == DeskInv /\ [DeskNext]_allVars => DeskInv'
<1> SUFFICES ASSUME DeskInv, [DeskNext]_allVars PROVE DeskInv'
  OBVIOUS
<1>0. MaxOrders \in Nat
  BY MaxOrdersAssumption
<1>1. ASSUME NEW o \in Orders, SendOrder(o) PROVE DeskInv'
  <2>1. sent' \in 0 .. MaxOrders /\ sent' = sent + 1 /\ sent \in Nat
        /\ UNCHANGED <<cancels, fills, lots, repriced>>
    BY <1>0, <1>1 DEF SendOrder, DeskInv
  <2>0. blind' \subseteq Instruments \X Sides
    <3>1. o.inst \in Instruments /\ SideClosed(o.dir) \in Sides
      BY OrderFacts DEF DealType, SideClosed, Sides
    <3> QED BY <1>1, <3>1 DEF SendOrder, DeskInv
  <2>2. CASE undo' = <<o>> /\ working' = working
    BY <2>0, <2>1, <2>2 DEF DeskInv
  <2>3. CASE /\ working' = [k \in DOMAIN working \cup {sent'} |->
                     IF k = sent' THEN [req |-> o, unfilled |-> o.vol]
                     ELSE working[k]]
             /\ undo' = undo
    <3>1. [req |-> o, unfilled |-> o.vol] \in CancelMsg
      BY OrderFacts
    <3>2. DOMAIN working' \subseteq 1 .. sent'
      BY <2>1, <2>3 DEF DeskInv
    <3>3. \A k \in DOMAIN working' : working'[k] \in CancelMsg
      BY <2>1, <2>3, <3>1 DEF DeskInv
    <3> QED BY <2>0, <2>1, <2>3, <3>2, <3>3 DEF DeskInv
  <2> QED BY <1>1, <2>2, <2>3 DEF SendOrder
<1>2. CASE UndoOrder
  BY <1>2, HeadTailProperties DEF UndoOrder, DeskInv, history
<1>3. ASSUME NEW k \in DOMAIN working, NEW v \in 1 .. working[k].unfilled,
             NEW better \in {0, 1}, Fill(k, v, better)
      PROVE  DeskInv'
  BY <1>3, FillKeeps
<1>4. ASSUME NEW k \in DOMAIN working, Cancel(k) PROVE DeskInv'
  <2>1. working[k] \in CancelMsg /\ working[k].unfilled \in 1 .. working[k].unfilled
    BY DEF DeskInv, CancelMsg
  <2>2. cancels' \in Seq(CancelMsg)
    BY <1>4, <2>1, AppendProperties DEF Cancel, DeskInv
  <2>3. /\ DOMAIN working' \subseteq 1 .. sent'
        /\ \A j \in DOMAIN working' : working'[j] \in CancelMsg
    BY <1>4, <2>1, UnfilledKeeps DEF Cancel
  <2> QED BY <1>4, <2>2, <2>3 DEF Cancel, DeskInv, history
<1>5. CASE ProcessCancel
  BY <1>5, HeadTailProperties DEF ProcessCancel, DeskInv, history
<1>6. CASE ProcessTrade
  BY <1>6, HeadTailProperties DEF ProcessTrade, DeskInv, history
<1>7. ASSUME NEW t \in Ticks, ProcessTick(t) PROVE DeskInv'
  BY <1>7 DEF ProcessTick, DeskInv
<1>8. CASE UNCHANGED allVars
  BY <1>8 DEF allVars, deskVars, history, DeskInv
<1> QED BY <1>1, <1>2, <1>3, <1>4, <1>5, <1>6, <1>7, <1>8
        DEF DeskNext

\* Every step is one call of the book, or leaves it alone.
LEMMA DeskStep == DeskInv /\ [DeskNext]_allVars => [Next]_vars
<1> SUFFICES ASSUME DeskInv, [DeskNext]_allVars PROVE [Next]_vars
  OBVIOUS
<1>1. ASSUME NEW o \in Orders, SendOrder(o) PROVE Next
  BY <1>1 DEF SendOrder, Next
<1>2. CASE UndoOrder
  <2>1. Head(undo) \in Orders
    BY <1>2, HeadTailProperties DEF UndoOrder, DeskInv
  <2>2. Head(undo).vol \in Nat
    BY <2>1, OrderFacts
  <2>3. Head(undo).vol \in 0 .. Head(undo).vol
    BY <2>2
  <2> QED BY <1>2, <2>1, <2>3 DEF UndoOrder, Next
<1>3. CASE \E k \in DOMAIN working : \E v \in 1 .. working[k].unfilled :
               \E better \in {0, 1} : Fill(k, v, better)
  BY <1>3 DEF Fill
<1>4. CASE \E k \in DOMAIN working : Cancel(k)
  BY <1>4 DEF Cancel
<1>5. CASE ProcessCancel
  <2>1. Head(cancels) \in CancelMsg
    BY <1>5, HeadTailProperties DEF ProcessCancel, DeskInv
  <2>2. /\ Head(cancels).req \in Orders
        /\ Head(cancels).unfilled \in 0 .. Head(cancels).req.vol
    BY <2>1, OrderFacts DEF CancelMsg
  <2> QED BY <1>5, <2>2 DEF ProcessCancel, Next
<1>6. CASE ProcessTrade
  <2>1. Head(fills) \in Trades
    BY <1>6, HeadTailProperties DEF ProcessTrade, DeskInv
  <2> QED BY <1>6, <2>1 DEF ProcessTrade, Next
<1>7. ASSUME NEW t \in Ticks, ProcessTick(t) PROVE Next
  BY <1>7 DEF ProcessTick, Next
<1>8. CASE UNCHANGED allVars
  BY <1>8 DEF allVars
<1> QED BY <1>1, <1>2, <1>3, <1>4, <1>5, <1>6, <1>7, <1>8 DEF DeskNext

\* The exchange starts with the lots the snapshot brought.
LEMMA DeskStart == DeskInit => DeskInv
<1> SUFFICES ASSUME DeskInit PROVE DeskInv
  OBVIOUS
<1>1. PICK b \in Snapshots : positions = b.pos
  BY DEF DeskInit, Init
<1>2. positions \in [Slots -> PositionType]
  BY <1>1, SnapshotAssumption DEF SnapshotType
<1>3. \A s \in Slots : positions[s].position \in Nat
  BY <1>2 DEF PositionType
<1>4. lots \in [Slots -> Nat]
  BY <1>3 DEF DeskInit
<1>5. DOMAIN working = {} /\ sent = 0
  BY DEF DeskInit
<1> QED BY <1>4, <1>5, MaxOrdersAssumption DEF DeskInit, DeskInv

\* What travels in the rings is made of the orders, in every reachable state.
THEOREM DeskInvariant == DeskSpec => []DeskInv
BY DeskStart, DeskInvKept, PTL DEF DeskSpec

\* The desk implements the book: sendOrder, its undo, the worker and the market
\* data worker together do to the book what any of its clients may do.
THEOREM DeskImplementsBook == DeskSpec => Spec
<1>1. DeskInit => Init
  BY DEF DeskInit
<1> QED BY <1>1, DeskStep, DeskInvariant, PTL DEF DeskSpec, Spec

\* Nothing counted at the desk becomes negative: neither lots at the exchange
\* nor lots left of an order nor anything in the book.
THEOREM DeskTypes == DeskSpec => []DeskTypeOK
<1>1. ASSUME DeskInv, TypeOK PROVE DeskTypeOK
  <2>1. cancels \in Seq(Report)
    <3>1. CancelMsg \subseteq Report
      BY DEF CancelMsg, Report
    <3> QED BY <1>1, <3>1, SeqMonotonic DEF DeskInv
  <2>2. fills \in Seq(DealType)
    BY <1>1, InputAssumption, SeqMonotonic DEF DeskInv
  <2>3. \A k \in DOMAIN working : k \in 1 .. sent /\ working[k] \in Report
    BY <1>1 DEF DeskInv, CancelMsg, Report
  <2> QED BY <1>1, <2>1, <2>2, <2>3 DEF DeskInv, DeskTypeOK
<1> QED BY <1>1, DeskInvariant, DeskImplementsBook, TypesHold, PTL

\* Whatever the exchange fills and cancels, and however the reports are
\* interleaved, the money of the book adds up.
THEOREM DeskBookAddsUp ==
    DeskSpec => [](CurrMarginIsSum /\ ProfitsAreSums /\ FlatHoldsNothing
                       /\ FrozenMarginCovered)
<1>1. BookInv => CurrMarginIsSum /\ ProfitsAreSums /\ FlatHoldsNothing
                     /\ FrozenMarginCovered
  BY DEF BookInv
<1> QED BY <1>1, DeskImplementsBook, BookInvariant, PTL

----------------------------------------------------------------------------
(* What the entry points of the book do to lots, and to the lots frozen    *)
(* for opening orders.                                                     *)

\* The lots a slot of a side has frozen for orders that open it.
OpenFrozen(p, side) == IF side = "long" THEN p.long_frozen ELSE p.short_frozen

\* The lots it has frozen for orders that close it.
CloseFrozen(p, side) == IF side = "long" THEN p.short_frozen ELSE p.long_frozen

\* What v lots of an order are worth to a slot's count of opening lots.
Worth(o, v, s) == IF o.offset = "open" /\ SlotTraded(o) = s THEN v ELSE 0

\* The orders that close lots of a slot's side, and what their lots are worth to
\* its count of closing lots.
Closes(o, s) == o.offset # "open" /\ o.inst = s[1] /\ SideClosed(o.dir) = s[2]

CloseWorth(o, v, s) == IF Closes(o, s) THEN v ELSE 0

\* The slot of the same side and the other day.
OtherDate(s) == <<s[1], s[2], IF s[3] = "yd" THEN "today" ELSE "yd">>

OpenSlots == {s \in Slots : s[3] = "today"}

\* Lots are held under listed keys, and those of yesterday only where they have
\* a date of their own.
BookShape ==
    /\ market.instruments = Instruments
    /\ \A s \in Slots :
           ~positions[s].listed \/ (s[3] = "yd" /\ ~KeepsDates(s[1]))
           => positions[s].position = 0

\* Freezing reaches the opening count of the side the direction opens.
LEMMA FreezeLotsMoves ==
    ASSUME NEW p \in PositionType, NEW dir \in Directions, NEW by \in Int,
           NEW side \in Sides
    PROVE  LET q == FreezeLots(p, dir, by)
           IN /\ q \in PositionType
              /\ q.position = p.position /\ q.listed = p.listed
              /\ OpenFrozen(q, side) =
                     IF SideOpened(dir) = side THEN Positive(OpenFrozen(p, side) + by)
                     ELSE OpenFrozen(p, side)
              /\ CloseFrozen(q, side) =
                     IF SideClosed(dir) = side THEN Positive(CloseFrozen(p, side) + by)
                     ELSE CloseFrozen(p, side)
<1>1. FreezeLots(p, dir, by) \in PositionType
  BY FreezeLotsType
<1> QED BY <1>1 DEF FreezeLots, PositionType, OpenFrozen, CloseFrozen, SideOpened,
                    SideClosed, Sides, Directions

\* The slot whose opening count an order moves is the one it opens.
LEMMA TouchedOpens ==
    ASSUME NEW o \in DealType, NEW s \in OpenSlots
    PROVE  (s \in TouchedSlots(positions, o) /\ SideOpened(o.dir) = s[2])
               <=> (o.offset = "open" /\ SlotTraded(o) = s)
<1>1. /\ s[3] = "today" /\ s \in Slots
  BY DEF OpenSlots
<1>2. s = <<s[1], s[2], s[3]>>
  BY <1>1 DEF Slots
<1>3. SideOpened(o.dir) # SideClosed(o.dir)
  BY DEF SideOpened, SideClosed
<1>4. CASE o.offset = "open"
  BY <1>1, <1>2, <1>4 DEF TouchedSlots, SlotTraded
<1>5. CASE o.offset # "open"
  <2>1. s \in TouchedSlots(positions, o) => s[2] = SideClosed(o.dir)
    BY <1>5 DEF TouchedSlots
  <2> QED BY <1>3, <1>5, <2>1
<1> QED BY <1>4, <1>5

\* The slots whose closing count it moves are those it closes and the book lists.
LEMMA TouchedCloses ==
    ASSUME NEW o \in DealType, NEW s \in Slots
    PROVE  (s \in TouchedSlots(positions, o) /\ SideClosed(o.dir) = s[2])
               <=> (Closes(o, s) /\ positions[s].listed)
<1>1. s = <<s[1], s[2], s[3]>> /\ s[3] \in Dates
  BY DEF Slots
<1>2. SideOpened(o.dir) # SideClosed(o.dir)
  BY DEF SideOpened, SideClosed
<1>3. CASE o.offset = "open"
  BY <1>2, <1>3 DEF TouchedSlots, Closes
<1>4. CASE o.offset # "open"
  BY <1>1, <1>4 DEF TouchedSlots, Closes
<1> QED BY <1>3, <1>4

\* A count that gives up what it counts is not cut off.
LEMMA CutNothing ==
    ASSUME NEW x \in Nat, NEW y \in Nat
    PROVE  /\ Positive(x + y) = x + y
           /\ Positive(x + (-y)) = Positive(x - y)
           /\ y <= x => Positive(x - y) = x - y
           /\ Positive(x - 0) = x
BY DEF Positive, Larger

\* A request freezes, at the slot it opens, the lots it asks for.
LEMMA RequestMoves ==
    ASSUME BookInv, BookShape, NEW o \in Orders, onOrderRequest(o)
    PROVE  /\ BookShape'
           /\ \A s \in Slots : positions'[s].position = positions[s].position
           /\ \A s \in OpenSlots :
                  OpenFrozen(positions'[s], s[2]) =
                      OpenFrozen(positions[s], s[2]) + Worth(o, o.vol, s)
           /\ \A s \in Slots :
                  /\ positions[s].listed => positions'[s].listed
                  /\ CloseFrozen(positions'[s], s[2]) = CloseFrozen(positions[s], s[2])
                        + (IF positions[s].listed THEN CloseWorth(o, o.vol, s) ELSE 0)
<1>1. /\ o \in DealType /\ o.vol \in Nat /\ o.vol \in Int
      /\ o.dir \in Directions /\ o.inst \in Instruments
  BY InputAssumption DEF DealType
<1>2. /\ positions' = [s \in Slots |-> IF s \in TouchedSlots(positions, o)
                          THEN SlotFreeze(market, positions[s], o) ELSE positions[s]]
      /\ market' = market
  BY <1>1 DEF onOrderRequest, BookShape
<1>3. positions \in [Slots -> PositionType]
  BY DEF BookInv, TypeOK
<1>4. ASSUME NEW s \in Slots
      PROVE  /\ positions'[s].position = positions[s].position
             /\ ~positions'[s].listed => ~positions[s].listed
             /\ s \in OpenSlots => OpenFrozen(positions'[s], s[2]) =
                    OpenFrozen(positions[s], s[2]) + Worth(o, o.vol, s)
             /\ positions[s].listed => positions'[s].listed
             /\ CloseFrozen(positions'[s], s[2]) = CloseFrozen(positions[s], s[2])
                   + (IF positions[s].listed THEN CloseWorth(o, o.vol, s) ELSE 0)
  <2> DEFINE q == FreezeLots(positions[s], o.dir, o.vol)
  <2>1. s[2] \in Sides /\ positions[s] \in PositionType
    BY <1>3 DEF Slots
  <2>2. OpenFrozen(positions[s], s[2]) \in Nat /\ CloseFrozen(positions[s], s[2]) \in Nat
    BY <2>1 DEF OpenFrozen, CloseFrozen, PositionType
  <2>3. CASE s \in TouchedSlots(positions, o)
    <3>1. /\ q \in PositionType
          /\ q.position = positions[s].position
          /\ OpenFrozen(q, s[2]) =
                 IF SideOpened(o.dir) = s[2]
                 THEN Positive(OpenFrozen(positions[s], s[2]) + o.vol)
                 ELSE OpenFrozen(positions[s], s[2])
          /\ CloseFrozen(q, s[2]) =
                 IF SideClosed(o.dir) = s[2]
                 THEN Positive(CloseFrozen(positions[s], s[2]) + o.vol)
                 ELSE CloseFrozen(positions[s], s[2])
      BY <1>1, <2>1, FreezeLotsMoves
    <3>2. positions'[s] = [q EXCEPT
              !.listed = TRUE,
              !.frozen_margin = @ + OrderMargin(market, o, o.vol),
              !.frozen_commission = @ + OrderCommission(market, o, o.vol)]
      BY <1>2, <2>3 DEF SlotFreeze
    <3> HIDE DEF q
    <3>3. /\ positions'[s].position = q.position /\ positions'[s].listed
          /\ OpenFrozen(positions'[s], s[2]) = OpenFrozen(q, s[2])
          /\ CloseFrozen(positions'[s], s[2]) = CloseFrozen(q, s[2])
      BY <3>1, <3>2 DEF PositionType, OpenFrozen, CloseFrozen
    <3>4. ASSUME s \in OpenSlots
          PROVE  (SideOpened(o.dir) = s[2]) <=> (o.offset = "open" /\ SlotTraded(o) = s)
      BY <1>1, <2>3, <3>4, TouchedOpens
    <3>5. /\ Positive(OpenFrozen(positions[s], s[2]) + o.vol)
                 = OpenFrozen(positions[s], s[2]) + o.vol
          /\ Positive(CloseFrozen(positions[s], s[2]) + o.vol)
                 = CloseFrozen(positions[s], s[2]) + o.vol
      BY <1>1, <2>2, CutNothing
    <3>6. (SideClosed(o.dir) = s[2]) <=> (Closes(o, s) /\ positions[s].listed)
      BY <1>1, <2>3, TouchedCloses
    <3>7. CloseFrozen(positions'[s], s[2]) = CloseFrozen(positions[s], s[2])
              + (IF positions[s].listed THEN CloseWorth(o, o.vol, s) ELSE 0)
      BY <2>2, <3>1, <3>3, <3>5, <3>6 DEF CloseWorth
    <3> QED BY <2>2, <3>1, <3>3, <3>4, <3>5, <3>7 DEF Worth
  <2>4. CASE s \notin TouchedSlots(positions, o)
    <3>1. positions'[s] = positions[s]
      BY <1>2, <2>4
    <3>2. s \in OpenSlots => Worth(o, o.vol, s) = 0
      BY <1>1, <2>4, TouchedOpens DEF TouchedSlots, Worth, SlotTraded
    <3>3. positions[s].listed => CloseWorth(o, o.vol, s) = 0
      BY <1>1, <2>4, TouchedCloses DEF CloseWorth, Closes
    <3> QED BY <2>2, <3>1, <3>2, <3>3
  <2> QED BY <2>3, <2>4
<1>5. BookShape'
  BY <1>2, <1>4 DEF BookShape
<1> QED BY <1>4, <1>5 DEF OpenSlots

\* A release takes the lots off the count, not below zero.
LEMMA ReleaseMoves ==
    ASSUME BookInv, BookShape, NEW o \in Orders, NEW v \in Nat \ {0},
           onOrderRejectOrCancel(o, v)
    PROVE  /\ BookShape'
           /\ \A s \in Slots : positions'[s].position = positions[s].position
           /\ \A s \in OpenSlots :
                  OpenFrozen(positions'[s], s[2]) =
                      Positive(OpenFrozen(positions[s], s[2]) - Worth(o, v, s))
           /\ \A s \in Slots :
                  /\ positions'[s].listed = positions[s].listed
                  /\ CloseFrozen(positions'[s], s[2]) =
                         IF positions[s].listed
                         THEN Positive(CloseFrozen(positions[s], s[2]) - CloseWorth(o, v, s))
                         ELSE CloseFrozen(positions[s], s[2])
<1>1. /\ o \in DealType /\ v \in Nat /\ v > 0 /\ -v \in Int /\ o.dir \in Directions
  BY InputAssumption DEF DealType
<1>2. /\ positions' = [s \in Slots |-> IF s \in TouchedSlots(positions, o)
                          THEN SlotThaw(market, positions[s], o, v) ELSE positions[s]]
      /\ market' = market
  BY <1>1 DEF onOrderRejectOrCancel
<1>3. positions \in [Slots -> PositionType]
  BY DEF BookInv, TypeOK
<1>4. ASSUME NEW s \in Slots
      PROVE  /\ positions'[s].position = positions[s].position
             /\ positions'[s].listed = positions[s].listed
             /\ s \in OpenSlots => OpenFrozen(positions'[s], s[2]) =
                    Positive(OpenFrozen(positions[s], s[2]) - Worth(o, v, s))
             /\ CloseFrozen(positions'[s], s[2]) =
                    IF positions[s].listed
                    THEN Positive(CloseFrozen(positions[s], s[2]) - CloseWorth(o, v, s))
                    ELSE CloseFrozen(positions[s], s[2])
  <2> DEFINE q == FreezeLots(positions[s], o.dir, -v)
  <2>1. s[2] \in Sides /\ positions[s] \in PositionType
    BY <1>3 DEF Slots
  <2>2. OpenFrozen(positions[s], s[2]) \in Nat /\ CloseFrozen(positions[s], s[2]) \in Nat
    BY <2>1 DEF OpenFrozen, CloseFrozen, PositionType
  <2>0. Positive(CloseFrozen(positions[s], s[2]) - 0) = CloseFrozen(positions[s], s[2])
    BY <2>2, CutNothing
  <2>3. CASE s \in TouchedSlots(positions, o)
    <3>1. /\ q \in PositionType
          /\ q.position = positions[s].position /\ q.listed = positions[s].listed
          /\ OpenFrozen(q, s[2]) =
                 IF SideOpened(o.dir) = s[2]
                 THEN Positive(OpenFrozen(positions[s], s[2]) + (-v))
                 ELSE OpenFrozen(positions[s], s[2])
          /\ CloseFrozen(q, s[2]) =
                 IF SideClosed(o.dir) = s[2]
                 THEN Positive(CloseFrozen(positions[s], s[2]) + (-v))
                 ELSE CloseFrozen(positions[s], s[2])
      BY <1>1, <2>1, FreezeLotsMoves
    <3>2. positions'[s] = [q EXCEPT
              !.frozen_margin = Positive(@ - OrderMargin(market, o, v)),
              !.frozen_commission = Positive(@ - OrderCommission(market, o, v))]
      BY <1>2, <2>3 DEF SlotThaw
    <3> HIDE DEF q
    <3>3. /\ positions'[s].position = q.position /\ positions'[s].listed = q.listed
          /\ OpenFrozen(positions'[s], s[2]) = OpenFrozen(q, s[2])
          /\ CloseFrozen(positions'[s], s[2]) = CloseFrozen(q, s[2])
      BY <3>1, <3>2 DEF PositionType, OpenFrozen, CloseFrozen
    <3>4. ASSUME s \in OpenSlots
          PROVE  (SideOpened(o.dir) = s[2]) <=> (o.offset = "open" /\ SlotTraded(o) = s)
      BY <1>1, <2>3, <3>4, TouchedOpens
    <3>5. /\ Positive(OpenFrozen(positions[s], s[2]) + (-v))
                 = Positive(OpenFrozen(positions[s], s[2]) - v)
          /\ Positive(OpenFrozen(positions[s], s[2]) - 0) = OpenFrozen(positions[s], s[2])
          /\ Positive(CloseFrozen(positions[s], s[2]) + (-v))
                 = Positive(CloseFrozen(positions[s], s[2]) - v)
      BY <1>1, <2>2, CutNothing
    <3>6. (SideClosed(o.dir) = s[2]) <=> (Closes(o, s) /\ positions[s].listed)
      BY <1>1, <2>3, TouchedCloses
    <3>7. CloseFrozen(positions'[s], s[2]) =
              IF positions[s].listed
              THEN Positive(CloseFrozen(positions[s], s[2]) - CloseWorth(o, v, s))
              ELSE CloseFrozen(positions[s], s[2])
      BY <2>0, <3>1, <3>3, <3>5, <3>6 DEF CloseWorth
    <3> QED BY <3>1, <3>3, <3>4, <3>5, <3>7 DEF Worth
  <2>4. CASE s \notin TouchedSlots(positions, o)
    <3>1. positions'[s] = positions[s]
      BY <1>2, <2>4
    <3>2. s \in OpenSlots => Worth(o, v, s) = 0
      BY <1>1, <2>4, TouchedOpens DEF TouchedSlots, Worth, SlotTraded
    <3>3. Positive(OpenFrozen(positions[s], s[2]) - 0) = OpenFrozen(positions[s], s[2])
      BY <1>1, <2>2, CutNothing
    <3>4. positions[s].listed => CloseWorth(o, v, s) = 0
      BY <1>1, <2>4, TouchedCloses DEF CloseWorth, Closes
    <3> QED BY <2>0, <3>1, <3>2, <3>3, <3>4
  <2> QED BY <2>3, <2>4
<1>5. BookShape'
  BY <1>2, <1>4 DEF BookShape
<1> QED BY <1>4, <1>5 DEF OpenSlots

\* The tail of onTradeFill leaves lots alone.
LEMMA FlattenedMoves ==
    ASSUME NEW pos \in [Slots -> PositionType], NEW s \in Slots
    PROVE  /\ Flattened(pos)[s].position = pos[s].position
           /\ Flattened(pos)[s].listed = pos[s].listed
           /\ OpenFrozen(Flattened(pos)[s], s[2]) = OpenFrozen(pos[s], s[2])
           /\ CloseFrozen(Flattened(pos)[s], s[2]) = CloseFrozen(pos[s], s[2])
<1>1. pos[s] \in PositionType
  OBVIOUS
<1>2. Flattened(pos)[s] = pos[s]
          \/ Flattened(pos)[s] = [pos[s] EXCEPT !.position_profit = 0]
  BY DEF Flattened
<1> HIDE DEF Flattened
<1> QED BY <1>1, <1>2 DEF PositionType, OpenFrozen, CloseFrozen

\* One turn of the loop over date_order takes at most the slot's lots out of the
\* slot of its date, and no lots off any count for opening orders.
LEMMA CloseSlotMoves ==
    ASSUME NEW m \in MarketType, NEW b, LoopInv(b), NEW t \in DealType,
           NEW date \in Dates
    PROVE  LET s == <<t.inst, SideClosed(t.dir), date>>
               p == b.pos[s]
               vol == IF p.listed THEN Smaller(b.left, p.position) ELSE 0
               c == CloseSlot(m, b, t, date)
           IN /\ c.left = b.left - vol
              /\ \A r \in Slots :
                    /\ c.pos[r].position = b.pos[r].position - (IF r = s THEN vol ELSE 0)
                    /\ c.pos[r].listed = b.pos[r].listed
                    /\ OpenFrozen(c.pos[r], r[2]) = OpenFrozen(b.pos[r], r[2])
                    /\ CloseFrozen(c.pos[r], r[2]) =
                           IF r = s /\ p.listed
                           THEN Positive(CloseFrozen(b.pos[r], r[2]) - b.left)
                           ELSE CloseFrozen(b.pos[r], r[2])
<1> DEFINE s == <<t.inst, SideClosed(t.dir), date>>
           p == b.pos[s]
           vol == Smaller(b.left, p.position)
           comm == CloseCommission(m, t, p, date, vol, b.fee)
           gain == CloseGain(m, t, p, date, vol)
           share == MarginShare(p, vol)
           cost == t.price * vol * Mult(m, t.inst)
           q == FreezeLots(p, t.dir, -b.left)
           slot == [q EXCEPT !.commission = @ + comm,
                             !.frozen_commission = Positive(@ - comm),
                             !.close_profit = @ + gain, !.margin = Positive(@ - share),
                             !.position = @ - vol,
                             !.position_cost = Positive(@ - cost)]
<1>1. s \in Slots /\ s[2] = SideClosed(t.dir) /\ SideClosed(t.dir) \in Sides
      /\ t.dir \in Directions
  BY DEF DealType, SideClosed, Slots, Sides
<1>2. b.pos \in [Slots -> PositionType] /\ b.left \in Nat
  BY DEF LoopInv, Consistent
<1>3. p \in PositionType /\ \A r \in Slots : b.pos[r].position \in Nat
  BY <1>1, <1>2 DEF PositionType
<1>4. p.position \in Nat /\ CloseFrozen(p, s[2]) \in Nat
  BY <1>3 DEF PositionType, CloseFrozen
<1>5. CASE b.left <= 0 \/ ~p.listed
  <2>1. CloseSlot(m, b, t, date) = b
    BY <1>5 DEF CloseSlot
  <2>2. p.listed => vol = 0
    BY <1>2, <1>4, <1>5 DEF Smaller
  <2>3. p.listed => Positive(CloseFrozen(b.pos[s], s[2]) - b.left) = CloseFrozen(b.pos[s], s[2])
    <3>1. p.listed => b.left = 0
      BY <1>2, <1>5
    <3> HIDE DEF s
    <3> QED BY <1>4, <3>1, CutNothing
  <2> HIDE DEF vol, s
  <2> QED BY <1>2, <1>3, <2>1, <2>2, <2>3 DEF vol, s
<1>6. CASE ~(b.left <= 0 \/ ~p.listed)
  <2>1. /\ CloseSlot(m, b, t, date).pos = [b.pos EXCEPT ![s] = slot]
        /\ CloseSlot(m, b, t, date).left = b.left - vol
    BY <1>6 DEF CloseSlot
  <2>2. -b.left \in Int
    BY <1>2
  <2>3. /\ q \in PositionType /\ q.position = p.position /\ q.listed = p.listed
        /\ OpenFrozen(q, s[2]) = IF SideOpened(t.dir) = s[2]
                                 THEN Positive(OpenFrozen(p, s[2]) + (-b.left))
                                 ELSE OpenFrozen(p, s[2])
        /\ CloseFrozen(q, s[2]) = IF SideClosed(t.dir) = s[2]
                                  THEN Positive(CloseFrozen(p, s[2]) + (-b.left))
                                  ELSE CloseFrozen(p, s[2])
    <3> DEFINE by == -b.left
               side == s[2]
    <3>1. side \in Sides /\ by \in Int /\ t.dir \in Directions /\ p \in PositionType
      BY <1>1, <1>3, <2>2
    <3> HIDE DEF p, s, by, side
    <3>2. LET r == FreezeLots(p, t.dir, by)
          IN /\ r \in PositionType /\ r.position = p.position /\ r.listed = p.listed
             /\ OpenFrozen(r, side) = IF SideOpened(t.dir) = side
                                      THEN Positive(OpenFrozen(p, side) + by)
                                      ELSE OpenFrozen(p, side)
             /\ CloseFrozen(r, side) = IF SideClosed(t.dir) = side
                                       THEN Positive(CloseFrozen(p, side) + by)
                                       ELSE CloseFrozen(p, side)
      BY <3>1, FreezeLotsMoves
    <3> QED BY <3>2 DEF by, side
  <2>4. SideOpened(t.dir) # s[2]
    BY <1>1 DEF SideOpened, SideClosed
  <2> HIDE DEF q, comm, gain, share, cost, vol, p, s
  <2>5. /\ slot.position = q.position - vol /\ slot.listed = q.listed
        /\ OpenFrozen(slot, s[2]) = OpenFrozen(q, s[2])
        /\ CloseFrozen(slot, s[2]) = CloseFrozen(q, s[2])
    BY <2>3 DEF PositionType, OpenFrozen, CloseFrozen
  <2>10. Positive(CloseFrozen(p, s[2]) + (-b.left)) = Positive(CloseFrozen(p, s[2]) - b.left)
    BY <1>2, <1>4, CutNothing
  <2> HIDE DEF slot
  <2>6. /\ CloseSlot(m, b, t, date).pos[s] = slot
        /\ \A r \in Slots : r # s => CloseSlot(m, b, t, date).pos[r] = b.pos[r]
    BY <1>1, <1>2, <2>1
  <2>7. p.listed
    BY <1>6
  <2>8. p = b.pos[s]
    BY DEF p
  <2>9. ASSUME NEW r \in Slots
        PROVE  LET c == CloseSlot(m, b, t, date)
               IN /\ c.pos[r].position = b.pos[r].position - (IF r = s THEN vol ELSE 0)
                  /\ c.pos[r].listed = b.pos[r].listed
                  /\ OpenFrozen(c.pos[r], r[2]) = OpenFrozen(b.pos[r], r[2])
                  /\ CloseFrozen(c.pos[r], r[2]) =
                         IF r = s THEN Positive(CloseFrozen(b.pos[r], r[2]) - b.left)
                         ELSE CloseFrozen(b.pos[r], r[2])
    <3>1. CASE r = s
      BY <1>1, <2>3, <2>4, <2>5, <2>6, <2>8, <2>10, <3>1
    <3>2. CASE r # s
      <4>1. b.pos[r].position \in Nat
        BY <1>3
      <4> QED BY <2>6, <3>2, <4>1
    <3> QED BY <3>1, <3>2
  <2> QED BY <2>1, <2>7, <2>9 DEF vol, p, s
<1> QED BY <1>5, <1>6

\* A close takes the lots out of the slot the offset says, one after the other
\* where the exchange counts both days together.
LEMMA ClosedMoves ==
    ASSUME BookInv, BookShape, NEW t \in Trades, t.offset # "open",
           KeepsDates(t.inst) => t.offset # "close",
           positions[SlotTraded(t)].position >= t.vol
    PROVE  LET c == Closed(market, [pos |-> positions, acct |-> account], t)
           IN \A r \in Slots :
                 /\ c.pos[r].position = positions[r].position
                                          - (IF r = SlotTraded(t) THEN t.vol ELSE 0)
                 /\ c.pos[r].listed = positions[r].listed
                 /\ OpenFrozen(c.pos[r], r[2]) = OpenFrozen(positions[r], r[2])
                 /\ ~positions[r].listed
                    => CloseFrozen(c.pos[r], r[2]) = CloseFrozen(positions[r], r[2])
                 /\ ~positions[OtherDate(r)].listed
                    => CloseFrozen(c.pos[r], r[2]) =
                           Positive(CloseFrozen(positions[r], r[2]) - CloseWorth(t, t.vol, r))
<1> DEFINE i == t.inst
           side == SideClosed(t.dir)
           order == CloseOrder(market, t)
           today == positions[<<i, side, "today">>]
           b0 == [pos |-> positions, acct |-> account, left |-> t.vol,
                  fee |-> IF Cffex(market, i) THEN today.position ELSE 0]
           b1 == CloseSlot(market, b0, t, order[1])
           b2 == CloseSlot(market, b1, t, order[2])
<1>1. /\ t \in DealType /\ market \in MarketType /\ i \in Instruments
      /\ side \in Sides /\ t.vol \in Nat \ {0}
  BY InputAssumption DEF BookInv, TypeOK, DealType, SideClosed, Sides
<1>2. <<i, side, "today">> \in Slots /\ <<i, side, "yd">> \in Slots
  BY <1>1 DEF Slots, Dates
<1>3. positions \in [Slots -> PositionType]
  BY DEF BookInv, TypeOK
<1>4. \A s \in Slots : positions[s].position \in Nat /\ positions[s].listed \in BOOLEAN
  BY <1>3 DEF PositionType
<1>5. LoopInv(b0)
  <2>1. Consistent(positions, account)
    BY DEF BookInv, TypeOK, CurrMarginIsSum, ProfitsAreSums, FlatHoldsNothing,
           FrozenMarginCovered, Consistent, FlatIsClean, FlatNoMargin
  <2>2. today.position \in Nat
    BY <1>2, <1>4
  <2> QED BY <1>1, <2>1, <2>2 DEF LoopInv
<1>6. Closed(market, [pos |-> positions, acct |-> account], t)
          = IF Len(order) = 1 THEN b1 ELSE b2
  BY DEF Closed
<1>7. Shfe(market, i) <=> KeepsDates(i)
  BY <1>1 DEF Shfe, KeepsDates, BookShape
<1>8. b0.pos = positions /\ b0.left = t.vol
  OBVIOUS
<1>11. ASSUME NEW r \in Slots
       PROVE  /\ Closes(t, r) <=> r = <<i, side, "today">> \/ r = <<i, side, "yd">>
              /\ r = <<i, side, "today">> => OtherDate(r) = <<i, side, "yd">>
              /\ r = <<i, side, "yd">> => OtherDate(r) = <<i, side, "today">>
              /\ Positive(CloseFrozen(positions[r], r[2]) - 0)
                     = CloseFrozen(positions[r], r[2])
  <2>1. r = <<r[1], r[2], r[3]>> /\ r[3] \in {"today", "yd"}
    BY DEF Slots, Dates
  <2>2. Closes(t, r) <=> r[1] = i /\ r[2] = side
    BY DEF Closes
  <2>3. CloseFrozen(positions[r], r[2]) \in Nat
    BY <1>3 DEF PositionType, CloseFrozen
  <2>4. Positive(CloseFrozen(positions[r], r[2]) - 0) = CloseFrozen(positions[r], r[2])
    BY <2>3, CutNothing
  <2> QED BY <2>1, <2>2, <2>4 DEF OtherDate
<1>9. CASE KeepsDates(i)
  <2> DEFINE date == IF t.offset = "closeToday" THEN "today" ELSE "yd"
             s == <<i, side, date>>
             p == positions[s]
  <2>1. t.offset \in {"closeToday", "closeYd"}
    BY <1>1, <1>9 DEF DealType, Offsets
  <2>2. order = <<date>>
    BY <1>7, <1>9, <2>1 DEF CloseOrder
  <2>3. SlotTraded(t) = s /\ s \in Slots /\ date \in Dates
    BY <1>2, <1>9, <2>1 DEF SlotTraded, Dates
  <2>4. p.listed /\ p.position >= t.vol /\ p.position \in Nat
    BY <1>1, <1>4, <2>3 DEF BookShape
  <2>5. Smaller(t.vol, p.position) = t.vol
    BY <1>1, <2>4 DEF Smaller
  <2>6. Len(order) = 1 /\ order[1] = date
    BY <2>2
  <2> HIDE DEF b0, order, date
  <2>7. \A r \in Slots :
           /\ b1.pos[r].position = b0.pos[r].position
                - (IF r = s THEN (IF b0.pos[s].listed
                                  THEN Smaller(b0.left, b0.pos[s].position) ELSE 0)
                   ELSE 0)
           /\ b1.pos[r].listed = b0.pos[r].listed
           /\ OpenFrozen(b1.pos[r], r[2]) = OpenFrozen(b0.pos[r], r[2])
           /\ CloseFrozen(b1.pos[r], r[2]) =
                  IF r = s /\ b0.pos[s].listed
                  THEN Positive(CloseFrozen(b0.pos[r], r[2]) - b0.left)
                  ELSE CloseFrozen(b0.pos[r], r[2])
    BY <1>1, <1>5, <2>3, <2>6, CloseSlotMoves
  <2>8. s = <<i, side, "today">> \/ s = <<i, side, "yd">>
    BY <2>3 DEF Dates
  <2> HIDE DEF b1, s
  <2>9. ASSUME NEW r \in Slots
        PROVE  /\ ~positions[r].listed
                  => CloseFrozen(b1.pos[r], r[2]) = CloseFrozen(positions[r], r[2])
               /\ ~positions[OtherDate(r)].listed
                  => CloseFrozen(b1.pos[r], r[2]) =
                         Positive(CloseFrozen(positions[r], r[2]) - CloseWorth(t, t.vol, r))
    <3>1. CloseFrozen(b1.pos[r], r[2]) =
              IF r = s THEN Positive(CloseFrozen(positions[r], r[2]) - t.vol)
              ELSE CloseFrozen(positions[r], r[2])
      BY <1>8, <2>4, <2>7
    <3>2. CASE r = s
      <4>1. CloseWorth(t, t.vol, r) = t.vol
        BY <1>11, <2>8, <3>2 DEF CloseWorth
      <4> QED BY <2>4, <3>1, <3>2, <4>1
    <3>3. CASE r # s
      <4>1. ~positions[OtherDate(r)].listed => ~Closes(t, r)
        BY <1>11, <2>4, <2>8, <3>3
      <4> QED BY <1>11, <3>1, <3>3, <4>1 DEF CloseWorth
    <3> QED BY <3>2, <3>3
  <2> QED BY <1>6, <1>8, <2>3, <2>4, <2>5, <2>6, <2>7, <2>9
<1>10. CASE ~KeepsDates(i)
  <2> DEFINE y == <<i, side, "yd">>
             s == <<i, side, "today">>
  <2>1. order = <<"yd", "today">>
    BY <1>7, <1>10 DEF CloseOrder
  <2>2. SlotTraded(t) = s /\ s \in Slots /\ y \in Slots /\ y # s
    BY <1>2, <1>10 DEF SlotTraded
  <2>3. positions[y].position = 0
    BY <1>10, <2>2 DEF BookShape
  <2>4. positions[s].listed /\ positions[s].position >= t.vol
    BY <1>1, <1>4, <2>2 DEF BookShape
  <2>5. /\ Smaller(t.vol, positions[s].position) = t.vol
        /\ Smaller(t.vol, positions[y].position) = 0
    BY <1>1, <1>4, <2>2, <2>3, <2>4 DEF Smaller
  <2>6. Len(order) = 2 /\ order[1] = "yd" /\ order[2] = "today"
        /\ "yd" \in Dates /\ "today" \in Dates
    BY <2>1 DEF Dates
  <2> HIDE DEF b0, order
  <2>7. /\ b1.left = b0.left - (IF b0.pos[y].listed
                                THEN Smaller(b0.left, b0.pos[y].position) ELSE 0)
        /\ \A r \in Slots :
              /\ b1.pos[r].position = b0.pos[r].position
                   - (IF r = y THEN (IF b0.pos[y].listed
                                     THEN Smaller(b0.left, b0.pos[y].position) ELSE 0)
                      ELSE 0)
              /\ b1.pos[r].listed = b0.pos[r].listed
              /\ OpenFrozen(b1.pos[r], r[2]) = OpenFrozen(b0.pos[r], r[2])
              /\ CloseFrozen(b1.pos[r], r[2]) =
                     IF r = y /\ b0.pos[y].listed
                     THEN Positive(CloseFrozen(b0.pos[r], r[2]) - b0.left)
                     ELSE CloseFrozen(b0.pos[r], r[2])
    BY <1>1, <1>5, <2>6, CloseSlotMoves
  <2>8. LoopInv(b1)
    BY <1>1, <1>5, <2>6, CloseSlotKeeps
  <2> HIDE DEF b1
  <2>9. \A r \in Slots :
           /\ b2.pos[r].position = b1.pos[r].position
                - (IF r = s THEN (IF b1.pos[s].listed
                                  THEN Smaller(b1.left, b1.pos[s].position) ELSE 0)
                   ELSE 0)
           /\ b2.pos[r].listed = b1.pos[r].listed
           /\ OpenFrozen(b2.pos[r], r[2]) = OpenFrozen(b1.pos[r], r[2])
           /\ CloseFrozen(b2.pos[r], r[2]) =
                  IF r = s /\ b1.pos[s].listed
                  THEN Positive(CloseFrozen(b1.pos[r], r[2]) - b1.left)
                  ELSE CloseFrozen(b1.pos[r], r[2])
    BY <1>1, <2>6, <2>8, CloseSlotMoves
  <2>11. s = <<i, side, "today">> /\ y = <<i, side, "yd">>
    OBVIOUS
  <2> HIDE DEF b2, s, y
  <2>10. /\ b1.left = t.vol
         /\ \A r \in Slots : /\ b1.pos[r].position = positions[r].position
                             /\ b1.pos[r].listed = positions[r].listed
                             /\ OpenFrozen(b1.pos[r], r[2]) = OpenFrozen(positions[r], r[2])
    BY <1>1, <1>4, <1>8, <2>2, <2>5, <2>7
  <2>12. ASSUME NEW r \in Slots
         PROVE  /\ ~positions[r].listed
                   => CloseFrozen(b2.pos[r], r[2]) = CloseFrozen(positions[r], r[2])
                /\ ~positions[OtherDate(r)].listed
                   => CloseFrozen(b2.pos[r], r[2]) =
                          Positive(CloseFrozen(positions[r], r[2]) - CloseWorth(t, t.vol, r))
    <3>1. CASE r = s
      <4>1. CloseWorth(t, t.vol, r) = t.vol
        BY <1>11, <2>11, <3>1 DEF CloseWorth
      <4>2. CloseFrozen(b1.pos[r], r[2]) = CloseFrozen(positions[r], r[2])
        BY <1>8, <2>2, <2>7, <3>1
      <4>3. CloseFrozen(b2.pos[r], r[2]) = Positive(CloseFrozen(positions[r], r[2]) - t.vol)
        BY <2>2, <2>4, <2>9, <2>10, <3>1, <4>2
      <4> QED BY <2>4, <3>1, <4>1, <4>3
    <3>2. CASE r # s
      <4>1. CloseFrozen(b2.pos[r], r[2]) = CloseFrozen(b1.pos[r], r[2])
        BY <2>9, <3>2
      <4>2. r # y \/ ~positions[r].listed
            => CloseFrozen(b1.pos[r], r[2]) = CloseFrozen(positions[r], r[2])
        BY <1>8, <2>7
      <4>3. ~positions[OtherDate(r)].listed => ~Closes(t, r) /\ r # y
        BY <1>11, <2>2, <2>4, <2>11, <3>2
      <4> QED BY <1>11, <4>1, <4>2, <4>3 DEF CloseWorth
    <3> QED BY <3>1, <3>2
  <2> QED BY <1>6, <2>2, <2>4, <2>5, <2>6, <2>9, <2>10, <2>12
<1> QED BY <1>9, <1>10

\* Where a trade leaves the lots of an account.
After(held, t) ==
    [held EXCEPT ![SlotTraded(t)] = IF t.offset = "open" THEN @ + t.vol ELSE @ - t.vol]

Held(pos) == [s \in Slots |-> pos[s].position]

\* Trades that an exchange can report.
Reported == {t \in Trades : KeepsDates(t.inst) => t.offset # "close"}

\* onTradeFill moves the book's lots as the trade moved the exchange's.
LEMMA TradeMoves ==
    ASSUME BookInv, BookShape, NEW t \in Reported, onTradeFill(t),
           After(Held(positions), t) \in [Slots -> Nat]
    PROVE  /\ BookShape'
           /\ Held(positions') = After(Held(positions), t)
           /\ \A s \in OpenSlots :
                  OpenFrozen(positions'[s], s[2]) =
                      Positive(OpenFrozen(positions[s], s[2]) - Worth(t, t.vol, s))
           /\ \A s \in Slots :
                  /\ positions[s].listed => positions'[s].listed
                  /\ ~positions[s].listed => CloseFrozen(positions'[s], s[2])
                                                = CloseFrozen(positions[s], s[2])
                  /\ ~positions[OtherDate(s)].listed
                     => CloseFrozen(positions'[s], s[2]) =
                            Positive(CloseFrozen(positions[s], s[2])
                                       - CloseWorth(t, t.vol, s))
<1> DEFINE z == SlotTraded(t)
           b == [pos |-> positions, acct |-> account]
           c == IF t.offset = "open" THEN Opened(market, b, t)
                ELSE Closed(market, b, t)
<1>1. /\ t \in DealType /\ t \in Trades /\ market \in MarketType
      /\ KeepsDates(t.inst) => t.offset # "close"
      /\ t.vol \in Nat /\ t.vol > 0 /\ t.dir \in Directions /\ -t.vol \in Int
  BY InputAssumption DEF Reported, BookInv, TypeOK, DealType
<1>2. z \in Slots
  BY <1>1 DEF SlotTraded, SideOpened, SideClosed, Slots, Sides, Dates, DealType
<1>3. positions \in [Slots -> PositionType]
  BY DEF BookInv, TypeOK
<1>4. \A s \in Slots : /\ positions[s].position \in Nat
                       /\ positions[s].listed \in BOOLEAN
                       /\ OpenFrozen(positions[s], s[2]) \in Nat
                       /\ CloseFrozen(positions[s], s[2]) \in Nat
  BY <1>3 DEF PositionType, OpenFrozen, CloseFrozen
<1>5. Consistent(positions, account)
  BY DEF BookInv, TypeOK, CurrMarginIsSum, ProfitsAreSums, FlatHoldsNothing,
         FrozenMarginCovered, Consistent, FlatIsClean, FlatNoMargin
<1>6. c.pos \in [Slots -> PositionType]
  BY <1>1, <1>5, OpenedKeeps, ClosedKeeps DEF Consistent
<1>7. positions' = Flattened(c.pos) /\ market' = market
  BY DEF onTradeFill
<1>8. t.offset # "open" => positions[z].position >= t.vol
  <2>1. Held(positions) \in [Slots -> Nat] /\ Held(positions)[z] = positions[z].position
    BY <1>2, <1>4 DEF Held
  <2>2. t.offset # "open" => After(Held(positions), t)[z] = positions[z].position - t.vol
    BY <1>2, <2>1 DEF After
  <2>3. After(Held(positions), t)[z] \in Nat
    BY <1>2
  <2>4. positions[z].position \in Nat
    BY <1>2, <1>4
  <2> HIDE DEF z
  <2> QED BY <1>1, <2>2, <2>3, <2>4
<1>9. \A r \in Slots :
         /\ c.pos[r].position = positions[r].position
               + (IF r = z THEN (IF t.offset = "open" THEN t.vol ELSE -t.vol) ELSE 0)
         /\ ~c.pos[r].listed => ~positions[r].listed /\ (t.offset = "open" => r # z)
         /\ OpenFrozen(c.pos[r], r[2]) = Positive(OpenFrozen(positions[r], r[2])
                                                    - Worth(t, t.vol, r))
         /\ positions[r].listed => c.pos[r].listed
         /\ ~positions[r].listed
            => CloseFrozen(c.pos[r], r[2]) = CloseFrozen(positions[r], r[2])
         /\ ~positions[OtherDate(r)].listed
            => CloseFrozen(c.pos[r], r[2]) =
                   Positive(CloseFrozen(positions[r], r[2]) - CloseWorth(t, t.vol, r))
  <2>0. \A r \in Slots : Positive(OpenFrozen(positions[r], r[2]) - 0)
                             = OpenFrozen(positions[r], r[2])
    BY <1>4, CutNothing
  <2>1. CASE t.offset = "open"
    <3> DEFINE q == FreezeLots(positions[z], t.dir, -t.vol)
               w == Wiped(q)
               slot == SlotOpened(market, positions[z], t)
    <3>1. /\ z = <<t.inst, SideOpened(t.dir), "today">>
          /\ z[2] = SideOpened(t.dir) /\ z[2] \in Sides
      BY <1>1, <2>1 DEF SlotTraded, SideOpened, Sides
    <3>2. c.pos = [positions EXCEPT ![z] = slot]
      BY <2>1, <3>1 DEF Opened
    <3>3. positions[z] \in PositionType
      BY <1>2, <1>3
    <3>4. /\ q \in PositionType /\ q.position = positions[z].position
          /\ OpenFrozen(q, z[2]) = Positive(OpenFrozen(positions[z], z[2]) + (-t.vol))
          /\ CloseFrozen(q, z[2]) = CloseFrozen(positions[z], z[2])
      <4>1. SideClosed(t.dir) # z[2]
        BY <3>1 DEF SideOpened, SideClosed
      <4> DEFINE p == positions[z]
                 by == -t.vol
                 side == z[2]
      <4>2. /\ side \in Sides /\ by \in Int /\ t.dir \in Directions
            /\ p \in PositionType /\ SideOpened(t.dir) = side /\ SideClosed(t.dir) # side
        BY <1>1, <3>1, <3>3, <4>1 DEF DealType
      <4> HIDE DEF z, p, by, side
      <4>3. LET r == FreezeLots(p, t.dir, by)
            IN /\ r \in PositionType /\ r.position = p.position
               /\ OpenFrozen(r, side) = Positive(OpenFrozen(p, side) + by)
               /\ CloseFrozen(r, side) = CloseFrozen(p, side)
        BY <4>2, FreezeLotsMoves
      <4> QED BY <4>3 DEF p, by, side
    <3> HIDE DEF q
    <3>5. /\ w \in PositionType /\ w.position = q.position
          /\ OpenFrozen(w, z[2]) = OpenFrozen(q, z[2])
          /\ CloseFrozen(w, z[2]) = CloseFrozen(q, z[2])
      BY <3>4 DEF Wiped, PositionType, OpenFrozen, CloseFrozen
    <3> HIDE DEF w
    <3>6. /\ slot.position = w.position + t.vol /\ slot.listed
          /\ OpenFrozen(slot, z[2]) = OpenFrozen(w, z[2])
          /\ CloseFrozen(slot, z[2]) = CloseFrozen(w, z[2])
      BY <3>5 DEF SlotOpened, w, q, PositionType, OpenFrozen, CloseFrozen
    <3> HIDE DEF slot, c, z
    <3>7. c.pos[z] = slot /\ \A r \in Slots : r # z => c.pos[r] = positions[r]
      BY <1>2, <1>3, <3>2
    <3>8. Positive(OpenFrozen(positions[z], z[2]) + (-t.vol))
              = Positive(OpenFrozen(positions[z], z[2]) - t.vol)
      BY <1>1, <1>2, <1>4, CutNothing
    <3>9. \A r \in Slots : Worth(t, t.vol, r) = IF r = z THEN t.vol ELSE 0
      BY <2>1 DEF Worth, z
    <3>10. ASSUME NEW r \in Slots
           PROVE  /\ c.pos[r].position = positions[r].position
                        + (IF r = z THEN t.vol ELSE 0)
                  /\ ~c.pos[r].listed => ~positions[r].listed /\ r # z
                  /\ OpenFrozen(c.pos[r], r[2]) =
                        Positive(OpenFrozen(positions[r], r[2]) - Worth(t, t.vol, r))
      <4>1. CASE r = z
        <5>1. c.pos[r].position = positions[r].position + t.vol
          BY <3>4, <3>5, <3>6, <3>7, <4>1
        <5>2. OpenFrozen(c.pos[r], r[2]) =
                  Positive(OpenFrozen(positions[r], r[2]) - t.vol)
          BY <3>4, <3>5, <3>6, <3>7, <3>8, <4>1
        <5>3. c.pos[r].listed /\ Worth(t, t.vol, r) = t.vol
          BY <3>6, <3>7, <3>9, <4>1
        <5> QED BY <4>1, <5>1, <5>2, <5>3
      <4>2. CASE r # z
        <5>1. c.pos[r] = positions[r] /\ Worth(t, t.vol, r) = 0
          BY <3>7, <3>9, <4>2
        <5>2. positions[r].position \in Nat
          BY <1>4
        <5> QED BY <2>0, <4>2, <5>1, <5>2
      <4> QED BY <4>1, <4>2
    <3>11. ASSUME NEW r \in Slots
           PROVE  /\ positions[r].listed => c.pos[r].listed
                  /\ CloseFrozen(c.pos[r], r[2]) = CloseFrozen(positions[r], r[2])
                  /\ CloseFrozen(c.pos[r], r[2]) =
                        Positive(CloseFrozen(positions[r], r[2]) - CloseWorth(t, t.vol, r))
      <4>1. CloseWorth(t, t.vol, r) = 0
        BY <2>1 DEF CloseWorth, Closes
      <4>2. Positive(CloseFrozen(positions[r], r[2]) - 0) = CloseFrozen(positions[r], r[2])
        BY <1>4, CutNothing
      <4>3. CASE r = z
        BY <3>4, <3>5, <3>6, <3>7, <4>1, <4>2, <4>3
      <4>4. CASE r # z
        BY <3>7, <4>1, <4>2, <4>4
      <4> QED BY <4>3, <4>4
    <3> QED BY <2>1, <3>10, <3>11
  <2>2. CASE t.offset # "open"
    <3>1. c = Closed(market, b, t)
      BY <2>2
    <3>2. \A r \in Slots :
             /\ c.pos[r].position = positions[r].position - (IF r = z THEN t.vol ELSE 0)
             /\ c.pos[r].listed = positions[r].listed
             /\ OpenFrozen(c.pos[r], r[2]) = OpenFrozen(positions[r], r[2])
             /\ ~positions[r].listed
                => CloseFrozen(c.pos[r], r[2]) = CloseFrozen(positions[r], r[2])
             /\ ~positions[OtherDate(r)].listed
                => CloseFrozen(c.pos[r], r[2]) =
                       Positive(CloseFrozen(positions[r], r[2]) - CloseWorth(t, t.vol, r))
      BY <1>1, <1>8, <2>2, <3>1, ClosedMoves
    <3>3. \A r \in Slots : Worth(t, t.vol, r) = 0
      BY <2>2 DEF Worth
    <3> HIDE DEF c, z
    <3> QED BY <1>1, <1>4, <2>0, <2>2, <3>2, <3>3
  <2> QED BY <2>1, <2>2
<1> HIDE DEF c
<1>10. \A s \in Slots : /\ positions'[s].position = c.pos[s].position
                        /\ positions'[s].listed = c.pos[s].listed
                        /\ OpenFrozen(positions'[s], s[2]) = OpenFrozen(c.pos[s], s[2])
                        /\ CloseFrozen(positions'[s], s[2]) = CloseFrozen(c.pos[s], s[2])
  BY <1>6, <1>7, FlattenedMoves
<1>11. Held(positions') = After(Held(positions), t)
  <2>1. ASSUME NEW s \in Slots
        PROVE  Held(positions')[s] = After(Held(positions), t)[s]
    <3>1. Held(positions')[s] = positions'[s].position
          /\ Held(positions)[s] = positions[s].position
      BY DEF Held
    <3>2. After(Held(positions), t)[s] =
              IF s = z THEN (IF t.offset = "open" THEN Held(positions)[s] + t.vol
                             ELSE Held(positions)[s] - t.vol)
              ELSE Held(positions)[s]
      BY <1>2 DEF After, Held
    <3>3. positions[s].position \in Nat
      BY <1>4
    <3> HIDE DEF z
    <3> QED BY <1>1, <1>9, <1>10, <3>1, <3>2, <3>3
  <2>2. /\ Held(positions') = [s \in Slots |-> Held(positions')[s]]
        /\ After(Held(positions), t) = [s \in Slots |-> After(Held(positions), t)[s]]
    BY DEF Held, After
  <2> QED BY <2>1, <2>2
<1>12. BookShape'
  <2>1. market'.instruments = Instruments
    BY <1>7 DEF BookShape
  <2>2. ASSUME NEW s \in Slots,
               ~positions'[s].listed \/ (s[3] = "yd" /\ ~KeepsDates(s[1]))
        PROVE  positions'[s].position = 0
    <3>1. ~positions[s].listed \/ (s[3] = "yd" /\ ~KeepsDates(s[1]))
      BY <1>9, <1>10, <2>2
    <3>2. positions[s].position = 0
      BY <3>1 DEF BookShape
    <3>3. s # z
      <4>1. ASSUME s[3] = "yd", ~KeepsDates(s[1]) PROVE s # z
        BY <4>1 DEF SlotTraded
      <4>2. ASSUME ~positions'[s].listed, s = z PROVE FALSE
        <5>1. t.offset # "open"
          BY <1>9, <1>10, <4>2
        <5>2. positions[s].position >= t.vol
          BY <1>8, <4>2, <5>1
        <5> QED BY <1>1, <3>2, <5>2
      <4> QED BY <2>2, <4>1, <4>2
    <3> QED BY <1>9, <1>10, <3>2, <3>3
  <2> QED BY <2>1, <2>2 DEF BookShape
<1>13. \A s \in OpenSlots : OpenFrozen(positions'[s], s[2]) =
              Positive(OpenFrozen(positions[s], s[2]) - Worth(t, t.vol, s))
  BY <1>9, <1>10 DEF OpenSlots
<1> HIDE DEF z
<1> QED BY <1>9, <1>10, <1>11, <1>12, <1>13

\* A tick moves no lots.
LEMMA TickMoves ==
    ASSUME BookInv, BookShape, NEW t \in Ticks, onTick(t)
    PROVE  /\ BookShape'
           /\ \A s \in Slots : positions'[s].position = positions[s].position
           /\ \A s \in OpenSlots :
                  OpenFrozen(positions'[s], s[2]) = OpenFrozen(positions[s], s[2])
           /\ \A s \in Slots :
                  /\ positions'[s].listed = positions[s].listed
                  /\ CloseFrozen(positions'[s], s[2]) = CloseFrozen(positions[s], s[2])
<1>1. positions \in [Slots -> PositionType] /\ market \in MarketType
  BY DEF BookInv, TypeOK
<1>2. market'.instruments = market.instruments
  BY <1>1 DEF onTick, Quoted, MarketType
<1>3. ASSUME NEW s \in Slots
      PROVE  /\ positions'[s].position = positions[s].position
             /\ positions'[s].listed = positions[s].listed
             /\ OpenFrozen(positions'[s], s[2]) = OpenFrozen(positions[s], s[2])
             /\ CloseFrozen(positions'[s], s[2]) = CloseFrozen(positions[s], s[2])
  <2>1. positions[s] \in PositionType
    BY <1>1
  <2>2. CASE positions' = positions
    BY <2>2
  <2>3. CASE positions' = Marked(Quoted(market, t), positions, t.inst, t.last)
    <3> DEFINE m == Quoted(market, t)
               x == MarkedProfit(m, positions[s], s, t.last)
               y == MarkedMargin(m, positions[s], s, t.last)
    <3>1. \/ positions'[s] = positions[s]
          \/ positions'[s] = [positions[s] EXCEPT !.position_profit = x, !.margin = y]
      BY <2>3 DEF Marked
    <3> HIDE DEF x, y
    <3> QED BY <2>1, <3>1 DEF PositionType, OpenFrozen, CloseFrozen
  <2> QED BY <2>2, <2>3 DEF onTick
<1> QED BY <1>2, <1>3 DEF BookShape, OpenSlots

----------------------------------------------------------------------------
(* The book mirrors the exchange.                                          *)

\* h[k] is what the book will hold when it has processed the first k trades that
\* wait for it, slot by slot and never less than nothing: after the last it is
\* what the exchange holds.
Replays(h) ==
    /\ h \in [0 .. Len(fills) -> [Slots -> Nat]]
    /\ h[0] = Held(positions)
    /\ \A k \in 1 .. Len(fills) : h[k] = After(h[k - 1], fills[k])
    /\ h[Len(fills)] = lots

MirrorInv ==
    /\ BookShape
    /\ fills \in Seq(Reported)
    /\ \E h : Replays(h)

\* A step that leaves the lots of the book and of the exchange alone.
LEMMA MirrorAlone ==
    ASSUME MirrorInv, BookShape', fills' = fills, lots' = lots,
           \A s \in Slots : positions'[s].position = positions[s].position
    PROVE  MirrorInv'
<1>1. PICK h : Replays(h)
  BY DEF MirrorInv
<1>2. Held(positions)' = Held(positions)
  BY DEF Held
<1>3. Replays(h)'
  BY <1>1, <1>2 DEF Replays
<1> QED BY <1>3 DEF MirrorInv

\* What the exchange reports of an order moves its lots as the order asked.
LEMMA FillMirrored ==
    ASSUME DeskInv, MirrorInv, NEW k \in DOMAIN working,
           NEW v \in 1 .. working[k].unfilled, NEW better \in {0, 1},
           Fill(k, v, better), DeskInv'
    PROVE  MirrorInv'
<1> DEFINE o == working[k].req
           t == Filled(o, v, better)
           s == SlotTraded(o)
           n == Len(fills)
<1>1. /\ o \in Orders /\ o \in DealType /\ s \in Slots /\ v \in 1 .. o.vol
      /\ v \in Nat
  <2>1. /\ o \in Orders /\ working[k].unfilled \in Nat
        /\ working[k].unfilled <= o.vol
    BY DEF DeskInv, CancelMsg
  <2>2. o \in DealType /\ s \in Slots /\ o.vol \in Nat
    BY <2>1, OrderFacts
  <2>3. v \in 1 .. o.vol /\ v \in Nat
    BY <2>1, <2>2
  <2> QED BY <2>1, <2>2, <2>3
<1>2. t.inst = o.inst /\ t.dir = o.dir /\ t.offset = o.offset /\ t.vol = v
  BY <1>1 DEF Filled, DealType
<1>3. t \in Reported
  <2>1. t \in Trades
    BY <1>1, TradesAssumption DEF Fill
  <2> QED BY <1>1, <1>2, <2>1, OffsetAssumption DEF Reported
<1>4. fills' = Append(fills, t) /\ positions' = positions /\ market' = market
  BY DEF Fill, vars
<1>5. SlotTraded(t) = s
  BY <1>2 DEF SlotTraded
<1>6. lots' = After(lots, t)
  BY <1>2, <1>5 DEF Fill, After
<1>7. lots' \in [Slots -> Nat]
  BY DEF DeskInv
<1> HIDE DEF o, t, s
<1>8. /\ fills \in Seq(Reported) /\ n \in Nat /\ fills' \in Seq(Reported)
      /\ Len(fills') = n + 1
      /\ \A j \in 1 .. n : fills'[j] = fills[j]
      /\ fills'[n + 1] = t
  BY <1>3, <1>4, AppendProperties, LenProperties DEF MirrorInv
<1>9. PICK h : Replays(h)
  BY DEF MirrorInv
<1> HIDE DEF n
<1> DEFINE g == [j \in 0 .. n + 1 |-> IF j <= n THEN h[j] ELSE lots']
<1>10. /\ h \in [0 .. n -> [Slots -> Nat]] /\ h[0] = Held(positions) /\ h[n] = lots
       /\ \A j \in 1 .. n : h[j] = After(h[j - 1], fills[j])
  BY <1>9 DEF Replays, n
<1>11. g \in [0 .. n + 1 -> [Slots -> Nat]]
  BY <1>7, <1>8, <1>10
<1>12. g[0] = Held(positions) /\ g[n + 1] = lots'
  BY <1>8, <1>10
<1>13. ASSUME NEW j \in 1 .. n + 1 PROVE g[j] = After(g[j - 1], fills'[j])
  <2>1. CASE j = n + 1
    <3>1. g[j] = lots' /\ g[j - 1] = lots /\ fills'[j] = t
      BY <1>8, <1>10, <2>1
    <3> QED BY <1>6, <3>1
  <2>2. CASE j # n + 1
    <3>1. j \in 1 .. n /\ j - 1 \in 0 .. n /\ j - 1 <= n /\ j <= n
      BY <1>8, <2>2
    <3>2. g[j] = h[j] /\ g[j - 1] = h[j - 1]
      BY <1>8, <3>1
    <3> QED BY <1>8, <1>10, <3>1, <3>2
  <2> QED BY <2>1, <2>2
<1> HIDE DEF g
<1>14. PICK f : f = g
  OBVIOUS
<1>15. Replays(f)'
  <2>1. Held(positions)' = f[0]
    BY <1>4, <1>12, <1>14 DEF Held
  <2>2. /\ f \in [0 .. Len(fills') -> [Slots -> Nat]] /\ f[Len(fills')] = lots'
        /\ \A j \in 1 .. Len(fills') : f[j] = After(f[j - 1], fills'[j])
    BY <1>8, <1>11, <1>12, <1>13, <1>14
  <2> QED BY <2>1, <2>2 DEF Replays, After, SlotTraded
<1> QED BY <1>4, <1>8, <1>15 DEF MirrorInv, BookShape

\* The worker processes the first of the trades that wait.
LEMMA TradeMirrored ==
    ASSUME DeskInv, BookInv, MirrorInv, ProcessTrade
    PROVE  MirrorInv'
<1> DEFINE t == Head(fills)
           n == Len(fills)
<1>1. /\ fills # <<>> /\ onTradeFill(t) /\ fills' = Tail(fills) /\ lots' = lots
  BY DEF ProcessTrade
<1>2. /\ fills \in Seq(Reported) /\ n \in Nat /\ n > 0
      /\ t \in Reported /\ t = fills[1]
      /\ fills' \in Seq(Reported)
      /\ Len(fills') = n - 1
      /\ \A j \in 1 .. n - 1 : fills'[j] = fills[j + 1]
  <2>1. fills \in Seq(Reported)
    BY DEF MirrorInv
  <2>2. n \in Nat /\ n # 0
    BY <1>1, <2>1, EmptySeq, LenProperties
  <2>3. /\ Head(fills) \in Reported /\ Tail(fills) \in Seq(Reported)
        /\ Len(Tail(fills)) = Len(fills) - 1
        /\ \A j \in 1 .. Len(Tail(fills)) : Tail(fills)[j] = fills[j + 1]
    BY <1>1, <2>1, HeadTailProperties
  <2>4. Head(fills) = fills[1]
    OBVIOUS
  <2> QED BY <1>1, <2>1, <2>2, <2>3, <2>4
<1>3. PICK h : Replays(h)
  BY DEF MirrorInv
<1> HIDE DEF t, n
<1>4. /\ h \in [0 .. n -> [Slots -> Nat]] /\ h[0] = Held(positions) /\ h[n] = lots
      /\ \A j \in 1 .. n : h[j] = After(h[j - 1], fills[j])
  BY <1>3 DEF Replays, n
<1>5. h[1] = After(Held(positions), t) /\ h[1] \in [Slots -> Nat]
  <2>1. 1 \in 1 .. n /\ 1 \in 0 .. n /\ 1 - 1 = 0
    BY <1>2
  <2> QED BY <1>2, <1>4, <2>1
<1>6. BookShape' /\ Held(positions') = h[1]
  <2>1. BookShape
    BY DEF MirrorInv
  <2> QED BY <1>1, <1>2, <1>5, <2>1, TradeMoves
<1> DEFINE g == [j \in 0 .. n - 1 |-> h[j + 1]]
<1>7. g \in [0 .. n - 1 -> [Slots -> Nat]] /\ g[0] = h[1] /\ g[n - 1] = lots
  <2>1. \A j \in 0 .. n - 1 : j + 1 \in 0 .. n
    BY <1>2
  <2>2. 0 \in 0 .. n - 1 /\ n - 1 \in 0 .. n - 1 /\ (n - 1) + 1 = n /\ 0 + 1 = 1
    BY <1>2
  <2>3. g[0] = h[0 + 1] /\ g[n - 1] = h[(n - 1) + 1]
    BY <2>2
  <2> QED BY <1>4, <2>1, <2>2, <2>3
<1>8. ASSUME NEW j \in 1 .. n - 1 PROVE g[j] = After(g[j - 1], fills'[j])
  <2>1. /\ j \in 0 .. n - 1 /\ j - 1 \in 0 .. n - 1 /\ j + 1 \in 1 .. n
        /\ (j - 1) + 1 = j /\ (j + 1) - 1 = j
    BY <1>2
  <2>2. g[j] = h[j + 1] /\ g[j - 1] = h[(j - 1) + 1]
    BY <2>1
  <2>3. h[j + 1] = After(h[(j + 1) - 1], fills[j + 1])
    BY <1>4, <2>1
  <2> QED BY <1>2, <2>1, <2>2, <2>3
<1> HIDE DEF g
<1>9. PICK f : f = g
  OBVIOUS
<1>10. Replays(f)'
  <2>1. Held(positions)' = f[0]
    BY <1>6, <1>7, <1>9 DEF Held
  <2>2. /\ f \in [0 .. Len(fills') -> [Slots -> Nat]] /\ f[Len(fills')] = lots'
        /\ \A j \in 1 .. Len(fills') : f[j] = After(f[j - 1], fills'[j])
    BY <1>1, <1>2, <1>7, <1>8, <1>9
  <2> QED BY <2>1, <2>2 DEF Replays, After, SlotTraded
<1> QED BY <1>2, <1>6, <1>10 DEF MirrorInv

\* Every step keeps it.
LEMMA MirrorKept ==
    DeskInv /\ DeskInv' /\ BookInv /\ MirrorInv /\ [DeskNext]_allVars => MirrorInv'
<1> SUFFICES ASSUME DeskInv, DeskInv', BookInv, MirrorInv, [DeskNext]_allVars
             PROVE  MirrorInv'
  OBVIOUS
<1>0. BookShape
  BY DEF MirrorInv
<1>1. ASSUME NEW o \in Orders, SendOrder(o) PROVE MirrorInv'
  BY <1>0, <1>1, RequestMoves, MirrorAlone DEF SendOrder
<1>2. CASE UndoOrder
  <2>1. Head(undo) \in Orders
    BY <1>2, HeadTailProperties DEF UndoOrder, DeskInv
  <2>2. Head(undo).vol \in Nat \ {0}
    BY <2>1, OrderFacts
  <2> QED BY <1>0, <1>2, <2>1, <2>2, ReleaseMoves, MirrorAlone DEF UndoOrder
<1>3. ASSUME NEW k \in DOMAIN working, NEW v \in 1 .. working[k].unfilled,
             NEW better \in {0, 1}, Fill(k, v, better)
      PROVE  MirrorInv'
  BY <1>3, FillMirrored
<1>4. CASE UNCHANGED <<vars, fills, lots>>
  BY <1>0, <1>4, MirrorAlone DEF vars, BookShape
<1>5. CASE ProcessCancel
  <2>1. Head(cancels) \in CancelMsg
    BY <1>5, HeadTailProperties DEF ProcessCancel, DeskInv
  <2>2. Head(cancels).req \in Orders /\ Head(cancels).unfilled \in Nat \ {0}
    BY <2>1 DEF CancelMsg
  <2> QED BY <1>0, <1>5, <2>2, ReleaseMoves, MirrorAlone DEF ProcessCancel
<1>6. CASE ProcessTrade
  BY <1>6, TradeMirrored
<1>7. ASSUME NEW t \in Ticks, ProcessTick(t) PROVE MirrorInv'
  BY <1>0, <1>7, TickMoves, MirrorAlone DEF ProcessTick
<1>8. ASSUME (\E k \in DOMAIN working : Cancel(k)) \/ UNCHANGED allVars
      PROVE  UNCHANGED <<vars, fills, lots>>
  BY <1>8 DEF Cancel, allVars, deskVars
<1> QED BY <1>1, <1>2, <1>3, <1>4, <1>5, <1>6, <1>7, <1>8 DEF DeskNext

\* The desk opens with the lots of the exchange.
LEMMA MirrorStart == DeskInit => MirrorInv
<1> SUFFICES ASSUME DeskInit PROVE MirrorInv
  OBVIOUS
<1>1. PICK b \in Snapshots : positions = b.pos /\ market = b.market
  BY DEF DeskInit, Init
<1>2. BookShape
  BY <1>1, OpeningBookAssumption DEF BookShape
<1>3. fills = <<>> /\ lots = Held(positions) /\ lots \in [Slots -> Nat]
  BY DeskStart DEF DeskInit, DeskInv, Held
<1>4. Len(fills) = 0
  BY <1>3
<1> DEFINE h == [k \in 0 .. 0 |-> lots]
<1>5. /\ h \in [0 .. 0 -> [Slots -> Nat]] /\ h[0] = lots
      /\ \A k \in 1 .. 0 : h[k] = After(h[k - 1], fills[k])
  BY <1>3
<1> HIDE DEF h
<1>6. Replays(h)
  BY <1>3, <1>4, <1>5 DEF Replays
<1>7. <<>> \in Seq(Reported)
  OBVIOUS
<1> QED BY <1>2, <1>3, <1>6, <1>7 DEF MirrorInv

\* Whatever is sent, filled, cancelled and processed, and in whatever order, the
\* book comes to hold what the exchange holds as soon as it has processed the
\* trades: onTradeFill closes the slots the offset asked for.
THEOREM BookFollowsExchange == DeskSpec => []BookMirrorsExchange
<1>1. ASSUME MirrorInv PROVE BookMirrorsExchange
  <2> SUFFICES ASSUME fills = <<>>, NEW s \in Slots
               PROVE  positions[s].position = lots[s]
    BY DEF BookMirrorsExchange
  <2>1. PICK h : Replays(h)
    BY <1>1 DEF MirrorInv
  <2>2. Len(fills) = 0
    OBVIOUS
  <2>3. lots = Held(positions)
    BY <2>1, <2>2 DEF Replays
  <2> QED BY <2>3 DEF Held
<1>2. DeskSpec => []MirrorInv
  BY MirrorStart, MirrorKept, DeskInvariant, DeskImplementsBook, BookInvariant, PTL
  DEF DeskSpec
<1> QED BY <1>1, <1>2, PTL

----------------------------------------------------------------------------
(* What the orders alive and the reports of them add up to, under any      *)
(* weight of an order's lots.                                              *)

\* The total of w over the elements of a sequence.
SeqTotal(seq, w) == Total(Len(seq), [k \in 1 .. Len(seq) |-> w[seq[k]]])

\* It is a number of lots ...
LEMMA SeqTotalType ==
    ASSUME NEW S, NEW seq \in Seq(S), NEW w \in [S -> Nat]
    PROVE  SeqTotal(seq, w) \in Nat
<1> DEFINE f == [k \in 1 .. Len(seq) |-> w[seq[k]]]
<1>1. Len(seq) \in Nat
  BY LenProperties
<1>2. \A k \in 1 .. Len(seq) : f[k] \in Nat
  BY ElementOfSeq
<1>3. f \in [1 .. Len(seq) -> Int] /\ \A k \in 1 .. Len(seq) : f[k] >= 0
  BY <1>2
<1> HIDE DEF f
<1>4. Total(Len(seq), f) \in Nat
  BY <1>1, <1>3, TotalBounds
<1> QED BY <1>4 DEF SeqTotal, f

\* ... that grows by an element's at the end ...
LEMMA SeqTotalAppend ==
    ASSUME NEW S, NEW seq \in Seq(S), NEW e \in S, NEW w \in [S -> Nat]
    PROVE  SeqTotal(Append(seq, e), w) = SeqTotal(seq, w) + w[e]
<1> DEFINE l == Len(seq)
           more == Append(seq, e)
           f == [k \in 1 .. l |-> w[seq[k]]]
           g == [k \in 1 .. l + 1 |-> w[more[k]]]
<1>1. /\ more \in Seq(S) /\ l \in Nat /\ Len(more) = l + 1
      /\ \A i \in 1 .. l : more[i] = seq[i]
      /\ more[l + 1] = e
  BY AppendProperties, LenProperties
<1>2. \A k \in 1 .. l : w[seq[k]] \in Nat
  BY ElementOfSeq
<1> HIDE DEF l, more
<1>3. g[l + 1] = w[e]
  BY <1>1
<1>4. \A k \in 1 .. l : g[k] = f[k] /\ g[k] \in Int
  BY <1>1, <1>2
<1>5. \A k \in 1 .. l + 1 : g[k] \in Int
  <2>1. w[e] \in Int
    OBVIOUS
  <2>2. ASSUME NEW k \in 1 .. l + 1 PROVE k \in 1 .. l \/ k = l + 1
    BY <1>1
  <2> QED BY <1>3, <1>4, <2>1, <2>2
<1>6. f \in [1 .. l -> Int] /\ g \in [1 .. l + 1 -> Int]
  BY <1>2, <1>5
<1> HIDE DEF f, g
<1>7. Total(l + 1, g) = Total(l, f) + g[l + 1]
  BY <1>1, <1>4, <1>6, TotalAppend
<1>8. SeqTotal(more, w) = Total(l + 1, g) /\ SeqTotal(seq, w) = Total(l, f)
  BY <1>1 DEF SeqTotal, f, g, l
<1> QED BY <1>3, <1>7, <1>8 DEF more

\* ... and shrinks by the first one's.
LEMMA SeqTotalTail ==
    ASSUME NEW S, NEW seq \in Seq(S), seq # <<>>, NEW w \in [S -> Nat]
    PROVE  /\ SeqTotal(seq, w) = SeqTotal(Tail(seq), w) + w[Head(seq)]
           /\ w[Head(seq)] \in Nat /\ SeqTotal(Tail(seq), w) \in Nat
<1> DEFINE rest == Tail(seq)
           l == Len(rest)
           f == [k \in 1 .. l |-> w[rest[k]]]
           g == [k \in 1 .. l + 1 |-> w[seq[k]]]
<1>1. /\ rest \in Seq(S) /\ l \in Nat /\ Len(seq) = l + 1 /\ Head(seq) \in S
      /\ \A i \in 1 .. l : rest[i] = seq[i + 1]
      /\ Head(seq) = seq[1]
  <2>1. rest \in Seq(S) /\ Head(seq) \in S /\ Len(rest) = Len(seq) - 1
        /\ \A i \in 1 .. l : rest[i] = seq[i + 1]
    BY HeadTailProperties
  <2>2. Len(rest) \in Nat /\ Len(seq) \in Nat
    BY <2>1, LenProperties
  <2> QED BY <2>1, <2>2
<1>2. \A k \in 1 .. l : w[rest[k]] \in Nat
  BY <1>1, ElementOfSeq
<1>3. \A k \in 1 .. Len(seq) : w[seq[k]] \in Nat
  BY ElementOfSeq
<1> HIDE DEF l, rest
<1>4. f \in [1 .. l -> Int] /\ g \in [1 .. l + 1 -> Int]
  BY <1>1, <1>2, <1>3
<1>5. ASSUME NEW j \in 1 .. l PROVE g[j + 1] = f[j]
  <2>1. j + 1 \in 1 .. l + 1
    BY <1>1
  <2> QED BY <1>1, <2>1
<1>6. g[1] = w[Head(seq)]
  <2>1. 1 \in 1 .. l + 1
    BY <1>1
  <2> QED BY <1>1, <2>1
<1> HIDE DEF f, g
<1>7. Total(l, f) \in Int /\ Total(l + 1, g) = Total(l, f) + g[1]
  BY <1>1, <1>4, <1>5, TotalTail
<1>8. SeqTotal(seq, w) = Total(l + 1, g) /\ SeqTotal(rest, w) = Total(l, f)
  BY <1>1 DEF SeqTotal, f, g, l
<1>9. SeqTotal(rest, w) \in Nat /\ w[Head(seq)] \in Nat
  BY <1>1, SeqTotalType
<1> QED BY <1>6, <1>7, <1>8, <1>9 DEF rest

\* A sequence with no elements has no lots.
LEMMA SeqTotalEmpty == ASSUME NEW w PROVE SeqTotal(<<>>, w) = 0
<1> DEFINE f == [k \in 1 .. Len(<<>>) |-> w[<<>>[k]]]
<1>1. Len(<<>>) = 0
  OBVIOUS
<1>2. f \in [1 .. 0 -> Int]
  BY <1>1
<1> HIDE DEF f
<1>3. Partial(0, f)[0] = 0
  <2>1. 0 \in Nat
    OBVIOUS
  <2> QED BY <1>2, <2>1, PartialExists
<1> QED BY <1>1, <1>3 DEF SeqTotal, Total, f

\* A weight says what v lots of an order are worth: together what they are apart.
Weighs(w) ==
    /\ w \in [DealType -> [Nat -> Nat]]
    /\ \A o \in DealType : \A u, v \in Nat : w[o][u + v] = w[o][u] + w[o][v]

\* What the exchange has working, order by order.
WorkingTerms(orders, w) ==
    [k \in 1 .. MaxOrders |->
        IF k \in DOMAIN orders THEN w[orders[k].req][orders[k].unfilled] ELSE 0]

WorkingTotal(orders, w) == Total(MaxOrders, WorkingTerms(orders, w))

\* What a final report, a trade and a request are worth.
CancelWorth(w) == [r \in CancelMsg |-> w[r.req][r.unfilled]]

TradeWorth(w) == [t \in Trades |-> w[t][t.vol]]

RequestWorth(w) == [o \in Orders |-> w[o][o.vol]]

\* All of it, of an exchange with these orders, reports, trades and releases; x
\* weighs the trades, which may carry another price than their orders.
Alive(orders, reports, trades, releases, w, x) ==
    WorkingTotal(orders, w) + SeqTotal(reports, CancelWorth(w))
        + SeqTotal(trades, TradeWorth(x)) + SeqTotal(releases, RequestWorth(w))

\* No lots are worth nothing.
LEMMA NoLots == ASSUME NEW w, Weighs(w), NEW o \in DealType PROVE w[o][0] = 0
<1>1. PICK z \in Nat : z = 0
  OBVIOUS
<1>2. w[o][z] \in Nat /\ w[o][z + z] = w[o][z] + w[o][z]
  BY DEF Weighs
<1>3. z + z = z
  BY <1>1
<1>4. PICK y \in Nat : y = w[o][z]
  BY <1>2
<1>5. y = y + y
  BY <1>2, <1>3, <1>4
<1>6. y = 0
  BY <1>5
<1> QED BY <1>1, <1>4, <1>6

\* Everything in the four places has a weight.
LEMMA WorthTypes ==
    ASSUME NEW w, Weighs(w)
    PROVE  /\ CancelWorth(w) \in [CancelMsg -> Nat]
           /\ TradeWorth(w) \in [Trades -> Nat]
           /\ RequestWorth(w) \in [Orders -> Nat]
<1>1. \A t \in Trades : t \in DealType /\ t.vol \in Nat
  BY InputAssumption DEF DealType
<1>2. \A o \in Orders : o \in DealType /\ o.vol \in Nat
  BY InputAssumption DEF DealType
<1>3. \A r \in CancelMsg : r.req \in DealType /\ r.unfilled \in Nat
  BY <1>2 DEF CancelMsg
<1>4. \A o \in DealType : \A v \in Nat : w[o][v] \in Nat
  BY DEF Weighs
<1> QED BY <1>1, <1>2, <1>3, <1>4 DEF CancelWorth, TradeWorth, RequestWorth

\* Orders of an exchange, numbered as they were sent.
Book(orders) ==
    DOMAIN orders \subseteq 1 .. MaxOrders /\ \A k \in DOMAIN orders : orders[k] \in CancelMsg

\* The terms are natural numbers, and so is their total.
LEMMA WorkingTypes ==
    ASSUME NEW orders, Book(orders), NEW w, Weighs(w)
    PROVE  /\ WorkingTerms(orders, w) \in [1 .. MaxOrders -> Int]
           /\ \A k \in 1 .. MaxOrders : WorkingTerms(orders, w)[k] \in Nat
           /\ WorkingTotal(orders, w) \in Nat
<1>1. \A k \in DOMAIN orders : orders[k].req \in DealType /\ orders[k].unfilled \in Nat
  BY InputAssumption DEF Book, CancelMsg
<1>2. \A k \in 1 .. MaxOrders : WorkingTerms(orders, w)[k] \in Nat
  <2>1. \A o \in DealType : \A v \in Nat : w[o][v] \in Nat
    BY DEF Weighs
  <2> QED BY <1>1, <2>1 DEF WorkingTerms
<1>3. /\ WorkingTerms(orders, w) \in [1 .. MaxOrders -> Int]
      /\ \A k \in 1 .. MaxOrders : WorkingTerms(orders, w)[k] >= 0
  <2>1. WorkingTerms(orders, w)
            = [k \in 1 .. MaxOrders |-> WorkingTerms(orders, w)[k]]
    BY DEF WorkingTerms
  <2> QED BY <1>2, <2>1
<1>4. WorkingTotal(orders, w) \in Nat
  <2> DEFINE f == WorkingTerms(orders, w)
  <2>1. f \in [1 .. MaxOrders -> Int] /\ \A k \in 1 .. MaxOrders : f[k] >= 0
    BY <1>3
  <2> HIDE DEF f
  <2>2. Total(MaxOrders, f) \in Nat
    BY <2>1, TotalBounds, MaxOrdersAssumption
  <2> QED BY <2>2 DEF WorkingTotal, f
<1> QED BY <1>2, <1>3, <1>4

\* When one order moves the total moves by as much.
LEMMA WorkingMoves ==
    ASSUME NEW before, Book(before), NEW after, Book(after),
           NEW k \in 1 .. MaxOrders, NEW w, Weighs(w),
           DOMAIN after \ {k} = DOMAIN before \ {k},
           \A j \in DOMAIN before \ {k} : after[j] = before[j]
    PROVE  WorkingTotal(after, w) + WorkingTerms(before, w)[k]
               = WorkingTotal(before, w) + WorkingTerms(after, w)[k]
<1> DEFINE f == WorkingTerms(before, w)
           g == WorkingTerms(after, w)
<1>1. f \in [1 .. MaxOrders -> Int] /\ g \in [1 .. MaxOrders -> Int]
      /\ f[k] \in Nat /\ g[k] \in Nat
  BY WorkingTypes
<1>2. \A j \in 1 .. MaxOrders : j # k => g[j] = f[j]
  BY DEF WorkingTerms
<1> HIDE DEF f, g
<1>3. /\ Total(MaxOrders, f) \in Int
      /\ Total(MaxOrders, g) = Total(MaxOrders, f) + g[k] - f[k]
  BY <1>1, <1>2, TotalUpdate, MaxOrdersAssumption
<1>4. Total(MaxOrders, g) + f[k] = Total(MaxOrders, f) + g[k]
  BY <1>1, <1>3
<1> QED BY <1>4 DEF WorkingTotal, f, g

\* The parts of the count, each of them a natural number.
LEMMA AliveTypes ==
    ASSUME DeskInv, NEW w, Weighs(w), NEW x, Weighs(x)
    PROVE  /\ Book(working)
           /\ WorkingTotal(working, w) \in Nat
           /\ SeqTotal(cancels, CancelWorth(w)) \in Nat
           /\ SeqTotal(fills, TradeWorth(x)) \in Nat
           /\ SeqTotal(undo, RequestWorth(w)) \in Nat
           /\ Alive(working, cancels, fills, undo, w, x) \in Nat
<1>1. Book(working)
  BY MaxOrdersAssumption DEF Book, DeskInv
<1>2. /\ WorkingTotal(working, w) \in Nat
      /\ SeqTotal(cancels, CancelWorth(w)) \in Nat
      /\ SeqTotal(fills, TradeWorth(x)) \in Nat
      /\ SeqTotal(undo, RequestWorth(w)) \in Nat
  BY <1>1, WorkingTypes, SeqTotalType, WorthTypes DEF DeskInv
<1>3. Alive(working, cancels, fills, undo, w, x) \in Nat
  BY <1>2 DEF Alive
<1> QED BY <1>1, <1>2, <1>3

\* With no order alive and no report on its way nothing is counted.
LEMMA NoneAlive ==
    ASSUME Idle, NEW w, NEW x
    PROVE  Alive(working, cancels, fills, undo, w, x) = 0
<1>1. cancels = <<>> /\ fills = <<>> /\ undo = <<>> /\ working = <<>>
  BY DEF Idle
<1>2. WorkingTotal(working, w) = 0
  <2>1. DOMAIN working = {}
    BY <1>1
  <2>2. WorkingTerms(working, w) = [k \in 1 .. MaxOrders |-> 0]
    BY <2>1 DEF WorkingTerms
  <2> QED BY <2>2, TotalZero, MaxOrdersAssumption DEF WorkingTotal
<1> QED BY <1>1, <1>2, SeqTotalEmpty DEF Alive

\* A request is counted where it went: to the exchange, or to its release.
LEMMA SendCounts ==
    ASSUME DeskInv, NEW o \in Orders, SendOrder(o), DeskInv',
           NEW w, Weighs(w), NEW x, Weighs(x)
    PROVE  Alive(working', cancels', fills', undo', w, x)
               = Alive(working, cancels, fills, undo, w, x) + w[o][o.vol]
<1> DEFINE n == sent + 1
           r == [req |-> o, unfilled |-> o.vol]
<1>1. /\ o \in DealType /\ o.vol \in Nat
  BY OrderFacts
<1>2. w[o][o.vol] \in Nat
  BY <1>1 DEF Weighs
<1>3. cancels' = cancels /\ fills' = fills /\ undo = <<>> /\ sent' = n
      /\ sent \in Nat /\ sent < MaxOrders
  BY DEF SendOrder, DeskInv
<1>4. /\ WorkingTotal(working, w) \in Nat /\ SeqTotal(cancels, CancelWorth(w)) \in Nat
      /\ SeqTotal(fills, TradeWorth(x)) \in Nat /\ SeqTotal(undo, RequestWorth(w)) \in Nat
  BY AliveTypes
<1>5. CASE undo' = <<o>> /\ working' = working
  <2>1. undo' = Append(undo, o)
    BY <1>3, <1>5
  <2>2. SeqTotal(undo', RequestWorth(w))
            = SeqTotal(undo, RequestWorth(w)) + RequestWorth(w)[o]
    BY <2>1, SeqTotalAppend, WorthTypes DEF DeskInv
  <2>3. RequestWorth(w)[o] = w[o][o.vol]
    BY DEF RequestWorth
  <2>4. Alive(working, cancels, fills, undo, w, x) =
             WorkingTotal(working, w) + SeqTotal(cancels, CancelWorth(w))
                 + SeqTotal(fills, TradeWorth(x)) + SeqTotal(undo, RequestWorth(w))
    BY DEF Alive
  <2>5. Alive(working', cancels', fills', undo', w, x) =
             WorkingTotal(working, w) + SeqTotal(cancels, CancelWorth(w))
                 + SeqTotal(fills, TradeWorth(x)) + SeqTotal(undo', RequestWorth(w))
    BY <1>3, <1>5 DEF Alive
  <2> QED BY <1>2, <1>4, <2>2, <2>3, <2>4, <2>5
<1>6. CASE /\ working' = [k \in DOMAIN working \cup {n} |->
                             IF k = n THEN r ELSE working[k]]
           /\ undo' = undo
  <2>1. n \notin DOMAIN working /\ n \in 1 .. MaxOrders
    BY <1>3, MaxOrdersAssumption DEF DeskInv
  <2>2. Book(working) /\ Book(working')
    BY AliveTypes, MaxOrdersAssumption DEF Book, DeskInv
  <2>3. WorkingTerms(working, w)[n] = 0
        /\ WorkingTerms(working', w)[n] = w[o][o.vol]
    BY <1>6, <2>1 DEF WorkingTerms
  <2>4. WorkingTotal(working', w) + WorkingTerms(working, w)[n]
            = WorkingTotal(working, w) + WorkingTerms(working', w)[n]
    BY <1>6, <2>1, <2>2, WorkingMoves
  <2>5. WorkingTotal(working', w) \in Nat
    BY <2>2, WorkingTypes
  <2> HIDE DEF n
  <2>6. Alive(working, cancels, fills, undo, w, x) =
             WorkingTotal(working, w) + SeqTotal(cancels, CancelWorth(w))
                 + SeqTotal(fills, TradeWorth(x)) + SeqTotal(undo, RequestWorth(w))
    BY DEF Alive
  <2>7. Alive(working', cancels', fills', undo', w, x) =
             WorkingTotal(working', w) + SeqTotal(cancels, CancelWorth(w))
                 + SeqTotal(fills, TradeWorth(x)) + SeqTotal(undo, RequestWorth(w))
    BY <1>3, <1>6 DEF Alive
  <2> QED BY <1>2, <1>4, <2>3, <2>4, <2>5, <2>6, <2>7
<1> QED BY <1>5, <1>6, <1>3 DEF SendOrder

\* Lots that go from the exchange to a report stay counted.
LEMMA UnfilledCounts ==
    ASSUME DeskInv, DeskInv', NEW k \in DOMAIN working,
           NEW v \in 1 .. working[k].unfilled, working' = Unfilled(k, v),
           NEW w, Weighs(w)
    PROVE  /\ WorkingTotal(working, w)
                  = WorkingTotal(working', w) + w[working[k].req][v]
           /\ WorkingTotal(working', w) \in Nat
           /\ w[working[k].req][v] \in Nat
<1> DEFINE o == working[k].req
           u == working[k].unfilled
<1>1. Book(working) /\ Book(working') /\ k \in 1 .. MaxOrders
  <2>1. Book(working)
    BY MaxOrdersAssumption DEF Book, DeskInv
  <2>2. Book(working')
    BY MaxOrdersAssumption DEF Book, DeskInv
  <2> QED BY <2>1, <2>2 DEF Book
<1>2. /\ working[k] \in CancelMsg /\ u \in Nat /\ v \in Nat /\ u - v \in Nat
      /\ o \in DealType
  <2>1. working[k] \in CancelMsg
    BY <1>1 DEF Book
  <2>2. o \in Orders /\ u \in Nat
    BY <2>1 DEF CancelMsg
  <2>3. v \in Nat /\ u - v \in Nat
    BY <2>2
  <2> QED BY <2>1, <2>2, <2>3, OrderFacts
<1>3. /\ DOMAIN working' \ {k} = DOMAIN working \ {k}
      /\ \A j \in DOMAIN working \ {k} : working'[j] = working[j]
  BY DEF Unfilled
<1>4. WorkingTotal(working', w) + WorkingTerms(working, w)[k]
          = WorkingTotal(working, w) + WorkingTerms(working', w)[k]
  BY <1>1, <1>3, WorkingMoves
<1>5. WorkingTerms(working, w)[k] = w[o][u]
  BY <1>1 DEF WorkingTerms
<1>6. WorkingTerms(working', w)[k] = w[o][u - v]
  <2>1. CASE u = v
    <3>1. k \notin DOMAIN working'
      BY <2>1 DEF Unfilled
    <3>2. u - v = 0
      BY <1>2, <2>1
    <3>3. w[o][u - v] = 0
      BY <1>2, <3>2, NoLots
    <3> QED BY <1>1, <3>1, <3>3 DEF WorkingTerms
  <2>2. CASE u # v
    <3>1. k \in DOMAIN working'
          /\ working'[k] = [working[k] EXCEPT !.unfilled = @ - v]
      BY <2>2 DEF Unfilled
    <3>2. working'[k].req = o /\ working'[k].unfilled = u - v
      BY <1>2, <3>1 DEF CancelMsg
    <3> QED BY <1>1, <3>1, <3>2 DEF WorkingTerms
  <2> QED BY <2>1, <2>2
<1>7. WorkingTotal(working, w) \in Nat /\ WorkingTotal(working', w) \in Nat
  BY <1>1, WorkingTypes
<1> HIDE DEF o, u
<1>8. w[o][u] = w[o][u - v] + w[o][v]
  <2>1. w[o][(u - v) + v] = w[o][u - v] + w[o][v]
    BY <1>2 DEF Weighs
  <2>2. (u - v) + v = u
    BY <1>2
  <2> QED BY <2>1, <2>2
<1>9. w[o][u - v] \in Nat /\ w[o][v] \in Nat
  BY <1>2 DEF Weighs
<1>10. WorkingTotal(working, w) = WorkingTotal(working', w) + w[o][v]
  <2> DEFINE rest == w[o][u - v]
  <2>1. /\ WorkingTotal(working', w) + w[o][u] = WorkingTotal(working, w) + rest
        /\ w[o][u] = rest + w[o][v] /\ rest \in Nat
    BY <1>4, <1>5, <1>6, <1>8, <1>9
  <2> HIDE DEF rest
  <2> QED BY <1>7, <1>9, <2>1
<1> QED BY <1>7, <1>9, <1>10 DEF o

\* A fill moves them to a trade, which may weigh something else.
LEMMA FillCounts ==
    ASSUME DeskInv, DeskInv', NEW k \in DOMAIN working,
           NEW v \in 1 .. working[k].unfilled, NEW better \in {0, 1},
           Fill(k, v, better), NEW w, Weighs(w), NEW x, Weighs(x)
    PROVE  LET o == working[k].req
               t == Filled(o, v, better)
           IN /\ t \in Trades /\ t.inst = o.inst /\ t.dir = o.dir
              /\ t.offset = o.offset /\ t.vol = v /\ v \in Nat
              /\ o \in DealType /\ t \in DealType
              /\ SeqTotal(fills', TradeWorth(x)) = SeqTotal(fills, TradeWorth(x)) + x[t][v]
              /\ w[o][v] \in Nat /\ x[t][v] \in Nat
              /\ Alive(working', cancels', fills', undo', w, x) \in Nat
              /\ Alive(working', cancels', fills', undo', w, x) + w[o][v]
                     = Alive(working, cancels, fills, undo, w, x) + x[t][v]
<1> DEFINE o == working[k].req
           t == Filled(o, v, better)
<1>1. /\ o \in Orders /\ o \in DealType /\ v \in Nat /\ v \in 1 .. o.vol
  <2>1. /\ o \in Orders /\ working[k].unfilled \in Nat
        /\ working[k].unfilled <= o.vol
    BY DEF DeskInv, CancelMsg
  <2>2. o \in DealType /\ o.vol \in Nat
    BY <2>1, OrderFacts
  <2>3. v \in 1 .. o.vol /\ v \in Nat
    BY <2>1, <2>2
  <2> QED BY <2>1, <2>2, <2>3
<1>2. t \in Trades /\ t \in DealType
  BY <1>1, TradesAssumption, InputAssumption DEF Fill
<1>3. t.inst = o.inst /\ t.dir = o.dir /\ t.offset = o.offset /\ t.vol = v
  BY <1>1 DEF Filled, DealType
<1>4. working' = Unfilled(k, v) /\ fills' = Append(fills, t)
      /\ cancels' = cancels /\ undo' = undo
  BY DEF Fill
<1> HIDE DEF t
<1>5. SeqTotal(fills', TradeWorth(x)) = SeqTotal(fills, TradeWorth(x)) + TradeWorth(x)[t]
  BY <1>2, <1>4, SeqTotalAppend, WorthTypes DEF DeskInv
<1>6. TradeWorth(x)[t] = x[t][v]
  BY <1>2, <1>3 DEF TradeWorth
<1> HIDE DEF o
<1>7. /\ WorkingTotal(working, w) = WorkingTotal(working', w) + w[o][v]
      /\ WorkingTotal(working', w) \in Nat
  BY <1>4, UnfilledCounts DEF o
<1>8. w[o][v] \in Nat /\ x[t][v] \in Nat
  BY <1>1, <1>2 DEF Weighs
<1>9. /\ WorkingTotal(working, w) \in Nat /\ SeqTotal(cancels, CancelWorth(w)) \in Nat
      /\ SeqTotal(fills, TradeWorth(x)) \in Nat /\ SeqTotal(undo, RequestWorth(w)) \in Nat
  BY AliveTypes
<1>10. Alive(working, cancels, fills, undo, w, x) =
          WorkingTotal(working, w) + SeqTotal(cancels, CancelWorth(w))
              + SeqTotal(fills, TradeWorth(x)) + SeqTotal(undo, RequestWorth(w))
  BY DEF Alive
<1>11. Alive(working', cancels', fills', undo', w, x) =
          WorkingTotal(working', w) + SeqTotal(cancels, CancelWorth(w))
              + SeqTotal(fills', TradeWorth(x)) + SeqTotal(undo, RequestWorth(w))
  BY <1>4 DEF Alive
<1>12. /\ Alive(working', cancels', fills', undo', w, x) \in Nat
       /\ Alive(working', cancels', fills', undo', w, x) + w[o][v]
              = Alive(working, cancels, fills, undo, w, x) + x[t][v]
  BY <1>5, <1>6, <1>7, <1>8, <1>9, <1>10, <1>11
<1> QED BY <1>1, <1>2, <1>3, <1>5, <1>6, <1>8, <1>12 DEF o, t

\* A cancel moves them to a final report.
LEMMA CancelCounts ==
    ASSUME DeskInv, DeskInv', NEW k \in DOMAIN working, Cancel(k),
           NEW w, Weighs(w), NEW x, Weighs(x)
    PROVE  Alive(working', cancels', fills', undo', w, x)
               = Alive(working, cancels, fills, undo, w, x)
<1> DEFINE v == working[k].unfilled
           o == working[k].req
<1>1. working[k] \in CancelMsg /\ v \in Nat /\ v \in 1 .. v
  BY DEF DeskInv, CancelMsg
<1>2. working' = Unfilled(k, v) /\ cancels' = Append(cancels, working[k])
      /\ fills' = fills /\ undo' = undo
  BY DEF Cancel
<1>3. SeqTotal(cancels', CancelWorth(w))
          = SeqTotal(cancels, CancelWorth(w)) + CancelWorth(w)[working[k]]
  BY <1>1, <1>2, SeqTotalAppend, WorthTypes DEF DeskInv
<1>4. CancelWorth(w)[working[k]] = w[o][v]
  BY <1>1 DEF CancelWorth
<1>5. /\ WorkingTotal(working, w) = WorkingTotal(working', w) + w[o][v]
      /\ WorkingTotal(working', w) \in Nat /\ w[o][v] \in Nat
  BY <1>1, <1>2, UnfilledCounts
<1> HIDE DEF v, o
<1>6. /\ WorkingTotal(working, w) \in Nat /\ SeqTotal(cancels, CancelWorth(w)) \in Nat
      /\ SeqTotal(fills, TradeWorth(x)) \in Nat /\ SeqTotal(undo, RequestWorth(w)) \in Nat
  BY AliveTypes
<1>7. Alive(working, cancels, fills, undo, w, x) =
          WorkingTotal(working, w) + SeqTotal(cancels, CancelWorth(w))
              + SeqTotal(fills, TradeWorth(x)) + SeqTotal(undo, RequestWorth(w))
  BY DEF Alive
<1>8. Alive(working', cancels', fills', undo', w, x) =
          WorkingTotal(working', w) + SeqTotal(cancels', CancelWorth(w))
              + SeqTotal(fills, TradeWorth(x)) + SeqTotal(undo, RequestWorth(w))
  BY <1>2 DEF Alive
<1> QED BY <1>3, <1>4, <1>5, <1>6, <1>7, <1>8

\* A final report that is processed comes off the count, ...
LEMMA ReleaseCounts ==
    ASSUME DeskInv, ProcessCancel, NEW w, Weighs(w), NEW x, Weighs(x)
    PROVE  LET r == Head(cancels)
           IN /\ r.req \in Orders /\ r.unfilled \in Nat \ {0}
              /\ w[r.req][r.unfilled] \in Nat
              /\ Alive(working', cancels', fills', undo', w, x) \in Nat
              /\ Alive(working, cancels, fills, undo, w, x)
                     = Alive(working', cancels', fills', undo', w, x)
                           + w[r.req][r.unfilled]
<1> DEFINE r == Head(cancels)
           c == CancelWorth(w)
<1>1. /\ cancels # <<>> /\ cancels' = Tail(cancels)
      /\ working' = working /\ fills' = fills /\ undo' = undo
  BY DEF ProcessCancel
<1>2. r \in CancelMsg
  BY <1>1, HeadTailProperties DEF DeskInv
<1>3. r.req \in Orders /\ r.unfilled \in Nat \ {0}
  BY <1>2 DEF CancelMsg
<1>4. c[r] = w[r.req][r.unfilled]
  BY <1>2 DEF CancelWorth
<1>5. /\ SeqTotal(cancels, c) = SeqTotal(cancels', c) + c[r]
      /\ c[r] \in Nat /\ SeqTotal(cancels', c) \in Nat
  BY <1>1, SeqTotalTail, WorthTypes DEF DeskInv
<1> HIDE DEF r, c
<1>6. /\ WorkingTotal(working, w) \in Nat
      /\ SeqTotal(fills, TradeWorth(x)) \in Nat
      /\ SeqTotal(undo, RequestWorth(w)) \in Nat
  BY AliveTypes
<1>7. Alive(working, cancels, fills, undo, w, x) =
          WorkingTotal(working, w) + SeqTotal(cancels, c)
              + SeqTotal(fills, TradeWorth(x)) + SeqTotal(undo, RequestWorth(w))
  BY DEF Alive, c
<1>8. Alive(working', cancels', fills', undo', w, x) =
          WorkingTotal(working, w) + SeqTotal(cancels', c)
              + SeqTotal(fills, TradeWorth(x)) + SeqTotal(undo, RequestWorth(w))
  BY <1>1 DEF Alive, c
<1>9. /\ Alive(working', cancels', fills', undo', w, x) \in Nat
      /\ Alive(working, cancels, fills, undo, w, x)
             = Alive(working', cancels', fills', undo', w, x) + c[r]
  BY <1>5, <1>6, <1>7, <1>8
<1> QED BY <1>3, <1>4, <1>5, <1>9 DEF r

\* ... so does the order whose request failed ...
LEMMA UndoCounts ==
    ASSUME DeskInv, UndoOrder, NEW w, Weighs(w), NEW x, Weighs(x)
    PROVE  LET o == Head(undo)
           IN /\ o \in Orders /\ o.vol \in Nat \ {0} /\ w[o][o.vol] \in Nat
              /\ Alive(working', cancels', fills', undo', w, x) \in Nat
              /\ Alive(working, cancels, fills, undo, w, x)
                     = Alive(working', cancels', fills', undo', w, x) + w[o][o.vol]
<1> DEFINE o == Head(undo)
           c == RequestWorth(w)
<1>1. /\ undo # <<>> /\ undo' = Tail(undo)
      /\ working' = working /\ fills' = fills /\ cancels' = cancels
  BY DEF UndoOrder
<1>2. o \in Orders
  BY <1>1, HeadTailProperties DEF DeskInv
<1>3. o.vol \in Nat \ {0}
  BY <1>2, OrderFacts
<1>4. c[o] = w[o][o.vol]
  BY <1>2 DEF RequestWorth
<1>5. /\ SeqTotal(undo, c) = SeqTotal(undo', c) + c[o]
      /\ c[o] \in Nat /\ SeqTotal(undo', c) \in Nat
  BY <1>1, SeqTotalTail, WorthTypes DEF DeskInv
<1> HIDE DEF o, c
<1>6. /\ WorkingTotal(working, w) \in Nat
      /\ SeqTotal(cancels, CancelWorth(w)) \in Nat
      /\ SeqTotal(fills, TradeWorth(x)) \in Nat
  BY AliveTypes
<1>7. Alive(working, cancels, fills, undo, w, x) =
          WorkingTotal(working, w) + SeqTotal(cancels, CancelWorth(w))
              + SeqTotal(fills, TradeWorth(x)) + SeqTotal(undo, c)
  BY DEF Alive, c
<1>8. Alive(working', cancels', fills', undo', w, x) =
          WorkingTotal(working, w) + SeqTotal(cancels, CancelWorth(w))
              + SeqTotal(fills, TradeWorth(x)) + SeqTotal(undo', c)
  BY <1>1 DEF Alive, c
<1>9. /\ Alive(working', cancels', fills', undo', w, x) \in Nat
      /\ Alive(working, cancels, fills, undo, w, x)
             = Alive(working', cancels', fills', undo', w, x) + c[o]
  BY <1>5, <1>6, <1>7, <1>8
<1> QED BY <1>2, <1>3, <1>4, <1>5, <1>9 DEF o

\* ... and the trade.
LEMMA TradeCounts ==
    ASSUME DeskInv, ProcessTrade, NEW w, Weighs(w), NEW x, Weighs(x)
    PROVE  LET t == Head(fills)
           IN /\ t \in Trades /\ t \in DealType /\ t.vol \in Nat \ {0}
              /\ x[t][t.vol] \in Nat
              /\ SeqTotal(fills, TradeWorth(x))
                     = SeqTotal(fills', TradeWorth(x)) + x[t][t.vol]
              /\ SeqTotal(fills', TradeWorth(x)) \in Nat
              /\ Alive(working', cancels', fills', undo', w, x) \in Nat
              /\ Alive(working, cancels, fills, undo, w, x)
                     = Alive(working', cancels', fills', undo', w, x) + x[t][t.vol]
<1> DEFINE t == Head(fills)
           c == TradeWorth(x)
<1>1. /\ fills # <<>> /\ fills' = Tail(fills)
      /\ working' = working /\ undo' = undo /\ cancels' = cancels
  BY DEF ProcessTrade
<1>2. t \in Trades
  BY <1>1, HeadTailProperties DEF DeskInv
<1>3. t \in DealType /\ t.vol \in Nat \ {0}
  BY <1>2, InputAssumption DEF DealType
<1>4. c[t] = x[t][t.vol]
  BY <1>2 DEF TradeWorth
<1>5. /\ SeqTotal(fills, c) = SeqTotal(fills', c) + c[t]
      /\ c[t] \in Nat /\ SeqTotal(fills', c) \in Nat
  BY <1>1, SeqTotalTail, WorthTypes DEF DeskInv
<1> HIDE DEF t, c
<1>6. /\ WorkingTotal(working, w) \in Nat
      /\ SeqTotal(cancels, CancelWorth(w)) \in Nat
      /\ SeqTotal(undo, RequestWorth(w)) \in Nat
  BY AliveTypes
<1>7. Alive(working, cancels, fills, undo, w, x) =
          WorkingTotal(working, w) + SeqTotal(cancels, CancelWorth(w))
              + SeqTotal(fills, c) + SeqTotal(undo, RequestWorth(w))
  BY DEF Alive, c
<1>8. Alive(working', cancels', fills', undo', w, x) =
          WorkingTotal(working, w) + SeqTotal(cancels, CancelWorth(w))
              + SeqTotal(fills', c) + SeqTotal(undo, RequestWorth(w))
  BY <1>1 DEF Alive, c
<1>9. /\ Alive(working', cancels', fills', undo', w, x) \in Nat
      /\ Alive(working, cancels, fills, undo, w, x)
             = Alive(working', cancels', fills', undo', w, x) + c[t]
  BY <1>5, <1>6, <1>7, <1>8
<1> QED BY <1>2, <1>3, <1>4, <1>5, <1>9 DEF t, c

\* A lot of the orders in c weighs one.
LotWorth(c) == [o \in DealType |-> [v \in Nat |-> IF o \in c THEN v ELSE 0]]

\* That is a weight.
LEMMA LotWeighs ==
    ASSUME NEW c
    PROVE  /\ Weighs(LotWorth(c))
           /\ \A o \in DealType : \A v \in Nat :
                  LotWorth(c)[o][v] = IF o \in c THEN v ELSE 0
<1>1. \A o \in DealType : \A v \in Nat : LotWorth(c)[o][v] = IF o \in c THEN v ELSE 0
  BY DEF LotWorth
<1>2. LotWorth(c) \in [DealType -> [Nat -> Nat]]
  BY DEF LotWorth
<1>3. Weighs(LotWorth(c))
  <2> SUFFICES ASSUME NEW o \in DealType, NEW u \in Nat, NEW v \in Nat
               PROVE  LotWorth(c)[o][u + v] = LotWorth(c)[o][u] + LotWorth(c)[o][v]
    BY <1>2 DEF Weighs
  <2>1. u + v \in Nat
    OBVIOUS
  <2>2. CASE o \in c
    BY <1>1, <2>1, <2>2
  <2>3. CASE o \notin c
    BY <1>1, <2>1, <2>3
  <2> QED BY <2>2, <2>3
<1> QED BY <1>1, <1>3

\* The lots of a set of orders, place by place.
LEMMA AliveLots ==
    ASSUME DeskInv, NEW c
    PROVE  /\ Alive(working, cancels, fills, undo, LotWorth(c), LotWorth(c)) =
                 Total(MaxOrders,
                       [k \in 1 .. MaxOrders |->
                           IF k \in DOMAIN working
                           THEN IF working[k].req \in c THEN working[k].unfilled ELSE 0
                           ELSE 0])
                 + Total(Len(cancels),
                         [k \in 1 .. Len(cancels) |->
                             IF cancels[k].req \in c THEN cancels[k].unfilled ELSE 0])
                 + Total(Len(fills),
                         [k \in 1 .. Len(fills) |->
                             IF fills[k] \in c THEN fills[k].vol ELSE 0])
                 + Total(Len(undo),
                         [k \in 1 .. Len(undo) |->
                             IF undo[k] \in c THEN undo[k].vol ELSE 0])
           /\ \A k \in DOMAIN working : working[k].req \in DealType
           /\ \A k \in 1 .. Len(cancels) : cancels[k].req \in DealType
           /\ \A k \in 1 .. Len(fills) : fills[k] \in DealType
           /\ \A k \in 1 .. Len(undo) : undo[k] \in DealType
<1> DEFINE w == LotWorth(c)
<1>1. /\ \A k \in 1 .. Len(cancels) : cancels[k] \in CancelMsg
      /\ \A k \in 1 .. Len(fills) : fills[k] \in Trades
      /\ \A k \in 1 .. Len(undo) : undo[k] \in Orders
      /\ \A k \in DOMAIN working : working[k] \in CancelMsg
  BY ElementOfSeq DEF DeskInv
<1>2. \A r \in CancelMsg : r.req \in DealType /\ r.unfilled \in Nat
  BY InputAssumption DEF CancelMsg
<1>3. /\ \A t \in Trades : t \in DealType /\ t.vol \in Nat
      /\ \A o \in Orders : o \in DealType /\ o.vol \in Nat
  BY InputAssumption DEF DealType
<1>4. \A o \in DealType : \A v \in Nat : w[o][v] = IF o \in c THEN v ELSE 0
  BY LotWeighs
<1> HIDE DEF w
<1>5. [k \in 1 .. Len(cancels) |-> CancelWorth(w)[cancels[k]]]
          = [k \in 1 .. Len(cancels) |->
                IF cancels[k].req \in c THEN cancels[k].unfilled ELSE 0]
  BY <1>1, <1>2, <1>4 DEF CancelWorth
<1>6. [k \in 1 .. Len(fills) |-> TradeWorth(w)[fills[k]]]
          = [k \in 1 .. Len(fills) |-> IF fills[k] \in c THEN fills[k].vol ELSE 0]
  BY <1>1, <1>3, <1>4 DEF TradeWorth
<1>7. [k \in 1 .. Len(undo) |-> RequestWorth(w)[undo[k]]]
          = [k \in 1 .. Len(undo) |-> IF undo[k] \in c THEN undo[k].vol ELSE 0]
  BY <1>1, <1>3, <1>4 DEF RequestWorth
<1>8. WorkingTerms(working, w)
          = [k \in 1 .. MaxOrders |->
                IF k \in DOMAIN working
                THEN IF working[k].req \in c THEN working[k].unfilled ELSE 0 ELSE 0]
  BY <1>1, <1>2, <1>4 DEF WorkingTerms
<1>9. Alive(working, cancels, fills, undo, w, w) =
          Total(MaxOrders, WorkingTerms(working, w))
          + Total(Len(cancels), [k \in 1 .. Len(cancels) |-> CancelWorth(w)[cancels[k]]])
          + Total(Len(fills), [k \in 1 .. Len(fills) |-> TradeWorth(w)[fills[k]]])
          + Total(Len(undo), [k \in 1 .. Len(undo) |-> RequestWorth(w)[undo[k]]])
  BY DEF Alive, SeqTotal, WorkingTotal
<1> QED BY <1>1, <1>2, <1>3, <1>5, <1>6, <1>7, <1>8, <1>9 DEF w

----------------------------------------------------------------------------
(* The lots frozen for opening are those of orders alive or reported.      *)

\* The orders that open a slot.
Opens(s) == {o \in DealType : o.offset = "open" /\ SlotTraded(o) = s}

OpeningWorth(s) == LotWorth(Opens(s))

OpeningInv ==
    \A s \in OpenSlots :
        OpenFrozen(positions[s], s[2])
            = Alive(working, cancels, fills, undo, OpeningWorth(s), OpeningWorth(s))

\* Their lots weigh one each, at any price.
LEMMA OpeningWeighs ==
    ASSUME NEW s
    PROVE  /\ Weighs(OpeningWorth(s))
           /\ \A o \in DealType : \A v \in Nat : OpeningWorth(s)[o][v] = Worth(o, v, s)
           /\ \A o, t \in DealType : \A v \in Nat :
                  t.inst = o.inst /\ t.dir = o.dir /\ t.offset = o.offset
                  => OpeningWorth(s)[t][v] = OpeningWorth(s)[o][v]
<1>1. \A o \in DealType : o \in Opens(s) <=> o.offset = "open" /\ SlotTraded(o) = s
  BY DEF Opens
<1>2. \A o \in DealType : \A v \in Nat : OpeningWorth(s)[o][v] = Worth(o, v, s)
  BY <1>1, LotWeighs DEF OpeningWorth, Worth
<1>3. \A o, t \in DealType : \A v \in Nat :
          t.inst = o.inst /\ t.dir = o.dir /\ t.offset = o.offset
          => Worth(t, v, s) = Worth(o, v, s)
  BY DEF Worth, SlotTraded
<1> QED BY <1>2, <1>3, LotWeighs DEF OpeningWorth

\* The first trade that waits is one the book has the lots for.
LEMMA NextTradeFits ==
    ASSUME MirrorInv, fills # <<>>
    PROVE  /\ Head(fills) \in Reported
           /\ After(Held(positions), Head(fills)) \in [Slots -> Nat]
<1>1. PICK h : Replays(h)
  BY DEF MirrorInv
<1>2. Head(fills) \in Reported /\ Head(fills) = fills[1]
  BY HeadTailProperties DEF MirrorInv
<1>3. Len(fills) \in Nat /\ Len(fills) # 0
  BY EmptySeq, LenProperties DEF MirrorInv
<1>4. 1 \in 1 .. Len(fills) /\ 1 \in 0 .. Len(fills) /\ 1 - 1 = 0
  BY <1>3
<1>5. h[1] = After(h[1 - 1], fills[1]) /\ h[1] \in [Slots -> Nat]
      /\ h[0] = Held(positions)
  BY <1>1, <1>4 DEF Replays
<1> QED BY <1>2, <1>4, <1>5

\* Every step keeps count.
LEMMA OpeningKept ==
    /\ DeskInv /\ DeskInv' /\ BookInv /\ MirrorInv /\ OpeningInv
    /\ [DeskNext]_allVars
    => OpeningInv'
<1> SUFFICES ASSUME DeskInv, DeskInv', BookInv, MirrorInv, OpeningInv,
                    [DeskNext]_allVars, NEW s \in OpenSlots
             PROVE  OpenFrozen(positions'[s], s[2])
                        = Alive(working', cancels', fills', undo',
                                OpeningWorth(s), OpeningWorth(s))
  BY DEF OpeningInv, Alive, WorkingTotal, WorkingTerms, SeqTotal, CancelWorth,
         TradeWorth, RequestWorth, OpeningWorth, LotWorth, Opens, OpenFrozen, SlotTraded
<1> DEFINE w == OpeningWorth(s)
           before == Alive(working, cancels, fills, undo, w, w)
           after == Alive(working', cancels', fills', undo', w, w)
<1>0. /\ OpenFrozen(positions[s], s[2]) = before /\ before \in Nat
      /\ Weighs(w) /\ BookShape
      /\ \A o \in DealType : \A v \in Nat : w[o][v] = Worth(o, v, s)
      /\ \A o, t \in DealType : \A v \in Nat :
             t.inst = o.inst /\ t.dir = o.dir /\ t.offset = o.offset
             => w[t][v] = w[o][v]
  BY OpeningWeighs, AliveTypes DEF OpeningInv, MirrorInv
<1> HIDE DEF w
<1>1. ASSUME NEW o \in Orders, SendOrder(o) PROVE OpenFrozen(positions'[s], s[2]) = after
  <2>1. after = before + w[o][o.vol]
    BY <1>0, <1>1, SendCounts
  <2>2. w[o][o.vol] = Worth(o, o.vol, s)
    BY <1>0, OrderFacts
  <2>3. OpenFrozen(positions'[s], s[2])
            = OpenFrozen(positions[s], s[2]) + Worth(o, o.vol, s)
    BY <1>0, <1>1, RequestMoves DEF SendOrder
  <2> HIDE DEF before, after
  <2> QED BY <1>0, <2>1, <2>2, <2>3
<1>2. ASSUME NEW k \in DOMAIN working, NEW v \in 1 .. working[k].unfilled,
             NEW better \in {0, 1}, Fill(k, v, better)
      PROVE  OpenFrozen(positions'[s], s[2]) = after
  <2> DEFINE o == working[k].req
             t == Filled(o, v, better)
  <2>1. /\ t.inst = o.inst /\ t.dir = o.dir /\ t.offset = o.offset /\ v \in Nat
        /\ o \in DealType /\ t \in DealType
        /\ w[o][v] \in Nat /\ after \in Nat /\ after + w[o][v] = before + w[t][v]
    BY <1>0, <1>2, FillCounts
  <2>2. w[t][v] = w[o][v]
    BY <1>0, <2>1
  <2>3. positions' = positions
    BY <1>2 DEF Fill, vars
  <2> HIDE DEF before, after, o, t
  <2> QED BY <1>0, <2>1, <2>2, <2>3
<1>3. ASSUME NEW k \in DOMAIN working, Cancel(k) PROVE OpenFrozen(positions'[s], s[2]) = after
  BY <1>0, <1>3, CancelCounts DEF Cancel, vars
<1>4. ASSUME UndoOrder PROVE OpenFrozen(positions'[s], s[2]) = after
  <2> DEFINE o == Head(undo)
  <2>1. /\ o \in Orders /\ o.vol \in Nat \ {0} /\ w[o][o.vol] \in Nat
        /\ after \in Nat /\ before = after + w[o][o.vol]
    BY <1>0, <1>4, UndoCounts
  <2>2. w[o][o.vol] = Worth(o, o.vol, s)
    BY <1>0, <2>1, OrderFacts
  <2>3. OpenFrozen(positions'[s], s[2])
            = Positive(OpenFrozen(positions[s], s[2]) - Worth(o, o.vol, s))
    BY <1>0, <1>4, <2>1, ReleaseMoves DEF UndoOrder
  <2>4. Positive(before - w[o][o.vol]) = after
    <3> DEFINE part == w[o][o.vol]
    <3>1. part \in Nat /\ before = after + part /\ after \in Nat
      BY <2>1
    <3> HIDE DEF before, after, part
    <3>2. Positive(before - part) = before - part
      BY <1>0, <3>1, CutNothing
    <3> QED BY <3>1, <3>2 DEF part
  <2> HIDE DEF before, after
  <2> QED BY <1>0, <2>2, <2>3, <2>4
<1>5. ASSUME ProcessCancel PROVE OpenFrozen(positions'[s], s[2]) = after
  <2> DEFINE r == Head(cancels)
             o == r.req
             v == r.unfilled
  <2>1. /\ o \in Orders /\ v \in Nat \ {0} /\ w[o][v] \in Nat
        /\ after \in Nat /\ before = after + w[o][v]
    BY <1>0, <1>5, ReleaseCounts
  <2>2. w[o][v] = Worth(o, v, s)
    BY <1>0, <2>1, OrderFacts
  <2>3. OpenFrozen(positions'[s], s[2])
            = Positive(OpenFrozen(positions[s], s[2]) - Worth(o, v, s))
    BY <1>0, <1>5, <2>1, ReleaseMoves DEF ProcessCancel
  <2>4. Positive(before - w[o][v]) = after
    <3> DEFINE part == w[o][v]
    <3>1. part \in Nat /\ before = after + part /\ after \in Nat
      BY <2>1
    <3> HIDE DEF before, after, part
    <3>2. Positive(before - part) = before - part
      BY <1>0, <3>1, CutNothing
    <3> QED BY <3>1, <3>2 DEF part
  <2> HIDE DEF before, after
  <2> QED BY <1>0, <2>2, <2>3, <2>4
<1>6. ASSUME ProcessTrade PROVE OpenFrozen(positions'[s], s[2]) = after
  <2> DEFINE t == Head(fills)
  <2>1. /\ t \in DealType /\ t.vol \in Nat \ {0} /\ w[t][t.vol] \in Nat
        /\ after \in Nat /\ before = after + w[t][t.vol]
    BY <1>0, <1>6, TradeCounts
  <2>2. w[t][t.vol] = Worth(t, t.vol, s)
    BY <1>0, <2>1
  <2>3. OpenFrozen(positions'[s], s[2])
            = Positive(OpenFrozen(positions[s], s[2]) - Worth(t, t.vol, s))
    BY <1>0, <1>6, NextTradeFits, TradeMoves DEF ProcessTrade
  <2>4. Positive(before - w[t][t.vol]) = after
    <3> DEFINE part == w[t][t.vol]
    <3>1. part \in Nat /\ before = after + part /\ after \in Nat
      BY <2>1
    <3> HIDE DEF before, after, part
    <3>2. Positive(before - part) = before - part
      BY <1>0, <3>1, CutNothing
    <3> QED BY <3>1, <3>2 DEF part
  <2> HIDE DEF before, after
  <2> QED BY <1>0, <2>2, <2>3, <2>4
<1>7. ASSUME NEW t \in Ticks, ProcessTick(t) PROVE OpenFrozen(positions'[s], s[2]) = after
  BY <1>0, <1>7, TickMoves DEF ProcessTick
<1>8. ASSUME UNCHANGED allVars PROVE OpenFrozen(positions'[s], s[2]) = after
  <2>1. positions' = positions /\ after = before
    BY <1>8 DEF allVars, vars, deskVars
  <2> HIDE DEF before, after
  <2> QED BY <1>0, <2>1
<1> QED BY <1>1, <1>2, <1>3, <1>4, <1>5, <1>6, <1>7, <1>8 DEF DeskNext, w

\* When the desk opens nothing is frozen and nothing alive.
LEMMA OpeningStart == DeskInit => OpeningInv
<1> SUFFICES ASSUME DeskInit, NEW s \in OpenSlots
             PROVE  OpenFrozen(positions[s], s[2])
                        = Alive(working, cancels, fills, undo,
                                OpeningWorth(s), OpeningWorth(s))
  BY DEF OpeningInv
<1>1. PICK b \in Snapshots : positions = b.pos
  BY DEF DeskInit, Init
<1>2. OpenFrozen(positions[s], s[2]) = 0
  BY <1>1, OpeningBookAssumption DEF OpenSlots, OpenFrozen
<1>3. Idle
  BY DEF DeskInit, Idle
<1> QED BY <1>2, <1>3, NoneAlive

\* The lots frozen for opening a slot are exactly those of orders alive or
\* reported and not yet processed, for every set of orders and however the rings
\* are drained: no release is lost, doubled or cut off at zero.
THEOREM OpeningLotsCounted == DeskSpec => []OpeningLotsExact
<1>1. ASSUME DeskInv, OpeningInv PROVE OpeningLotsExact
  <2>1. ASSUME NEW s \in OpenSlots
        PROVE  Outstanding(s)
                   = Alive(working, cancels, fills, undo, OpeningWorth(s), OpeningWorth(s))
    <3>1. \A o \in DealType : o \in Opens(s) <=> o.offset = "open" /\ SlotTraded(o) = s
      BY DEF Opens
    <3> QED BY <1>1, <3>1, AliveLots DEF OpeningWorth, Outstanding, LotsOf
  <2>2. ASSUME NEW i \in Instruments
        PROVE  /\ positions[<<i, "long", "today">>].long_frozen
                      = Outstanding(<<i, "long", "today">>)
               /\ positions[<<i, "short", "today">>].short_frozen
                      = Outstanding(<<i, "short", "today">>)
    <3>1. <<i, "long", "today">> \in OpenSlots /\ <<i, "short", "today">> \in OpenSlots
      BY DEF OpenSlots, Slots, Sides, Dates
    <3>2. \A s \in OpenSlots : OpenFrozen(positions[s], s[2]) = Outstanding(s)
      BY <1>1, <2>1 DEF OpeningInv
    <3>3. /\ OpenFrozen(positions[<<i, "long", "today">>], "long")
                 = Outstanding(<<i, "long", "today">>)
          /\ OpenFrozen(positions[<<i, "short", "today">>], "short")
                 = Outstanding(<<i, "short", "today">>)
      BY <3>1, <3>2
    <3> QED BY <3>3 DEF OpenFrozen
  <2> QED BY <2>2 DEF OpeningLotsExact
<1>2. DeskSpec => [](MirrorInv /\ OpeningInv)
  BY MirrorStart, MirrorKept, OpeningStart, OpeningKept, DeskInvariant,
     DeskImplementsBook, BookInvariant, PTL
  DEF DeskSpec
<1> QED BY <1>1, <1>2, DeskInvariant, PTL

----------------------------------------------------------------------------
(* The lots frozen for closing, on a side with one slot.                   *)

ClosingOrders(s) == {o \in DealType : Closes(o, s)}

ClosingWorth(s) == LotWorth(ClosingOrders(s))

\* What the book does not list has nothing frozen; and where it does not list the
\* slot of the other day, the count is that of the orders that close the side: of
\* none, if it lists this slot neither and no order was sent blindly.
ClosingInv ==
    \A s \in Slots :
        /\ ~positions[s].listed => CloseFrozen(positions[s], s[2]) = 0
        /\ ~positions[OtherDate(s)].listed /\ <<s[1], s[2]>> \notin blind
           => CloseFrozen(positions[s], s[2])
                  = Alive(working, cancels, fills, undo, ClosingWorth(s), ClosingWorth(s))

\* A lot weighs one, at any price.
LEMMA ClosingWeighs ==
    ASSUME NEW s
    PROVE  /\ Weighs(ClosingWorth(s))
           /\ \A o \in DealType : \A v \in Nat : ClosingWorth(s)[o][v] = CloseWorth(o, v, s)
           /\ \A o, t \in DealType : \A v \in Nat :
                  t.inst = o.inst /\ t.dir = o.dir /\ t.offset = o.offset
                  => ClosingWorth(s)[t][v] = ClosingWorth(s)[o][v]
<1>1. \A o \in DealType : o \in ClosingOrders(s) <=> Closes(o, s)
  BY DEF ClosingOrders
<1>2. \A o \in DealType : \A v \in Nat : ClosingWorth(s)[o][v] = CloseWorth(o, v, s)
  BY <1>1, LotWeighs DEF ClosingWorth, CloseWorth
<1>3. \A o, t \in DealType : \A v \in Nat :
          t.inst = o.inst /\ t.dir = o.dir /\ t.offset = o.offset
          => CloseWorth(t, v, s) = CloseWorth(o, v, s)
  BY DEF CloseWorth, Closes
<1> QED BY <1>2, <1>3, LotWeighs DEF ClosingWorth

\* An order to close a side of which no slot is listed is sent blindly.
LEMMA SentBlindly ==
    ASSUME NEW o \in Orders, SendOrder(o), NEW s \in Slots, Closes(o, s),
           ~positions[s].listed, ~positions[OtherDate(s)].listed
    PROVE  <<s[1], s[2]>> \in blind'
<1>1. s = <<s[1], s[2], s[3]>> /\ s[3] \in {"today", "yd"}
  BY DEF Slots, Dates
<1>2. o.offset # "open" /\ o.inst = s[1] /\ SideClosed(o.dir) = s[2]
  BY DEF Closes
<1>3. \A d \in Dates : ~positions[<<s[1], s[2], d>>].listed
  BY <1>1 DEF OtherDate, Dates
<1>4. TouchedSlots(positions, o) = {}
  BY <1>2, <1>3 DEF TouchedSlots
<1> QED BY <1>2, <1>4 DEF SendOrder

\* Every step keeps the count.
LEMMA ClosingKept ==
    /\ DeskInv /\ DeskInv' /\ BookInv /\ MirrorInv /\ ClosingInv
    /\ [DeskNext]_allVars
    => ClosingInv'
<1> SUFFICES ASSUME DeskInv, DeskInv', BookInv, MirrorInv, ClosingInv,
                    [DeskNext]_allVars, NEW s \in Slots
             PROVE  /\ ~positions'[s].listed => CloseFrozen(positions'[s], s[2]) = 0
                    /\ ~positions'[OtherDate(s)].listed /\ <<s[1], s[2]>> \notin blind'
                       => CloseFrozen(positions'[s], s[2])
                              = Alive(working', cancels', fills', undo',
                                      ClosingWorth(s), ClosingWorth(s))
  BY DEF ClosingInv, Alive, WorkingTotal, WorkingTerms, SeqTotal, CancelWorth,
         TradeWorth, RequestWorth, ClosingWorth, LotWorth, ClosingOrders, Closes,
         CloseFrozen, OtherDate
<1> DEFINE w == ClosingWorth(s)
           before == Alive(working, cancels, fills, undo, w, w)
           after == Alive(working', cancels', fills', undo', w, w)
           count == CloseFrozen(positions[s], s[2])
           side == <<s[1], s[2]>>
           r == OtherDate(s)
           \* What a step has to do
           Carries ==
               /\ \A z \in {s, r} : positions[z].listed => positions'[z].listed
               /\ side \in blind => side \in blind'
               /\ ~positions[s].listed => CloseFrozen(positions'[s], s[2]) = count
               /\ ~positions[r].listed /\ side \notin blind' /\ count = before
                  /\ (~positions[s].listed => count = 0)
                  => CloseFrozen(positions'[s], s[2]) = after
<1>0. /\ before \in Nat /\ Weighs(w) /\ BookShape
      /\ \A o \in DealType : \A v \in Nat : w[o][v] = CloseWorth(o, v, s)
      /\ \A o, t \in DealType : \A v \in Nat :
             t.inst = o.inst /\ t.dir = o.dir /\ t.offset = o.offset
             => w[t][v] = w[o][v]
  BY ClosingWeighs, AliveTypes DEF MirrorInv
<1>9. r \in Slots /\ count \in Nat
  <2>1. r \in Slots
    BY DEF OtherDate, Slots, Dates
  <2>2. positions[s] \in PositionType
    BY DEF BookInv, TypeOK
  <2> QED BY <2>1, <2>2 DEF CloseFrozen, PositionType
<1>10. /\ ~positions[s].listed => count = 0
       /\ ~positions[r].listed /\ side \notin blind => count = before
  BY DEF ClosingInv
<1> HIDE DEF w, r, side
<1>1. ASSUME NEW o \in Orders, SendOrder(o) PROVE Carries
  <2>1. after = before + w[o][o.vol]
    BY <1>0, <1>1, SendCounts
  <2>2. w[o][o.vol] = CloseWorth(o, o.vol, s)
    BY <1>0, OrderFacts
  <2>3. /\ \A z \in Slots : positions[z].listed => positions'[z].listed
        /\ CloseFrozen(positions'[s], s[2]) = count
               + (IF positions[s].listed THEN CloseWorth(o, o.vol, s) ELSE 0)
    BY <1>0, <1>1, RequestMoves DEF SendOrder
  <2>4. side \in blind => side \in blind'
    BY <1>1 DEF SendOrder
  <2>5. ~positions[s].listed /\ ~positions[r].listed /\ side \notin blind'
        => CloseWorth(o, o.vol, s) = 0
    BY <1>1, SentBlindly DEF r, side, CloseWorth
  <2> HIDE DEF before, after, count
  <2> QED BY <1>0, <1>9, <2>1, <2>2, <2>3, <2>4, <2>5
<1>2. ASSUME NEW k \in DOMAIN working, NEW v \in 1 .. working[k].unfilled,
             NEW better \in {0, 1}, Fill(k, v, better)
      PROVE  Carries
  <2> DEFINE o == working[k].req
             t == Filled(o, v, better)
  <2>1. /\ t.inst = o.inst /\ t.dir = o.dir /\ t.offset = o.offset /\ v \in Nat
        /\ o \in DealType /\ t \in DealType
        /\ w[o][v] \in Nat /\ after \in Nat /\ after + w[o][v] = before + w[t][v]
    BY <1>0, <1>2, FillCounts
  <2>2. w[t][v] = w[o][v]
    BY <1>0, <2>1
  <2>3. positions' = positions /\ blind' = blind
    BY <1>2 DEF Fill, vars, history
  <2> HIDE DEF before, after, o, t
  <2>4. after = before
    BY <1>0, <2>1, <2>2
  <2> QED BY <2>3, <2>4
<1>3. ASSUME NEW k \in DOMAIN working, Cancel(k) PROVE Carries
  <2>1. after = before
    BY <1>0, <1>3, CancelCounts
  <2>2. positions' = positions /\ blind' = blind
    BY <1>3 DEF Cancel, vars, history
  <2> HIDE DEF before, after
  <2> QED BY <2>1, <2>2
<1>4. ASSUME UndoOrder PROVE Carries
  <2> DEFINE o == Head(undo)
  <2>1. /\ o \in Orders /\ o.vol \in Nat \ {0} /\ w[o][o.vol] \in Nat
        /\ after \in Nat /\ before = after + w[o][o.vol]
    BY <1>0, <1>4, UndoCounts
  <2>2. w[o][o.vol] = CloseWorth(o, o.vol, s)
    BY <1>0, <2>1, OrderFacts
  <2>3. /\ \A z \in Slots : positions'[z].listed = positions[z].listed
        /\ CloseFrozen(positions'[s], s[2]) =
               IF positions[s].listed THEN Positive(count - CloseWorth(o, o.vol, s))
               ELSE count
    BY <1>0, <1>4, <2>1, ReleaseMoves DEF UndoOrder
  <2>4. blind' = blind
    BY <1>4 DEF UndoOrder, history
  <2> DEFINE part == CloseWorth(o, o.vol, s)
  <2>5. part \in Nat /\ before = after + part
    BY <2>1, <2>2
  <2> HIDE DEF before, after, count, part
  <2>6. Positive(before - part) = after
    BY <1>0, <2>1, <2>5, CutNothing
  <2>7. before = 0 => after = 0
    BY <2>1, <2>5
  <2> QED BY <1>9, <2>3, <2>4, <2>6, <2>7 DEF part
<1>5. ASSUME ProcessCancel PROVE Carries
  <2> DEFINE o == Head(cancels).req
             v == Head(cancels).unfilled
  <2>1. /\ o \in Orders /\ v \in Nat \ {0} /\ w[o][v] \in Nat
        /\ after \in Nat /\ before = after + w[o][v]
    BY <1>0, <1>5, ReleaseCounts
  <2>2. w[o][v] = CloseWorth(o, v, s)
    BY <1>0, <2>1, OrderFacts
  <2>3. /\ \A z \in Slots : positions'[z].listed = positions[z].listed
        /\ CloseFrozen(positions'[s], s[2]) =
               IF positions[s].listed THEN Positive(count - CloseWorth(o, v, s))
               ELSE count
    BY <1>0, <1>5, <2>1, ReleaseMoves DEF ProcessCancel
  <2>4. blind' = blind
    BY <1>5 DEF ProcessCancel, history
  <2> DEFINE part == CloseWorth(o, v, s)
  <2>5. part \in Nat /\ before = after + part
    BY <2>1, <2>2
  <2> HIDE DEF before, after, count, part
  <2>6. Positive(before - part) = after
    BY <1>0, <2>1, <2>5, CutNothing
  <2>7. before = 0 => after = 0
    BY <2>1, <2>5
  <2> QED BY <1>9, <2>3, <2>4, <2>6, <2>7 DEF part
<1>6. ASSUME ProcessTrade PROVE Carries
  <2> DEFINE t == Head(fills)
  <2>1. /\ t \in DealType /\ t.vol \in Nat \ {0} /\ w[t][t.vol] \in Nat
        /\ after \in Nat /\ before = after + w[t][t.vol]
    BY <1>0, <1>6, TradeCounts
  <2>2. w[t][t.vol] = CloseWorth(t, t.vol, s)
    BY <1>0, <2>1
  <2>3. /\ \A z \in Slots : positions[z].listed => positions'[z].listed
        /\ ~positions[s].listed => CloseFrozen(positions'[s], s[2]) = count
        /\ ~positions[r].listed => CloseFrozen(positions'[s], s[2])
                                     = Positive(count - CloseWorth(t, t.vol, s))
    BY <1>0, <1>6, NextTradeFits, TradeMoves DEF ProcessTrade, r
  <2>4. blind' = blind
    BY <1>6 DEF ProcessTrade, history
  <2> DEFINE part == CloseWorth(t, t.vol, s)
  <2>5. part \in Nat /\ before = after + part
    BY <2>1, <2>2
  <2> HIDE DEF before, after, count, part
  <2>6. Positive(before - part) = after
    BY <1>0, <2>1, <2>5, CutNothing
  <2> QED BY <1>9, <2>3, <2>4, <2>6 DEF part
<1>7. ASSUME NEW t \in Ticks, ProcessTick(t) PROVE Carries
  <2>1. /\ \A z \in Slots : positions'[z].listed = positions[z].listed
        /\ CloseFrozen(positions'[s], s[2]) = count
    BY <1>0, <1>7, TickMoves DEF ProcessTick
  <2>2. after = before /\ blind' = blind
    BY <1>7 DEF ProcessTick
  <2> HIDE DEF before, after, count
  <2> QED BY <1>9, <2>1, <2>2
<1>8. ASSUME UNCHANGED allVars PROVE Carries
  <2>1. positions' = positions /\ blind' = blind /\ after = before
    BY <1>8 DEF allVars, vars, deskVars, history
  <2> HIDE DEF before, after
  <2> QED BY <2>1
<1>11. Carries
  <2> HIDE DEF Carries
  <2> QED BY <1>1, <1>2, <1>3, <1>4, <1>5, <1>6, <1>7, <1>8 DEF DeskNext
<1> HIDE DEF before, after, count
<1>12. /\ ~positions'[s].listed => CloseFrozen(positions'[s], s[2]) = 0
       /\ ~positions'[r].listed /\ side \notin blind'
          => CloseFrozen(positions'[s], s[2]) = after
  BY <1>10, <1>11
<1> QED BY <1>12 DEF after, w, r, side

\* When the desk opens nothing is frozen and nothing alive.
LEMMA ClosingStart == DeskInit => ClosingInv
<1> SUFFICES ASSUME DeskInit, NEW s \in Slots
             PROVE  /\ CloseFrozen(positions[s], s[2]) = 0
                    /\ Alive(working, cancels, fills, undo,
                             ClosingWorth(s), ClosingWorth(s)) = 0
  BY DEF ClosingInv
<1>1. PICK b \in Snapshots : positions = b.pos
  BY DEF DeskInit, Init
<1>2. CloseFrozen(positions[s], s[2]) = 0
  BY <1>1, OpeningBookAssumption DEF CloseFrozen
<1>3. Idle
  BY DEF DeskInit, Idle
<1> QED BY <1>2, <1>3, NoneAlive

\* On a side with one slot the lots frozen for closing are those of the closing
\* orders alive or reported and not yet processed, if none was sent blindly: the
\* other slot's appearance apart, no sequence of fills, cancels, failed calls and
\* opening fills in between makes the two differ.
THEOREM ClosingLotsCounted == DeskSpec => []ClosingLotsExact
<1>1. ASSUME DeskInv, ClosingInv PROVE ClosingLotsExact
  <2> SUFFICES ASSUME NEW i \in Instruments, NEW side \in Sides,
                      <<i, side>> \notin blind,
                      Cardinality({s \in {<<i, side, d>> : d \in Dates} :
                                       positions[s].listed}) = 1,
                      NEW s \in {<<i, side, d>> : d \in Dates}, positions[s].listed
               PROVE  CloseFrozen(positions[s], side)
                          = LotsOf(LAMBDA o : /\ o.inst = i /\ o.offset # "open"
                                              /\ SideClosed(o.dir) = side)
    BY DEF ClosingLotsExact, CloseFrozen
  <2> DEFINE listed == {z \in {<<i, side, d>> : d \in Dates} : positions[z].listed}
  <2>1. /\ s \in Slots /\ s[1] = i /\ s[2] = side
        /\ OtherDate(s) \in {<<i, side, d>> : d \in Dates} /\ OtherDate(s) # s
    BY DEF Slots, Dates, OtherDate
  <2>2. ~positions[OtherDate(s)].listed
    <3>1. Cardinality(listed) = 1
      OBVIOUS
    <3>2. PICK z : listed = {z}
      <4>1. IsFiniteSet({<<i, side, d>> : d \in Dates})
        <5>1. {<<i, side, d>> : d \in Dates} = {<<i, side, "today">>, <<i, side, "yd">>}
          BY DEF Dates
        <5>2. IsFiniteSet({<<i, side, "today">>})
          BY FS_Singleton
        <5>3. IsFiniteSet({<<i, side, "today">>} \cup {<<i, side, "yd">>})
          BY <5>2, FS_AddElement
        <5> QED BY <5>1, <5>3
      <4>2. IsFiniteSet(listed)
        BY <4>1, FS_Subset
      <4> QED BY <3>1, <4>2, FS_Singleton
    <3>3. s \in listed
      OBVIOUS
    <3>4. OtherDate(s) \notin listed
      BY <2>1, <3>2, <3>3
    <3> QED BY <2>1, <3>4
  <2>3. CloseFrozen(positions[s], side)
            = Alive(working, cancels, fills, undo, ClosingWorth(s), ClosingWorth(s))
    BY <1>1, <2>1, <2>2 DEF ClosingInv
  <2>4. \A o \in DealType :
            o \in ClosingOrders(s)
                <=> /\ o.inst = i /\ o.offset # "open"
                    /\ SideClosed(o.dir) = side
    BY <2>1 DEF ClosingOrders, Closes
  <2> DEFINE closes(o) == o.inst = i /\ o.offset # "open" /\ SideClosed(o.dir) = side
             c == ClosingOrders(s)
             counted == Alive(working, cancels, fills, undo, LotWorth(c), LotWorth(c))
             ofWorking == [k \in 1 .. MaxOrders |->
                              IF k \in DOMAIN working
                              THEN IF closes(working[k].req)
                                   THEN working[k].unfilled ELSE 0
                              ELSE 0]
             ofCancels == [k \in 1 .. Len(cancels) |->
                              IF closes(cancels[k].req) THEN cancels[k].unfilled ELSE 0]
             ofFills == [k \in 1 .. Len(fills) |->
                            IF closes(fills[k]) THEN fills[k].vol ELSE 0]
             ofUndo == [k \in 1 .. Len(undo) |->
                           IF closes(undo[k]) THEN undo[k].vol ELSE 0]
  <2>5. LotsOf(closes) = counted
    <3>1. \A o \in DealType : o \in c <=> closes(o)
      BY <2>4
    <3>2. /\ \A k \in DOMAIN working : working[k].req \in DealType
          /\ \A k \in 1 .. Len(cancels) : cancels[k].req \in DealType
          /\ \A k \in 1 .. Len(fills) : fills[k] \in DealType
          /\ \A k \in 1 .. Len(undo) : undo[k] \in DealType
      BY <1>1, AliveLots
    <3> HIDE DEF c
    <3>3. /\ [k \in 1 .. MaxOrders |->
                 IF k \in DOMAIN working
                 THEN IF working[k].req \in c THEN working[k].unfilled ELSE 0
                 ELSE 0] = ofWorking
          /\ [k \in 1 .. Len(cancels) |->
                 IF cancels[k].req \in c THEN cancels[k].unfilled ELSE 0] = ofCancels
          /\ [k \in 1 .. Len(fills) |->
                 IF fills[k] \in c THEN fills[k].vol ELSE 0] = ofFills
          /\ [k \in 1 .. Len(undo) |->
                 IF undo[k] \in c THEN undo[k].vol ELSE 0] = ofUndo
      <4> HIDE DEF closes
      <4> QED BY <3>1, <3>2
    <3>4. LotsOf(closes) = Total(MaxOrders, ofWorking) + Total(Len(cancels), ofCancels)
                               + Total(Len(fills), ofFills) + Total(Len(undo), ofUndo)
      BY DEF LotsOf
    <3> HIDE DEF ofWorking, ofCancels, ofFills, ofUndo, closes
    <3>5. counted = Total(MaxOrders, ofWorking) + Total(Len(cancels), ofCancels)
                        + Total(Len(fills), ofFills) + Total(Len(undo), ofUndo)
      BY <1>1, <3>3, AliveLots
    <3> QED BY <3>4, <3>5
  <2>6. counted = Alive(working, cancels, fills, undo, ClosingWorth(s), ClosingWorth(s))
    BY DEF ClosingWorth
  <2>7. LotsOf(closes) = LotsOf(LAMBDA o : /\ o.inst = i /\ o.offset # "open"
                                          /\ SideClosed(o.dir) = side)
    OBVIOUS
  <2> QED BY <2>3, <2>5, <2>6, <2>7
<1>2. DeskSpec => [](MirrorInv /\ ClosingInv)
  BY MirrorStart, MirrorKept, ClosingStart, ClosingKept, DeskInvariant,
     DeskImplementsBook, BookInvariant, PTL
  DEF DeskSpec
<1> QED BY <1>1, <1>2, DeskInvariant, PTL

----------------------------------------------------------------------------
(* The margin frozen for opening orders.  Freeze and release both take the *)
(* price of the moment, so the two agree as long as the price an order's   *)
(* margin follows stands still; what a slot has frozen is then no more     *)
(* than what its live orders would freeze now.  No more, not as much: the  *)
(* first fill of a slot wipes what the others of its orders have frozen.   *)

\* What v lots of an order freeze of a slot.
MarginShareOf(m, o, v, s) ==
    IF o.offset = "open" /\ SlotTraded(o) = s THEN OrderMargin(m, o, v) ELSE 0

MarginWorth(m, s) ==
    [o \in DealType |-> [v \in Nat |-> MarginShareOf(m, o, v, s)]]

\* Trades weigh nothing: processing one wipes what its slot has frozen.
Nothing == LotWorth({})

\* While no opening trade of the slot waits to be processed.
MarginInv ==
    \A s \in Slots :
        s[1] \notin repriced /\ SeqTotal(fills, TradeWorth(OpeningWorth(s))) = 0
        => positions[s].frozen_margin
               <= Alive(working, cancels, fills, undo, MarginWorth(market, s), Nothing)

\* The margin of an order is in proportion to its lots.
LEMMA OrderMarginScales ==
    ASSUME NEW m \in MarketType, NEW o \in DealType
    PROVE  \E rate \in Nat : \A v \in Nat : OrderMargin(m, o, v) = rate * v
<1> DEFINE i == o.inst
           p == getMarginPrice(m, i, FALSE)
           price == IF m.price_type # "4" /\ p > 0 THEN p ELSE o.price
           side == SideOpened(o.dir)
           eff == EffectivePrice(m, i, price, FALSE)
           ratio == IF side = "long" THEN Info[i].longRatio ELSE Info[i].shortRatio
           lot == Larger(price * Info[i].mult + Info[i].fixed, Info[i].mini)
           future == (ratio * eff) * Info[i].mult
<1>1. i \in Instruments /\ o.price \in Nat
  BY DEF DealType
<1>2. /\ Info[i].mult \in Nat /\ Info[i].longRatio \in Nat
      /\ Info[i].shortRatio \in Nat /\ Info[i].fixed \in Nat
      /\ Info[i].mini \in Nat
  BY <1>1, InstrumentData DEF InfoType
<1>3. p \in Nat
  BY <1>1, MarketFields DEF getMarginPrice
<1>4. price \in Nat
  BY <1>1, <1>3
<1>5. \A v \in Nat :
         OrderMargin(m, o, v) = IF o.offset # "open" THEN 0
                                ELSE calcMargin(m, i, price, v, side, FALSE)
  BY DEF OrderMargin
<1> HIDE DEF price
<1>6. eff \in Nat
  BY <1>3, <1>4 DEF EffectivePrice
<1> HIDE DEF p
<1>7. lot \in Nat
  <2>1. price * Info[i].mult \in Nat
    BY <1>2, <1>4, NatTimes
  <2> QED BY <1>2, <2>1 DEF Larger
<1>8. future \in Nat
  <2>1. ratio \in Nat
    BY <1>2
  <2> HIDE DEF ratio, eff
  <2>2. ratio * eff \in Nat
    BY <1>6, <2>1, NatTimes
  <2> QED BY <1>2, <2>2, NatTimes
<1>9. CASE o.offset # "open" \/ i \notin m.instruments
  <2>1. \A v \in Nat : OrderMargin(m, o, v) = 0
    BY <1>5, <1>9 DEF calcMargin
  <2>2. \A v \in Nat : 0 * v = 0
    OBVIOUS
  <2>3. 0 \in Nat
    OBVIOUS
  <2> QED BY <2>1, <2>2, <2>3
<1>10. CASE o.offset = "open" /\ i \in m.instruments /\ Info[i].option
  <2>1. \A v \in Nat : OrderMargin(m, o, v) = lot * v
    BY <1>5, <1>10 DEF calcMargin, calcOptionsMargin
  <2> QED BY <1>7, <2>1
<1>11. CASE o.offset = "open" /\ i \in m.instruments /\ ~Info[i].option
  <2>1. \A v \in Nat : OrderMargin(m, o, v) = future * v
    BY <1>5, <1>11 DEF calcMargin, calcFuturesMargin
  <2> QED BY <1>8, <2>1
<1> QED BY <1>9, <1>10, <1>11

\* So it is a weight.
LEMMA MarginWeighs ==
    ASSUME NEW m \in MarketType, NEW s
    PROVE  /\ Weighs(MarginWorth(m, s))
           /\ \A o \in DealType : \A v \in Nat :
                  /\ MarginWorth(m, s)[o][v] = MarginShareOf(m, o, v, s)
                  /\ MarginShareOf(m, o, v, s) \in Nat
<1> DEFINE w == MarginWorth(m, s)
<1>1. \A o \in DealType : \A v \in Nat : MarginShareOf(m, o, v, s) \in Nat
  BY OrderAmounts DEF MarginShareOf
<1>2. \A o \in DealType : \A v \in Nat : w[o][v] = MarginShareOf(m, o, v, s)
  BY DEF MarginWorth
<1>3. w \in [DealType -> [Nat -> Nat]]
  BY <1>1 DEF MarginWorth
<1>4. ASSUME NEW o \in DealType, NEW u \in Nat, NEW v \in Nat
      PROVE  w[o][u + v] = w[o][u] + w[o][v]
  <2> HIDE DEF w
  <2>1. u + v \in Nat
    OBVIOUS
  <2>2. CASE o.offset = "open" /\ SlotTraded(o) = s
    <3>1. PICK rate \in Nat : \A n \in Nat : OrderMargin(m, o, n) = rate * n
      BY OrderMarginScales
    <3>2. /\ w[o][u + v] = OrderMargin(m, o, u + v)
          /\ w[o][u] = OrderMargin(m, o, u)
          /\ w[o][v] = OrderMargin(m, o, v)
      BY <1>2, <2>1, <2>2 DEF MarginShareOf
    <3>3. /\ w[o][u + v] = rate * (u + v)
          /\ w[o][u] = rate * u
          /\ w[o][v] = rate * v
      BY <2>1, <3>1, <3>2
    <3>4. rate * (u + v) = rate * u + rate * v
      BY Z3
    <3> QED BY <3>3, <3>4
  <2>3. CASE ~(o.offset = "open" /\ SlotTraded(o) = s)
    <3>1. w[o][u + v] = 0 /\ w[o][u] = 0 /\ w[o][v] = 0
      BY <1>2, <2>1, <2>3 DEF MarginShareOf
    <3> QED BY <3>1
  <2> QED BY <2>2, <2>3
<1> HIDE DEF w
<1>5. Weighs(w)
  BY <1>3, <1>4 DEF Weighs
<1> QED BY <1>1, <1>2, <1>5 DEF w

\* An order freezes at another market what it does at this one if the price its
\* margin follows is the same.
LEMMA SamePrice ==
    ASSUME NEW m \in MarketType, NEW n \in MarketType, NEW o \in DealType, NEW v \in Nat,
           n.price_type = m.price_type, n.instruments = m.instruments,
           PriceFollowed(n, o.inst) = PriceFollowed(m, o.inst)
    PROVE  OrderMargin(n, o, v) = OrderMargin(m, o, v)
<1> DEFINE i == o.inst
           p == getMarginPrice(m, i, FALSE)
           q == getMarginPrice(n, i, FALSE)
           side == SideOpened(o.dir)
<1>1. m.price_type # "4" => p = q
  BY DEF PriceFollowed
<1> HIDE DEF p, q
<1> DEFINE price == IF m.price_type # "4" /\ p > 0 THEN p ELSE o.price
<1>2. price = IF n.price_type # "4" /\ q > 0 THEN q ELSE o.price
  BY <1>1
<1> HIDE DEF price
<1>3. EffectivePrice(n, i, price, FALSE) = EffectivePrice(m, i, price, FALSE)
  BY <1>1 DEF EffectivePrice, p, q
<1>4. calcOptionsMargin(n, i, price, v, FALSE) = calcOptionsMargin(m, i, price, v, FALSE)
  BY DEF calcOptionsMargin
<1>5. calcMargin(n, i, price, v, side, FALSE) = calcMargin(m, i, price, v, side, FALSE)
  BY <1>3, <1>4 DEF calcMargin
<1>6. /\ OrderMargin(m, o, v) = IF o.offset # "open" THEN 0
                                ELSE calcMargin(m, i, price, v, side, FALSE)
      /\ OrderMargin(n, o, v) = IF o.offset # "open" THEN 0
                                ELSE calcMargin(n, i, price, v, side, FALSE)
  BY <1>2 DEF OrderMargin, price, p, q
<1>7. CASE o.offset # "open"
  BY <1>6, <1>7
<1>8. CASE o.offset = "open"
  BY <1>5, <1>6, <1>8
<1> QED BY <1>7, <1>8

\* The slot an opening order touches is the one it opens, and a closing order
\* freezes no margin.
LEMMA TouchedFreezes ==
    ASSUME NEW m \in MarketType, NEW o \in DealType, NEW v \in Nat, NEW s \in Slots
    PROVE  /\ s \in TouchedSlots(positions, o)
              => OrderMargin(m, o, v) = MarginShareOf(m, o, v, s)
           /\ s \notin TouchedSlots(positions, o) => MarginShareOf(m, o, v, s) = 0
<1>1. CASE o.offset = "open"
  BY <1>1 DEF TouchedSlots, SlotTraded, MarginShareOf
<1>2. CASE o.offset # "open"
  BY <1>2, OrderAmounts DEF MarginShareOf
<1> QED BY <1>1, <1>2

\* A request freezes its margin in the slot it opens.
LEMMA RequestFreezes ==
    ASSUME BookInv, BookShape, NEW o \in Orders, onOrderRequest(o), NEW s \in Slots
    PROVE  positions'[s].frozen_margin
               = positions[s].frozen_margin + MarginShareOf(market, o, o.vol, s)
<1>1. /\ o \in DealType /\ o.vol \in Nat /\ o.inst \in Instruments
      /\ market \in MarketType /\ positions[s] \in PositionType
  BY InputAssumption DEF DealType, BookInv, TypeOK
<1>2. positions'[s] = IF s \in TouchedSlots(positions, o)
                      THEN SlotFreeze(market, positions[s], o) ELSE positions[s]
  BY <1>1 DEF onOrderRequest, BookShape
<1>3. positions[s].frozen_margin \in Nat
  BY <1>1 DEF PositionType
<1>4. CASE s \in TouchedSlots(positions, o)
  <2>1. OrderMargin(market, o, o.vol) = MarginShareOf(market, o, o.vol, s)
    BY <1>1, <1>4, TouchedFreezes
  <2>2. SlotFreeze(market, positions[s], o).frozen_margin
            = positions[s].frozen_margin + OrderMargin(market, o, o.vol)
    BY <1>1, SlotFreezeKeeps
  <2> QED BY <1>2, <1>4, <2>1, <2>2
<1>5. CASE s \notin TouchedSlots(positions, o)
  <2>1. MarginShareOf(market, o, o.vol, s) = 0
    BY <1>1, <1>5, TouchedFreezes
  <2> QED BY <1>2, <1>3, <1>5, <2>1
<1> QED BY <1>4, <1>5

\* A release takes it off again, not below zero.
LEMMA ReleaseThaws ==
    ASSUME BookInv, NEW o \in Orders, NEW v \in Nat \ {0},
           onOrderRejectOrCancel(o, v), NEW s \in Slots
    PROVE  positions'[s].frozen_margin
               = Positive(positions[s].frozen_margin - MarginShareOf(market, o, v, s))
<1>1. /\ o \in DealType /\ v \in Nat /\ v > 0
      /\ market \in MarketType /\ positions[s] \in PositionType
  BY InputAssumption DEF DealType, BookInv, TypeOK
<1>2. positions'[s] = IF s \in TouchedSlots(positions, o)
                      THEN SlotThaw(market, positions[s], o, v) ELSE positions[s]
  BY <1>1 DEF onOrderRejectOrCancel
<1>3. positions[s].frozen_margin \in Nat
  BY <1>1 DEF PositionType
<1>4. CASE s \in TouchedSlots(positions, o)
  <2>1. OrderMargin(market, o, v) = MarginShareOf(market, o, v, s)
    BY <1>1, <1>4, TouchedFreezes
  <2>2. SlotThaw(market, positions[s], o, v).frozen_margin
            = Positive(positions[s].frozen_margin - OrderMargin(market, o, v))
    BY <1>1, SlotThawKeeps
  <2> QED BY <1>2, <1>4, <2>1, <2>2
<1>5. CASE s \notin TouchedSlots(positions, o)
  <2>1. MarginShareOf(market, o, v, s) = 0
    BY <1>1, <1>5, TouchedFreezes
  <2>2. Positive(positions[s].frozen_margin - 0) = positions[s].frozen_margin
    BY <1>3, CutNothing
  <2> QED BY <1>2, <1>5, <2>1, <2>2
<1> QED BY <1>4, <1>5

\* An opening trade wipes what its slot has frozen; a close touches no margin.
LEMMA TradeWipes ==
    ASSUME BookInv, NEW t \in Trades, onTradeFill(t), NEW s \in Slots
    PROVE  positions'[s].frozen_margin =
               IF t.offset = "open" /\ SlotTraded(t) = s THEN 0
               ELSE positions[s].frozen_margin
<1> DEFINE b == [pos |-> positions, acct |-> account]
           c == IF t.offset = "open" THEN Opened(market, b, t)
                ELSE Closed(market, b, t)
<1>1. /\ t \in DealType /\ market \in MarketType
      /\ positions \in [Slots -> PositionType]
  BY InputAssumption DEF BookInv, TypeOK
<1>2. Consistent(positions, account)
  BY DEF BookInv, TypeOK, CurrMarginIsSum, ProfitsAreSums, FlatHoldsNothing,
         FrozenMarginCovered, Consistent, FlatIsClean, FlatNoMargin
<1>3. c.pos \in [Slots -> PositionType]
  BY <1>1, <1>2, OpenedKeeps, ClosedKeeps DEF Consistent
<1>4. positions' = Flattened(c.pos)
  BY DEF onTradeFill
<1>5. c.pos[s].frozen_margin =
          IF t.offset = "open" /\ SlotTraded(t) = s THEN 0
          ELSE positions[s].frozen_margin
  <2>1. CASE t.offset = "open"
    <3> DEFINE z == <<t.inst, SideOpened(t.dir), "today">>
    <3>1. z \in Slots /\ SlotTraded(t) = z
      BY <1>1, <2>1, OpenSlot DEF SlotTraded
    <3>2. c.pos = [positions EXCEPT ![z] = SlotOpened(market, positions[z], t)]
      BY <2>1 DEF Opened
    <3> HIDE DEF z, c
    <3>3. positions[z] \in PositionType
      BY <1>1, <3>1
    <3>4. SlotOpened(market, positions[z], t).frozen_margin = 0
      BY <1>1, <3>3, SlotOpenedKeeps
    <3> QED BY <1>1, <2>1, <3>1, <3>2, <3>4
  <2>2. CASE t.offset # "open"
    <3>1. FrozenMargins(c.pos) = FrozenMargins(positions)
      BY <1>1, <1>2, <2>2, ClosedKeeps
    <3> HIDE DEF c
    <3>2. /\ FrozenMargins(c.pos)[s] = c.pos[s].frozen_margin
          /\ FrozenMargins(positions)[s] = positions[s].frozen_margin
      BY DEF FrozenMargins
    <3> QED BY <2>2, <3>1, <3>2
  <2> QED BY <2>1, <2>2
<1> HIDE DEF c
<1>6. positions'[s].frozen_margin = c.pos[s].frozen_margin
  <2>1. FrozenMargins(positions') = FrozenMargins(c.pos)
    BY <1>3, <1>4, FlattenedKeeps
  <2>2. /\ FrozenMargins(positions')[s] = positions'[s].frozen_margin
        /\ FrozenMargins(c.pos)[s] = c.pos[s].frozen_margin
    BY DEF FrozenMargins
  <2> QED BY <2>1, <2>2
<1> QED BY <1>5, <1>6

\* A tick freezes nothing and releases nothing.
LEMMA TickFreezes ==
    ASSUME BookInv, NEW t \in Ticks, onTick(t), NEW s \in Slots
    PROVE  /\ positions'[s].frozen_margin = positions[s].frozen_margin
           /\ market'.price_type = market.price_type
           /\ market'.instruments = market.instruments
<1>1. positions[s] \in PositionType /\ market \in MarketType
  BY DEF BookInv, TypeOK
<1>2. /\ market'.price_type = market.price_type
      /\ market'.instruments = market.instruments
  BY <1>1 DEF onTick, Quoted, MarketType
<1>3. CASE positions' = positions
  BY <1>2, <1>3
<1>4. CASE positions' = Marked(Quoted(market, t), positions, t.inst, t.last)
  <2> DEFINE m == Quoted(market, t)
             x == MarkedProfit(m, positions[s], s, t.last)
             y == MarkedMargin(m, positions[s], s, t.last)
  <2>1. \/ positions'[s] = positions[s]
        \/ positions'[s] = [positions[s] EXCEPT !.position_profit = x, !.margin = y]
    BY <1>4 DEF Marked
  <2> HIDE DEF x, y
  <2> QED BY <1>1, <1>2, <2>1 DEF PositionType
<1> QED BY <1>3, <1>4 DEF onTick

\* A release of no more than is counted keeps what is left within the count.
LEMMA CutWithin ==
    ASSUME NEW x \in Nat, NEW y \in Nat, NEW z \in Nat, x <= y + z
    PROVE  Positive(x - z) <= y
BY DEF Positive, Larger

\* A weight of what the orders opening a slot have frozen: the lots of others
\* weigh nothing.
WeighsSlot(w, s) ==
    /\ Weighs(w)
    /\ \A o \in DealType : \A v \in Nat :
           ~(o.offset = "open" /\ SlotTraded(o) = s) => w[o][v] = 0

\* A fill that leaves no opening trade of the slot waiting is none of the slot's
\* own, and leaves its count alone.
LEMMA FillOfOthers ==
    ASSUME DeskInv, DeskInv', NEW k \in DOMAIN working,
           NEW v \in 1 .. working[k].unfilled, NEW better \in {0, 1},
           Fill(k, v, better), NEW s, NEW w, WeighsSlot(w, s),
           SeqTotal(fills', TradeWorth(OpeningWorth(s))) = 0
    PROVE  /\ SeqTotal(fills, TradeWorth(OpeningWorth(s))) = 0
           /\ Alive(working', cancels', fills', undo', w, Nothing)
                  = Alive(working, cancels, fills, undo, w, Nothing)
<1> DEFINE o == working[k].req
           t == Filled(o, v, better)
           x == Nothing
           g == OpeningWorth(s)
           before == Alive(working, cancels, fills, undo, w, x)
           after == Alive(working', cancels', fills', undo', w, x)
           waiting == SeqTotal(fills, TradeWorth(g))
           part == g[t][v]
<1>1. /\ Weighs(w) /\ Weighs(x) /\ Weighs(g)
      /\ \A y \in DealType : \A n \in Nat : x[y][n] = 0 /\ g[y][n] = Worth(y, n, s)
  BY OpeningWeighs, LotWeighs DEF Nothing, WeighsSlot
<1>2. before \in Nat /\ waiting \in Nat
  BY <1>1, AliveTypes
<1> HIDE DEF x, g
<1>3. /\ t.inst = o.inst /\ t.dir = o.dir /\ t.offset = o.offset /\ v \in Nat
      /\ o \in DealType /\ t \in DealType
      /\ w[o][v] \in Nat /\ after \in Nat /\ after + w[o][v] = before + x[t][v]
  BY <1>1, FillCounts
<1>4. /\ SeqTotal(fills', TradeWorth(g)) = waiting + part
      /\ part \in Nat
  BY <1>1, FillCounts
<1>5. SeqTotal(fills', TradeWorth(g)) = 0
  BY DEF g
<1>6. waiting = 0 /\ part = 0
  <2> HIDE DEF part, waiting
  <2> QED BY <1>2, <1>4, <1>5
<1>7. Worth(t, v, s) = 0 /\ v # 0
  BY <1>1, <1>3, <1>6
<1>8. ~(t.offset = "open" /\ SlotTraded(t) = s)
  BY <1>7 DEF Worth
<1> HIDE DEF o, t, before, after, waiting, part
<1>9. ~(o.offset = "open" /\ SlotTraded(o) = s)
  BY <1>3, <1>8 DEF SlotTraded
<1>10. w[o][v] = 0 /\ x[t][v] = 0
  BY <1>1, <1>3, <1>9 DEF WeighsSlot
<1>11. after = before
  BY <1>2, <1>3, <1>10
<1> QED BY <1>6, <1>11 DEF waiting, g, before, after, x

\* A trade that is processed leaves the count alone, and if it opens another slot
\* so does it what waits of this one.
LEMMA TradeOfOthers ==
    ASSUME DeskInv, ProcessTrade, NEW s, NEW w, Weighs(w),
           SeqTotal(fills', TradeWorth(OpeningWorth(s))) = 0
    PROVE  LET t == Head(fills)
           IN /\ t \in Trades
              /\ ~(t.offset = "open" /\ SlotTraded(t) = s)
                 => SeqTotal(fills, TradeWorth(OpeningWorth(s))) = 0
              /\ Alive(working', cancels', fills', undo', w, Nothing) \in Nat
              /\ Alive(working', cancels', fills', undo', w, Nothing)
                     = Alive(working, cancels, fills, undo, w, Nothing)
<1> DEFINE t == Head(fills)
           x == Nothing
           g == OpeningWorth(s)
           before == Alive(working, cancels, fills, undo, w, x)
           after == Alive(working', cancels', fills', undo', w, x)
           waiting == SeqTotal(fills, TradeWorth(g))
<1>1. /\ Weighs(x) /\ Weighs(g)
      /\ \A y \in DealType : \A n \in Nat : x[y][n] = 0 /\ g[y][n] = Worth(y, n, s)
  BY OpeningWeighs, LotWeighs DEF Nothing
<1> HIDE DEF x, g
<1>2. /\ t \in Trades /\ t \in DealType /\ t.vol \in Nat \ {0}
      /\ x[t][t.vol] \in Nat
      /\ after \in Nat /\ before = after + x[t][t.vol]
  BY <1>1, TradeCounts
<1>3. /\ waiting = SeqTotal(fills', TradeWorth(g)) + g[t][t.vol]
      /\ SeqTotal(fills', TradeWorth(g)) = 0
  BY <1>1, TradeCounts DEF g
<1>4. x[t][t.vol] = 0 /\ g[t][t.vol] = Worth(t, t.vol, s)
  BY <1>1, <1>2
<1>5. ASSUME ~(t.offset = "open" /\ SlotTraded(t) = s) PROVE waiting = 0
  <2>1. g[t][t.vol] = 0
    BY <1>4, <1>5 DEF Worth
  <2> HIDE DEF waiting
  <2> QED BY <1>3, <2>1
<1>6. after = before
  <2> HIDE DEF before, after
  <2> QED BY <1>2, <1>4
<1> HIDE DEF before, after, waiting, t
<1> QED BY <1>2, <1>5, <1>6 DEF t, x, g, before, after, waiting

\* Every step keeps what a slot has frozen within what its orders count.
LEMMA MarginKept ==
    /\ DeskInv /\ DeskInv' /\ BookInv /\ BookInv' /\ MirrorInv /\ MarginInv
    /\ [DeskNext]_allVars
    => MarginInv'
<1> SUFFICES ASSUME DeskInv, DeskInv', BookInv, BookInv', MirrorInv, MarginInv,
                    [DeskNext]_allVars, NEW s \in Slots,
                    s[1] \notin repriced',
                    SeqTotal(fills', TradeWorth(OpeningWorth(s))) = 0
             PROVE  positions'[s].frozen_margin
                        <= Alive(working', cancels', fills', undo',
                                 MarginWorth(market', s), Nothing)
  BY DEF MarginInv, Alive, WorkingTotal, WorkingTerms, SeqTotal, CancelWorth,
         TradeWorth, RequestWorth, OpeningWorth, LotWorth, Opens, SlotTraded,
         MarginWorth, MarginShareOf, OrderMargin, Nothing
<1> DEFINE w == MarginWorth(market, s)
           x == Nothing
           g == OpeningWorth(s)
           before == Alive(working, cancels, fills, undo, w, x)
           after == Alive(working', cancels', fills', undo', w, x)
           waiting == SeqTotal(fills, TradeWorth(g))
           held == positions[s].frozen_margin
           Bounded == market' = market /\ positions'[s].frozen_margin <= after
<1>1. /\ Weighs(w) /\ Weighs(x) /\ Weighs(g) /\ BookShape /\ WeighsSlot(w, s)
      /\ \A o \in DealType : \A v \in Nat :
             /\ w[o][v] = MarginShareOf(market, o, v, s)
             /\ MarginShareOf(market, o, v, s) \in Nat
  <2>1. market \in MarketType
    BY DEF BookInv, TypeOK
  <2>2. /\ Weighs(w)
        /\ \A o \in DealType : \A v \in Nat :
               /\ w[o][v] = MarginShareOf(market, o, v, s)
               /\ MarginShareOf(market, o, v, s) \in Nat
    BY <2>1, MarginWeighs
  <2> HIDE DEF w
  <2>3. WeighsSlot(w, s)
    BY <2>2 DEF WeighsSlot, MarginShareOf
  <2> QED BY <2>2, <2>3, OpeningWeighs, LotWeighs DEF Nothing, MirrorInv
<1>2. held \in Nat /\ before \in Nat /\ waiting \in Nat
  <2>1. held \in Nat
    <3>1. positions[s] \in PositionType
      BY DEF BookInv, TypeOK
    <3> QED BY <3>1 DEF PositionType
  <2>2. waiting \in Nat
    BY <1>1, AliveTypes
  <2> QED BY <1>1, <2>1, <2>2, AliveTypes
<1>3. s[1] \notin repriced /\ waiting = 0 => held <= before
  BY DEF MarginInv
<1> HIDE DEF w, x, g
<1>4. SeqTotal(fills', TradeWorth(g)) = 0
  BY DEF g
<1>5. ASSUME NEW o \in Orders, SendOrder(o) PROVE Bounded
  <2>1. after = before + w[o][o.vol]
    BY <1>1, <1>5, SendCounts
  <2>2. /\ w[o][o.vol] = MarginShareOf(market, o, o.vol, s)
        /\ MarginShareOf(market, o, o.vol, s) \in Nat
    BY <1>1, OrderFacts
  <2>3. positions'[s].frozen_margin = held + MarginShareOf(market, o, o.vol, s)
    BY <1>1, <1>5, RequestFreezes DEF SendOrder
  <2>4. market' = market
    BY <1>5 DEF SendOrder, onOrderRequest
  <2>5. fills' = fills /\ repriced' = repriced
    BY <1>5 DEF SendOrder
  <2>6. held <= before
    BY <1>3, <1>4, <2>5
  <2> HIDE DEF before, after, held
  <2> QED BY <1>2, <2>1, <2>2, <2>3, <2>4, <2>6
<1>6. ASSUME NEW k \in DOMAIN working, NEW v \in 1 .. working[k].unfilled,
             NEW better \in {0, 1}, Fill(k, v, better)
      PROVE  Bounded
  <2>1. waiting = 0 /\ after = before
    BY <1>1, <1>4, <1>6, FillOfOthers DEF x, g
  <2>2. positions' = positions /\ market' = market /\ repriced' = repriced
    BY <1>6 DEF Fill, vars, history
  <2>3. held <= before
    BY <1>3, <2>1, <2>2
  <2> HIDE DEF before, after
  <2> QED BY <2>1, <2>2, <2>3
<1>7. ASSUME NEW k \in DOMAIN working, Cancel(k) PROVE Bounded
  <2>1. after = before
    BY <1>1, <1>7, CancelCounts
  <2>2. /\ positions' = positions /\ market' = market /\ repriced' = repriced
        /\ fills' = fills
    BY <1>7 DEF Cancel, vars, history
  <2>3. held <= before
    BY <1>3, <1>4, <2>2
  <2> HIDE DEF before, after
  <2> QED BY <2>1, <2>2, <2>3
<1>8. ASSUME UndoOrder PROVE Bounded
  <2> DEFINE o == Head(undo)
             part == w[o][o.vol]
  <2>1. /\ o \in Orders /\ o.vol \in Nat \ {0} /\ part \in Nat
        /\ after \in Nat /\ before = after + part
    BY <1>1, <1>8, UndoCounts
  <2>2. part = MarginShareOf(market, o, o.vol, s)
    BY <1>1, <2>1, OrderFacts
  <2>3. positions'[s].frozen_margin
            = Positive(held - MarginShareOf(market, o, o.vol, s))
    BY <1>8, <2>1, ReleaseThaws DEF UndoOrder
  <2>4. /\ market' = market /\ repriced' = repriced /\ fills' = fills
    BY <1>8 DEF UndoOrder, onOrderRejectOrCancel, history
  <2>5. held <= before
    BY <1>3, <1>4, <2>4
  <2> HIDE DEF before, after, held, part
  <2>6. Positive(held - part) <= after
    BY <1>2, <2>1, <2>5, CutWithin
  <2> QED BY <2>2, <2>3, <2>4, <2>6
<1>9. ASSUME ProcessCancel PROVE Bounded
  <2> DEFINE o == Head(cancels).req
             v == Head(cancels).unfilled
             part == w[o][v]
  <2>1. /\ o \in Orders /\ v \in Nat \ {0} /\ part \in Nat
        /\ after \in Nat /\ before = after + part
    BY <1>1, <1>9, ReleaseCounts
  <2>2. part = MarginShareOf(market, o, v, s)
    BY <1>1, <2>1, OrderFacts
  <2>3. positions'[s].frozen_margin = Positive(held - MarginShareOf(market, o, v, s))
    BY <1>9, <2>1, ReleaseThaws DEF ProcessCancel
  <2>4. /\ market' = market /\ repriced' = repriced /\ fills' = fills
    BY <1>9 DEF ProcessCancel, onOrderRejectOrCancel, history
  <2>5. held <= before
    BY <1>3, <1>4, <2>4
  <2> HIDE DEF before, after, held, part
  <2>6. Positive(held - part) <= after
    BY <1>2, <2>1, <2>5, CutWithin
  <2> QED BY <2>2, <2>3, <2>4, <2>6
<1>10. ASSUME ProcessTrade PROVE Bounded
  <2> DEFINE t == Head(fills)
  <2>1. /\ t \in Trades /\ after \in Nat /\ after = before
        /\ ~(t.offset = "open" /\ SlotTraded(t) = s) => waiting = 0
    BY <1>1, <1>4, <1>10, TradeOfOthers DEF x, g
  <2>2. /\ market' = market /\ repriced' = repriced
    BY <1>10 DEF ProcessTrade, onTradeFill, history
  <2>3. positions'[s].frozen_margin =
            IF t.offset = "open" /\ SlotTraded(t) = s THEN 0 ELSE held
    BY <1>10, <2>1, TradeWipes DEF ProcessTrade
  <2>4. CASE t.offset = "open" /\ SlotTraded(t) = s
    <3> HIDE DEF before, after, held
    <3> QED BY <2>1, <2>2, <2>3, <2>4
  <2>5. CASE ~(t.offset = "open" /\ SlotTraded(t) = s)
    <3>1. held <= before
      BY <1>3, <2>1, <2>2, <2>5
    <3> HIDE DEF before, after, held
    <3> QED BY <2>1, <2>2, <2>3, <2>5, <3>1
  <2> QED BY <2>4, <2>5
<1>11. ASSUME NEW t \in Ticks, ProcessTick(t)
       PROVE  positions'[s].frozen_margin
                  <= Alive(working', cancels', fills', undo',
                           MarginWorth(market', s), Nothing)
  <2> DEFINE n == MarginWorth(market', s)
             now == Alive(working', cancels', fills', undo', n, x)
  <2>1. /\ working' = working /\ cancels' = cancels /\ fills' = fills /\ undo' = undo
        /\ repriced \subseteq repriced' /\ onTick(t)
    BY <1>11 DEF ProcessTick
  <2>2. /\ positions'[s].frozen_margin = held
        /\ market'.price_type = market.price_type
        /\ market'.instruments = market.instruments
    BY <2>1, TickFreezes
  <2>3. market' \in MarketType /\ market \in MarketType
    BY DEF BookInv, TypeOK
  <2>4. held <= before
    BY <1>3, <1>4, <2>1
  <2>5. now \in Nat
    <3>1. Weighs(n)
      BY <2>3, MarginWeighs
    <3> HIDE DEF n
    <3>2. Alive(working, cancels, fills, undo, n, x) \in Nat
      BY <1>1, <3>1, AliveTypes
    <3> QED BY <2>1, <3>2
  <2>6. CASE Idle
    <3>1. before = 0
      BY <2>6, NoneAlive
    <3> HIDE DEF before, held, now
    <3>2. held = 0
      BY <1>2, <2>4, <3>1
    <3>3. positions'[s].frozen_margin <= now
      BY <2>2, <2>5, <3>2
    <3> QED BY <3>3 DEF now, n, x
  <2>7. CASE ~Idle
    <3>1. s[1] \in Instruments
      BY DEF Slots
    <3>2. PriceFollowed(market', s[1]) = PriceFollowed(market, s[1])
      BY <1>11, <2>7, <3>1 DEF ProcessTick
    <3>3. \A o \in DealType : \A v \in Nat :
              MarginShareOf(market', o, v, s) = MarginShareOf(market, o, v, s)
      <4> SUFFICES ASSUME NEW o \in DealType, NEW v \in Nat,
                          o.offset = "open", SlotTraded(o) = s
                   PROVE  OrderMargin(market', o, v) = OrderMargin(market, o, v)
        BY DEF MarginShareOf
      <4>1. o.inst = s[1]
        BY DEF SlotTraded
      <4> QED BY <2>2, <2>3, <3>2, <4>1, SamePrice
    <3>4. n = w
      BY <3>3 DEF MarginWorth, w
    <3>5. now = before
      BY <2>1, <3>4
    <3> HIDE DEF before, held, now
    <3>6. positions'[s].frozen_margin <= now
      BY <2>2, <2>4, <3>5
    <3> QED BY <3>6 DEF now, n, x
  <2> QED BY <2>6, <2>7
<1>12. ASSUME UNCHANGED allVars PROVE Bounded
  <2>1. /\ positions' = positions /\ market' = market /\ repriced' = repriced
        /\ fills' = fills /\ after = before
    BY <1>12 DEF allVars, vars, deskVars, history
  <2>2. held <= before
    BY <1>3, <1>4, <2>1
  <2> HIDE DEF before, after
  <2> QED BY <2>1, <2>2
<1>13. ASSUME Bounded
       PROVE  positions'[s].frozen_margin
                  <= Alive(working', cancels', fills', undo',
                           MarginWorth(market', s), Nothing)
  BY <1>13 DEF w, x
<1> HIDE DEF Bounded
<1> QED BY <1>5, <1>6, <1>7, <1>8, <1>9, <1>10, <1>11, <1>12, <1>13 DEF DeskNext

\* The desk opens with no margin frozen.
LEMMA MarginStart == DeskInit => MarginInv
<1> SUFFICES ASSUME DeskInit, NEW s \in Slots
             PROVE  positions[s].frozen_margin
                        <= Alive(working, cancels, fills, undo,
                                 MarginWorth(market, s), Nothing)
  BY DEF MarginInv
<1>1. PICK b \in Snapshots : positions = b.pos
  BY DEF DeskInit, Init
<1>2. positions[s].frozen_margin = 0
  BY <1>1, OpeningBookAssumption
<1>3. Idle
  BY DEF DeskInit, Idle
<1>4. Alive(working, cancels, fills, undo, MarginWorth(market, s), Nothing) = 0
  BY <1>3, NoneAlive
<1> QED BY <1>2, <1>4

\* A column of zeros adds up to zero.
LEMMA NothingInSlots ==
    ASSUME NEW f, \A s \in Slots : f[s] = 0
    PROVE  SlotTotal(f) = 0
<1>1. \A i \in Instruments, a \in Sides, d \in Dates : <<i, a, d>> \in Slots
  BY DEF Slots
<1>2. \A i \in Instruments, a \in Sides, d \in Dates : f[<<i, a, d>>] = 0
  BY <1>1
<1>3. ASSUME NEW i \in Instruments PROVE OfInstrument(f, i) = 0
  <2>1. /\ f[<<i, "long", "today">>] = 0 /\ f[<<i, "long", "yd">>] = 0
        /\ f[<<i, "short", "today">>] = 0 /\ f[<<i, "short", "yd">>] = 0
    BY <1>2 DEF Sides, Dates
  <2>2. OfInstrument(f, i) = 0 + 0 + 0 + 0
    BY <2>1 DEF OfInstrument
  <2> QED BY <2>2
<1>4. [i \in Instruments |-> OfInstrument(f, i)] = [k \in 1 .. NInst |-> 0]
  BY <1>3 DEF Instruments
<1> QED BY <1>4, TotalZero, SizeAssumption DEF SlotTotal

\* With no order alive and no report pending the margin of every slot is
\* released if the price it follows stood still under its orders, and the
\* account's if all did: no partial fill, better price, wipe, cancel or failed
\* call leaves any behind.
THEOREM MarginReleased == DeskSpec => []MarginReleasedWhenIdle
<1>1. ASSUME BookInv, MarginInv PROVE MarginReleasedWhenIdle
  <2> SUFFICES ASSUME Idle
               PROVE  /\ \A s \in Slots : s[1] \notin repriced
                                              => positions[s].frozen_margin = 0
                      /\ repriced = {} => account.frozen_margin = 0
    BY DEF MarginReleasedWhenIdle
  <2>1. ASSUME NEW s \in Slots, s[1] \notin repriced
        PROVE  positions[s].frozen_margin = 0
    <3>1. SeqTotal(fills, TradeWorth(OpeningWorth(s))) = 0
      BY SeqTotalEmpty DEF Idle
    <3>2. Alive(working, cancels, fills, undo, MarginWorth(market, s), Nothing) = 0
      BY NoneAlive
    <3>3. positions[s].frozen_margin
              <= Alive(working, cancels, fills, undo, MarginWorth(market, s), Nothing)
      BY <1>1, <2>1, <3>1 DEF MarginInv
    <3>4. positions[s].frozen_margin \in Nat
      <4>1. positions[s] \in PositionType
        BY <1>1 DEF BookInv, TypeOK
      <4> QED BY <4>1 DEF PositionType
    <3> QED BY <3>2, <3>3, <3>4
  <2>2. ASSUME repriced = {} PROVE account.frozen_margin = 0
    <3> DEFINE f == FrozenMargins(positions)
    <3>1. \A s \in Slots : f[s] = 0
      BY <2>1, <2>2 DEF FrozenMargins
    <3> HIDE DEF f
    <3>4. SlotTotal(f) = 0
      BY <3>1, NothingInSlots
    <3>5. account.frozen_margin \in Nat /\ account.frozen_margin <= SlotTotal(f)
      BY <1>1 DEF BookInv, TypeOK, AccountType, FrozenMarginCovered, f
    <3> QED BY <3>4, <3>5
  <2> QED BY <2>1, <2>2
<1>2. DeskSpec => [](MirrorInv /\ MarginInv)
  BY MirrorStart, MirrorKept, MarginStart, MarginKept, DeskInvariant,
     DeskImplementsBook, BookInvariant, PTL
  DEF DeskSpec
<1> QED BY <1>1, <1>2, DeskImplementsBook, BookInvariant, PTL

----------------------------------------------------------------------------
(* The commission frozen, where the orders only open.  (An order that      *)
(* closes freezes more commission than any release gives back, see         *)
(* AccountFreeze: the run Desk_ClosingCancel.)                             *)

FrozenCommissions(pos) == [s \in Slots |-> pos[s].frozen_commission]

\* What v lots of an order freeze of a slot's commission.
CommissionShareOf(m, o, v, s) ==
    IF o.offset = "open" /\ SlotTraded(o) = s THEN OrderCommission(m, o, v) ELSE 0

CommissionWorth(m, s) ==
    [o \in DealType |-> [v \in Nat |-> CommissionShareOf(m, o, v, s)]]

OpeningTrades == {t \in Trades : t.offset = "open"}

CommissionInv ==
    /\ fills \in Seq(OpeningTrades)
    /\ account.frozen_commission <= SlotTotal(FrozenCommissions(positions))
    /\ \A s \in Slots :
           SeqTotal(fills, TradeWorth(OpeningWorth(s))) = 0
           => positions[s].frozen_commission
                  <= Alive(working, cancels, fills, undo,
                           CommissionWorth(market, s), Nothing)

\* The commission of an opening order is in proportion to its lots.
LEMMA OrderCommissionScales ==
    ASSUME NEW m \in MarketType, NEW o \in DealType, o.offset = "open"
    PROVE  \E rate \in Nat : \A v \in Nat : OrderCommission(m, o, v) = rate * v
<1> DEFINE i == o.inst
           a == Rate[i].openMoney
           c == Rate[i].openLot
           worth == o.price * Mult(m, i)
<1>1. i \in Instruments /\ o.price \in Nat
  BY DEF DealType
<1>2. a \in Nat /\ c \in Nat
  BY <1>1, InstrumentData DEF RateType
<1>3. worth \in Nat
  <2>1. Mult(m, i) \in Nat
    BY <1>1, MultIsNat
  <2> QED BY <1>1, <2>1, NatTimes
<1>4. \A v \in Nat : OrderCommission(m, o, v) =
          IF i \notin m.commissions THEN 0 ELSE Fee(a, c, worth * v, v)
  BY DEF OrderCommission, calcCommissionForOrder
<1> HIDE DEF a, c, worth
<1>5. worth * a \in Nat /\ worth * a + c \in Nat
  BY <1>2, <1>3, NatTimes
<1>6. ASSUME NEW v \in Nat PROVE Fee(a, c, worth * v, v) = (worth * a + c) * v
  <2>1. (worth * v) * a + v * c = (worth * a + c) * v
    BY <1>2, <1>3, Z3
  <2> QED BY <2>1 DEF Fee
<1>7. CASE i \notin m.commissions
  <2>1. \A v \in Nat : OrderCommission(m, o, v) = 0
    BY <1>4, <1>7
  <2>2. \A v \in Nat : 0 * v = 0
    OBVIOUS
  <2>3. 0 \in Nat
    OBVIOUS
  <2> QED BY <2>1, <2>2, <2>3
<1>8. CASE i \in m.commissions
  <2>1. \A v \in Nat : OrderCommission(m, o, v) = (worth * a + c) * v
    BY <1>4, <1>6, <1>8
  <2> QED BY <1>5, <2>1
<1> QED BY <1>7, <1>8

\* So it is a weight.
LEMMA CommissionWeighs ==
    ASSUME NEW m \in MarketType, NEW s
    PROVE  /\ WeighsSlot(CommissionWorth(m, s), s)
           /\ \A o \in DealType : \A v \in Nat :
                  /\ CommissionWorth(m, s)[o][v] = CommissionShareOf(m, o, v, s)
                  /\ CommissionShareOf(m, o, v, s) \in Nat
<1> DEFINE w == CommissionWorth(m, s)
<1>1. \A o \in DealType : \A v \in Nat : CommissionShareOf(m, o, v, s) \in Nat
  BY OrderAmounts DEF CommissionShareOf
<1>2. \A o \in DealType : \A v \in Nat : w[o][v] = CommissionShareOf(m, o, v, s)
  BY DEF CommissionWorth
<1>3. w \in [DealType -> [Nat -> Nat]]
  BY <1>1 DEF CommissionWorth
<1>4. ASSUME NEW o \in DealType, NEW u \in Nat, NEW v \in Nat
      PROVE  w[o][u + v] = w[o][u] + w[o][v]
  <2> HIDE DEF w
  <2>1. u + v \in Nat
    OBVIOUS
  <2>2. CASE o.offset = "open" /\ SlotTraded(o) = s
    <3>1. PICK rate \in Nat : \A n \in Nat : OrderCommission(m, o, n) = rate * n
      BY <2>2, OrderCommissionScales
    <3>2. /\ w[o][u + v] = OrderCommission(m, o, u + v)
          /\ w[o][u] = OrderCommission(m, o, u)
          /\ w[o][v] = OrderCommission(m, o, v)
      BY <1>2, <2>1, <2>2 DEF CommissionShareOf
    <3>3. /\ w[o][u + v] = rate * (u + v)
          /\ w[o][u] = rate * u
          /\ w[o][v] = rate * v
      BY <2>1, <3>1, <3>2
    <3>4. rate * (u + v) = rate * u + rate * v
      BY Z3
    <3> QED BY <3>3, <3>4
  <2>3. CASE ~(o.offset = "open" /\ SlotTraded(o) = s)
    <3>1. w[o][u + v] = 0 /\ w[o][u] = 0 /\ w[o][v] = 0
      BY <1>2, <2>1, <2>3 DEF CommissionShareOf
    <3> QED BY <3>1
  <2> QED BY <2>2, <2>3
<1> HIDE DEF w
<1>5. WeighsSlot(w, s)
  BY <1>2, <1>3, <1>4 DEF Weighs, WeighsSlot, CommissionShareOf
<1> QED BY <1>1, <1>2, <1>5 DEF w

\* A column of frozen amounts that moves in one slot, and an account that covers
\* no more than the column before: what a request, a release and an opening
\* trade do to the two keeps it so.
LEMMA ColumnCovers ==
    ASSUME NEW f \in [Slots -> Nat], NEW g \in [Slots -> Nat], NEW z \in Slots,
           \A r \in Slots : r # z => g[r] = f[r],
           NEW a \in Nat, a <= SlotTotal(f), NEW part \in Nat
    PROVE  /\ g[z] = f[z] + part => a + part <= SlotTotal(g)
           /\ g[z] = Positive(f[z] - part) => Positive(a - part) <= SlotTotal(g)
           /\ g[z] = 0 => Positive(a - part - f[z]) <= SlotTotal(g)
<1> DEFINE F == SlotTotal(f)
           G == SlotTotal(g)
           y == f[z]
<1>1. f \in [Slots -> Int] /\ g \in [Slots -> Int]
  OBVIOUS
<1>2. G = F + g[z] - f[z]
  BY <1>1, SlotTotalMovesOne
<1>3. F \in Nat /\ G \in Nat /\ y <= F
  BY SlotTotalCovers
<1>4. y \in Nat /\ g[z] \in Nat
  OBVIOUS
<1> HIDE DEF F, G, y
<1>5. G = F + g[z] - y /\ a <= F
  BY <1>2 DEF y, F
<1>6. g[z] = y + part => a + part <= G
  BY <1>3, <1>4, <1>5
<1>7. g[z] = Positive(y - part) => Positive(a - part) <= G
  BY <1>3, <1>4, <1>5 DEF Positive, Larger
<1>8. g[z] = 0 => Positive(a - part - y) <= G
  BY <1>3, <1>4, <1>5 DEF Positive, Larger
<1> QED BY <1>6, <1>7, <1>8 DEF G, y

\* The columns of frozen commission are natural numbers.
LEMMA FrozenCommissionsType ==
    ASSUME NEW pos \in [Slots -> PositionType]
    PROVE  FrozenCommissions(pos) \in [Slots -> Nat]
<1>1. \A s \in Slots : pos[s].frozen_commission \in Nat
  BY DEF PositionType
<1> QED BY <1>1 DEF FrozenCommissions

\* An opening request freezes its commission in the slot and in the account.
LEMMA RequestCharges ==
    ASSUME BookInv, BookInv', BookShape, NEW o \in Orders, o.offset = "open",
           onOrderRequest(o),
           account.frozen_commission <= SlotTotal(FrozenCommissions(positions))
    PROVE  /\ account'.frozen_commission <= SlotTotal(FrozenCommissions(positions'))
           /\ \A s \in Slots :
                  positions'[s].frozen_commission = positions[s].frozen_commission
                      + CommissionShareOf(market, o, o.vol, s)
<1> DEFINE z == <<o.inst, SideOpened(o.dir), "today">>
           f == FrozenCommissions(positions)
           g == FrozenCommissions(positions')
           part == OrderCommission(market, o, o.vol)
<1>1. /\ o \in DealType /\ o.vol \in Nat /\ o.inst \in Instruments
      /\ market \in MarketType /\ account \in AccountType
      /\ positions \in [Slots -> PositionType]
      /\ positions' \in [Slots -> PositionType]
  BY InputAssumption DEF DealType, BookInv, TypeOK
<1>2. /\ account' = AccountFreeze(market, account, o)
      /\ positions' = [s \in Slots |-> IF s \in TouchedSlots(positions, o)
                          THEN SlotFreeze(market, positions[s], o) ELSE positions[s]]
  BY <1>1 DEF onOrderRequest, BookShape
<1>3. z \in Slots /\ TouchedSlots(positions, o) = {z} /\ SlotTraded(o) = z
  BY <1>1, OpenSlot DEF TouchedSlots, SlotTraded
<1> HIDE DEF z
<1>4. part \in Nat
  BY <1>1, OrderAmounts
<1>5. ASSUME NEW s \in Slots
      PROVE  positions'[s].frozen_commission = positions[s].frozen_commission
                 + (IF s = z THEN part ELSE 0)
  <2>1. positions[s] \in PositionType
    BY <1>1
  <2>2. positions[s].frozen_commission \in Nat
    BY <2>1 DEF PositionType
  <2>3. CASE s = z
    <3>1. positions'[s] = SlotFreeze(market, positions[s], o)
      BY <1>2, <1>3, <2>3
    <3>2. SlotFreeze(market, positions[s], o).frozen_commission
              = positions[s].frozen_commission + part
      BY <1>1, <2>1, SlotFreezeKeeps
    <3> QED BY <2>3, <3>1, <3>2
  <2>4. CASE s # z
    <3>1. positions'[s] = positions[s]
      BY <1>2, <1>3, <2>4
    <3> QED BY <2>2, <2>4, <3>1
  <2> QED BY <2>3, <2>4
<1>6. account'.frozen_commission = account.frozen_commission + part
      /\ account.frozen_commission \in Nat
  BY <1>1, <1>2, AccountFreezeKeeps DEF AccountType
<1>7. /\ f \in [Slots -> Nat] /\ g \in [Slots -> Nat]
      /\ account.frozen_commission <= SlotTotal(f)
  BY <1>1, FrozenCommissionsType
<1>8. g[z] = f[z] + part /\ \A r \in Slots : r # z => g[r] = f[r]
  <2>1. \A s \in Slots : g[s] = f[s] + (IF s = z THEN part ELSE 0)
    BY <1>5 DEF FrozenCommissions
  <2> HIDE DEF f, g
  <2> QED BY <1>3, <1>7, <2>1
<1> HIDE DEF f, g, part
<1>9. account.frozen_commission + part <= SlotTotal(g)
  BY <1>3, <1>4, <1>6, <1>7, <1>8, ColumnCovers
<1>10. \A s \in Slots : CommissionShareOf(market, o, o.vol, s)
                            = IF s = z THEN part ELSE 0
  BY <1>3 DEF CommissionShareOf, part
<1> QED BY <1>5, <1>6, <1>9, <1>10 DEF g

\* A release takes it off both, not below zero.
LEMMA ReleaseRefunds ==
    ASSUME BookInv, BookInv', NEW o \in Orders, o.offset = "open",
           NEW v \in Nat \ {0}, onOrderRejectOrCancel(o, v),
           account.frozen_commission <= SlotTotal(FrozenCommissions(positions))
    PROVE  /\ account'.frozen_commission <= SlotTotal(FrozenCommissions(positions'))
           /\ \A s \in Slots :
                  positions'[s].frozen_commission =
                      Positive(positions[s].frozen_commission
                                 - CommissionShareOf(market, o, v, s))
<1> DEFINE z == <<o.inst, SideOpened(o.dir), "today">>
           f == FrozenCommissions(positions)
           g == FrozenCommissions(positions')
           part == OrderCommission(market, o, v)
<1>1. /\ o \in DealType /\ v \in Nat /\ v > 0
      /\ market \in MarketType /\ account \in AccountType
      /\ positions \in [Slots -> PositionType]
      /\ positions' \in [Slots -> PositionType]
  BY InputAssumption DEF BookInv, TypeOK
<1>2. /\ account' = AccountThaw(market, account, o, v)
      /\ positions' = [s \in Slots |-> IF s \in TouchedSlots(positions, o)
                          THEN SlotThaw(market, positions[s], o, v) ELSE positions[s]]
  BY <1>1 DEF onOrderRejectOrCancel
<1>3. z \in Slots /\ TouchedSlots(positions, o) = {z} /\ SlotTraded(o) = z
  BY <1>1, OpenSlot DEF TouchedSlots, SlotTraded
<1> HIDE DEF z
<1>4. part \in Nat
  BY <1>1, OrderAmounts
<1>5. ASSUME NEW s \in Slots
      PROVE  /\ s = z => positions'[s].frozen_commission
                             = Positive(positions[s].frozen_commission - part)
             /\ s # z => positions'[s].frozen_commission
                             = positions[s].frozen_commission
             /\ positions[s].frozen_commission \in Nat
  <2>1. positions[s] \in PositionType
    BY <1>1
  <2>2. positions[s].frozen_commission \in Nat
    BY <2>1 DEF PositionType
  <2>3. CASE s = z
    <3>1. positions'[s] = SlotThaw(market, positions[s], o, v)
      BY <1>2, <1>3, <2>3
    <3>2. SlotThaw(market, positions[s], o, v).frozen_commission
              = Positive(positions[s].frozen_commission - part)
      BY <1>1, <2>1, SlotThawKeeps
    <3> QED BY <2>2, <2>3, <3>1, <3>2
  <2>4. CASE s # z
    <3>1. positions'[s] = positions[s]
      BY <1>2, <1>3, <2>4
    <3> QED BY <2>2, <2>4, <3>1
  <2> QED BY <2>3, <2>4
<1>6. /\ account'.frozen_commission = Positive(account.frozen_commission - part)
      /\ account.frozen_commission \in Nat
  BY <1>1, <1>2, AccountThawKeeps DEF AccountType
<1>7. /\ f \in [Slots -> Nat] /\ g \in [Slots -> Nat]
      /\ account.frozen_commission <= SlotTotal(f)
  BY <1>1, FrozenCommissionsType
<1>8. g[z] = Positive(f[z] - part) /\ \A r \in Slots : r # z => g[r] = f[r]
  BY <1>3, <1>5 DEF FrozenCommissions
<1> HIDE DEF f, g, part
<1>9. Positive(account.frozen_commission - part) <= SlotTotal(g)
  BY <1>3, <1>4, <1>6, <1>7, <1>8, ColumnCovers
<1>10. ASSUME NEW s \in Slots
       PROVE  positions'[s].frozen_commission =
                  Positive(positions[s].frozen_commission
                             - CommissionShareOf(market, o, v, s))
  <2>1. CASE s = z
    BY <1>3, <1>5, <2>1 DEF CommissionShareOf, part
  <2>2. CASE s # z
    <3>1. CommissionShareOf(market, o, v, s) = 0
      BY <1>3, <2>2 DEF CommissionShareOf
    <3>2. Positive(positions[s].frozen_commission - 0) = positions[s].frozen_commission
      BY <1>5, CutNothing
    <3> QED BY <1>5, <2>2, <3>1, <3>2
  <2> QED BY <2>1, <2>2
<1> QED BY <1>6, <1>9, <1>10 DEF g

\* An opening trade wipes what its slot has frozen, and the account at least as
\* much.
LEMMA OpeningWipes ==
    ASSUME BookInv, BookInv', NEW t \in OpeningTrades, onTradeFill(t),
           account.frozen_commission <= SlotTotal(FrozenCommissions(positions))
    PROVE  /\ account'.frozen_commission <= SlotTotal(FrozenCommissions(positions'))
           /\ \A s \in Slots :
                  positions'[s].frozen_commission =
                      IF SlotTraded(t) = s THEN 0 ELSE positions[s].frozen_commission
<1> DEFINE z == <<t.inst, SideOpened(t.dir), "today">>
           b == [pos |-> positions, acct |-> account]
           c == Opened(market, b, t)
           f == FrozenCommissions(positions)
           g == FrozenCommissions(positions')
           part == calcCommissionForOrder(market, t.inst, t.price, t.vol, TRUE, FALSE)
<1>1. /\ t \in DealType /\ t.offset = "open"
      /\ market \in MarketType /\ account \in AccountType
      /\ positions \in [Slots -> PositionType]
      /\ positions' \in [Slots -> PositionType]
  BY InputAssumption DEF OpeningTrades, BookInv, TypeOK
<1>2. Consistent(positions, account)
  BY DEF BookInv, TypeOK, CurrMarginIsSum, ProfitsAreSums, FlatHoldsNothing,
         FrozenMarginCovered, Consistent, FlatIsClean, FlatNoMargin
<1>3. c.pos \in [Slots -> PositionType] /\ c.acct \in AccountType
  BY <1>1, <1>2, OpenedKeeps DEF Consistent
<1>4. positions' = Flattened(c.pos) /\ account' = WithProfitOf(c.acct, Flattened(c.pos))
  BY <1>1 DEF onTradeFill
<1>5. z \in Slots /\ SlotTraded(t) = z
  BY <1>1, OpenSlot DEF SlotTraded
<1>6. /\ c.pos = [positions EXCEPT ![z] = SlotOpened(market, positions[z], t)]
      /\ c.acct = AccountOpened(market, account, positions[z], t)
  BY DEF Opened
<1> HIDE DEF z, c
<1>7. positions[z] \in PositionType /\ positions[z].frozen_commission \in Nat
  BY <1>1, <1>5 DEF PositionType
<1>8. ASSUME NEW s \in Slots
      PROVE  c.pos[s].frozen_commission =
                 IF s = z THEN 0 ELSE positions[s].frozen_commission
  <2>1. SlotOpened(market, positions[z], t).frozen_commission = 0
    BY <1>1, <1>7, SlotOpenedKeeps
  <2> QED BY <1>1, <1>5, <1>6, <2>1
<1>9. ASSUME NEW s \in Slots
      PROVE  positions'[s].frozen_commission = c.pos[s].frozen_commission
  <2>1. c.pos[s] \in PositionType
    BY <1>3
  <2>2. positions'[s] = c.pos[s]
           \/ positions'[s] = [c.pos[s] EXCEPT !.position_profit = 0]
    BY <1>4 DEF Flattened
  <2> QED BY <2>1, <2>2 DEF PositionType
<1>10. /\ part \in Nat
       /\ account'.frozen_commission =
              Positive(account.frozen_commission - part
                         - positions[z].frozen_commission)
       /\ account.frozen_commission \in Nat
  <2> DEFINE p == positions[z]
  <2> HIDE DEF p
  <2>3. p \in PositionType
    BY <1>7 DEF p
  <2>4. /\ part \in Nat
        /\ AccountOpened(market, account, p, t).frozen_commission =
               Positive(account.frozen_commission - part - p.frozen_commission)
    BY <1>1, <2>3, AccountOpenedKeeps
  <2> HIDE DEF part
  <2>1. /\ part \in Nat
        /\ c.acct.frozen_commission =
               Positive(account.frozen_commission - part
                          - positions[z].frozen_commission)
    BY <1>6, <2>4 DEF p
  <2>2. account'.frozen_commission = c.acct.frozen_commission
    BY <1>1, <1>3, <1>4, WithProfitOfKeeps
  <2> QED BY <1>1, <2>1, <2>2 DEF AccountType
<1>11. /\ f \in [Slots -> Nat] /\ g \in [Slots -> Nat]
       /\ account.frozen_commission <= SlotTotal(f)
  BY <1>1, FrozenCommissionsType
<1>12. /\ g[z] = 0 /\ f[z] = positions[z].frozen_commission
       /\ \A r \in Slots : r # z => g[r] = f[r]
  BY <1>5, <1>8, <1>9 DEF FrozenCommissions
<1> HIDE DEF f, g, part
<1>13. Positive(account.frozen_commission - part - f[z]) <= SlotTotal(g)
  BY <1>5, <1>10, <1>11, <1>12, ColumnCovers
<1>14. account'.frozen_commission <= SlotTotal(g)
  BY <1>10, <1>12, <1>13
<1> QED BY <1>5, <1>8, <1>9, <1>14 DEF g

\* A tick changes no commission.
LEMMA TickCharges ==
    ASSUME BookInv, NEW t \in Ticks, onTick(t)
    PROVE  /\ account'.frozen_commission = account.frozen_commission
           /\ \A s \in Slots :
                  positions'[s].frozen_commission = positions[s].frozen_commission
           /\ \A o \in DealType : \A v \in Nat : \A s \in Slots :
                  CommissionShareOf(market', o, v, s) = CommissionShareOf(market, o, v, s)
<1>1. /\ positions \in [Slots -> PositionType] /\ account \in AccountType
      /\ market \in MarketType
  BY DEF BookInv, TypeOK
<1>2. /\ market'.instruments = market.instruments
      /\ market'.commissions = market.commissions
  BY <1>1 DEF onTick, Quoted, MarketType
<1>3. \A o \in DealType : \A v \in Nat : \A s \in Slots :
          CommissionShareOf(market', o, v, s) = CommissionShareOf(market, o, v, s)
  <2>1. \A o \in DealType : \A v \in Nat :
            OrderCommission(market', o, v) = OrderCommission(market, o, v)
    BY <1>2 DEF OrderCommission, calcCommissionForOrder, Mult, Dated
  <2> QED BY <2>1 DEF CommissionShareOf
<1>4. CASE UNCHANGED <<positions, account>>
  BY <1>3, <1>4
<1>5. CASE /\ positions' = Marked(Quoted(market, t), positions, t.inst, t.last)
           /\ account' = AccountMarked(account, positions, positions', t.inst)
  <2> DEFINE m == Quoted(market, t)
  <2>1. ASSUME NEW s \in Slots
        PROVE  /\ positions'[s].frozen_commission = positions[s].frozen_commission
               /\ positions[s] \in PositionType
    <3> DEFINE x == MarkedProfit(m, positions[s], s, t.last)
               y == MarkedMargin(m, positions[s], s, t.last)
    <3>1. \/ positions'[s] = positions[s]
          \/ positions'[s] = [positions[s] EXCEPT !.position_profit = x, !.margin = y]
      BY <1>5 DEF Marked
    <3>2. positions[s] \in PositionType
      BY <1>1
    <3> HIDE DEF x, y
    <3> QED BY <3>1, <3>2 DEF PositionType
  <2>2. account'.frozen_commission = account.frozen_commission
    <3> DEFINE x == SlotTotal(Profits(positions'))
               y == account.curr_margin + OfInstrument(Margins(positions'), t.inst)
                                        - OfInstrument(Margins(positions), t.inst)
               a == [[account EXCEPT !.curr_margin = y] EXCEPT !.position_profit = x]
    <3>1. account' = Derive(a)
      BY <1>5 DEF AccountMarked, WithProfitOf
    <3> HIDE DEF x, y
    <3>2. a.frozen_commission = account.frozen_commission
      BY <1>1 DEF AccountType
    <3>3. Derive(a).frozen_commission = a.frozen_commission
      BY <1>1 DEF Derive, AccountType
    <3> QED BY <3>1, <3>2, <3>3
  <2> QED BY <1>3, <2>1, <2>2
<1> QED BY <1>4, <1>5 DEF onTick
\* Every order opens.
OnlyOpens == \A o \in Orders : o.offset = "open"

\* Then every trade on its way does.
LEMMA OpeningTradesKept ==
    ASSUME OnlyOpens, DeskInv, DeskInv', [DeskNext]_allVars,
           fills \in Seq(OpeningTrades)
    PROVE  fills' \in Seq(OpeningTrades)
<1>1. ASSUME NEW k \in DOMAIN working, NEW v \in 1 .. working[k].unfilled,
             NEW better \in {0, 1}, Fill(k, v, better)
      PROVE  fills' \in Seq(OpeningTrades)
  <2> DEFINE o == working[k].req
             t == Filled(o, v, better)
  <2>1. t \in Trades /\ t.offset = o.offset
    BY <1>1, FillCounts, LotWeighs DEF Nothing
  <2>2. o \in Orders
    BY DEF DeskInv, CancelMsg
  <2>3. t \in OpeningTrades
    BY <2>1, <2>2 DEF OnlyOpens, OpeningTrades
  <2>4. fills' = Append(fills, t)
    BY <1>1 DEF Fill
  <2> HIDE DEF t
  <2> QED BY <2>3, <2>4, AppendProperties
<1>2. ASSUME ProcessTrade PROVE fills' \in Seq(OpeningTrades)
  <2>1. fills # <<>> /\ fills' = Tail(fills)
    BY <1>2 DEF ProcessTrade
  <2> QED BY <2>1, HeadTailProperties
<1>3. ASSUME fills' = fills PROVE fills' \in Seq(OpeningTrades)
  BY <1>3
<1> QED BY <1>1, <1>2, <1>3
        DEF DeskNext, SendOrder, UndoOrder, Cancel, ProcessCancel, ProcessTick,
            allVars, deskVars

\* Every step keeps the account's commission covered by the slots'.
LEMMA CommissionCovered ==
    ASSUME OnlyOpens, DeskInv, DeskInv', BookInv, BookInv', MirrorInv,
           [DeskNext]_allVars, fills \in Seq(OpeningTrades),
           account.frozen_commission <= SlotTotal(FrozenCommissions(positions))
    PROVE  account'.frozen_commission <= SlotTotal(FrozenCommissions(positions'))
<1> DEFINE Covered == account'.frozen_commission
                          <= SlotTotal(FrozenCommissions(positions'))
<1>1. ASSUME NEW o \in Orders, SendOrder(o) PROVE Covered
  BY <1>1, RequestCharges DEF SendOrder, OnlyOpens, MirrorInv
<1>2. ASSUME UndoOrder PROVE Covered
  <2>1. Head(undo) \in Orders /\ Head(undo).vol \in Nat \ {0}
    BY <1>2, UndoCounts, LotWeighs DEF Nothing
  <2> QED BY <1>2, <2>1, ReleaseRefunds DEF UndoOrder, OnlyOpens
<1>3. ASSUME ProcessCancel PROVE Covered
  <2>1. Head(cancels).req \in Orders /\ Head(cancels).unfilled \in Nat \ {0}
    BY <1>3, ReleaseCounts, LotWeighs DEF Nothing
  <2> QED BY <1>3, <2>1, ReleaseRefunds DEF ProcessCancel, OnlyOpens
<1>4. ASSUME ProcessTrade PROVE Covered
  <2>1. fills # <<>>
    BY <1>4 DEF ProcessTrade
  <2>2. Head(fills) \in OpeningTrades
    BY <2>1, HeadTailProperties
  <2> QED BY <1>4, <2>2, OpeningWipes DEF ProcessTrade
<1>5. ASSUME NEW t \in Ticks, ProcessTick(t) PROVE Covered
  <2>1. /\ account'.frozen_commission = account.frozen_commission
        /\ \A s \in Slots :
               positions'[s].frozen_commission = positions[s].frozen_commission
    BY <1>5, TickCharges DEF ProcessTick
  <2>2. FrozenCommissions(positions') = FrozenCommissions(positions)
    BY <2>1 DEF FrozenCommissions
  <2> QED BY <2>1, <2>2
<1>6. ASSUME UNCHANGED vars PROVE Covered
  BY <1>6 DEF vars
<1> HIDE DEF Covered
<1>7. Covered
  BY <1>1, <1>2, <1>3, <1>4, <1>5, <1>6
  DEF DeskNext, Fill, Cancel, allVars
<1> QED BY <1>7 DEF Covered

\* Every step keeps what a slot has frozen within what its orders count.
LEMMA CommissionCounted ==
    ASSUME OnlyOpens, DeskInv, DeskInv', BookInv, BookInv', MirrorInv,
           [DeskNext]_allVars, CommissionInv, NEW s \in Slots,
           SeqTotal(fills', TradeWorth(OpeningWorth(s))) = 0
    PROVE  positions'[s].frozen_commission
               <= Alive(working', cancels', fills', undo',
                        CommissionWorth(market', s), Nothing)
<1> DEFINE w == CommissionWorth(market, s)
           x == Nothing
           g == OpeningWorth(s)
           before == Alive(working, cancels, fills, undo, w, x)
           after == Alive(working', cancels', fills', undo', w, x)
           waiting == SeqTotal(fills, TradeWorth(g))
           held == positions[s].frozen_commission
           Bounded == /\ \A o \in DealType : \A v \in Nat :
                             CommissionShareOf(market', o, v, s)
                                 = CommissionShareOf(market, o, v, s)
                      /\ positions'[s].frozen_commission <= after
<1>1. /\ Weighs(w) /\ Weighs(x) /\ Weighs(g) /\ BookShape /\ WeighsSlot(w, s)
      /\ \A o \in DealType : \A v \in Nat :
             /\ w[o][v] = CommissionShareOf(market, o, v, s)
             /\ CommissionShareOf(market, o, v, s) \in Nat
  <2>1. market \in MarketType
    BY DEF BookInv, TypeOK
  <2>2. /\ WeighsSlot(w, s)
        /\ \A o \in DealType : \A v \in Nat :
               /\ w[o][v] = CommissionShareOf(market, o, v, s)
               /\ CommissionShareOf(market, o, v, s) \in Nat
    BY <2>1, CommissionWeighs
  <2> HIDE DEF w
  <2>3. Weighs(w)
    BY <2>2 DEF WeighsSlot
  <2> QED BY <2>2, <2>3, OpeningWeighs, LotWeighs DEF Nothing, MirrorInv
<1>2. /\ held \in Nat /\ before \in Nat /\ waiting \in Nat
      /\ fills \in Seq(OpeningTrades)
      /\ account.frozen_commission <= SlotTotal(FrozenCommissions(positions))
  <2>1. held \in Nat
    <3>1. positions[s] \in PositionType
      BY DEF BookInv, TypeOK
    <3> QED BY <3>1 DEF PositionType
  <2>2. waiting \in Nat
    BY <1>1, AliveTypes
  <2> QED BY <1>1, <2>1, <2>2, AliveTypes DEF CommissionInv
<1>3. waiting = 0 => held <= before
  BY DEF CommissionInv
<1> HIDE DEF w, x, g
<1>4. SeqTotal(fills', TradeWorth(g)) = 0
  BY DEF g
<1>5. ASSUME NEW o \in Orders, SendOrder(o) PROVE Bounded
  <2>1. after = before + w[o][o.vol]
    BY <1>1, <1>5, SendCounts
  <2>2. /\ w[o][o.vol] = CommissionShareOf(market, o, o.vol, s)
        /\ CommissionShareOf(market, o, o.vol, s) \in Nat
    BY <1>1, OrderFacts
  <2>3. positions'[s].frozen_commission = held + CommissionShareOf(market, o, o.vol, s)
    BY <1>1, <1>2, <1>5, RequestCharges DEF SendOrder, OnlyOpens
  <2>4. market' = market /\ fills' = fills
    BY <1>5 DEF SendOrder, onOrderRequest
  <2>5. held <= before
    BY <1>3, <1>4, <2>4
  <2> HIDE DEF before, after, held
  <2>6. positions'[s].frozen_commission <= after
    BY <1>2, <2>1, <2>2, <2>3, <2>5
  <2> QED BY <2>4, <2>6
<1>6. ASSUME NEW k \in DOMAIN working, NEW v \in 1 .. working[k].unfilled,
             NEW better \in {0, 1}, Fill(k, v, better)
      PROVE  Bounded
  <2>1. waiting = 0 /\ after = before
    BY <1>1, <1>4, <1>6, FillOfOthers DEF x, g
  <2>2. positions' = positions /\ market' = market
    BY <1>6 DEF Fill, vars
  <2>3. held <= before
    BY <1>3, <2>1
  <2> HIDE DEF before, after
  <2> QED BY <2>1, <2>2, <2>3
<1>7. ASSUME NEW k \in DOMAIN working, Cancel(k) PROVE Bounded
  <2>1. after = before
    BY <1>1, <1>7, CancelCounts
  <2>2. positions' = positions /\ market' = market /\ fills' = fills
    BY <1>7 DEF Cancel, vars
  <2>3. held <= before
    BY <1>3, <1>4, <2>2
  <2> HIDE DEF before, after
  <2> QED BY <2>1, <2>2, <2>3
<1>8. ASSUME UndoOrder PROVE Bounded
  <2> DEFINE o == Head(undo)
             part == w[o][o.vol]
  <2>1. /\ o \in Orders /\ o.vol \in Nat \ {0} /\ part \in Nat
        /\ after \in Nat /\ before = after + part
    BY <1>1, <1>8, UndoCounts
  <2>2. part = CommissionShareOf(market, o, o.vol, s)
    BY <1>1, <2>1, OrderFacts
  <2>3. positions'[s].frozen_commission
            = Positive(held - CommissionShareOf(market, o, o.vol, s))
    BY <1>2, <1>8, <2>1, ReleaseRefunds DEF UndoOrder, OnlyOpens
  <2>4. market' = market /\ fills' = fills
    BY <1>8 DEF UndoOrder, onOrderRejectOrCancel
  <2>5. held <= before
    BY <1>3, <1>4, <2>4
  <2> HIDE DEF before, after, held, part
  <2>6. Positive(held - part) <= after
    BY <1>2, <2>1, <2>5, CutWithin
  <2> QED BY <2>2, <2>3, <2>4, <2>6
<1>9. ASSUME ProcessCancel PROVE Bounded
  <2> DEFINE o == Head(cancels).req
             v == Head(cancels).unfilled
             part == w[o][v]
  <2>1. /\ o \in Orders /\ v \in Nat \ {0} /\ part \in Nat
        /\ after \in Nat /\ before = after + part
    BY <1>1, <1>9, ReleaseCounts
  <2>2. part = CommissionShareOf(market, o, v, s)
    BY <1>1, <2>1, OrderFacts
  <2>3. positions'[s].frozen_commission
            = Positive(held - CommissionShareOf(market, o, v, s))
    BY <1>2, <1>9, <2>1, ReleaseRefunds DEF ProcessCancel, OnlyOpens
  <2>4. market' = market /\ fills' = fills
    BY <1>9 DEF ProcessCancel, onOrderRejectOrCancel
  <2>5. held <= before
    BY <1>3, <1>4, <2>4
  <2> HIDE DEF before, after, held, part
  <2>6. Positive(held - part) <= after
    BY <1>2, <2>1, <2>5, CutWithin
  <2> QED BY <2>2, <2>3, <2>4, <2>6
<1>10. ASSUME ProcessTrade PROVE Bounded
  <2> DEFINE t == Head(fills)
  <2>1. /\ after \in Nat /\ after = before
        /\ ~(t.offset = "open" /\ SlotTraded(t) = s) => waiting = 0
    BY <1>1, <1>4, <1>10, TradeOfOthers DEF x, g
  <2>2. market' = market
    BY <1>10 DEF ProcessTrade, onTradeFill
  <2>3. t \in OpeningTrades
    <3>1. fills # <<>>
      BY <1>10 DEF ProcessTrade
    <3> QED BY <1>2, <3>1, HeadTailProperties
  <2>4. positions'[s].frozen_commission = IF SlotTraded(t) = s THEN 0 ELSE held
    BY <1>2, <1>10, <2>3, OpeningWipes DEF ProcessTrade
  <2>5. t.offset = "open"
    BY <2>3 DEF OpeningTrades
  <2>6. CASE SlotTraded(t) = s
    <3> HIDE DEF before, after, held
    <3> QED BY <2>1, <2>2, <2>4, <2>6
  <2>7. CASE SlotTraded(t) # s
    <3>1. held <= before
      BY <1>3, <2>1, <2>7
    <3> HIDE DEF before, after, held
    <3> QED BY <2>1, <2>2, <2>4, <2>7, <3>1
  <2> QED BY <2>6, <2>7
<1>11. ASSUME NEW t \in Ticks, ProcessTick(t) PROVE Bounded
  <2>1. /\ working' = working /\ cancels' = cancels /\ fills' = fills /\ undo' = undo
        /\ onTick(t)
    BY <1>11 DEF ProcessTick
  <2>2. /\ positions'[s].frozen_commission = held
        /\ \A o \in DealType : \A v \in Nat :
               CommissionShareOf(market', o, v, s) = CommissionShareOf(market, o, v, s)
    BY <2>1, TickCharges
  <2>3. held <= before /\ after = before
    BY <1>3, <1>4, <2>1
  <2> HIDE DEF before, after, held
  <2>4. positions'[s].frozen_commission <= after
    BY <2>2, <2>3
  <2> QED BY <2>2, <2>4
<1>12. ASSUME UNCHANGED allVars PROVE Bounded
  <2>1. /\ positions' = positions /\ market' = market /\ fills' = fills
        /\ after = before
    BY <1>12 DEF allVars, vars, deskVars
  <2>2. held <= before
    BY <1>3, <1>4, <2>1
  <2> HIDE DEF before, after
  <2> QED BY <2>1, <2>2
<1>13. ASSUME Bounded
       PROVE  positions'[s].frozen_commission
                  <= Alive(working', cancels', fills', undo',
                           CommissionWorth(market', s), Nothing)
  <2>1. CommissionWorth(market', s) = w
    BY <1>13 DEF CommissionWorth, w
  <2> QED BY <1>13, <2>1 DEF x
<1> HIDE DEF Bounded
<1> QED BY <1>5, <1>6, <1>7, <1>8, <1>9, <1>10, <1>11, <1>12, <1>13 DEF DeskNext

\* So every step keeps the invariant.
LEMMA CommissionKept ==
    /\ OnlyOpens /\ DeskInv /\ DeskInv' /\ BookInv /\ BookInv' /\ MirrorInv
    /\ CommissionInv /\ [DeskNext]_allVars
    => CommissionInv'
<1> SUFFICES ASSUME OnlyOpens, DeskInv, DeskInv', BookInv, BookInv', MirrorInv,
                    CommissionInv, [DeskNext]_allVars
             PROVE  CommissionInv'
  OBVIOUS
<1>1. /\ fills \in Seq(OpeningTrades)
      /\ account.frozen_commission <= SlotTotal(FrozenCommissions(positions))
  BY DEF CommissionInv
<1>2. fills' \in Seq(OpeningTrades)
  BY <1>1, OpeningTradesKept
<1>3. account'.frozen_commission <= SlotTotal(FrozenCommissions(positions'))
  BY <1>1, CommissionCovered
<1>4. \A s \in Slots :
          SeqTotal(fills', TradeWorth(OpeningWorth(s))) = 0
          => positions'[s].frozen_commission
                 <= Alive(working', cancels', fills', undo',
                          CommissionWorth(market', s), Nothing)
  BY CommissionCounted
<1> QED BY <1>2, <1>3, <1>4
        DEF CommissionInv, Alive, WorkingTotal, WorkingTerms, SeqTotal, CancelWorth,
            TradeWorth, RequestWorth, OpeningWorth, LotWorth, Opens, SlotTraded,
            CommissionWorth, CommissionShareOf, OrderCommission, Nothing,
            FrozenCommissions, SlotTotal, Total, OpeningTrades

\* The desk opens with no commission frozen.
LEMMA CommissionStart == DeskInit => CommissionInv
<1> SUFFICES ASSUME DeskInit PROVE CommissionInv
  OBVIOUS
<1>1. PICK b \in Snapshots : positions = b.pos /\ account = b.acct
  BY DEF DeskInit, Init
<1>2. /\ account.frozen_commission = 0
      /\ \A s \in Slots : positions[s].frozen_commission = 0
  BY <1>1, OpeningBookAssumption
<1>3. SlotTotal(FrozenCommissions(positions)) \in Nat
  <2>1. FrozenCommissions(positions) \in [Slots -> Nat]
    BY <1>2 DEF FrozenCommissions
  <2> QED BY <2>1, SlotTotalCovers
<1>4. Idle
  BY DEF DeskInit, Idle
<1>5. \A s \in Slots :
          Alive(working, cancels, fills, undo, CommissionWorth(market, s), Nothing) = 0
  BY <1>4, NoneAlive
<1>6. fills \in Seq(OpeningTrades)
  BY <1>4, EmptySeq DEF Idle
<1> QED BY <1>2, <1>3, <1>5, <1>6 DEF CommissionInv

\* Where every order opens, no commission stays frozen once none is alive and no
\* report is pending: what Desk_ClosingCancel finds left behind is the work of
\* the orders that close.
THEOREM CommissionReleased ==
    ASSUME OnlyOpens
    PROVE  DeskSpec => []CommissionReleasedWhenIdle
<1>1. ASSUME BookInv, CommissionInv PROVE CommissionReleasedWhenIdle
  <2> SUFFICES ASSUME Idle PROVE account.frozen_commission = 0
    BY DEF CommissionReleasedWhenIdle
  <2> DEFINE f == FrozenCommissions(positions)
  <2>1. ASSUME NEW s \in Slots PROVE f[s] = 0
    <3>1. SeqTotal(fills, TradeWorth(OpeningWorth(s))) = 0
      BY SeqTotalEmpty DEF Idle
    <3>2. Alive(working, cancels, fills, undo, CommissionWorth(market, s), Nothing) = 0
      BY NoneAlive
    <3>3. positions[s].frozen_commission
              <= Alive(working, cancels, fills, undo, CommissionWorth(market, s), Nothing)
      BY <1>1, <3>1 DEF CommissionInv
    <3>4. positions[s].frozen_commission \in Nat
      <4>1. positions[s] \in PositionType
        BY <1>1 DEF BookInv, TypeOK
      <4> QED BY <4>1 DEF PositionType
    <3>5. positions[s].frozen_commission = 0
      BY <3>2, <3>3, <3>4
    <3> QED BY <3>5 DEF FrozenCommissions
  <2> HIDE DEF f
  <2>2. SlotTotal(f) = 0
    BY <2>1, NothingInSlots
  <2>3. account.frozen_commission \in Nat /\ account.frozen_commission <= SlotTotal(f)
    BY <1>1 DEF BookInv, TypeOK, AccountType, CommissionInv, f
  <2> QED BY <2>2, <2>3
<1>2. DeskSpec => [](MirrorInv /\ CommissionInv)
  BY MirrorStart, MirrorKept, CommissionStart, CommissionKept, DeskInvariant,
     DeskImplementsBook, BookInvariant, PTL
  DEF DeskSpec
<1> QED BY <1>1, <1>2, DeskImplementsBook, BookInvariant, PTL
=============================================================================
