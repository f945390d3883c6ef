------------------------ MODULE PositionManagerProofs ------------------------
(***************************************************************************)
(* Proofs about PositionManager: its accounting invariant, for every       *)
(* number of instruments, every reference data and every set of orders,    *)
(* trades and ticks.                                                       *)
(*                                                                         *)
(* None of the parts of BookInv is inductive alone.  The margin of the     *)
(* account stays a natural number (TypeOK) because it is a sum that covers *)
(* the slot a close takes its share from (CurrMarginIsSum); it stays that  *)
(* sum only because the cut-off at zero never acts, for the same reason;   *)
(* an emptied slot holds nothing (FlatHoldsNothing) because the share of   *)
(* all lots is all the margin; and CurrMarginIsSum needs FlatHoldsNothing  *)
(* where a close meets an empty slot.                                      *)
(***************************************************************************)
EXTENDS PositionManager, SumsProofs

----------------------------------------------------------------------------
(* Arithmetic and totals.                                                  *)

\* A product of naturals is a natural: prices, lots, multipliers and rates.
LEMMA NatTimes ==
    ASSUME NEW a \in Nat, NEW b \in Nat
    PROVE  a * b \in Nat
OBVIOUS

\* The floor of a share c/p of m lies between 0 and m, and the whole share is
\* all of m: a close that empties a slot releases the margin to the last unit.
LEMMA Share ==
    ASSUME NEW m \in Nat, NEW p \in Nat \ {0}, NEW c \in 0 .. p
    PROVE  /\ (m * c) \div p \in 0 .. m
           /\ c = p => (m * c) \div p = m
<1> DEFINE x == m * c
<1>1. x \in Nat /\ x <= m * p /\ m * p \in Nat
  OBVIOUS
<1>2. c = p => x = m * p
  OBVIOUS
<1> HIDE DEF x
<1>3. x \div p \in Nat /\ p * (x \div p) <= x /\ x < p * (x \div p) + p
  BY <1>1, Z3
<1>4. x \div p <= m
  BY <1>1, <1>3, Z3
<1>5. c = p => x \div p = m
  BY <1>1, <1>2, <1>3, <1>4, Z3
<1> QED BY <1>3, <1>4, <1>5 DEF x

\* The four slots of an instrument add up to a number of the range of their
\* column.
LEMMA OfInstrumentType ==
    ASSUME NEW i \in Instruments
    PROVE  /\ \A f \in [Slots -> Int] : OfInstrument(f, i) \in Int
           /\ \A f \in [Slots -> Nat] : OfInstrument(f, i) \in Nat
<1>1. \A a \in Sides, d \in Dates : <<i, a, d>> \in Slots
  BY DEF Slots
<1>2. /\ <<i, "long", "today">> \in Slots /\ <<i, "long", "yd">> \in Slots
      /\ <<i, "short", "today">> \in Slots /\ <<i, "short", "yd">> \in Slots
  BY <1>1 DEF Sides, Dates
<1> QED BY <1>2 DEF OfInstrument

\* A column that changes in the slots of one instrument moves its total by
\* what those slots moved: what onTick relies on.
LEMMA SlotTotalMoves ==
    ASSUME NEW f \in [Slots -> Int], NEW g \in [Slots -> Int],
           NEW i \in Instruments,
           \A s \in Slots : s[1] # i => g[s] = f[s]
    PROVE  /\ SlotTotal(f) \in Int
           /\ SlotTotal(g) \in Int
           /\ SlotTotal(g) = SlotTotal(f) + OfInstrument(g, i)
                                          - OfInstrument(f, i)
<1> DEFINE F == [j \in Instruments |-> OfInstrument(f, j)]
           G == [j \in Instruments |-> OfInstrument(g, j)]
<1>0. \A j \in Instruments, a \in Sides, d \in Dates : <<j, a, d>> \in Slots
  BY DEF Slots
<1>1. F \in [1 .. NInst -> Int] /\ G \in [1 .. NInst -> Int]
  BY OfInstrumentType DEF Instruments
<1>2. ASSUME NEW j \in 1 .. NInst, j # i PROVE G[j] = F[j]
  BY <1>0, <1>2 DEF OfInstrument, Instruments, Sides, Dates
<1>3. NInst \in Nat /\ i \in 1 .. NInst /\ G[i] = OfInstrument(g, i) /\ F[i] = OfInstrument(f, i)
  BY SizeAssumption DEF Instruments
<1>4. SlotTotal(f) = Total(NInst, F) /\ SlotTotal(g) = Total(NInst, G)
  BY DEF SlotTotal
<1> HIDE DEF F, G
<1> QED BY <1>1, <1>2, <1>3, <1>4, TotalUpdate

\* A column that changes in one slot moves its total by as much: what the
\* fills rely on.
LEMMA SlotTotalMovesOne ==
    ASSUME NEW f \in [Slots -> Int], NEW g \in [Slots -> Int], NEW s \in Slots,
           \A r \in Slots : r # s => g[r] = f[r]
    PROVE  /\ SlotTotal(f) \in Int
           /\ SlotTotal(g) \in Int
           /\ SlotTotal(g) = SlotTotal(f) + g[s] - f[s]
<1>0. \A j \in Instruments, a \in Sides, d \in Dates : <<j, a, d>> \in Slots
  BY DEF Slots
<1>1. PICK i \in Instruments, a \in Sides, d \in Dates : s = <<i, a, d>>
  BY DEF Slots
<1>2. \A r \in Slots : r[1] # i => g[r] = f[r]
  BY <1>1
<1>3. OfInstrument(g, i) - OfInstrument(f, i) = g[s] - f[s]
  <2>1. \A b \in Sides, e \in Dates : <<b, e>> # <<a, d>> => g[<<i, b, e>>] = f[<<i, b, e>>]
    BY <1>0, <1>1
  <2>2. \A b \in Sides, e \in Dates : f[<<i, b, e>>] \in Int /\ g[<<i, b, e>>] \in Int
    BY <1>0
  <2> QED BY <1>1, <2>1, <2>2 DEF OfInstrument, Sides, Dates
<1>4. OfInstrument(g, i) \in Int /\ OfInstrument(f, i) \in Int /\ g[s] \in Int /\ f[s] \in Int
  BY <1>0 DEF OfInstrument, Sides, Dates
<1>5. /\ SlotTotal(f) \in Int
      /\ SlotTotal(g) \in Int
      /\ SlotTotal(g) = SlotTotal(f) + OfInstrument(g, i) - OfInstrument(f, i)
  BY <1>2, SlotTotalMoves
<1> QED BY <1>3, <1>4, <1>5

\* The total of a column of naturals is at least each of its entries, so
\* subtracting a share of one slot never needs the cut-off at zero.
LEMMA SlotTotalCovers ==
    ASSUME NEW f \in [Slots -> Nat]
    PROVE  SlotTotal(f) \in Nat /\ \A s \in Slots : f[s] <= SlotTotal(f)
<1> DEFINE F == [j \in Instruments |-> OfInstrument(f, j)]
<1>0. \A j \in Instruments, a \in Sides, d \in Dates : <<j, a, d>> \in Slots
  BY DEF Slots
<1>1. F \in [1 .. NInst -> Int] /\ \A j \in 1 .. NInst : F[j] >= 0
  BY OfInstrumentType DEF Instruments
<1>2. ASSUME NEW s \in Slots PROVE \E j \in 1 .. NInst : f[s] <= F[j]
  <2>1. PICK i \in Instruments, a \in Sides, d \in Dates : s = <<i, a, d>>
    BY DEF Slots
  <2>2. \A b \in Sides, e \in Dates : f[<<i, b, e>>] \in Nat
    BY <1>0
  <2>3. f[s] <= OfInstrument(f, i)
    BY <2>1, <2>2 DEF OfInstrument, Sides, Dates
  <2> QED BY <2>3 DEF Instruments
<1>3. SlotTotal(f) = Total(NInst, F) /\ NInst \in Nat
  BY SizeAssumption DEF SlotTotal
<1> HIDE DEF F
<1>4. SlotTotal(f) \in Nat /\ \A j \in 1 .. NInst : F[j] <= SlotTotal(f)
  BY <1>1, <1>3, TotalBounds
<1>5. ASSUME NEW s \in Slots PROVE f[s] <= SlotTotal(f)
  <2>1. PICK j \in 1 .. NInst : f[s] <= F[j]
    BY <1>2
  <2>2. F[j] <= SlotTotal(f) /\ F[j] \in Int /\ f[s] \in Int
    BY <1>1, <1>4
  <2> QED BY <1>4, <2>1, <2>2
<1> QED BY <1>4, <1>5

----------------------------------------------------------------------------
(* Amounts, the account and the positions.                                 *)

\* The reference data of an instrument has its types.
LEMMA InstrumentData ==
    ASSUME NEW i \in Instruments
    PROVE  Info[i] \in InfoType /\ Rate[i] \in RateType
BY DataAssumption

\* max(0, x) is a natural number and no smaller than x.
LEMMA CutIsNat ==
    ASSUME NEW x \in Int
    PROVE  Positive(x) \in Nat /\ Positive(x) >= x
BY DEF Positive, Larger

\* Settlement and last prices are natural numbers.
LEMMA MarketFields ==
    ASSUME NEW m \in MarketType, NEW i \in Instruments
    PROVE  m.pre_settlement[i] \in Nat /\ m.last_price[i] \in Nat
BY DEF MarketType

\* calcMargin never returns a negative margin, for a future or an option,
\* under any MarginPriceType.
LEMMA MarginIsNat ==
    ASSUME NEW m \in MarketType, NEW i \in Instruments, NEW price \in Nat,
           NEW vol \in Nat, NEW side \in Sides, NEW yd \in BOOLEAN
    PROVE  calcMargin(m, i, price, vol, side, yd) \in Nat
<1>1. /\ Info[i].mult \in Nat /\ Info[i].longRatio \in Nat
      /\ Info[i].shortRatio \in Nat /\ Info[i].fixed \in Nat
      /\ Info[i].mini \in Nat
  BY InstrumentData DEF InfoType
<1>2. ASSUME NEW q \in Nat PROVE calcFuturesMargin(i, q, vol, side) \in Nat
  <2> DEFINE ratio == IF side = "long" THEN Info[i].longRatio
                      ELSE Info[i].shortRatio
  <2>1. ratio \in Nat
    BY <1>1
  <2> HIDE DEF ratio
  <2>2. ratio * q \in Nat
    BY <1>2, <2>1, NatTimes
  <2>3. (ratio * q) * Info[i].mult \in Nat
    BY <1>1, <2>2, NatTimes
  <2>4. ((ratio * q) * Info[i].mult) * vol \in Nat
    BY <2>3, NatTimes
  <2> QED BY <2>4 DEF calcFuturesMargin, ratio
<1>3. EffectivePrice(m, i, price, yd) \in Nat
  BY MarketFields DEF EffectivePrice, getMarginPrice
<1>4. calcOptionsMargin(m, i, price, vol, yd) \in Nat
  <2> DEFINE base == IF ~yd THEN price
                     ELSE IF Shfe(m, i) THEN Larger(m.pre_settlement[i], price)
                     ELSE m.pre_settlement[i]
             unit == Larger(base * Info[i].mult + Info[i].fixed, Info[i].mini)
  <2>1. base \in Nat
    BY MarketFields DEF Larger
  <2> HIDE DEF base
  <2>2. base * Info[i].mult \in Nat
    BY <1>1, <2>1, NatTimes
  <2>3. unit \in Nat
    BY <1>1, <2>2 DEF Larger
  <2> HIDE DEF unit
  <2>4. unit * vol \in Nat
    BY <2>3, NatTimes
  <2> QED BY <2>4 DEF calcOptionsMargin, unit, base
<1> QED BY <1>2, <1>3, <1>4 DEF calcMargin

\* calcCommissionForOrder never returns a negative commission.
LEMMA CommissionIsNat ==
    ASSUME NEW m \in MarketType, NEW i \in Instruments, NEW price \in Nat,
           NEW vol \in Nat, NEW open \in BOOLEAN, NEW closeToday \in BOOLEAN
    PROVE  calcCommissionForOrder(m, i, price, vol, open, closeToday) \in Nat
<1>1. /\ Rate[i].openMoney \in Nat /\ Rate[i].openLot \in Nat
      /\ Rate[i].closeMoney \in Nat /\ Rate[i].closeLot \in Nat
      /\ Rate[i].todayMoney \in Nat /\ Rate[i].todayLot \in Nat
  BY InstrumentData DEF RateType
<1> DEFINE amount == price * Mult(m, i) * vol
<1>2. Mult(m, i) \in Nat
  BY InstrumentData DEF InfoType, Mult
<1>3. price * Mult(m, i) \in Nat
  BY <1>2, NatTimes
<1>4. amount \in Nat
  BY <1>3, NatTimes
<1> HIDE DEF amount
<1>5. ASSUME NEW a \in Nat, NEW b \in Nat PROVE Fee(a, b, amount, vol) \in Nat
  <2>1. amount * a \in Nat /\ vol * b \in Nat
    BY <1>4, <1>5, NatTimes
  <2> QED BY <2>1 DEF Fee
<1> QED BY <1>1, <1>5 DEF calcCommissionForOrder, amount

\* Deriving balance and available leaves the accumulated fields alone.
LEMMA DeriveKeeps ==
    ASSUME NEW a \in AccountType
    PROVE  /\ Derive(a) \in AccountType
           /\ Derive(a).curr_margin = a.curr_margin
           /\ Derive(a).frozen_margin = a.frozen_margin
           /\ Derive(a).frozen_commission = a.frozen_commission
           /\ Derive(a).close_profit = a.close_profit
           /\ Derive(a).position_profit = a.position_profit
<1> DEFINE b == a.static + a.position_profit + a.close_profit - a.commission
           v == b - a.curr_margin - a.frozen_margin - a.frozen_commission - a.held
<1>1. b \in Int /\ v \in Int
  BY DEF AccountType
<1>2. Derive(a) = [a EXCEPT !.balance = b, !.available = v]
  BY DEF Derive
<1> HIDE DEF b, v
<1>3. [a EXCEPT !.balance = b, !.available = v] \in AccountType
  BY <1>1 DEF AccountType
<1> QED BY <1>2, <1>3 DEF AccountType

\* Freezing or thawing lots touches no money and no position.
LEMMA FreezeLotsType ==
    ASSUME NEW p \in PositionType, NEW dir \in Directions, NEW by \in Int
    PROVE  /\ FreezeLots(p, dir, by) \in PositionType
           /\ FreezeLots(p, dir, by).margin = p.margin
           /\ FreezeLots(p, dir, by).position = p.position
           /\ FreezeLots(p, dir, by).frozen_margin = p.frozen_margin
           /\ FreezeLots(p, dir, by).frozen_commission = p.frozen_commission
           /\ FreezeLots(p, dir, by).close_profit = p.close_profit
           /\ FreezeLots(p, dir, by).position_profit = p.position_profit
<1>1. p.long_frozen \in Nat /\ p.short_frozen \in Nat
  BY DEF PositionType
<1>2. Positive(p.long_frozen + by) \in Nat /\ Positive(p.short_frozen + by) \in Nat
  BY <1>1, CutIsNat
<1> QED BY <1>2 DEF FreezeLots, PositionType

\* A slot with no lots holds no margin.
FlatNoMargin(pos) == \A s \in Slots : pos[s].position = 0 => pos[s].margin = 0

\* The columns the totals are taken over have their types.
LEMMA ColumnTypes ==
    ASSUME NEW pos \in [Slots -> PositionType]
    PROVE  /\ Margins(pos) \in [Slots -> Nat]
           /\ FrozenMargins(pos) \in [Slots -> Nat]
           /\ Profits(pos) \in [Slots -> Int]
           /\ Realised(pos) \in [Slots -> Int]
           /\ Margins(pos) \in [Slots -> Int]
           /\ FrozenMargins(pos) \in [Slots -> Int]
<1>1. \A s \in Slots : /\ pos[s].margin \in Nat
                       /\ pos[s].frozen_margin \in Nat
                       /\ pos[s].position_profit \in Int
                       /\ pos[s].close_profit \in Int
  BY DEF PositionType
<1> QED BY <1>1 DEF Margins, FrozenMargins, Profits, Realised

\* The tail of onTradeFill changes the position profit of empty slots only.
LEMMA FlattenedKeeps ==
    ASSUME NEW pos \in [Slots -> PositionType]
    PROVE  /\ Flattened(pos) \in [Slots -> PositionType]
           /\ Margins(Flattened(pos)) = Margins(pos)
           /\ FrozenMargins(Flattened(pos)) = FrozenMargins(pos)
           /\ Realised(Flattened(pos)) = Realised(pos)
           /\ FlatNoMargin(pos) => FlatIsClean(Flattened(pos))
<1>1. ASSUME NEW s \in Slots
      PROVE  /\ Flattened(pos)[s] \in PositionType
             /\ Flattened(pos)[s].margin = pos[s].margin
             /\ Flattened(pos)[s].position = pos[s].position
             /\ Flattened(pos)[s].frozen_margin = pos[s].frozen_margin
             /\ Flattened(pos)[s].close_profit = pos[s].close_profit
             /\ pos[s].position = 0 => Flattened(pos)[s].position_profit = 0
  BY DEF Flattened, PositionType
<1>2. Flattened(pos) = [s \in Slots |-> Flattened(pos)[s]]
  BY DEF Flattened
<1>3. Flattened(pos) \in [Slots -> PositionType]
  BY <1>1, <1>2
<1>4. FlatNoMargin(pos) => FlatIsClean(Flattened(pos))
  BY <1>1 DEF FlatNoMargin, FlatIsClean
<1> QED BY <1>1, <1>3, <1>4 DEF Margins, FrozenMargins, Realised

\* Recounting the position profit leaves the other accumulated fields alone.
LEMMA WithProfitOfKeeps ==
    ASSUME NEW a \in AccountType, NEW pos \in [Slots -> PositionType]
    PROVE  /\ WithProfitOf(a, pos) \in AccountType
           /\ WithProfitOf(a, pos).curr_margin = a.curr_margin
           /\ WithProfitOf(a, pos).frozen_margin = a.frozen_margin
           /\ WithProfitOf(a, pos).frozen_commission = a.frozen_commission
           /\ WithProfitOf(a, pos).close_profit = a.close_profit
           /\ WithProfitOf(a, pos).position_profit = SlotTotal(Profits(pos))
<1> DEFINE t == SlotTotal(Profits(pos))
           b == [a EXCEPT !.position_profit = t]
<1>1. t \in Int
  <2>1. CASE Slots = {}
    <3>1. Profits(pos) \in [Slots -> Nat]
      BY <2>1, ColumnTypes DEF Profits
    <3> QED BY <3>1, SlotTotalCovers
  <2>2. CASE Slots # {}
    <3>1. PICK s \in Slots : TRUE
      BY <2>2
    <3> QED BY <3>1, ColumnTypes, SlotTotalMovesOne
  <2> QED BY <2>1, <2>2
<1>2. WithProfitOf(a, pos) = Derive(b)
  BY DEF WithProfitOf
<1> HIDE DEF t
<1>3. b \in AccountType
  BY <1>1 DEF AccountType
<1>4. /\ b.curr_margin = a.curr_margin /\ b.frozen_margin = a.frozen_margin
      /\ b.frozen_commission = a.frozen_commission
      /\ b.close_profit = a.close_profit /\ b.position_profit = t
  BY DEF AccountType
<1> HIDE DEF b
<1>5. /\ Derive(b) \in AccountType
      /\ Derive(b).curr_margin = b.curr_margin
      /\ Derive(b).frozen_margin = b.frozen_margin
      /\ Derive(b).frozen_commission = b.frozen_commission
      /\ Derive(b).close_profit = b.close_profit
      /\ Derive(b).position_profit = b.position_profit
  BY <1>3, DeriveKeeps
<1> QED BY <1>2, <1>4, <1>5 DEF t

----------------------------------------------------------------------------
(* What an order freezes.                                                  *)

\* The inductive invariant.
BookInv ==
    /\ TypeOK
    /\ CurrMarginIsSum
    /\ ProfitsAreSums
    /\ FlatHoldsNothing
    /\ FrozenMarginCovered

\* What an order freezes is never negative, and a closing order freezes no
\* margin.
LEMMA OrderAmounts ==
    ASSUME NEW m \in MarketType, NEW o \in DealType, NEW vol \in Nat
    PROVE  /\ OrderMargin(m, o, vol) \in Nat
           /\ OrderCommission(m, o, vol) \in Nat
           /\ o.offset # "open" => OrderMargin(m, o, vol) = 0
<1>1. /\ o.inst \in Instruments /\ o.price \in Nat
      /\ SideOpened(o.dir) \in Sides
  BY DEF DealType, SideOpened, Sides
<1>2. getMarginPrice(m, o.inst, FALSE) \in Nat
  BY <1>1, MarketFields DEF getMarginPrice
<1>3. OrderMargin(m, o, vol) \in Nat
  <2> DEFINE p == getMarginPrice(m, o.inst, FALSE)
             price == IF m.price_type # "4" /\ p > 0 THEN p ELSE o.price
  <2>1. price \in Nat
    BY <1>1, <1>2
  <2> HIDE DEF price
  <2>2. calcMargin(m, o.inst, price, vol, SideOpened(o.dir), FALSE) \in Nat
    BY <1>1, <2>1, MarginIsNat
  <2> QED BY <2>2 DEF OrderMargin, price
<1>4. OrderCommission(m, o, vol) \in Nat
  <2>1. /\ (o.offset = "open") \in BOOLEAN
        /\ (Dated(m, o.inst) /\ o.offset = "closeToday") \in BOOLEAN
    OBVIOUS
  <2> QED BY <1>1, <2>1, CommissionIsNat DEF OrderCommission
<1> QED BY <1>3, <1>4 DEF OrderMargin

\* A step that moves only frozen amounts keeps the other totals.
LEMMA OnlyFrozenMoves ==
    ASSUME NEW pos \in [Slots -> PositionType], NEW new \in [Slots -> PositionType],
           FlatIsClean(pos),
           \A s \in Slots : /\ new[s].margin = pos[s].margin
                            /\ new[s].position = pos[s].position
                            /\ new[s].position_profit = pos[s].position_profit
                            /\ new[s].close_profit = pos[s].close_profit
    PROVE  /\ Margins(new) = Margins(pos) /\ Profits(new) = Profits(pos)
           /\ Realised(new) = Realised(pos) /\ FlatIsClean(new)
BY DEF Margins, Profits, Realised, FlatIsClean

\* onOrderRequest on a slot: the frozen margin grows by the margin of the
\* order, the position stays.
LEMMA SlotFreezeKeeps ==
    ASSUME NEW m \in MarketType, NEW p \in PositionType, NEW o \in DealType
    PROVE  /\ SlotFreeze(m, p, o) \in PositionType
           /\ SlotFreeze(m, p, o).margin = p.margin
           /\ SlotFreeze(m, p, o).position = p.position
           /\ SlotFreeze(m, p, o).position_profit = p.position_profit
           /\ SlotFreeze(m, p, o).close_profit = p.close_profit
           /\ SlotFreeze(m, p, o).frozen_margin =
                  p.frozen_margin + OrderMargin(m, o, o.vol)
           /\ SlotFreeze(m, p, o).frozen_commission =
                  p.frozen_commission + OrderCommission(m, o, o.vol)
<1> DEFINE q == FreezeLots(p, o.dir, o.vol)
           mg == OrderMargin(m, o, o.vol)
           cm == OrderCommission(m, o, o.vol)
<1>1. o.vol \in Nat /\ o.dir \in Directions
  BY DEF DealType
<1>2. mg \in Nat /\ cm \in Nat
  BY <1>1, OrderAmounts
<1>3. /\ q \in PositionType /\ q.margin = p.margin /\ q.position = p.position
      /\ q.frozen_margin = p.frozen_margin /\ q.close_profit = p.close_profit
      /\ q.position_profit = p.position_profit
      /\ q.frozen_commission = p.frozen_commission
  BY <1>1, FreezeLotsType
<1>4. SlotFreeze(m, p, o) =
        [q EXCEPT !.listed = TRUE, !.frozen_margin = @ + mg,
                  !.frozen_commission = @ + cm]
  BY DEF SlotFreeze
<1> HIDE DEF q, mg, cm
<1>5. q.frozen_margin + mg \in Nat /\ q.frozen_commission + cm \in Nat
  BY <1>2, <1>3 DEF PositionType
<1>6. SlotFreeze(m, p, o) \in PositionType
  BY <1>3, <1>4, <1>5 DEF PositionType
<1>7. /\ SlotFreeze(m, p, o).margin = q.margin
      /\ SlotFreeze(m, p, o).position = q.position
      /\ SlotFreeze(m, p, o).position_profit = q.position_profit
      /\ SlotFreeze(m, p, o).close_profit = q.close_profit
      /\ SlotFreeze(m, p, o).frozen_margin = q.frozen_margin + mg
      /\ SlotFreeze(m, p, o).frozen_commission = q.frozen_commission + cm
  BY <1>3, <1>4 DEF PositionType
<1> QED BY <1>3, <1>6, <1>7 DEF mg, cm

\* onOrderRejectOrCancel on a slot: the frozen margin shrinks by the margin of
\* the order, to zero at least; the position stays.
LEMMA SlotThawKeeps ==
    ASSUME NEW m \in MarketType, NEW p \in PositionType, NEW o \in DealType,
           NEW vol \in Nat
    PROVE  /\ SlotThaw(m, p, o, vol) \in PositionType
           /\ SlotThaw(m, p, o, vol).margin = p.margin
           /\ SlotThaw(m, p, o, vol).position = p.position
           /\ SlotThaw(m, p, o, vol).position_profit = p.position_profit
           /\ SlotThaw(m, p, o, vol).close_profit = p.close_profit
           /\ SlotThaw(m, p, o, vol).frozen_margin =
                  Positive(p.frozen_margin - OrderMargin(m, o, vol))
           /\ SlotThaw(m, p, o, vol).frozen_commission =
                  Positive(p.frozen_commission - OrderCommission(m, o, vol))
<1> DEFINE q == FreezeLots(p, o.dir, -vol)
           mg == OrderMargin(m, o, vol)
           cm == OrderCommission(m, o, vol)
<1>1. -vol \in Int /\ o.dir \in Directions
  BY DEF DealType
<1>2. mg \in Nat /\ cm \in Nat
  BY <1>1, OrderAmounts
<1>3. /\ q \in PositionType /\ q.margin = p.margin /\ q.position = p.position
      /\ q.frozen_margin = p.frozen_margin /\ q.close_profit = p.close_profit
      /\ q.position_profit = p.position_profit
      /\ q.frozen_commission = p.frozen_commission
  BY <1>1, FreezeLotsType
<1>4. SlotThaw(m, p, o, vol) =
        [q EXCEPT !.frozen_margin = Positive(@ - mg),
                  !.frozen_commission = Positive(@ - cm)]
  BY DEF SlotThaw
<1> HIDE DEF q, mg, cm
<1>5. /\ Positive(q.frozen_margin - mg) \in Nat
      /\ Positive(q.frozen_commission - cm) \in Nat
  BY <1>2, <1>3, CutIsNat DEF PositionType
<1>6. SlotThaw(m, p, o, vol) \in PositionType
  BY <1>3, <1>4, <1>5 DEF PositionType
<1>7. /\ SlotThaw(m, p, o, vol).margin = q.margin
      /\ SlotThaw(m, p, o, vol).position = q.position
      /\ SlotThaw(m, p, o, vol).position_profit = q.position_profit
      /\ SlotThaw(m, p, o, vol).close_profit = q.close_profit
      /\ SlotThaw(m, p, o, vol).frozen_margin = Positive(q.frozen_margin - mg)
      /\ SlotThaw(m, p, o, vol).frozen_commission = Positive(q.frozen_commission - cm)
  BY <1>3, <1>4 DEF PositionType
<1> QED BY <1>3, <1>6, <1>7 DEF mg, cm

----------------------------------------------------------------------------
(* onOrderRequest and onOrderRejectOrCancel.                               *)

\* onOrderRequest on the account.
LEMMA AccountFreezeKeeps ==
    ASSUME NEW m \in MarketType, NEW a \in AccountType, NEW o \in DealType
    PROVE  /\ AccountFreeze(m, a, o) \in AccountType
           /\ AccountFreeze(m, a, o).curr_margin = a.curr_margin
           /\ AccountFreeze(m, a, o).close_profit = a.close_profit
           /\ AccountFreeze(m, a, o).position_profit = a.position_profit
           /\ AccountFreeze(m, a, o).frozen_margin =
                  a.frozen_margin + OrderMargin(m, o, o.vol)
           /\ o.offset = "open" => AccountFreeze(m, a, o).frozen_commission =
                  a.frozen_commission + OrderCommission(m, o, o.vol)
<1> DEFINE mg == OrderMargin(m, o, o.vol)
           cm == OrderCommission(m, o, o.vol)
           twice == IF o.offset = "open" THEN cm ELSE 2 * cm
           b == [a EXCEPT !.frozen_margin = @ + mg,
                          !.frozen_commission = @ + twice]
<1>1. o.vol \in Nat
  BY DEF DealType
<1>2. mg \in Nat /\ cm \in Nat
  BY <1>1, OrderAmounts
<1> HIDE DEF mg, cm
<1>3. twice \in Nat /\ (o.offset = "open" => twice = cm)
  BY <1>2
<1>4. AccountFreeze(m, a, o) = Derive(b)
  BY DEF AccountFreeze, mg, cm
<1> HIDE DEF twice
<1>5. a.frozen_margin + mg \in Nat /\ a.frozen_commission + twice \in Nat
  BY <1>2, <1>3 DEF AccountType
<1>6. b \in AccountType
  BY <1>5 DEF AccountType
<1>7. /\ b.curr_margin = a.curr_margin /\ b.close_profit = a.close_profit
      /\ b.position_profit = a.position_profit
      /\ b.frozen_margin = a.frozen_margin + mg
      /\ b.frozen_commission = a.frozen_commission + twice
  BY DEF AccountType
<1> HIDE DEF b
<1> QED BY <1>3, <1>4, <1>6, <1>7, DeriveKeeps DEF mg, cm

\* onOrderRejectOrCancel on the account.
LEMMA AccountThawKeeps ==
    ASSUME NEW m \in MarketType, NEW a \in AccountType, NEW o \in DealType,
           NEW vol \in Nat
    PROVE  /\ AccountThaw(m, a, o, vol) \in AccountType
           /\ AccountThaw(m, a, o, vol).curr_margin = a.curr_margin
           /\ AccountThaw(m, a, o, vol).close_profit = a.close_profit
           /\ AccountThaw(m, a, o, vol).position_profit = a.position_profit
           /\ AccountThaw(m, a, o, vol).frozen_margin =
                  Positive(a.frozen_margin - OrderMargin(m, o, vol))
           /\ AccountThaw(m, a, o, vol).frozen_commission =
                  Positive(a.frozen_commission - OrderCommission(m, o, vol))
<1> DEFINE mg == OrderMargin(m, o, vol)
           cm == OrderCommission(m, o, vol)
           b == [a EXCEPT !.frozen_margin = Positive(@ - mg),
                          !.frozen_commission = Positive(@ - cm)]
<1>1. mg \in Nat /\ cm \in Nat
  BY OrderAmounts
<1>2. AccountThaw(m, a, o, vol) = Derive(b)
  BY DEF AccountThaw
<1> HIDE DEF mg, cm
<1>3. /\ Positive(a.frozen_margin - mg) \in Nat
      /\ Positive(a.frozen_commission - cm) \in Nat
  BY <1>1, CutIsNat DEF AccountType
<1>4. b \in AccountType
  BY <1>3 DEF AccountType
<1>5. /\ b.curr_margin = a.curr_margin /\ b.close_profit = a.close_profit
      /\ b.position_profit = a.position_profit
      /\ b.frozen_margin = Positive(a.frozen_margin - mg)
      /\ b.frozen_commission = Positive(a.frozen_commission - cm)
  BY DEF AccountType
<1> HIDE DEF b
<1> QED BY <1>2, <1>4, <1>5, DeriveKeeps DEF mg, cm

\* The slot an order opens is a slot.
LEMMA OpenSlot ==
    ASSUME NEW o \in DealType
    PROVE  <<o.inst, SideOpened(o.dir), "today">> \in Slots
BY DEF DealType, SideOpened, Slots, Sides, Dates

\* onOrderRequest preserves the invariant: an opening order adds the same
\* margin to the account and to one slot, a closing order adds none.
LEMMA RequestKeeps ==
    ASSUME BookInv, NEW o \in Orders, onOrderRequest(o)
    PROVE  BookInv'
<1>1. o \in DealType
  BY InputAssumption
<1>2. CASE o.inst \notin market.instruments
  BY <1>2 DEF onOrderRequest, BookInv, TypeOK, CurrMarginIsSum, ProfitsAreSums,
              FlatHoldsNothing, FrozenMarginCovered
<1>3. CASE o.inst \in market.instruments
  <2> DEFINE mg == OrderMargin(market, o, o.vol)
             touched == TouchedSlots(positions, o)
  <2>1. /\ positions \in [Slots -> PositionType] /\ account \in AccountType
        /\ market \in MarketType /\ FlatIsClean(positions)
    BY DEF BookInv, TypeOK, FlatHoldsNothing
  <2>2. /\ account' = AccountFreeze(market, account, o)
        /\ positions' = [s \in Slots |-> IF s \in touched
                            THEN SlotFreeze(market, positions[s], o)
                            ELSE positions[s]]
        /\ market' = market
    BY <1>3 DEF onOrderRequest
  <2>3. o.vol \in Nat
    BY <1>1 DEF DealType
  <2>4. mg \in Nat /\ (o.offset # "open" => mg = 0)
    BY <1>1, <2>1, <2>3, OrderAmounts
  <2> HIDE DEF mg, touched
  <2>5. ASSUME NEW s \in Slots
        PROVE  /\ positions'[s] \in PositionType
               /\ positions'[s].margin = positions[s].margin
               /\ positions'[s].position = positions[s].position
               /\ positions'[s].position_profit = positions[s].position_profit
               /\ positions'[s].close_profit = positions[s].close_profit
               /\ positions'[s].frozen_margin =
                      positions[s].frozen_margin + IF s \in touched THEN mg ELSE 0
    <3>1. positions[s] \in PositionType
      BY <2>1
    <3>2. CASE s \in touched
      BY <1>1, <2>1, <2>2, <3>1, <3>2, SlotFreezeKeeps DEF mg
    <3>3. CASE s \notin touched
      <4>1. positions'[s] = positions[s]
        BY <2>2, <3>3
      <4>2. positions[s].frozen_margin \in Nat
        BY <3>1 DEF PositionType
      <4> QED BY <3>1, <3>3, <4>1, <4>2
    <3> QED BY <3>2, <3>3
  <2>6. positions' \in [Slots -> PositionType]
    BY <2>2, <2>5
  <2>7. /\ Margins(positions') = Margins(positions)
        /\ Profits(positions') = Profits(positions)
        /\ Realised(positions') = Realised(positions)
        /\ FlatIsClean(positions')
    BY <2>1, <2>5, <2>6, OnlyFrozenMoves
  <2>8. /\ account' \in AccountType
        /\ account'.curr_margin = account.curr_margin
        /\ account'.close_profit = account.close_profit
        /\ account'.position_profit = account.position_profit
        /\ account'.frozen_margin = account.frozen_margin + mg
    BY <1>1, <2>1, <2>2, AccountFreezeKeeps DEF mg
  <2>9. account'.frozen_margin <= SlotTotal(FrozenMargins(positions'))
    <3> DEFINE f == FrozenMargins(positions)
               g == FrozenMargins(positions')
    <3>1. f \in [Slots -> Int] /\ g \in [Slots -> Int] /\ SlotTotal(f) \in Nat
      BY <2>1, <2>6, ColumnTypes, SlotTotalCovers
    <3>2. account.frozen_margin \in Nat /\ account.frozen_margin <= SlotTotal(f)
      BY <2>1 DEF BookInv, FrozenMarginCovered, AccountType
    <3>3. \A s \in Slots : g[s] = f[s] + IF s \in touched THEN mg ELSE 0
      BY <2>5 DEF FrozenMargins
    <3> HIDE DEF f, g
    <3>4. CASE o.offset = "open"
      <4> DEFINE s == <<o.inst, SideOpened(o.dir), "today">>
      <4>1. s \in Slots /\ touched = {s}
        BY <1>1, <3>4, OpenSlot DEF touched, TouchedSlots
      <4> HIDE DEF s
      <4>2. g[s] = f[s] + mg /\ f[s] \in Int
        BY <3>1, <3>3, <4>1
      <4>3. \A r \in Slots : r # s => g[r] = f[r]
        BY <3>1, <3>3, <4>1
      <4>4. SlotTotal(g) = SlotTotal(f) + g[s] - f[s]
        BY <3>1, <4>1, <4>3, SlotTotalMovesOne
      <4>5. SlotTotal(g) = SlotTotal(f) + mg
        BY <2>4, <3>1, <4>2, <4>4
      <4> QED BY <2>4, <2>8, <3>1, <3>2, <4>5 DEF g
    <3>5. CASE o.offset # "open"
      <4>1. \A s \in Slots : g[s] = f[s]
        BY <2>4, <3>1, <3>3, <3>5
      <4>2. g = f
        BY <3>1, <4>1
      <4> QED BY <2>4, <2>8, <3>2, <3>5, <4>2 DEF g
    <3> QED BY <3>4, <3>5
  <2> QED BY <2>1, <2>2, <2>6, <2>7, <2>8, <2>9
          DEF BookInv, TypeOK, CurrMarginIsSum, ProfitsAreSums,
              FlatHoldsNothing, FrozenMarginCovered
<1> QED BY <1>2, <1>3

\* onOrderRejectOrCancel preserves the invariant: whatever the two cut-offs at
\* zero swallow, the account keeps no more frozen than its slots.
LEMMA CancelKeeps ==
    ASSUME BookInv, NEW o \in Orders, NEW unfilled \in 0 .. o.vol,
           onOrderRejectOrCancel(o, unfilled)
    PROVE  BookInv'
<1> DEFINE vol == IF unfilled <= 0 THEN o.vol ELSE unfilled
           mg == OrderMargin(market, o, vol)
           touched == TouchedSlots(positions, o)
<1>1. o \in DealType
  BY InputAssumption
<1>2. /\ positions \in [Slots -> PositionType] /\ account \in AccountType
      /\ market \in MarketType /\ FlatIsClean(positions)
  BY DEF BookInv, TypeOK, FlatHoldsNothing
<1>3. /\ account' = AccountThaw(market, account, o, vol)
      /\ positions' = [s \in Slots |-> IF s \in touched
                          THEN SlotThaw(market, positions[s], o, vol)
                          ELSE positions[s]]
      /\ market' = market
  BY DEF onOrderRejectOrCancel
<1>4. vol \in Nat
  BY <1>1 DEF DealType
<1> HIDE DEF vol, touched
<1>5. mg \in Nat /\ (o.offset # "open" => mg = 0)
  BY <1>1, <1>2, <1>4, OrderAmounts
<1> HIDE DEF mg
<1>6. ASSUME NEW s \in Slots
      PROVE  /\ positions'[s] \in PositionType
             /\ positions'[s].margin = positions[s].margin
             /\ positions'[s].position = positions[s].position
             /\ positions'[s].position_profit = positions[s].position_profit
             /\ positions'[s].close_profit = positions[s].close_profit
             /\ positions'[s].frozen_margin =
                    IF s \in touched THEN Positive(positions[s].frozen_margin - mg)
                    ELSE positions[s].frozen_margin
  <2>1. positions[s] \in PositionType
    BY <1>2
  <2>2. CASE s \in touched
    BY <1>1, <1>2, <1>3, <1>4, <2>1, <2>2, SlotThawKeeps DEF mg
  <2>3. CASE s \notin touched
    BY <1>3, <2>1, <2>3
  <2> QED BY <2>2, <2>3
<1>7. positions' \in [Slots -> PositionType]
  BY <1>3, <1>6
<1>8. /\ Margins(positions') = Margins(positions)
      /\ Profits(positions') = Profits(positions)
      /\ Realised(positions') = Realised(positions)
      /\ FlatIsClean(positions')
  BY <1>2, <1>6, <1>7, OnlyFrozenMoves
<1>9. /\ account' \in AccountType
      /\ account'.curr_margin = account.curr_margin
      /\ account'.close_profit = account.close_profit
      /\ account'.position_profit = account.position_profit
      /\ account'.frozen_margin = Positive(account.frozen_margin - mg)
  BY <1>1, <1>2, <1>3, <1>4, AccountThawKeeps DEF mg
<1>10. account'.frozen_margin <= SlotTotal(FrozenMargins(positions'))
  <2> DEFINE f == FrozenMargins(positions)
             g == FrozenMargins(positions')
  <2>1. /\ f \in [Slots -> Nat] /\ g \in [Slots -> Nat]
        /\ SlotTotal(f) \in Nat /\ SlotTotal(g) \in Nat
    BY <1>2, <1>7, ColumnTypes, SlotTotalCovers
  <2>2. account.frozen_margin \in Nat /\ account.frozen_margin <= SlotTotal(f)
    BY <1>2 DEF BookInv, FrozenMarginCovered, AccountType
  <2>3. \A s \in Slots : g[s] = IF s \in touched THEN Positive(f[s] - mg) ELSE f[s]
    BY <1>6 DEF FrozenMargins
  <2> HIDE DEF f, g
  <2>4. CASE o.offset = "open"
    <3> DEFINE s == <<o.inst, SideOpened(o.dir), "today">>
    <3>1. s \in Slots /\ touched = {s}
      BY <1>1, <2>4, OpenSlot DEF touched, TouchedSlots
    <3> HIDE DEF s
    <3>2. g[s] = Positive(f[s] - mg) /\ f[s] \in Nat
      BY <2>1, <2>3, <3>1
    <3>3. \A r \in Slots : r # s => g[r] = f[r]
      BY <2>3, <3>1
    <3>4. f \in [Slots -> Int] /\ g \in [Slots -> Int]
      BY <2>1
    <3>5. SlotTotal(g) = SlotTotal(f) + g[s] - f[s]
      BY <3>1, <3>3, <3>4, SlotTotalMovesOne
    <3>6. Positive(account.frozen_margin - mg) <= SlotTotal(g)
      BY <1>5, <2>1, <2>2, <3>2, <3>5 DEF Positive, Larger
    <3> QED BY <1>9, <3>6 DEF g
  <2>5. CASE o.offset # "open"
    <3>1. \A s \in Slots : g[s] = f[s]
      BY <1>5, <2>1, <2>3, <2>5 DEF Positive, Larger
    <3>2. g = f
      BY <2>1, <3>1
    <3>3. Positive(account.frozen_margin - mg) = account.frozen_margin
      BY <1>5, <2>2, <2>5 DEF Positive, Larger
    <3> QED BY <1>9, <2>2, <3>2, <3>3 DEF g
  <2> QED BY <2>4, <2>5
<1> QED BY <1>2, <1>3, <1>7, <1>8, <1>9, <1>10
        DEF BookInv, TypeOK, CurrMarginIsSum, ProfitsAreSums,
            FlatHoldsNothing, FrozenMarginCovered

----------------------------------------------------------------------------
(* onTradeFill, opening.                                                   *)

\* The multiplier is a natural number, known instrument or not.
LEMMA MultIsNat ==
    ASSUME NEW m \in MarketType, NEW i \in Instruments
    PROVE  Mult(m, i) \in Nat
BY InstrumentData DEF InfoType, Mult

\* What a fill leaves before the position profit is recounted.
Consistent(pos, a) ==
    /\ pos \in [Slots -> PositionType]
    /\ a \in AccountType
    /\ a.curr_margin = SlotTotal(Margins(pos))
    /\ a.close_profit = SlotTotal(Realised(pos))
    /\ a.frozen_margin <= SlotTotal(FrozenMargins(pos))
    /\ FlatNoMargin(pos)

\* An opening fill on its slot: the margin grows, nothing stays frozen.
LEMMA SlotOpenedKeeps ==
    ASSUME NEW m \in MarketType, NEW p \in PositionType, NEW t \in DealType
    PROVE  LET mg == calcMargin(m, t.inst, t.price, t.vol, SideOpened(t.dir), FALSE)
           IN /\ mg \in Nat
              /\ SlotOpened(m, p, t) \in PositionType
              /\ SlotOpened(m, p, t).margin = p.margin + mg
              /\ SlotOpened(m, p, t).position # 0
              /\ SlotOpened(m, p, t).frozen_margin = 0
              /\ SlotOpened(m, p, t).frozen_commission = 0
              /\ SlotOpened(m, p, t).close_profit = p.close_profit
<1> DEFINE r == FreezeLots(p, t.dir, -t.vol)
           q == Wiped(r)
           mg == calcMargin(m, t.inst, t.price, t.vol, SideOpened(t.dir), FALSE)
           cost == t.price * t.vol * Mult(m, t.inst)
           comm == calcCommissionForOrder(m, t.inst, t.price, t.vol, TRUE, FALSE)
<1>1. /\ t.inst \in Instruments /\ t.price \in Nat /\ t.vol \in Nat
      /\ t.vol > 0 /\ -t.vol \in Int /\ t.dir \in Directions
      /\ SideOpened(t.dir) \in Sides
  BY DEF DealType, SideOpened, Sides
<1>2. mg \in Nat /\ comm \in Nat
  BY <1>1, MarginIsNat, CommissionIsNat
<1>3. cost \in Nat
  <2>1. t.price * t.vol \in Nat /\ Mult(m, t.inst) \in Nat
    BY <1>1, NatTimes, MultIsNat
  <2> QED BY <2>1, NatTimes
<1>4. /\ q \in PositionType /\ q.margin = p.margin /\ q.frozen_margin = 0
      /\ q.frozen_commission = 0 /\ q.close_profit = p.close_profit
  <2>1. r \in PositionType /\ r.margin = p.margin /\ r.close_profit = p.close_profit
    BY <1>1, FreezeLotsType
  <2> HIDE DEF r
  <2> QED BY <2>1 DEF Wiped, PositionType
<1> DEFINE c1 == q.commission + comm
           c2 == q.position + t.vol
           c3 == q.today + t.vol
           c4 == q.open_cost + cost
           c5 == q.position_cost + cost
           c6 == q.margin + mg
<1>5. SlotOpened(m, p, t) =
        [q EXCEPT !.listed = TRUE, !.commission = c1, !.position = c2, !.today = c3, !.open_cost = c4,
           !.position_cost = c5, !.margin = c6]
  BY <1>4 DEF SlotOpened, PositionType
<1> HIDE DEF r, q, mg, cost, comm
<1>6. /\ c1 \in Nat /\ c2 \in Nat /\ c2 > 0 /\ c3 \in Int /\ c4 \in Nat
      /\ c5 \in Nat /\ c6 \in Nat
  BY <1>1, <1>2, <1>3, <1>4 DEF PositionType
<1> HIDE DEF c1, c2, c3, c4, c5, c6
<1>7. SlotOpened(m, p, t) \in PositionType
  <2>1. q \in PositionType
    BY <1>4
  <2>2. [q EXCEPT !.listed = TRUE, !.commission = c1, !.position = c2, !.today = c3,
           !.open_cost = c4, !.position_cost = c5, !.margin = c6] \in PositionType
    BY <1>6, <2>1 DEF PositionType
  <2> QED BY <1>5, <2>2
<1>8. /\ SlotOpened(m, p, t).margin = c6
      /\ SlotOpened(m, p, t).position = c2
      /\ SlotOpened(m, p, t).frozen_margin = q.frozen_margin
      /\ SlotOpened(m, p, t).frozen_commission = q.frozen_commission
      /\ SlotOpened(m, p, t).close_profit = q.close_profit
  BY <1>4, <1>5 DEF PositionType
<1>9. c6 = p.margin + mg
  BY <1>4 DEF c6
<1>10. c2 # 0
  BY <1>6
<1> QED BY <1>2, <1>4, <1>7, <1>8, <1>9, <1>10 DEF mg

\* An opening fill on the account: the margin grows by the same amount; the
\* frozen margin falls by at least what the slot had frozen.
LEMMA AccountOpenedKeeps ==
    ASSUME NEW m \in MarketType, NEW a \in AccountType, NEW p \in PositionType,
           NEW t \in DealType
    PROVE  LET mg == calcMargin(m, t.inst, t.price, t.vol, SideOpened(t.dir), FALSE)
               comm == calcCommissionForOrder(m, t.inst, t.price, t.vol, TRUE, FALSE)
           IN /\ AccountOpened(m, a, p, t) \in AccountType
              /\ AccountOpened(m, a, p, t).curr_margin = a.curr_margin + mg
              /\ AccountOpened(m, a, p, t).close_profit = a.close_profit
              /\ AccountOpened(m, a, p, t).frozen_margin =
                     Positive(a.frozen_margin - mg - Positive(p.frozen_margin - mg))
              /\ comm \in Nat
              /\ AccountOpened(m, a, p, t).frozen_commission =
                     Positive(a.frozen_commission - comm - p.frozen_commission)
<1> DEFINE mg == calcMargin(m, t.inst, t.price, t.vol, SideOpened(t.dir), FALSE)
           comm == calcCommissionForOrder(m, t.inst, t.price, t.vol, TRUE, FALSE)
           fm == Positive(a.frozen_margin - mg - Positive(p.frozen_margin - mg))
           fc == Positive(a.frozen_commission - comm - p.frozen_commission)
<1>1. /\ t.inst \in Instruments /\ t.price \in Nat /\ t.vol \in Nat
      /\ SideOpened(t.dir) \in Sides
  BY DEF DealType, SideOpened, Sides
<1>2. mg \in Nat /\ comm \in Nat
  BY <1>1, MarginIsNat, CommissionIsNat
<1>3. AccountOpened(m, a, p, t) =
        [a EXCEPT !.frozen_margin = fm, !.frozen_commission = fc,
                  !.commission = @ + comm, !.curr_margin = @ + mg]
  BY DEF AccountOpened
<1> HIDE DEF mg, comm
<1>4. fm \in Nat
  <2>1. /\ p.frozen_margin \in Nat /\ a.frozen_margin \in Nat
    BY DEF PositionType, AccountType
  <2>2. Positive(p.frozen_margin - mg) \in Nat
    BY <1>2, <2>1, CutIsNat
  <2> QED BY <1>2, <2>1, <2>2, CutIsNat
<1>5. fc \in Nat
  BY <1>2, CutIsNat DEF PositionType, AccountType
<1> HIDE DEF fm, fc
<1>6. a.commission + comm \in Nat /\ a.curr_margin + mg \in Nat
  BY <1>2 DEF AccountType
<1>7. AccountOpened(m, a, p, t) \in AccountType
  BY <1>3, <1>4, <1>5, <1>6 DEF AccountType
<1> QED BY <1>2, <1>3, <1>7 DEF AccountType, mg, comm, fm, fc

\* The opening branch of onTradeFill keeps account and positions together.
LEMMA OpenedKeeps ==
    ASSUME NEW m \in MarketType, NEW pos, NEW a, Consistent(pos, a),
           NEW t \in DealType
    PROVE  LET c == Opened(m, [pos |-> pos, acct |-> a], t)
           IN Consistent(c.pos, c.acct)
<1> DEFINE s == <<t.inst, SideOpened(t.dir), "today">>
           mg == calcMargin(m, t.inst, t.price, t.vol, SideOpened(t.dir), FALSE)
           p == pos[s]
           new == [pos EXCEPT ![s] = SlotOpened(m, p, t)]
           acct == AccountOpened(m, a, p, t)
<1>1. s \in Slots
  BY OpenSlot
<1>2. pos \in [Slots -> PositionType] /\ a \in AccountType /\ p \in PositionType
  BY <1>1 DEF Consistent
<1>3. Opened(m, [pos |-> pos, acct |-> a], t) = [pos |-> new, acct |-> acct]
  BY DEF Opened
<1> HIDE DEF s
<1>4. /\ mg \in Nat
      /\ SlotOpened(m, p, t) \in PositionType
      /\ SlotOpened(m, p, t).margin = p.margin + mg
      /\ SlotOpened(m, p, t).position # 0
      /\ SlotOpened(m, p, t).frozen_margin = 0
      /\ SlotOpened(m, p, t).close_profit = p.close_profit
  BY <1>2, SlotOpenedKeeps
<1>5. /\ acct \in AccountType
      /\ acct.curr_margin = a.curr_margin + mg
      /\ acct.close_profit = a.close_profit
      /\ acct.frozen_margin =
             Positive(a.frozen_margin - mg - Positive(p.frozen_margin - mg))
  BY <1>2, AccountOpenedKeeps
<1> HIDE DEF mg, acct
<1>6. /\ new \in [Slots -> PositionType]
      /\ new[s].margin = p.margin + mg /\ new[s].position # 0
      /\ new[s].frozen_margin = 0 /\ new[s].close_profit = p.close_profit
      /\ \A r \in Slots : r # s => new[r] = pos[r]
  BY <1>1, <1>2, <1>4
<1> HIDE DEF new, p
<1>7. /\ Margins(pos) \in [Slots -> Int] /\ Margins(new) \in [Slots -> Int]
      /\ Realised(pos) \in [Slots -> Int] /\ Realised(new) \in [Slots -> Int]
      /\ FrozenMargins(pos) \in [Slots -> Nat] /\ FrozenMargins(new) \in [Slots -> Nat]
      /\ FrozenMargins(pos) \in [Slots -> Int] /\ FrozenMargins(new) \in [Slots -> Int]
  BY <1>2, <1>6, ColumnTypes
<1>8. /\ Margins(new)[s] = Margins(pos)[s] + mg
      /\ FrozenMargins(new)[s] = 0
      /\ FrozenMargins(pos)[s] = p.frozen_margin
      /\ Realised(new)[s] = Realised(pos)[s]
      /\ \A r \in Slots : r # s => /\ Margins(new)[r] = Margins(pos)[r]
                                   /\ FrozenMargins(new)[r] = FrozenMargins(pos)[r]
                                   /\ Realised(new)[r] = Realised(pos)[r]
  BY <1>1, <1>6 DEF Margins, FrozenMargins, Realised, p
<1>9. acct.curr_margin = SlotTotal(Margins(new))
  <2>1. /\ SlotTotal(Margins(pos)) \in Int
        /\ SlotTotal(Margins(new)) = SlotTotal(Margins(pos))
                                       + Margins(new)[s] - Margins(pos)[s]
    BY <1>1, <1>7, <1>8, SlotTotalMovesOne
  <2>2. Margins(pos)[s] \in Int
    BY <1>1, <1>7
  <2> QED BY <1>4, <1>5, <1>8, <2>1, <2>2 DEF Consistent
<1>10. acct.close_profit = SlotTotal(Realised(new))
  <2>1. Realised(new) = Realised(pos)
    BY <1>7, <1>8
  <2> QED BY <1>5, <2>1 DEF Consistent
<1>11. acct.frozen_margin <= SlotTotal(FrozenMargins(new))
  <2> DEFINE F == SlotTotal(FrozenMargins(pos))
             G == SlotTotal(FrozenMargins(new))
  <2>1. F \in Nat /\ G \in Nat
    BY <1>7, SlotTotalCovers
  <2>2. G = F + FrozenMargins(new)[s] - FrozenMargins(pos)[s]
    BY <1>1, <1>7, <1>8, SlotTotalMovesOne
  <2>3. G = F - p.frozen_margin /\ p.frozen_margin \in Nat
    BY <1>2, <1>8, <2>1, <2>2 DEF PositionType
  <2>4. a.frozen_margin \in Nat /\ a.frozen_margin <= F
    BY <1>2 DEF Consistent, AccountType
  <2> HIDE DEF F, G
  <2>5. Positive(a.frozen_margin - mg - Positive(p.frozen_margin - mg)) <= G
    BY <1>4, <2>1, <2>3, <2>4 DEF Positive, Larger
  <2> QED BY <1>5, <2>5 DEF G
<1>12. FlatNoMargin(new)
  BY <1>6 DEF FlatNoMargin, Consistent
<1>13. Consistent(new, acct)
  BY <1>5, <1>6, <1>9, <1>10, <1>11, <1>12 DEF Consistent
<1> QED BY <1>3, <1>13

----------------------------------------------------------------------------
(* onTradeFill, closing.                                                   *)

\* The commission of a close is never negative, though today exceeding the
\* position makes one of its two terms negative before the cut.
LEMMA CloseCommissionIsNat ==
    ASSUME NEW m \in MarketType, NEW t \in DealType, NEW p \in PositionType,
           NEW date, NEW vol \in Nat, NEW fee \in Nat
    PROVE  CloseCommission(m, t, p, date, vol, fee) \in Nat
<1> DEFINE asToday == FeeAsToday(m, t.inst, p, date, vol, fee)
<1>1. p.position \in Nat /\ p.today \in Int
  BY DEF PositionType
<1>2. asToday \in Int
  BY <1>1 DEF FeeAsToday, YesterdayVol, Smaller
<1> HIDE DEF asToday
<1>3. Positive(asToday) \in Nat /\ Positive(vol - asToday) \in Nat
  BY <1>2, CutIsNat
<1>4. t.inst \in Instruments /\ t.price \in Nat
  BY DEF DealType
<1> DEFINE x == calcCommissionForOrder(m, t.inst, t.price, Positive(asToday),
                                       FALSE, TRUE)
           y == calcCommissionForOrder(m, t.inst, t.price,
                                       Positive(vol - asToday), FALSE, FALSE)
<1>5. x \in Nat /\ y \in Nat
  BY <1>3, <1>4, CommissionIsNat
<1>6. CloseCommission(m, t, p, date, vol, fee) = x + y
  BY DEF CloseCommission, asToday
<1> HIDE DEF x, y
<1> QED BY <1>5, <1>6

\* The profit of a close is a number.
LEMMA CloseGainIsInt ==
    ASSUME NEW m \in MarketType, NEW t \in DealType, NEW p \in PositionType,
           NEW date, NEW vol \in Nat
    PROVE  CloseGain(m, t, p, date, vol) \in Int
<1> DEFINE mult == Mult(m, t.inst)
           settled == IF ~ByDate(m, t.inst) THEN YesterdayVol(p, vol)
                      ELSE IF date = "yd" THEN vol ELSE 0
           fresh == Positive(vol - settled)
           cut == Positive(settled)
           avg == (p.open_cost * fresh) \div p.position
           gain == (t.price - m.pre_settlement[t.inst]) * cut * mult
                   + (IF p.position = 0 THEN 0
                      ELSE t.price * fresh * mult - avg)
<1>1. p.position \in Nat /\ p.today \in Int /\ p.open_cost \in Nat
  BY DEF PositionType
<1>2. settled \in Int
  BY <1>1 DEF YesterdayVol, Smaller
<1> HIDE DEF settled
<1>3. fresh \in Nat /\ cut \in Nat
  BY <1>2, CutIsNat
<1>4. t.inst \in Instruments /\ t.price \in Nat
  BY DEF DealType
<1>5. mult \in Nat /\ m.pre_settlement[t.inst] \in Nat
  BY <1>4, MultIsNat, MarketFields
<1>6. p.position # 0 => avg \in Int
  BY <1>1, <1>3
<1> HIDE DEF fresh, cut, mult, avg
<1>7. gain \in Int
  BY <1>3, <1>4, <1>5, <1>6
<1> HIDE DEF gain
<1>8. CloseGain(m, t, p, date, vol) = IF SideClosed(t.dir) = "long" THEN gain ELSE -gain
  BY DEF CloseGain, gain, fresh, cut, mult, settled, avg
<1> QED BY <1>7, <1>8

\* A close releases no more margin than the slot holds, and all of it when it
\* empties the slot.
LEMMA MarginShareBounds ==
    ASSUME NEW p \in PositionType, NEW vol \in 0 .. p.position,
           p.position = 0 => p.margin = 0
    PROVE  /\ MarginShare(p, vol) \in 0 .. p.margin
           /\ vol = p.position => MarginShare(p, vol) = p.margin
<1>1. p.position \in Nat /\ p.margin \in Nat
  BY DEF PositionType
<1>2. CASE p.position = 0
  BY <1>1, <1>2 DEF MarginShare
<1>3. CASE p.position # 0
  BY <1>1, <1>3, Share DEF MarginShare
<1> QED BY <1>2, <1>3

\* The invariant of the loop over date_order.
LoopInv(b) ==
    /\ Consistent(b.pos, b.acct)
    /\ b.left \in Nat
    /\ b.fee \in Nat

\* One turn of the loop over date_order preserves its invariant, and leaves what
\* the slots have frozen of margin alone.
LEMMA CloseSlotKeeps ==
    ASSUME NEW m \in MarketType, NEW b, LoopInv(b), NEW t \in DealType,
           NEW date \in Dates
    PROVE  /\ LoopInv(CloseSlot(m, b, t, date))
           /\ FrozenMargins(CloseSlot(m, b, t, date).pos) = FrozenMargins(b.pos)
<1> DEFINE s == <<t.inst, SideClosed(t.dir), date>>
           p == b.pos[s]
           vol == Smaller(b.left, p.position)
           comm == CloseCommission(m, t, p, date, vol, b.fee)
           gain == CloseGain(m, t, p, date, vol)
           share == MarginShare(p, vol)
           cost == t.price * vol * Mult(m, t.inst)
           q == FreezeLots(p, t.dir, -b.left)
           c1 == q.commission + comm
           c2 == Positive(q.frozen_commission - comm)
           c3 == q.close_profit + gain
           c4 == Positive(q.margin - share)
           c5 == q.position - vol
           c6 == Positive(q.position_cost - cost)
           slot == [q EXCEPT !.commission = c1, !.frozen_commission = c2,
                             !.close_profit = c3, !.margin = c4,
                             !.position = c5, !.position_cost = c6]
           a == b.acct
           d1 == a.commission + comm
           d2 == Positive(a.frozen_commission - comm)
           d3 == a.close_profit + gain
           d4 == Positive(a.curr_margin - share)
           acct == [a EXCEPT !.commission = d1, !.frozen_commission = d2,
                             !.close_profit = d3, !.curr_margin = d4]
           new == [b.pos EXCEPT ![s] = slot]
<1>1. CASE b.left <= 0 \/ ~p.listed
  <2>1. CloseSlot(m, b, t, date) = b
    BY <1>1 DEF CloseSlot
  <2> QED BY <2>1
<1>2. CASE ~(b.left <= 0 \/ ~p.listed)
  <2>1. s \in Slots
    BY DEF DealType, SideClosed, Slots, Sides
  <2>2. /\ b.pos \in [Slots -> PositionType] /\ a \in AccountType
        /\ b.left \in Nat /\ b.fee \in Nat
    BY DEF LoopInv, Consistent
  <2>3. /\ p \in PositionType /\ p.position \in Nat /\ p.margin \in Nat
        /\ p.close_profit \in Int
        /\ p.position = 0 => p.margin = 0
    BY <2>1, <2>2 DEF LoopInv, Consistent, FlatNoMargin, PositionType
  <2>4. CloseSlot(m, b, t, date) =
          [pos |-> new, acct |-> acct, left |-> b.left - vol,
           fee |-> b.fee - Smaller(vol, b.fee)]
    BY <1>2 DEF CloseSlot
  <2> HIDE DEF s
  <2>5. /\ vol \in 0 .. p.position /\ vol \in Nat /\ b.left - vol \in Nat
        /\ b.fee - Smaller(vol, b.fee) \in Nat
    BY <2>2, <2>3 DEF Smaller
  <2>6. comm \in Nat /\ gain \in Int
    BY <2>2, <2>3, <2>5, CloseCommissionIsNat, CloseGainIsInt
  <2>7. share \in 0 .. p.margin /\ (vol = p.position => share = p.margin)
    BY <2>3, <2>5, MarginShareBounds
  <2>8. cost \in Nat
    <3>1. t.price \in Nat /\ Mult(m, t.inst) \in Nat
      BY MultIsNat DEF DealType
    <3>2. t.price * vol \in Nat
      BY <2>5, <3>1, NatTimes
    <3> QED BY <3>1, <3>2, NatTimes
  <2>9. /\ q \in PositionType /\ q.margin = p.margin /\ q.position = p.position
        /\ q.frozen_margin = p.frozen_margin /\ q.close_profit = p.close_profit
    <3>1. -b.left \in Int /\ t.dir \in Directions
      BY <2>2 DEF DealType
    <3> QED BY <2>3, <3>1, FreezeLotsType
  <2> HIDE DEF p, vol, comm, gain, share, cost, q, a
  <2>10. /\ c1 \in Nat /\ c2 \in Nat /\ c3 \in Int /\ c4 \in Nat /\ c5 \in Nat
         /\ c6 \in Nat
    <3>1. /\ q.commission \in Nat /\ q.frozen_commission \in Nat
          /\ q.position_cost \in Nat
      BY <2>9 DEF PositionType
    <3>2. p.margin - share \in Int
      BY <2>3, <2>7
    <3> QED BY <2>3, <2>5, <2>6, <2>8, <2>9, <3>1, <3>2, CutIsNat
  <2>11. c4 = p.margin - share /\ c5 = p.position - vol /\ c3 = p.close_profit + gain
    BY <2>3, <2>7, <2>9 DEF Positive, Larger
  <2> HIDE DEF c1, c2, c3, c4, c5, c6
  <2>12. slot \in PositionType
    BY <2>9, <2>10 DEF PositionType
  <2>13. /\ slot.margin = c4 /\ slot.position = c5 /\ slot.close_profit = c3
         /\ slot.frozen_margin = p.frozen_margin
    BY <2>9 DEF PositionType
  <2> HIDE DEF slot
  <2>14. /\ new \in [Slots -> PositionType] /\ new[s] = slot
         /\ \A r \in Slots : r # s => new[r] = b.pos[r]
    BY <2>1, <2>2, <2>12
  <2> HIDE DEF new
  <2>15. /\ Margins(b.pos) \in [Slots -> Int] /\ Margins(new) \in [Slots -> Int]
         /\ Margins(b.pos) \in [Slots -> Nat]
         /\ Realised(b.pos) \in [Slots -> Int] /\ Realised(new) \in [Slots -> Int]
         /\ FrozenMargins(b.pos) \in [Slots -> Int]
         /\ FrozenMargins(new) \in [Slots -> Int]
    BY <2>2, <2>14, ColumnTypes
  <2>16. /\ Margins(new)[s] = p.margin - share
         /\ Margins(b.pos)[s] = p.margin
         /\ Realised(new)[s] = p.close_profit + gain
         /\ Realised(b.pos)[s] = p.close_profit
         /\ \A r \in Slots : r # s => /\ Margins(new)[r] = Margins(b.pos)[r]
                                      /\ Realised(new)[r] = Realised(b.pos)[r]
    BY <2>1, <2>11, <2>13, <2>14 DEF Margins, Realised, p
  <2>17. FrozenMargins(new) = FrozenMargins(b.pos)
    <3>1. \A r \in Slots : FrozenMargins(new)[r] = FrozenMargins(b.pos)[r]
      BY <2>1, <2>13, <2>14 DEF FrozenMargins, p
    <3> QED BY <2>15, <3>1
  <2>18. /\ SlotTotal(Margins(b.pos)) \in Nat
         /\ p.margin <= SlotTotal(Margins(b.pos))
         /\ SlotTotal(Margins(new)) = SlotTotal(Margins(b.pos)) - share
    <3>1. /\ SlotTotal(Margins(b.pos)) \in Nat
          /\ Margins(b.pos)[s] <= SlotTotal(Margins(b.pos))
      BY <2>1, <2>15, SlotTotalCovers
    <3>2. SlotTotal(Margins(new)) = SlotTotal(Margins(b.pos)) + Margins(new)[s]
                                      - Margins(b.pos)[s]
      BY <2>1, <2>15, <2>16, SlotTotalMovesOne
    <3> QED BY <2>3, <2>7, <2>16, <3>1, <3>2
  <2>19. SlotTotal(Realised(new)) = SlotTotal(Realised(b.pos)) + gain
    <3>1. /\ SlotTotal(Realised(b.pos)) \in Int
          /\ SlotTotal(Realised(new)) = SlotTotal(Realised(b.pos)) + Realised(new)[s]
                                          - Realised(b.pos)[s]
      BY <2>1, <2>15, <2>16, SlotTotalMovesOne
    <3> QED BY <2>3, <2>6, <2>16, <3>1
  <2>20. /\ a.curr_margin = SlotTotal(Margins(b.pos))
         /\ a.close_profit = SlotTotal(Realised(b.pos))
         /\ a.frozen_margin <= SlotTotal(FrozenMargins(b.pos))
    BY DEF LoopInv, Consistent, a
  <2>21. /\ d1 \in Nat /\ d2 \in Nat /\ d3 \in Int /\ d4 \in Nat
         /\ d4 = SlotTotal(Margins(new)) /\ d3 = SlotTotal(Realised(new))
    <3>1. a.commission \in Nat /\ a.frozen_commission \in Nat /\ a.close_profit \in Int
      BY <2>2 DEF AccountType
    <3>2. d1 \in Nat /\ d2 \in Nat /\ d3 \in Int
      BY <2>6, <3>1, CutIsNat
    <3>3. a.curr_margin - share \in Nat
      BY <2>3, <2>7, <2>18, <2>20
    <3>4. d4 = a.curr_margin - share
      BY <3>3 DEF Positive, Larger
    <3> QED BY <2>18, <2>19, <2>20, <3>2, <3>3, <3>4
  <2> HIDE DEF d1, d2, d3, d4
  <2>22. acct \in AccountType
    BY <2>2, <2>21 DEF AccountType
  <2>23. /\ acct.curr_margin = d4 /\ acct.close_profit = d3
         /\ acct.frozen_margin = a.frozen_margin
    BY <2>2 DEF AccountType
  <2> HIDE DEF acct
  <2>24. FlatNoMargin(new)
    <3>1. c5 = 0 => c4 = 0
      BY <2>3, <2>5, <2>7, <2>11
    <3>2. \A r \in Slots : b.pos[r].position = 0 => b.pos[r].margin = 0
      BY DEF LoopInv, Consistent, FlatNoMargin
    <3> QED BY <2>13, <2>14, <3>1, <3>2 DEF FlatNoMargin
  <2>25. Consistent(new, acct)
    BY <2>14, <2>17, <2>20, <2>21, <2>22, <2>23, <2>24 DEF Consistent
  <2>26. LoopInv(CloseSlot(m, b, t, date))
    BY <2>4, <2>5, <2>25 DEF LoopInv
  <2> QED BY <2>4, <2>17, <2>26
<1> QED BY <1>1, <1>2

----------------------------------------------------------------------------
(* What a close is charged.                                                *)

\* Commission is in proportion to the lots.
LEMMA CommissionScales ==
    ASSUME NEW m \in MarketType, NEW i \in Instruments, NEW price \in Nat,
           NEW vol \in Nat, NEW closeToday \in BOOLEAN
    PROVE  calcCommissionForOrder(m, i, price, vol, FALSE, closeToday)
               = vol * calcCommissionForOrder(m, i, price, 1, FALSE, closeToday)
<1>1. /\ Rate[i].closeMoney \in Nat /\ Rate[i].closeLot \in Nat
      /\ Rate[i].todayMoney \in Nat /\ Rate[i].todayLot \in Nat
  BY InstrumentData DEF RateType
<1> DEFINE worth == price * Mult(m, i)
<1>2. worth \in Nat
  <2>1. Mult(m, i) \in Nat
    BY MultIsNat
  <2> QED BY <2>1, NatTimes
<1>3. ASSUME NEW a \in Nat, NEW c \in Nat
      PROVE  Fee(a, c, worth * vol, vol) = vol * Fee(a, c, worth * 1, 1)
  <2> HIDE DEF worth
  <2> DEFINE wa == worth * a
  <2>1. wa \in Nat /\ worth * 1 = worth /\ 1 * c = c
    BY <1>2, NatTimes
  <2>2. (worth * vol) * a = vol * wa
    BY <1>2, Z3
  <2>3. Fee(a, c, worth * vol, vol) = vol * wa + vol * c
    BY <2>2 DEF Fee
  <2>4. Fee(a, c, worth * 1, 1) = wa + c
    BY <2>1 DEF Fee
  <2> HIDE DEF wa
  <2>5. vol * (wa + c) = vol * wa + vol * c
    BY <2>1, Z3
  <2> QED BY <2>3, <2>4, <2>5
<1>4. vol * 0 = 0
  OBVIOUS
<1> QED BY <1>1, <1>3, <1>4 DEF calcCommissionForOrder

\* The dearer of the two closing rates, for one lot.
Dearest(m, t) ==
    Larger(calcCommissionForOrder(m, t.inst, t.price, 1, FALSE, TRUE),
           calcCommissionForOrder(m, t.inst, t.price, 1, FALSE, FALSE))

\* It is what FeeFits allows for each of the lots traded.
LEMMA DearestScales ==
    ASSUME NEW m \in MarketType, NEW t \in DealType, NEW vol \in Nat
    PROVE  /\ Dearest(m, t) \in Nat
           /\ vol * Dearest(m, t) =
                  Larger(calcCommissionForOrder(m, t.inst, t.price, vol, FALSE, TRUE),
                         calcCommissionForOrder(m, t.inst, t.price, vol, FALSE, FALSE))
<1> DEFINE x == calcCommissionForOrder(m, t.inst, t.price, 1, FALSE, TRUE)
           y == calcCommissionForOrder(m, t.inst, t.price, 1, FALSE, FALSE)
<1>1. t.inst \in Instruments /\ t.price \in Nat
  BY DEF DealType
<1>2. x \in Nat /\ y \in Nat
  BY <1>1, CommissionIsNat
<1>3. /\ calcCommissionForOrder(m, t.inst, t.price, vol, FALSE, TRUE) = vol * x
      /\ calcCommissionForOrder(m, t.inst, t.price, vol, FALSE, FALSE) = vol * y
  BY <1>1, CommissionScales
<1>4. Dearest(m, t) = Larger(x, y)
  BY DEF Dearest
<1> HIDE DEF x, y
<1>5. vol * Larger(x, y) = Larger(vol * x, vol * y)
  <2>1. x <= y => vol * x <= vol * y
    BY <1>2, Z3
  <2>2. y <= x => vol * y <= vol * x
    BY <1>2, Z3
  <2>3. vol * x \in Nat /\ vol * y \in Nat
    BY <1>2, NatTimes
  <2> QED BY <1>2, <2>1, <2>2, <2>3 DEF Larger
<1> QED BY <1>2, <1>3, <1>4, <1>5 DEF Larger

\* Where today's lots are known by their slot or counted down, they are some of
\* the lots closed, so a turn of the loop charges each lot once.
LEMMA TurnCharges ==
    ASSUME NEW m \in MarketType, NEW t \in DealType, NEW p \in PositionType,
           NEW date, NEW vol \in Nat, NEW fee \in Nat,
           ByDate(m, t.inst) \/ Cffex(m, t.inst)
    PROVE  CloseCommission(m, t, p, date, vol, fee) <= vol * Dearest(m, t)
<1> DEFINE n == FeeAsToday(m, t.inst, p, date, vol, fee)
           x == calcCommissionForOrder(m, t.inst, t.price, 1, FALSE, TRUE)
           y == calcCommissionForOrder(m, t.inst, t.price, 1, FALSE, FALSE)
           d == Dearest(m, t)
<1>1. n \in 0 .. vol
  BY DEF FeeAsToday, Smaller
<1>2. Positive(n) = n /\ Positive(vol - n) = vol - n
  BY <1>1 DEF Positive, Larger
<1>3. t.inst \in Instruments /\ t.price \in Nat
  BY DEF DealType
<1>4. x \in Nat /\ y \in Nat
  BY <1>3, CommissionIsNat
<1>5. CloseCommission(m, t, p, date, vol, fee) = n * x + (vol - n) * y
  <2> HIDE DEF n
  <2>1. n \in Nat /\ vol - n \in Nat
    BY <1>1
  <2>2. /\ calcCommissionForOrder(m, t.inst, t.price, n, FALSE, TRUE) = n * x
        /\ calcCommissionForOrder(m, t.inst, t.price, vol - n, FALSE, FALSE)
               = (vol - n) * y
    BY <1>3, <2>1, CommissionScales
  <2> QED BY <1>2, <2>2 DEF CloseCommission, n
<1>6. d \in Nat /\ x <= d /\ y <= d
  <2>1. d = Larger(x, y)
    BY DEF Dearest
  <2> HIDE DEF x, y, d
  <2> QED BY <1>4, <2>1 DEF Larger
<1> HIDE DEF n, x, y, d
<1>7. n * x <= n * d
  BY <1>1, <1>4, <1>6, Z3
<1>8. (vol - n) * y <= (vol - n) * d
  BY <1>1, <1>4, <1>6, Z3
<1>9. n * d + (vol - n) * d = vol * d
  BY <1>1, <1>6, Z3
<1>10. /\ n * x \in Nat /\ n * d \in Nat
       /\ (vol - n) * y \in Nat /\ (vol - n) * d \in Nat
  <2>1. n \in Nat /\ vol - n \in Nat
    BY <1>1
  <2> QED BY <1>4, <1>6, <2>1, NatTimes
<1>11. n * x + (vol - n) * y <= vol * d
  BY <1>7, <1>8, <1>9, <1>10
<1> QED BY <1>5, <1>11 DEF d

\* What a turn of the loop does to the slot it visits and to the account.
LEMMA CloseSlotEffect ==
    ASSUME NEW m \in MarketType, NEW b, LoopInv(b), NEW t \in DealType,
           NEW date \in Dates
    PROVE  LET s == <<t.inst, SideClosed(t.dir), date>>
               p == b.pos[s]
               vol == Smaller(b.left, p.position)
               c == CloseSlot(m, b, t, date)
           IN IF b.left = 0 \/ ~p.listed THEN c = b
              ELSE /\ vol \in 0 .. p.position
                   /\ \A r \in Slots : r # s => c.pos[r] = b.pos[r]
                   /\ c.pos[s].position = p.position - vol
                   /\ c.pos[s].position_profit = p.position_profit
                   /\ c.acct.static = b.acct.static
                   /\ c.acct.commission = b.acct.commission
                          + CloseCommission(m, t, p, date, vol, b.fee)
                   /\ c.acct.close_profit = b.acct.close_profit
                          + CloseGain(m, t, p, date, vol)
                   /\ c.left = b.left - vol
<1> DEFINE s == <<t.inst, SideClosed(t.dir), date>>
           p == b.pos[s]
           vol == Smaller(b.left, p.position)
           comm == CloseCommission(m, t, p, date, vol, b.fee)
           gain == CloseGain(m, t, p, date, vol)
           share == MarginShare(p, vol)
           cost == t.price * vol * Mult(m, t.inst)
           q == FreezeLots(p, t.dir, -b.left)
           c == CloseSlot(m, b, t, date)
           slot == [q EXCEPT !.commission = @ + comm,
                             !.frozen_commission = Positive(@ - comm),
                             !.close_profit = @ + gain,
                             !.margin = Positive(@ - share),
                             !.position = @ - vol,
                             !.position_cost = Positive(@ - cost)]
           acct == [b.acct EXCEPT !.commission = @ + comm,
                                  !.frozen_commission = Positive(@ - comm),
                                  !.close_profit = @ + gain,
                                  !.curr_margin = Positive(@ - share)]
<1>1. s \in Slots
  BY DEF DealType, SideClosed, Slots, Sides
<1>2. /\ b.pos \in [Slots -> PositionType] /\ b.acct \in AccountType
      /\ b.left \in Nat /\ p \in PositionType
  BY <1>1 DEF LoopInv, Consistent
<1>3. CASE b.left = 0 \/ ~p.listed
  <2>1. CloseSlot(m, b, t, date) = b
    BY <1>2, <1>3 DEF CloseSlot
  <2> QED BY <1>3, <2>1
<1>4. CASE ~(b.left = 0 \/ ~p.listed)
  <2>1. c = [pos |-> [b.pos EXCEPT ![s] = slot], acct |-> acct,
             left |-> b.left - vol, fee |-> b.fee - Smaller(vol, b.fee)]
    BY <1>2, <1>4 DEF CloseSlot
  <2>2. p.position \in Nat
    BY <1>2 DEF PositionType
  <2>3. vol \in 0 .. p.position
    BY <1>2, <2>2 DEF Smaller
  <2>4. /\ q \in PositionType /\ q.position = p.position
        /\ q.position_profit = p.position_profit
    <3>1. -b.left \in Int /\ t.dir \in Directions
      BY <1>2 DEF DealType
    <3> QED BY <1>2, <3>1, FreezeLotsType
  <2> HIDE DEF s, p, vol, comm, gain, share, cost, q
  <2>5. /\ slot.position = q.position - vol
        /\ slot.position_profit = q.position_profit
    BY <2>4 DEF PositionType
  <2>6. /\ acct.static = b.acct.static
        /\ acct.commission = b.acct.commission + comm
        /\ acct.close_profit = b.acct.close_profit + gain
    BY <1>2 DEF AccountType
  <2> HIDE DEF slot, acct, c
  <2>7. /\ c.pos[s] = slot /\ c.acct = acct /\ c.left = b.left - vol
        /\ \A r \in Slots : r # s => c.pos[r] = b.pos[r]
    BY <1>1, <1>2, <2>1
  <2> QED BY <1>4, <2>3, <2>4, <2>5, <2>6, <2>7 DEF c, s, p, vol, comm, gain
<1> QED BY <1>3, <1>4

\* The loop began with t.vol lots and what the account had been charged before;
\* each lot it closed has cost it at most the dearest rate.
Charged(m, t, b, before) ==
    b.acct.commission - before <= (t.vol - b.left) * Dearest(m, t)

\* A turn of the loop keeps that.
LEMMA TurnKeepsCharged ==
    ASSUME NEW m \in MarketType, NEW b, LoopInv(b), NEW t \in DealType,
           NEW date \in Dates, NEW before \in Nat,
           ByDate(m, t.inst) \/ Cffex(m, t.inst), Charged(m, t, b, before)
    PROVE  Charged(m, t, CloseSlot(m, b, t, date), before)
<1> DEFINE s == <<t.inst, SideClosed(t.dir), date>>
           p == b.pos[s]
           vol == Smaller(b.left, p.position)
           comm == CloseCommission(m, t, p, date, vol, b.fee)
           c == CloseSlot(m, b, t, date)
           d == Dearest(m, t)
<1>1. s \in Slots
  BY DEF DealType, SideClosed, Slots, Sides
<1>2. /\ p \in PositionType /\ b.left \in Nat /\ b.fee \in Nat
      /\ b.acct.commission \in Nat /\ t.vol \in Nat
  BY <1>1 DEF LoopInv, Consistent, AccountType, DealType
<1>3. CASE b.left = 0 \/ ~p.listed
  <2>1. c = b
    BY <1>3, CloseSlotEffect
  <2> QED BY <2>1
<1>4. CASE ~(b.left = 0 \/ ~p.listed)
  <2>1. /\ vol \in 0 .. p.position /\ c.left = b.left - vol
        /\ c.acct.commission = b.acct.commission + comm
    BY <1>4, CloseSlotEffect
  <2>2. vol \in Nat
    BY <1>2, <2>1 DEF PositionType
  <2>3. comm <= vol * d /\ comm \in Nat
    BY <1>2, <2>2, TurnCharges, CloseCommissionIsNat
  <2>4. d \in Nat
    BY DearestScales, <2>2
  <2>5. b.acct.commission - before <= (t.vol - b.left) * d
    BY DEF Charged
  <2> HIDE DEF s, p, vol, comm, c, d
  <2>6. (t.vol - c.left) * d = (t.vol - b.left) * d + vol * d
    <3> DEFINE x == t.vol - b.left
    <3>1. t.vol - c.left = x + vol /\ x \in Int
      BY <1>2, <2>1, <2>2
    <3> HIDE DEF x
    <3>2. (x + vol) * d = x * d + vol * d
      BY <2>2, <2>4, <3>1, Z3
    <3> QED BY <3>1, <3>2 DEF x
  <2>7. (t.vol - b.left) * d \in Int /\ vol * d \in Int
    <3> DEFINE x == t.vol - b.left
    <3>1. x \in Int
      BY <1>2
    <3> HIDE DEF x
    <3>2. x * d \in Int /\ vol * d \in Int
      BY <2>2, <2>4, <3>1
    <3> QED BY <3>2 DEF x
  <2>8. c.acct.commission - before <= (t.vol - c.left) * d
    BY <1>2, <2>1, <2>3, <2>5, <2>6, <2>7
  <2> QED BY <2>8 DEF Charged, c, d
<1> QED BY <1>3, <1>4

\* So does the whole of the closing branch, over one slot or two.
LEMMA ClosedFeeFits ==
    ASSUME NEW m \in MarketType, NEW pos, NEW a, Consistent(pos, a),
           NEW t \in DealType, ByDate(m, t.inst) \/ Cffex(m, t.inst)
    PROVE  Closed(m, [pos |-> pos, acct |-> a], t).acct.commission - a.commission
               <= t.vol * Dearest(m, t)
<1> DEFINE order == CloseOrder(m, t)
           today == pos[<<t.inst, SideClosed(t.dir), "today">>]
           b0 == [pos |-> pos, acct |-> a, left |-> t.vol,
                  fee |-> IF Cffex(m, t.inst) THEN today.position ELSE 0]
           b1 == CloseSlot(m, b0, t, order[1])
           b2 == CloseSlot(m, b1, t, order[2])
           c == IF Len(order) = 1 THEN b1 ELSE b2
           d == Dearest(m, t)
<1>1. <<t.inst, SideClosed(t.dir), "today">> \in Slots
  BY DEF DealType, SideClosed, Slots, Sides, Dates
<1>2. today.position \in Nat
  BY <1>1 DEF Consistent, PositionType
<1>3. LoopInv(b0)
  BY <1>2 DEF LoopInv, DealType
<1>4. /\ order[1] \in Dates
      /\ Len(order) # 1 => order[2] \in Dates
  BY DEF CloseOrder, Dates
<1>5. Closed(m, [pos |-> pos, acct |-> a], t) = c
  BY DEF Closed
<1>6. a.commission \in Nat /\ t.vol \in Nat /\ d \in Nat
  <2>1. a.commission \in Nat /\ t.vol \in Nat
    BY DEF Consistent, AccountType, DealType
  <2> QED BY <2>1, DearestScales
<1>7. Charged(m, t, b0, a.commission)
  <2>1. b0.acct.commission - a.commission = 0 /\ t.vol - b0.left = 0
    BY <1>6
  <2>2. 0 * d = 0
    BY <1>6
  <2> QED BY <2>1, <2>2 DEF Charged
<1> HIDE DEF order, b0
<1>8. LoopInv(b1) /\ Charged(m, t, b1, a.commission)
  BY <1>3, <1>4, <1>6, <1>7, CloseSlotKeeps, TurnKeepsCharged
<1> HIDE DEF b1
<1>9. Len(order) # 1 => LoopInv(b2) /\ Charged(m, t, b2, a.commission)
  BY <1>4, <1>6, <1>8, CloseSlotKeeps, TurnKeepsCharged
<1>10. LoopInv(c) /\ Charged(m, t, c, a.commission)
  BY <1>8, <1>9
<1> HIDE DEF c, d
<1>11. c.left \in Nat /\ c.acct.commission \in Int
  BY <1>10 DEF LoopInv, Consistent, AccountType
<1>12. c.acct.commission - a.commission <= (t.vol - c.left) * d
  BY <1>10 DEF Charged, d
<1>13. (t.vol - c.left) * d <= t.vol * d
  <2> DEFINE x == c.left
  <2> HIDE DEF x
  <2>1. x \in Nat
    BY <1>11 DEF x
  <2>2. (t.vol - x) * d <= t.vol * d /\ (t.vol - x) * d \in Int /\ t.vol * d \in Int
    <3> DEFINE v == t.vol
    <3>1. v \in Nat
      BY <1>6
    <3> HIDE DEF v
    <3>2. x * d \in Nat /\ v * d \in Nat
      BY <1>6, <2>1, <3>1, NatTimes
    <3>3. (v - x) * d = v * d - x * d
      BY <1>6, <2>1, <3>1, Z3
    <3>4. (v - x) * d <= v * d /\ (v - x) * d \in Int
      BY <3>2, <3>3
    <3> QED BY <3>2, <3>4 DEF v
  <2> QED BY <2>2 DEF x
<1>14. (t.vol - c.left) * d \in Int /\ t.vol * d \in Int
  <2> DEFINE x == t.vol - c.left
             v == t.vol
  <2>1. x \in Int /\ v \in Int
    BY <1>6, <1>11
  <2> HIDE DEF x, v
  <2>2. x * d \in Int /\ v * d \in Int
    BY <1>6, <2>1
  <2> QED BY <2>2 DEF x, v
<1> QED BY <1>5, <1>6, <1>11, <1>12, <1>13, <1>14 DEF d

\* The tail of onTradeFill leaves commission and static balance alone.
LEMMA WithProfitOfMore ==
    ASSUME NEW a \in AccountType, NEW pos
    PROVE  /\ WithProfitOf(a, pos).commission = a.commission
           /\ WithProfitOf(a, pos).balance = a.static + SlotTotal(Profits(pos))
                                             + a.close_profit - a.commission
BY DEF WithProfitOf, Derive, AccountType

----------------------------------------------------------------------------
(* What a close is worth.                                                  *)

\* Closing all lots of a slot at the price it was marked at realises the profit
\* the mark showed: settlement price and average open price are the two bases
\* a cost can have.
LEMMA GainOfMarked ==
    ASSUME NEW m \in MarketType, NEW t \in DealType, NEW p \in PositionType,
           NEW date \in Dates, p.position > 0, t.price = m.last_price[t.inst],
           MarkedAtLast(m, p, <<t.inst, SideClosed(t.dir), date>>)
    PROVE  CloseGain(m, t, p, date, p.position) = p.position_profit
<1> DEFINE n == p.position
           mult == Mult(m, t.inst)
           pre == m.pre_settlement[t.inst]
           settled == IF ~ByDate(m, t.inst) THEN YesterdayVol(p, n)
                      ELSE IF date = "yd" THEN n ELSE 0
           fresh == Positive(n - settled)
           gain == (t.price - pre) * Positive(settled) * mult
                   + (t.price * fresh * mult - (p.open_cost * fresh) \div n)
           worth == t.price * mult * n
<1>1. /\ n \in Nat \ {0} /\ p.today \in Int /\ p.open_cost \in Nat
      /\ p.position_cost \in Nat /\ p.position_profit \in Int
  BY DEF PositionType
<1>2. t.inst \in Instruments /\ t.price \in Nat
  BY DEF DealType
<1>3. mult \in Nat /\ pre \in Nat
  BY <1>2, MultIsNat, MarketFields
<1>4. CloseGain(m, t, p, date, n) = IF SideClosed(t.dir) = "long" THEN gain ELSE -gain
  BY <1>1 DEF CloseGain
<1>5. p.position_profit = IF SideClosed(t.dir) = "long" THEN worth - p.position_cost
                          ELSE p.position_cost - worth
  BY DEF MarkedAtLast, MarkedProfit
<1>6. \/ settled = 0 /\ p.position_cost = p.open_cost
      \/ settled = n /\ p.position_cost = pre * mult * n
  BY <1>1 DEF MarkedAtLast, YesterdayVol, Smaller, Dates
<1> HIDE DEF settled, mult, pre, n
<1>7. worth \in Nat
  <2>1. t.price * mult \in Nat
    BY <1>2, <1>3, NatTimes
  <2> QED BY <1>1, <2>1, NatTimes
<1>8. gain = worth - p.position_cost
  <2>1. CASE settled = 0 /\ p.position_cost = p.open_cost
    <3>1. fresh = n /\ Positive(settled) = 0
      BY <1>1, <2>1 DEF Positive, Larger
    <3>2. (p.open_cost * n) \div n = p.open_cost
      BY <1>1, Share
    <3>3. t.price * n * mult = worth
      BY <1>1, <1>2, <1>3, Z3
    <3>4. (t.price - pre) * 0 * mult = 0
      BY <1>2, <1>3, Z3
    <3>5. gain = 0 + (worth - p.open_cost)
      BY <3>1, <3>2, <3>3, <3>4
    <3> HIDE DEF gain, worth, fresh
    <3> QED BY <1>1, <1>7, <2>1, <3>5
  <2>2. CASE settled = n /\ p.position_cost = pre * mult * n
    <3>1. fresh = 0 /\ Positive(settled) = n
      BY <1>1, <2>2 DEF Positive, Larger
    <3>2. (p.open_cost * 0) \div n = 0
      BY <1>1, Share
    <3>3. (t.price - pre) * n * mult = worth - pre * mult * n
      BY <1>1, <1>2, <1>3, Z3
    <3>4. t.price * 0 * mult = 0
      BY <1>2, <1>3, Z3
    <3>5. gain = (worth - p.position_cost) + (0 - 0)
      BY <2>2, <3>1, <3>2, <3>3, <3>4
    <3> HIDE DEF gain, worth, fresh
    <3> QED BY <1>1, <1>7, <3>5
  <2> QED BY <1>6, <2>1, <2>2
<1> HIDE DEF gain, worth
<1>9. -gain = p.position_cost - worth
  BY <1>1, <1>7, <1>8
<1> QED BY <1>4, <1>5, <1>8, <1>9 DEF n

\* A turn on an empty slot earns nothing.
LEMMA GainOfEmpty ==
    ASSUME NEW m \in MarketType, NEW t \in DealType, NEW p \in PositionType,
           NEW date, p.position = 0
    PROVE  CloseGain(m, t, p, date, 0) = 0
<1> DEFINE settled == IF ~ByDate(m, t.inst) THEN YesterdayVol(p, 0)
                      ELSE IF date = "yd" THEN 0 ELSE 0
           earned == (t.price - m.pre_settlement[t.inst]) * Positive(settled)
                         * Mult(m, t.inst)
<1>1. Positive(settled) = 0
  BY DEF PositionType, YesterdayVol, Smaller, Positive, Larger
<1>2. t.price \in Nat /\ m.pre_settlement[t.inst] \in Nat /\ Mult(m, t.inst) \in Nat
  BY MultIsNat, MarketFields DEF DealType
<1>3. earned = 0
  BY <1>1, <1>2
<1>4. CloseGain(m, t, p, date, 0) =
          IF SideClosed(t.dir) = "long" THEN earned + 0 ELSE -(earned + 0)
  BY DEF CloseGain
<1> HIDE DEF earned
<1> QED BY <1>3, <1>4

\* What the book is worth in the middle of the loop, were it to end here.
LoopEquity(b) == SlotTotal(Profits(Flattened(b.pos))) + b.acct.close_profit

\* A turn that empties a slot marked at the price of the trade, or meets one
\* that is empty or unlisted, turns profit into close profit and no more.
LEMMA TurnKeepsEquity ==
    ASSUME NEW m \in MarketType, NEW b, LoopInv(b), NEW t \in DealType,
           NEW date \in Dates, t.price = m.last_price[t.inst],
           LET s == <<t.inst, SideClosed(t.dir), date>>
           IN b.pos[s].listed /\ b.pos[s].position > 0
              => /\ MarkedAtLast(m, b.pos[s], s)
                 /\ CloseSlot(m, b, t, date).pos[s].position = 0
    PROVE  LET c == CloseSlot(m, b, t, date)
           IN LoopEquity(c) = LoopEquity(b) /\ c.acct.static = b.acct.static
<1> DEFINE s == <<t.inst, SideClosed(t.dir), date>>
           p == b.pos[s]
           vol == Smaller(b.left, p.position)
           gain == CloseGain(m, t, p, date, vol)
           c == CloseSlot(m, b, t, date)
           f == Profits(Flattened(b.pos))
           g == Profits(Flattened(c.pos))
<1>1. s \in Slots
  BY DEF DealType, SideClosed, Slots, Sides
<1>2. /\ b.pos \in [Slots -> PositionType] /\ b.acct \in AccountType
      /\ b.left \in Nat /\ p \in PositionType
  BY <1>1 DEF LoopInv, Consistent
<1>3. CASE b.left = 0 \/ ~p.listed
  <2>1. c = b
    BY <1>3, CloseSlotEffect
  <2> QED BY <2>1
<1>4. CASE ~(b.left = 0 \/ ~p.listed)
  <2>1. /\ \A r \in Slots : r # s => c.pos[r] = b.pos[r]
        /\ c.pos[s].position = p.position - vol
        /\ c.pos[s].position_profit = p.position_profit
        /\ c.acct.static = b.acct.static
        /\ c.acct.close_profit = b.acct.close_profit + gain
        /\ vol \in 0 .. p.position
    BY <1>4, CloseSlotEffect
  <2>2. LoopInv(c)
    BY CloseSlotKeeps
  <2>3. c.pos \in [Slots -> PositionType]
    BY <2>2 DEF LoopInv, Consistent
  <2>4. f \in [Slots -> Int] /\ g \in [Slots -> Int]
    BY <1>2, <2>3, FlattenedKeeps, ColumnTypes
  <2>5. \A r \in Slots :
            /\ f[r] = IF b.pos[r].position > 0 THEN b.pos[r].position_profit ELSE 0
            /\ g[r] = IF c.pos[r].position > 0 THEN c.pos[r].position_profit ELSE 0
    BY <1>2, <2>3 DEF Profits, Flattened, PositionType
  <2>6. \A r \in Slots : r # s => g[r] = f[r]
    BY <2>1, <2>5
  <2>7. /\ p.position \in Nat /\ p.position_profit \in Int
        /\ b.acct.close_profit \in Int
    BY <1>2 DEF PositionType, AccountType
  <2>8. gain = f[s] - g[s]
    <3>1. CASE p.position = 0
      <4>1. vol = 0 /\ c.pos[s].position = 0
        BY <2>1, <2>7, <3>1
      <4>2. gain = 0
        BY <1>2, <3>1, <4>1, GainOfEmpty
      <4>3. f[s] = 0 /\ g[s] = 0
        BY <1>1, <2>5, <3>1, <4>1
      <4> QED BY <4>2, <4>3
    <3>2. CASE p.position > 0
      <4>1. MarkedAtLast(m, p, s) /\ c.pos[s].position = 0
        BY <1>4, <3>2
      <4>2. vol = p.position
        BY <2>1, <2>7, <4>1
      <4>3. gain = p.position_profit
        BY <1>2, <3>2, <4>1, <4>2, GainOfMarked
      <4>4. f[s] = p.position_profit /\ g[s] = 0
        BY <1>1, <2>5, <3>2, <4>1
      <4> QED BY <2>7, <4>3, <4>4
    <3> QED BY <2>7, <3>1, <3>2
  <2>9. /\ SlotTotal(f) \in Int /\ SlotTotal(g) \in Int
        /\ SlotTotal(g) = SlotTotal(f) + g[s] - f[s]
    BY <1>1, <2>4, <2>6, SlotTotalMovesOne
  <2>10. f[s] \in Int /\ g[s] \in Int
    BY <1>1, <2>4
  <2>11. LoopEquity(b) = SlotTotal(f) + b.acct.close_profit
         /\ LoopEquity(c) = SlotTotal(g) + c.acct.close_profit
    BY DEF LoopEquity
  <2> HIDE DEF f, g, gain, c, s
  <2>12. LoopEquity(c) = LoopEquity(b)
    BY <2>1, <2>7, <2>8, <2>9, <2>10, <2>11
  <2> QED BY <2>1, <2>12 DEF c
<1> QED BY <1>3, <1>4

\* A turn of the loop leaves the other slots alone.
LEMMA OtherSlotsStay ==
    ASSUME NEW m \in MarketType, NEW b, LoopInv(b), NEW t \in DealType,
           NEW date \in Dates, NEW r \in Slots,
           r # <<t.inst, SideClosed(t.dir), date>>
    PROVE  CloseSlot(m, b, t, date).pos[r] = b.pos[r]
<1>1. CASE b.left = 0 \/ ~b.pos[<<t.inst, SideClosed(t.dir), date>>].listed
  BY <1>1, CloseSlotEffect
<1>2. CASE ~(b.left = 0 \/ ~b.pos[<<t.inst, SideClosed(t.dir), date>>].listed)
  BY <1>2, CloseSlotEffect
<1> QED BY <1>1, <1>2

\* The closing branch keeps the equity when it empties every slot it closes.
LEMMA ClosedKeepsEquity ==
    ASSUME NEW m \in MarketType, NEW pos, NEW a, Consistent(pos, a),
           NEW t \in DealType, t.price = m.last_price[t.inst],
           \A s \in SlotsClosed(pos, m, t) :
               /\ MarkedAtLast(m, pos[s], s)
               /\ Closed(m, [pos |-> pos, acct |-> a], t).pos[s].position = 0
    PROVE  LET b == [pos |-> pos, acct |-> a]
           IN /\ LoopEquity(Closed(m, b, t)) = LoopEquity(b)
              /\ Closed(m, b, t).acct.static = a.static
<1> DEFINE order == CloseOrder(m, t)
           slot(d) == <<t.inst, SideClosed(t.dir), d>>
           today == pos[slot("today")]
           b == [pos |-> pos, acct |-> a]
           b0 == [pos |-> pos, acct |-> a, left |-> t.vol,
                  fee |-> IF Cffex(m, t.inst) THEN today.position ELSE 0]
           b1 == CloseSlot(m, b0, t, order[1])
           b2 == CloseSlot(m, b1, t, order[2])
           c == Closed(m, b, t)
<1>1. \A d \in Dates : slot(d) \in Slots
  BY DEF DealType, SideClosed, Slots, Sides
<1>2. today.position \in Nat
  <2>1. slot("today") \in Slots
    BY <1>1 DEF Dates
  <2> QED BY <2>1 DEF Consistent, PositionType
<1>3. LoopInv(b0)
  BY <1>2 DEF LoopInv, DealType
<1>4. /\ order[1] \in Dates /\ 1 \in DOMAIN order
      /\ Len(order) # 1 => /\ order[2] \in Dates /\ 2 \in DOMAIN order
                           /\ order[2] # order[1]
  BY DEF CloseOrder, Dates
<1>5. c = IF Len(order) = 1 THEN b1 ELSE b2
  BY DEF Closed
<1>6. /\ LoopEquity(b0) = LoopEquity(b) /\ b0.acct.static = a.static
      /\ b0.pos = pos
  BY DEF LoopEquity
<1>7. \A k \in DOMAIN order :
          pos[slot(order[k])].listed /\ pos[slot(order[k])].position > 0
          => /\ MarkedAtLast(m, pos[slot(order[k])], slot(order[k]))
             /\ c.pos[slot(order[k])].position = 0
  BY DEF SlotsClosed
<1> HIDE DEF order, b0, c, b
<1>8. LoopInv(b1)
  BY <1>3, <1>4, CloseSlotKeeps
<1>9. \A r \in Slots : r # slot(order[1]) => b1.pos[r] = pos[r]
  BY <1>3, <1>4, <1>6, OtherSlotsStay
<1>10. CASE Len(order) = 1
  <2>1. LoopEquity(b1) = LoopEquity(b0) /\ b1.acct.static = b0.acct.static
    BY <1>3, <1>4, <1>5, <1>6, <1>7, <1>10, TurnKeepsEquity
  <2> QED BY <1>5, <1>6, <1>10, <2>1 DEF c, b
<1>11. CASE Len(order) # 1
  <2> HIDE DEF b1
  <2>1. \A r \in Slots : r # slot(order[2]) => b2.pos[r] = b1.pos[r]
    BY <1>4, <1>8, <1>11, OtherSlotsStay
  <2>2. slot(order[1]) \in Slots /\ slot(order[1]) # slot(order[2])
    BY <1>1, <1>4, <1>11
  <2>3. b2.pos[slot(order[1])] = b1.pos[slot(order[1])]
        /\ b1.pos[slot(order[2])] = pos[slot(order[2])]
    BY <1>1, <1>4, <1>9, <1>11, <2>1, <2>2
  <2>4. c = b2
    BY <1>5, <1>11
  <2>5. LoopEquity(b1) = LoopEquity(b0) /\ b1.acct.static = b0.acct.static
    BY <1>3, <1>4, <1>6, <1>7, <2>3, <2>4, TurnKeepsEquity DEF b1
  <2>6. LoopEquity(b2) = LoopEquity(b1) /\ b2.acct.static = b1.acct.static
    BY <1>4, <1>7, <1>8, <1>11, <2>3, <2>4, TurnKeepsEquity
  <2> QED BY <1>6, <2>4, <2>5, <2>6 DEF c, b
<1> QED BY <1>10, <1>11

----------------------------------------------------------------------------
(* The entry points and the invariant.                                     *)

\* The closing branch of onTradeFill, over one slot or two, keeps account and
\* positions together.
LEMMA ClosedKeeps ==
    ASSUME NEW m \in MarketType, NEW pos, NEW a, Consistent(pos, a),
           NEW t \in DealType
    PROVE  LET c == Closed(m, [pos |-> pos, acct |-> a], t)
           IN /\ Consistent(c.pos, c.acct)
              /\ FrozenMargins(c.pos) = FrozenMargins(pos)
<1> DEFINE order == CloseOrder(m, t)
           today == pos[<<t.inst, SideClosed(t.dir), "today">>]
           b0 == [pos |-> pos, acct |-> a, left |-> t.vol,
                  fee |-> IF Cffex(m, t.inst) THEN today.position ELSE 0]
           b1 == CloseSlot(m, b0, t, order[1])
           b2 == CloseSlot(m, b1, t, order[2])
<1>1. <<t.inst, SideClosed(t.dir), "today">> \in Slots
  BY DEF DealType, SideClosed, Slots, Sides, Dates
<1>2. today.position \in Nat
  BY <1>1 DEF Consistent, PositionType
<1>3. LoopInv(b0)
  BY <1>2 DEF LoopInv, DealType
<1>4. /\ order[1] \in Dates
      /\ Len(order) # 1 => order[2] \in Dates
  BY DEF CloseOrder, Dates
<1>5. Closed(m, [pos |-> pos, acct |-> a], t) = IF Len(order) = 1 THEN b1 ELSE b2
  BY DEF Closed
<1>6. b0.pos = pos
  OBVIOUS
<1> HIDE DEF order, b0
<1>7. LoopInv(b1) /\ FrozenMargins(b1.pos) = FrozenMargins(pos)
  BY <1>3, <1>4, <1>6, CloseSlotKeeps
<1> HIDE DEF b1
<1>8. Len(order) # 1 => LoopInv(b2) /\ FrozenMargins(b2.pos) = FrozenMargins(pos)
  BY <1>4, <1>7, CloseSlotKeeps
<1> QED BY <1>5, <1>7, <1>8 DEF LoopInv

\* onTradeFill preserves the invariant.
LEMMA TradeKeeps ==
    ASSUME BookInv, NEW t \in Trades, onTradeFill(t)
    PROVE  BookInv'
<1> DEFINE b == [pos |-> positions, acct |-> account]
           c == IF t.offset = "open" THEN Opened(market, b, t)
                ELSE Closed(market, b, t)
<1>1. t \in DealType /\ market \in MarketType
  BY InputAssumption DEF BookInv, TypeOK
<1>2. Consistent(positions, account)
  BY DEF BookInv, TypeOK, CurrMarginIsSum, ProfitsAreSums, FlatHoldsNothing,
         FrozenMarginCovered, Consistent, FlatIsClean, FlatNoMargin
<1>3. Consistent(c.pos, c.acct)
  BY <1>1, <1>2, OpenedKeeps, ClosedKeeps
<1>4. /\ positions' = Flattened(c.pos)
      /\ account' = WithProfitOf(c.acct, Flattened(c.pos))
      /\ market' = market
  BY DEF onTradeFill
<1> HIDE DEF c
<1>5. /\ Flattened(c.pos) \in [Slots -> PositionType]
      /\ Margins(Flattened(c.pos)) = Margins(c.pos)
      /\ FrozenMargins(Flattened(c.pos)) = FrozenMargins(c.pos)
      /\ Realised(Flattened(c.pos)) = Realised(c.pos)
      /\ FlatIsClean(Flattened(c.pos))
  BY <1>3, FlattenedKeeps DEF Consistent
<1>6. /\ account' \in AccountType
      /\ account'.curr_margin = c.acct.curr_margin
      /\ account'.frozen_margin = c.acct.frozen_margin
      /\ account'.close_profit = c.acct.close_profit
      /\ account'.position_profit = SlotTotal(Profits(positions'))
  BY <1>3, <1>4, <1>5, WithProfitOfKeeps DEF Consistent
<1> QED BY <1>1, <1>3, <1>4, <1>5, <1>6
        DEF Consistent, BookInv, TypeOK, CurrMarginIsSum, ProfitsAreSums,
            FlatHoldsNothing, FrozenMarginCovered

\* Marking the slots of an instrument to a tick moves only their position
\* profit and margin, and only of slots that hold lots.
LEMMA MarkedKeeps ==
    ASSUME NEW m \in MarketType, NEW pos \in [Slots -> PositionType],
           FlatIsClean(pos), NEW i \in Instruments, NEW last \in Nat
    PROVE  /\ Marked(m, pos, i, last) \in [Slots -> PositionType]
           /\ FlatIsClean(Marked(m, pos, i, last))
           /\ Realised(Marked(m, pos, i, last)) = Realised(pos)
           /\ FrozenMargins(Marked(m, pos, i, last)) = FrozenMargins(pos)
           /\ \A s \in Slots : s[1] # i =>
                  Margins(Marked(m, pos, i, last))[s] = Margins(pos)[s]
<1> DEFINE new == Marked(m, pos, i, last)
<1>1. ASSUME NEW s \in Slots
      PROVE  /\ new[s] \in PositionType
             /\ new[s].position = pos[s].position
             /\ new[s].close_profit = pos[s].close_profit
             /\ new[s].frozen_margin = pos[s].frozen_margin
             /\ s[1] # i \/ pos[s].position = 0 => new[s] = pos[s]
  <2> DEFINE p == pos[s]
             profit == MarkedProfit(m, p, s, last)
             mg == MarkedMargin(m, p, s, last)
  <2>1. /\ p \in PositionType /\ p.position \in Nat /\ p.position_cost \in Nat
        /\ p.margin \in Nat
    BY DEF PositionType
  <2>2. s[1] \in Instruments /\ s[2] \in Sides
    BY DEF Slots
  <2>3. profit \in Int
    <3>1. Mult(m, s[1]) \in Nat
      BY <2>2, MultIsNat
    <3>2. last * Mult(m, s[1]) \in Nat
      BY <3>1, NatTimes
    <3>3. last * Mult(m, s[1]) * p.position \in Nat
      BY <2>1, <3>2, NatTimes
    <3> QED BY <2>1, <3>3 DEF MarkedProfit
  <2>4. mg \in Nat
    <3>1. (s[3] = "yd") \in BOOLEAN
      OBVIOUS
    <3>2. calcMargin(m, s[1], last, p.position, s[2], s[3] = "yd") \in Nat
      BY <2>1, <2>2, <3>1, MarginIsNat
    <3> QED BY <2>1, <3>2 DEF MarkedMargin
  <2>5. new[s] = IF s[1] = i /\ p.listed /\ p.position > 0
                 THEN [p EXCEPT !.position_profit = profit, !.margin = mg]
                 ELSE p
    BY DEF Marked
  <2> HIDE DEF p, profit, mg
  <2>6. [p EXCEPT !.position_profit = profit, !.margin = mg] \in PositionType
    BY <2>1, <2>3, <2>4 DEF PositionType
  <2>7. /\ [p EXCEPT !.position_profit = profit, !.margin = mg].position = p.position
        /\ [p EXCEPT !.position_profit = profit, !.margin = mg].close_profit = p.close_profit
        /\ [p EXCEPT !.position_profit = profit, !.margin = mg].frozen_margin = p.frozen_margin
    BY <2>1 DEF PositionType
  <2>8. /\ new[s] \in PositionType /\ new[s].position = p.position
        /\ new[s].close_profit = p.close_profit
        /\ new[s].frozen_margin = p.frozen_margin
    BY <2>1, <2>5, <2>6, <2>7
  <2>9. s[1] # i \/ p.position = 0 => new[s] = p
    BY <2>5
  <2> QED BY <2>8, <2>9 DEF p
<1>2. new \in [Slots -> PositionType]
  <2>1. new = [s \in Slots |-> new[s]]
    BY DEF Marked
  <2> HIDE DEF new
  <2> QED BY <1>1, <2>1
<1> HIDE DEF new
<1>3. FlatIsClean(new)
  BY <1>1 DEF FlatIsClean
<1>4. \A s \in Slots : s[1] # i => Margins(new)[s] = Margins(pos)[s]
  BY <1>1 DEF Margins
<1>5. Realised(new) = Realised(pos) /\ FrozenMargins(new) = FrozenMargins(pos)
  BY <1>1 DEF Realised, FrozenMargins
<1> QED BY <1>2, <1>3, <1>4, <1>5 DEF new

\* onTick preserves the invariant: the account moves by the difference of one
\* instrument, which is the difference of the totals.
LEMMA TickKeeps ==
    ASSUME BookInv, NEW t \in Ticks, onTick(t)
    PROVE  BookInv'
<1> DEFINE m == Quoted(market, t)
           new == Marked(m, positions, t.inst, t.last)
           i == t.inst
           f == Margins(positions)
           g == Margins(new)
           moved == account.curr_margin + OfInstrument(g, i) - OfInstrument(f, i)
           b == [account EXCEPT !.curr_margin = moved]
<1>1. t.inst \in Instruments /\ t.last \in Nat /\ t.pre \in Nat
  BY InputAssumption DEF TickType
<1>2. /\ positions \in [Slots -> PositionType] /\ account \in AccountType
      /\ market \in MarketType /\ FlatIsClean(positions)
  BY DEF BookInv, TypeOK, FlatHoldsNothing
<1>3. m \in MarketType
  BY <1>1, <1>2 DEF Quoted, MarketType
<1>4. /\ new \in [Slots -> PositionType]
      /\ FlatIsClean(new)
      /\ Realised(new) = Realised(positions)
      /\ FrozenMargins(new) = FrozenMargins(positions)
      /\ \A s \in Slots : s[1] # i => g[s] = f[s]
  BY <1>1, <1>2, <1>3, MarkedKeeps
<1>5. market' = m
  BY DEF onTick
<1>6. CASE UNCHANGED <<positions, account>>
  BY <1>3, <1>5, <1>6 DEF BookInv, TypeOK, CurrMarginIsSum, ProfitsAreSums,
                          FlatHoldsNothing, FrozenMarginCovered
<1>7. CASE positions' = new /\ account' = AccountMarked(account, positions, new, i)
  <2>1. AccountMarked(account, positions, new, i) = WithProfitOf(b, new)
    BY <1>2 DEF AccountMarked, AccountType
  <2> HIDE DEF m, new
  <2>2. /\ f \in [Slots -> Int] /\ g \in [Slots -> Int] /\ g \in [Slots -> Nat]
    BY <1>2, <1>4, ColumnTypes
  <2>3. SlotTotal(g) = SlotTotal(f) + OfInstrument(g, i) - OfInstrument(f, i)
    BY <1>1, <1>4, <2>2, SlotTotalMoves
  <2>4. moved = SlotTotal(g)
    BY <2>3 DEF BookInv, CurrMarginIsSum
  <2>5. moved \in Nat
    BY <2>2, <2>4, SlotTotalCovers
  <2> HIDE DEF moved, f, g, i
  <2>6. b \in AccountType
    BY <1>2, <2>5 DEF AccountType
  <2>7. /\ b.curr_margin = moved /\ b.frozen_margin = account.frozen_margin
        /\ b.close_profit = account.close_profit
    BY <1>2 DEF AccountType
  <2> HIDE DEF b
  <2>8. /\ account' \in AccountType
        /\ account'.curr_margin = moved
        /\ account'.frozen_margin = account.frozen_margin
        /\ account'.close_profit = account.close_profit
        /\ account'.position_profit = SlotTotal(Profits(new))
    BY <1>4, <1>7, <2>1, <2>6, <2>7, WithProfitOfKeeps
  <2> QED BY <1>3, <1>4, <1>5, <1>7, <2>4, <2>8
          DEF BookInv, TypeOK, CurrMarginIsSum, ProfitsAreSums,
              FlatHoldsNothing, FrozenMarginCovered, g
<1> QED BY <1>6, <1>7 DEF onTick

\* Reference data changes no money.
LEMMA ReferenceKeeps ==
    ASSUME BookInv,
           \/ \E i \in Instruments : addInstrument(i) \/ setCommission(i)
           \/ \E type \in PriceTypes : setBrokerMarginPriceType(type)
    PROVE  BookInv'
<1>1. positions' = positions /\ account' = account /\ market \in MarketType
  BY DEF addInstrument, setCommission, setBrokerMarginPriceType, BookInv, TypeOK
<1>2. market' \in MarketType
  <2>1. ASSUME NEW i \in Instruments, addInstrument(i) \/ setCommission(i)
        PROVE  market' \in MarketType
    BY <1>1, <2>1 DEF addInstrument, setCommission, MarketType
  <2>2. ASSUME NEW type \in PriceTypes, setBrokerMarginPriceType(type)
        PROVE  market' \in MarketType
    <3>1. type \in {"1", "2", "3", "4"}
      BY InputAssumption
    <3> QED BY <1>1, <2>2, <3>1 DEF setBrokerMarginPriceType, MarketType
  <2> QED BY <2>1, <2>2
<1> QED BY <1>1, <1>2 DEF BookInv, TypeOK, CurrMarginIsSum, ProfitsAreSums,
                          FlatHoldsNothing, FrozenMarginCovered

\* setCommissionBaseline changes the commission alone.
LEMMA BaselineKeeps ==
    ASSUME BookInv, NEW comm \in Baselines, setCommissionBaseline(comm)
    PROVE  BookInv'
<1>1. account \in AccountType /\ comm \in Nat
  BY InputAssumption DEF BookInv, TypeOK
<1>2. /\ account' \in AccountType
      /\ account'.curr_margin = account.curr_margin
      /\ account'.frozen_margin = account.frozen_margin
      /\ account'.close_profit = account.close_profit
      /\ account'.position_profit = account.position_profit
      /\ positions' = positions /\ market' = market
  BY <1>1 DEF setCommissionBaseline, AccountType
<1> QED BY <1>2 DEF BookInv, TypeOK, CurrMarginIsSum, ProfitsAreSums,
                    FlatHoldsNothing, FrozenMarginCovered

\* For any number of instruments, any reference data, any start and any order
\* of calls: every field keeps its range, the margin and the profits of the
\* account are the sums over the positions, an empty slot holds nothing, and
\* the account freezes no more margin than the positions do.
THEOREM BookInvariant == Spec => []BookInv
<1>1. Init => BookInv
  <2> SUFFICES ASSUME Init PROVE BookInv
    OBVIOUS
  <2>1. PICK b \in Snapshots : positions = b.pos /\ account = b.acct /\ market = b.market
    BY DEF Init
  <2>2. b \in SnapshotType /\ Adds(b.pos, b.acct) /\ FlatIsClean(b.pos)
    BY SnapshotAssumption
  <2> QED BY <2>1, <2>2 DEF SnapshotType, Adds, BookInv, TypeOK, CurrMarginIsSum,
                           ProfitsAreSums, FlatHoldsNothing, FrozenMarginCovered
<1>2. BookInv /\ [Next]_vars => BookInv'
  <2> SUFFICES ASSUME BookInv, [Next]_vars PROVE BookInv'
    OBVIOUS
  <2>1. CASE UNCHANGED vars
    BY <2>1 DEF vars, BookInv, TypeOK, CurrMarginIsSum, ProfitsAreSums,
                FlatHoldsNothing, FrozenMarginCovered
  <2>2. CASE \E o \in Orders : onOrderRequest(o)
    BY <2>2, RequestKeeps
  <2>3. CASE \E o \in Orders : \E unfilled \in 0 .. o.vol :
                 onOrderRejectOrCancel(o, unfilled)
    BY <2>3, CancelKeeps
  <2>4. CASE \E t \in Trades : onTradeFill(t)
    BY <2>4, TradeKeeps
  <2>5. CASE \E t \in Ticks : onTick(t)
    BY <2>5, TickKeeps
  <2>6. CASE \/ \E i \in Instruments : addInstrument(i)
             \/ \E i \in Instruments : setCommission(i)
             \/ \E type \in PriceTypes : setBrokerMarginPriceType(type)
    BY <2>6, ReferenceKeeps
  <2>7. CASE \E comm \in Baselines : setCommissionBaseline(comm)
    BY <2>7, BaselineKeeps
  <2> QED BY <2>1, <2>2, <2>3, <2>4, <2>5, <2>6, <2>7 DEF Next
<1> QED BY <1>1, <1>2, PTL DEF Spec

\* Each part of the invariant holds in every reachable state.
THEOREM TypesHold == Spec => []TypeOK
<1>1. BookInv => TypeOK
  BY DEF BookInv
<1> QED BY <1>1, BookInvariant, PTL

\* The account's margin, accumulated by differences over any history of fills
\* and ticks, is the sum of the margins of the positions.
THEOREM MarginIsSum == Spec => []CurrMarginIsSum
<1>1. BookInv => CurrMarginIsSum
  BY DEF BookInv
<1> QED BY <1>1, BookInvariant, PTL

\* Position and close profit of the account are the sums over the positions.
THEOREM ProfitsSum == Spec => []ProfitsAreSums
<1>1. BookInv => ProfitsAreSums
  BY DEF BookInv
<1> QED BY <1>1, BookInvariant, PTL

\* A slot closed down to no lots, in however many pieces, keeps no margin and
\* no profit.
THEOREM FlatSlotsEmpty == Spec => []FlatHoldsNothing
<1>1. BookInv => FlatHoldsNothing
  BY DEF BookInv
<1> QED BY <1>1, BookInvariant, PTL

\* The account freezes no more margin than its positions account for.
THEOREM FrozenCovered == Spec => []FrozenMarginCovered
<1>1. BookInv => FrozenMarginCovered
  BY DEF BookInv
<1> QED BY <1>1, BookInvariant, PTL

\* An opening request that onOrderRequest lets through while money is available
\* leaves the available money non-negative: the check subtracts what is
\* reserved, the freeze takes no more than the check compared.
THEOREM OpenRequestsFunded == Spec => OpenRequestStaysFunded
<1> DEFINE Funded(o) ==
             /\ o.offset = "open"
             /\ account.available > 0
             /\ account = Derive(account)
             /\ onOrderRequest(o)
             => account'.available >= 0
<1>1. ASSUME BookInv, NEW o \in Orders PROVE Funded(o)
  <2> SUFFICES ASSUME o.offset = "open", account.available > 0,
                      account = Derive(account), onOrderRequest(o)
               PROVE  account'.available >= 0
    OBVIOUS
  <2>1. CASE o.inst \notin market.instruments
    <3>1. account' = account
      BY <2>1 DEF onOrderRequest
    <3>2. account.available \in Int
      BY <1>1 DEF BookInv, TypeOK, AccountType
    <3> QED BY <3>1, <3>2
  <2>2. CASE o.inst \in market.instruments
    <3> DEFINE mg == OrderMargin(market, o, o.vol)
               cm == OrderCommission(market, o, o.vol)
               b == [account EXCEPT !.frozen_margin = @ + mg,
                                    !.frozen_commission = @ + cm]
               rest(a) == a.static + a.position_profit + a.close_profit
                            - a.commission - a.curr_margin - a.frozen_margin
                            - a.frozen_commission - a.held
    <3>1. account \in AccountType /\ market \in MarketType
      BY <1>1 DEF BookInv, TypeOK
    <3>2. mg \in Nat /\ cm \in Nat
      <4>1. o \in DealType /\ o.vol \in Nat
        BY InputAssumption DEF DealType
      <4> QED BY <3>1, <4>1, OrderAmounts
    <3>3. account' = Derive(b) /\ ~Refuses(market, account, o)
      BY <2>2 DEF onOrderRequest, AccountFreeze
    <3>4. account.available - (account.frozen_margin + account.frozen_commission)
              >= mg + cm
      <4>1. /\ account.available \in Int /\ account.frozen_margin \in Nat
            /\ account.frozen_commission \in Nat
        BY <3>1 DEF AccountType
      <4>2. ~(account.available
                 - (account.frozen_margin + account.frozen_commission) < mg + cm)
        BY <3>3 DEF Refuses
      <4> HIDE DEF mg, cm
      <4> QED BY <3>2, <4>1, <4>2
    <3> HIDE DEF mg, cm
    <3>5. /\ b.static = account.static /\ b.held = account.held
          /\ b.position_profit = account.position_profit
          /\ b.close_profit = account.close_profit
          /\ b.commission = account.commission
          /\ b.curr_margin = account.curr_margin
          /\ b.frozen_margin = account.frozen_margin + mg
          /\ b.frozen_commission = account.frozen_commission + cm
      BY <3>1 DEF AccountType
    <3>6. b \in AccountType
      <4> DEFINE x == account.frozen_margin + mg
                 y == account.frozen_commission + cm
      <4>1. x \in Nat /\ y \in Nat
        BY <3>1, <3>2 DEF AccountType
      <4>2. b = [account EXCEPT !.frozen_margin = x, !.frozen_commission = y]
        BY <3>1 DEF AccountType
      <4> HIDE DEF x, y, b
      <4> QED BY <3>1, <4>1, <4>2 DEF AccountType
    <3> HIDE DEF b
    <3>7. \A a \in AccountType : Derive(a).available = rest(a)
      BY DEF Derive, AccountType
    <3>8. rest(b) = rest(account) - mg - cm
      BY <3>1, <3>2, <3>5 DEF AccountType
    <3>9. account.available = rest(account) /\ account'.available = rest(b)
      BY <3>1, <3>3, <3>7, <3>6
    <3> HIDE DEF rest
    <3>10. /\ rest(account) \in Int /\ account.frozen_margin \in Nat
          /\ account.frozen_commission \in Nat
      BY <3>1, <3>9 DEF AccountType
    <3> QED BY <3>2, <3>4, <3>8, <3>9, <3>10
  <2> QED BY <2>1, <2>2
<1>2. BookInv => \A o \in Orders : Funded(o)
  BY <1>1
<1>3. (\A o \in Orders : Funded(o)) =>
          [\A o \in Orders :
              /\ o.offset = "open"
              /\ account.available > 0
              /\ account = Derive(account)
              /\ onOrderRequest(o)
              => account'.available >= 0]_vars
  OBVIOUS
<1> HIDE DEF Funded
<1> QED BY <1>2, <1>3, BookInvariant, PTL DEF OpenRequestStaysFunded

\* A close is charged for each lot once, at the dearer of the two closing rates
\* at most, wherever today's lots are known by their slot or counted down: for
\* any rates, prices and positions, over one slot or two.
THEOREM FeesOnTradedLots == Spec => FeeOnDatedLots
<1> DEFINE Fits(t) ==
             /\ ByDate(market, t.inst) \/ Cffex(market, t.inst)
             /\ t.offset # "open" /\ account'.commission > account.commission
             /\ onTradeFill(t)
             => FeeFits(t)
<1>1. ASSUME BookInv, NEW t \in Trades PROVE Fits(t)
  <2> SUFFICES ASSUME ByDate(market, t.inst) \/ Cffex(market, t.inst),
                      t.offset # "open", onTradeFill(t)
               PROVE  FeeFits(t)
    OBVIOUS
  <2> DEFINE c == Closed(market, [pos |-> positions, acct |-> account], t)
  <2>1. t \in DealType /\ market \in MarketType /\ t.vol \in Nat
    BY <1>1, InputAssumption DEF BookInv, TypeOK, DealType
  <2>2. Consistent(positions, account)
    BY <1>1 DEF BookInv, TypeOK, CurrMarginIsSum, ProfitsAreSums, FlatHoldsNothing,
                FrozenMarginCovered, Consistent, FlatIsClean, FlatNoMargin
  <2>3. c.acct.commission - account.commission <= t.vol * Dearest(market, t)
    BY <2>1, <2>2, ClosedFeeFits
  <2>4. account' = WithProfitOf(c.acct, Flattened(c.pos))
    BY DEF onTradeFill
  <2>5. c.acct \in AccountType
    BY <2>1, <2>2, ClosedKeeps DEF Consistent
  <2> HIDE DEF c
  <2>6. account'.commission = c.acct.commission
    BY <2>4, <2>5, WithProfitOfMore
  <2>7. t.vol * Dearest(market, t) =
            Larger(calcCommissionForOrder(market, t.inst, t.price, t.vol, FALSE, TRUE),
                   calcCommissionForOrder(market, t.inst, t.price, t.vol, FALSE, FALSE))
    BY <2>1, DearestScales
  <2> QED BY <2>3, <2>6, <2>7 DEF FeeFits
<1>2. BookInv => \A t \in Trades : Fits(t)
  BY <1>1
<1>3. (\A t \in Trades : Fits(t)) =>
          [\A t \in Trades :
              /\ ByDate(market, t.inst) \/ Cffex(market, t.inst)
              /\ t.offset # "open" /\ account'.commission > account.commission
              /\ onTradeFill(t)
              => FeeFits(t)]_vars
  OBVIOUS
<1> HIDE DEF Fits
<1> QED BY <1>2, <1>3, BookInvariant, PTL DEF FeeOnDatedLots

\* A close at the market price that empties the slots it closes leaves the
\* equity alone, for any prices, costs and lots: the profit the last tick showed
\* and the profit realised are the same number, counted once.
THEOREM FullClosesKeepEquity == Spec => FullCloseKeepsEquity
<1> DEFINE Keeps(t) == ClosesAtMarket(t) /\ EmptiesSlots(t) => KeepsEquity
<1>1. ASSUME BookInv, NEW t \in Trades PROVE Keeps(t)
  <2> SUFFICES ASSUME ClosesAtMarket(t), EmptiesSlots(t) PROVE KeepsEquity
    OBVIOUS
  <2> DEFINE b == [pos |-> positions, acct |-> account]
             c == Closed(market, b, t)
  <2>1. t \in DealType /\ market \in MarketType
    BY <1>1, InputAssumption DEF BookInv, TypeOK
  <2>2. Consistent(positions, account)
    BY <1>1 DEF BookInv, TypeOK, CurrMarginIsSum, ProfitsAreSums, FlatHoldsNothing,
                FrozenMarginCovered, Consistent, FlatIsClean, FlatNoMargin
  <2>3. /\ positions' = Flattened(c.pos)
        /\ account' = WithProfitOf(c.acct, Flattened(c.pos))
        /\ t.price = market.last_price[t.inst]
    BY DEF ClosesAtMarket, onTradeFill
  <2>4. Consistent(c.pos, c.acct)
    BY <2>1, <2>2, ClosedKeeps
  <2>5. ASSUME NEW s \in SlotsClosed(positions, market, t)
        PROVE  MarkedAtLast(market, positions[s], s) /\ c.pos[s].position = 0
    <3>1. s \in Slots
      BY <2>1 DEF SlotsClosed, CloseOrder, DealType, SideClosed, Slots, Sides, Dates
    <3>2. positions'[s].position = c.pos[s].position
      BY <2>3, <2>4, <3>1 DEF Flattened, Consistent, PositionType
    <3> QED BY <3>2, <2>5 DEF ClosesAtMarket, EmptiesSlots
  <2>6. LoopEquity(c) = LoopEquity(b) /\ c.acct.static = account.static
    BY <2>1, <2>2, <2>3, <2>5, ClosedKeepsEquity
  <2>7. /\ LoopEquity(c) = SlotTotal(Profits(Flattened(c.pos))) + c.acct.close_profit
        /\ LoopEquity(b) = SlotTotal(Profits(Flattened(positions)))
                               + account.close_profit
    BY DEF LoopEquity
  <2>8. Profits(Flattened(positions)) = Profits(positions)
    <3>1. /\ positions \in [Slots -> PositionType]
          /\ \A s \in Slots : positions[s].position = 0
                                  => positions[s].position_profit = 0
      BY <1>1 DEF BookInv, TypeOK, FlatHoldsNothing, FlatIsClean
    <3>2. \A s \in Slots : Flattened(positions)[s].position_profit
                               = positions[s].position_profit
      BY <3>1 DEF Flattened, PositionType
    <3> QED BY <3>2 DEF Profits
  <2>9. SlotTotal(Profits(positions)) = account.position_profit
    BY <1>1 DEF BookInv, ProfitsAreSums
  <2>10. /\ account'.balance = c.acct.static + SlotTotal(Profits(Flattened(c.pos)))
                                + c.acct.close_profit - c.acct.commission
         /\ account'.commission = c.acct.commission
    BY <2>3, <2>4, WithProfitOfMore DEF Consistent
  <2>11. SlotTotal(Profits(Flattened(c.pos))) \in Int
    BY <2>4, FlattenedKeeps, WithProfitOfKeeps DEF Consistent, AccountType
  <2>12. /\ c.acct.static \in Int /\ c.acct.close_profit \in Int
         /\ c.acct.commission \in Int
    BY <2>4 DEF Consistent, AccountType
  <2>13. /\ account.static \in Int /\ account.position_profit \in Int
         /\ account.close_profit \in Int
    BY <2>2 DEF Consistent, AccountType
  <2>14. /\ LoopEquity(b) = account.position_profit + account.close_profit
         /\ account'.balance + account'.commission = c.acct.static + LoopEquity(c)
    <3> HIDE DEF c
    <3> QED BY <2>7, <2>8, <2>9, <2>10, <2>11, <2>12
  <2> HIDE DEF c, b
  <2> QED BY <2>6, <2>13, <2>14 DEF KeepsEquity, Equity
<1>2. BookInv => \A t \in Trades : Keeps(t)
  BY <1>1
<1>3. (\A t \in Trades : Keeps(t)) =>
          [\A t \in Trades : ClosesAtMarket(t) /\ EmptiesSlots(t) => KeepsEquity]_vars
  OBVIOUS
<1> HIDE DEF Keeps
<1> QED BY <1>2, <1>3, BookInvariant, PTL DEF FullCloseKeepsEquity
=============================================================================
