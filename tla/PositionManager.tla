--------------------------- MODULE PositionManager ---------------------------
(***************************************************************************)
(* The local book of the gateway: what src/src/position_manager.cpp keeps  *)
(* of the account and of every position, and how each of its entry points  *)
(* changes it.  Every entry point holds mtx_, so each is one atomic action.*)
(*                                                                         *)
(* Money is counted in integers: prices, ratios and rates are whole        *)
(* numbers, and the only two divisions of the code (the average open price *)
(* and the share of the margin a partial close releases) round down.       *)
(*                                                                         *)
(* The specification is the most general client: any request, cancel,      *)
(* trade or tick of the constant sets, in any order.  A trade needs no     *)
(* request before it, because the front pushes the trades of the whole     *)
(* account, those of other terminals included.                             *)
(***************************************************************************)
EXTENDS Sums, Sequences

CONSTANTS
    NInst,       \* number of instruments the book may hear of
    Info,        \* InstrumentInfo of each instrument
    Rate,        \* CommissionInfo of each instrument
    Snapshots,   \* books as the queries after the login leave them
    Orders,      \* order requests
    Trades,      \* trades
    Ticks,       \* ticks
    PriceTypes,  \* MarginPriceType values the broker may answer
    Baselines    \* commissions the trade history may add up to

Instruments == 1 .. NInst

Sides == {"long", "short"}               \* posi_direction '2' and '3'

Dates == {"today", "yd"}                 \* position_date '1' and '2'

Slots == Instruments \X Sides \X Dates   \* posKey

Directions == {"buy", "sell"}

Offsets == {"open", "close", "closeToday", "closeYd"}

SideOpened(dir) == IF dir = "buy" THEN "long" ELSE "short"

SideClosed(dir) == IF dir = "buy" THEN "short" ELSE "long"

----------------------------------------------------------------------------
(* Types.                                                                  *)

InfoType ==
    [mult : Nat, longRatio : Nat, shortRatio : Nat, fixed : Nat, mini : Nat,
     option : BOOLEAN, dated : BOOLEAN,
     exchange : {"SHFE", "INE", "CFFEX", "DCE", "CZCE", "GFEX"}]

RateType ==
    [openMoney : Nat, openLot : Nat, closeMoney : Nat, closeLot : Nat,
     todayMoney : Nat, todayLot : Nat]

\* OrderRequest and TradeRecord: the fields the book reads of either
DealType ==
    [inst : Instruments, dir : Directions, offset : Offsets,
     price : Nat, vol : Nat \ {0}]

TickType == [inst : Instruments, last : Nat, pre : Nat]

\* `listed`: the key is in positions_.
PositionType ==
    [listed : BOOLEAN, position : Nat, today : Int, long_frozen : Nat,
     short_frozen : Nat, position_cost : Nat, open_cost : Nat, margin : Nat,
     frozen_margin : Nat, frozen_commission : Nat, commission : Nat,
     close_profit : Int, position_profit : Int]

\* static: pre_balance + deposit - withdraw; held: frozen_cash +
\* delivery_margin + reserve.  The code changes neither after the snapshot.
AccountType ==
    [balance : Int, available : Int, static : Int, held : Int,
     curr_margin : Nat, frozen_margin : Nat, frozen_commission : Nat,
     close_profit : Int, position_profit : Int, commission : Nat]

MarketType ==
    [instruments : SUBSET Instruments, commissions : SUBSET Instruments,
     pre_settlement : [Instruments -> Nat], last_price : [Instruments -> Nat],
     price_type : {"1", "2", "3", "4"}]

----------------------------------------------------------------------------
(* Totals over positions_.                                                 *)

OfInstrument(f, i) ==
    f[<<i, "long", "today">>] + f[<<i, "long", "yd">>]
        + f[<<i, "short", "today">>] + f[<<i, "short", "yd">>]

SlotTotal(f) == Total(NInst, [i \in Instruments |-> OfInstrument(f, i)])

Margins(pos) == [s \in Slots |-> pos[s].margin]

Profits(pos) == [s \in Slots |-> pos[s].position_profit]

FrozenMargins(pos) == [s \in Slots |-> pos[s].frozen_margin]

Realised(pos) == [s \in Slots |-> pos[s].close_profit]

----------------------------------------------------------------------------
(* Margin and commission of an instrument; m is the reference data.        *)

Shfe(m, i) == i \in m.instruments /\ Info[i].exchange \in {"SHFE", "INE"}

Cffex(m, i) == i \in m.instruments /\ Info[i].exchange = "CFFEX"

Dated(m, i) == i \in m.instruments /\ Info[i].dated

Mult(m, i) == IF i \in m.instruments THEN Info[i].mult ELSE 1

getMarginPrice(m, i, yd) ==
    IF yd \/ m.price_type = "1" THEN m.pre_settlement[i] ELSE m.last_price[i]

calcFuturesMargin(i, price, vol, side) ==
    (IF side = "long" THEN Info[i].longRatio ELSE Info[i].shortRatio)
        * price * Info[i].mult * vol

calcOptionsMargin(m, i, price, vol, yd) ==
    LET base == IF ~yd THEN price
                ELSE IF Shfe(m, i) THEN Larger(m.pre_settlement[i], price)
                ELSE m.pre_settlement[i]
    IN Larger(base * Info[i].mult + Info[i].fixed, Info[i].mini) * vol

\* The price a future's margin is taken at: the broker's, if it is known.
EffectivePrice(m, i, price, yd) ==
    LET p == getMarginPrice(m, i, yd)
    IN IF (yd \/ m.price_type \in {"1", "2"}) /\ p > 0 THEN p ELSE price

calcMargin(m, i, price, vol, side, yd) ==
    IF i \notin m.instruments THEN 0
    ELSE IF Info[i].option THEN calcOptionsMargin(m, i, price, vol, yd)
    ELSE calcFuturesMargin(i, EffectivePrice(m, i, price, yd), vol, side)

Fee(perMoney, perLot, amount, vol) == amount * perMoney + vol * perLot

calcCommissionForOrder(m, i, price, vol, open, closeToday) ==
    LET r == Rate[i]
        amount == price * Mult(m, i) * vol
    IN IF i \notin m.commissions THEN 0
       ELSE IF open THEN Fee(r.openMoney, r.openLot, amount, vol)
       ELSE IF closeToday THEN Fee(r.todayMoney, r.todayLot, amount, vol)
       ELSE Fee(r.closeMoney, r.closeLot, amount, vol)

----------------------------------------------------------------------------
(* The tail of every entry point: balance and available from their parts.  *)

Derive(a) ==
    LET b == a.static + a.position_profit + a.close_profit - a.commission
    IN [a EXCEPT !.balance = b,
                 !.available = b - a.curr_margin - a.frozen_margin
                                 - a.frozen_commission - a.held]

\* Mutant of FreezeLots: the thaw without the cut at zero.
FreezeLotsUncut(p, dir, by) ==
    IF dir = "buy" THEN [p EXCEPT !.long_frozen = @ + by]
                   ELSE [p EXCEPT !.short_frozen = @ + by]

\* Buying freezes long_frozen of the slots it concerns, selling short_frozen;
\* a negative `by` thaws, never below zero.
FreezeLots(p, dir, by) ==
    IF dir = "buy" THEN [p EXCEPT !.long_frozen = Positive(@ + by)]
                   ELSE [p EXCEPT !.short_frozen = Positive(@ + by)]

\* What an order of vol lots freezes and its cancellation releases.  The code
\* computes both with the same formula, at the prices of the moment.
OrderMargin(m, o, vol) ==
    LET p == getMarginPrice(m, o.inst, FALSE)
        price == IF m.price_type # "4" /\ p > 0 THEN p ELSE o.price
    IN IF o.offset # "open" THEN 0
       ELSE calcMargin(m, o.inst, price, vol, SideOpened(o.dir), FALSE)

OrderCommission(m, o, vol) ==
    calcCommissionForOrder(m, o.inst, o.price, vol, o.offset = "open",
                           Dated(m, o.inst) /\ o.offset = "closeToday")

\* The slots whose frozen lots and frozen money an order touches: the slot it
\* opens, or both slots it may close (if the book lists them).
TouchedSlots(pos, o) ==
    IF o.offset = "open" THEN {<<o.inst, SideOpened(o.dir), "today">>}
    ELSE {s \in {<<o.inst, SideClosed(o.dir), d>> : d \in Dates} :
              pos[s].listed}

----------------------------------------------------------------------------
VARIABLES
    positions,   \* positions_
    account,     \* account_
    market       \* instruments_, commissions_, pre_settlement_, last_price_
                 \* and broker_margin_price_type_

vars == <<positions, account, market>>

----------------------------------------------------------------------------
(* onOrderRequest.                                                         *)

\* Mutant of Refuses: the commission is left out of what the order needs.
RefusesOnMargin(m, a, o) ==
    /\ a.available - (a.frozen_margin + a.frozen_commission)
           < OrderMargin(m, o, o.vol)
    /\ a.available > 0

\* Money is short: what is reserved is subtracted although `available` is
\* already net of it, and the answer counts only while available is positive.
Refuses(m, a, o) ==
    /\ a.available - (a.frozen_margin + a.frozen_commission)
           < OrderMargin(m, o, o.vol) + OrderCommission(m, o, o.vol)
    /\ a.available > 0

\* A closing request adds its commission to the account twice: once for every
\* order, and once more in the branch that freezes the closable lots.
AccountFreeze(m, a, o) ==
    LET comm == OrderCommission(m, o, o.vol)
    IN Derive([a EXCEPT
           !.frozen_margin = @ + OrderMargin(m, o, o.vol),
           !.frozen_commission = @ + (IF o.offset = "open" THEN comm
                                      ELSE 2 * comm)])

SlotFreeze(m, p, o) ==
    [FreezeLots(p, o.dir, o.vol) EXCEPT
        !.listed = TRUE,
        !.frozen_margin = @ + OrderMargin(m, o, o.vol),
        !.frozen_commission = @ + OrderCommission(m, o, o.vol)]

\* The call that returns true.  A request for an instrument the book does not
\* know passes without freezing anything.
onOrderRequest(o) ==
    /\ IF o.inst \notin market.instruments THEN UNCHANGED <<positions, account>>
       ELSE /\ ~Refuses(market, account, o)
            /\ account' = AccountFreeze(market, account, o)
            /\ positions' = [s \in Slots |->
                   IF s \in TouchedSlots(positions, o)
                   THEN SlotFreeze(market, positions[s], o) ELSE positions[s]]
    /\ UNCHANGED market

----------------------------------------------------------------------------
(* onOrderRejectOrCancel.                                                  *)

AccountThaw(m, a, o, vol) ==
    Derive([a EXCEPT
        !.frozen_margin = Positive(@ - OrderMargin(m, o, vol)),
        !.frozen_commission = Positive(@ - OrderCommission(m, o, vol))])

SlotThaw(m, p, o, vol) ==
    [FreezeLots(p, o.dir, -vol) EXCEPT
        !.frozen_margin = Positive(@ - OrderMargin(m, o, vol)),
        !.frozen_commission = Positive(@ - OrderCommission(m, o, vol))]

\* Mutant of onOrderRejectOrCancel: the whole order is released.
onWholeOrderCancel(o, unfilled) ==
    /\ account' = AccountThaw(market, account, o, o.vol)
    /\ positions' = [s \in Slots |->
           IF s \in TouchedSlots(positions, o)
           THEN SlotThaw(market, positions[s], o, o.vol) ELSE positions[s]]
    /\ UNCHANGED market

onOrderRejectOrCancel(o, unfilled) ==
    LET vol == IF unfilled <= 0 THEN o.vol ELSE unfilled
    IN /\ account' = AccountThaw(market, account, o, vol)
       /\ positions' = [s \in Slots |->
              IF s \in TouchedSlots(positions, o)
              THEN SlotThaw(market, positions[s], o, vol) ELSE positions[s]]
       /\ UNCHANGED market

----------------------------------------------------------------------------
(* onTradeFill.  The state of the call is a book b, a record of the        *)
(* positions, the account and, while a trade closes, of the loop's         *)
(* variables: left (remaining) and fee (cffex_today_fee_remaining).        *)

\* Whatever margin and commission the slot a trade opens still has frozen is
\* wiped, and taken off the account too.
Wiped(p) == [p EXCEPT !.frozen_margin = 0, !.frozen_commission = 0]

SlotOpened(m, p, t) ==
    LET mg == calcMargin(m, t.inst, t.price, t.vol, SideOpened(t.dir), FALSE)
        cost == t.price * t.vol * Mult(m, t.inst)
        comm == calcCommissionForOrder(m, t.inst, t.price, t.vol, TRUE, FALSE)
    IN [Wiped(FreezeLots(p, t.dir, -t.vol)) EXCEPT
           !.listed = TRUE, !.commission = @ + comm, !.position = @ + t.vol,
           !.today = @ + t.vol, !.open_cost = @ + cost,
           !.position_cost = @ + cost, !.margin = @ + mg]

\* Mutant of AccountOpened: what the slot had frozen beyond this trade's margin
\* stays in the account.
AccountOpenedKeepingRest(m, a, p, t) ==
    LET mg == calcMargin(m, t.inst, t.price, t.vol, SideOpened(t.dir), FALSE)
        comm == calcCommissionForOrder(m, t.inst, t.price, t.vol, TRUE, FALSE)
    IN [a EXCEPT
           !.frozen_margin = Positive(@ - mg),
           !.frozen_commission = Positive(@ - comm - p.frozen_commission),
           !.commission = @ + comm, !.curr_margin = @ + mg]

AccountOpened(m, a, p, t) ==
    LET mg == calcMargin(m, t.inst, t.price, t.vol, SideOpened(t.dir), FALSE)
        comm == calcCommissionForOrder(m, t.inst, t.price, t.vol, TRUE, FALSE)
    IN [a EXCEPT
           !.frozen_margin = Positive(@ - mg - Positive(p.frozen_margin - mg)),
           !.frozen_commission = Positive(@ - comm - p.frozen_commission),
           !.commission = @ + comm, !.curr_margin = @ + mg]

Opened(m, b, t) ==
    LET s == <<t.inst, SideOpened(t.dir), "today">>
    IN [pos |-> [b.pos EXCEPT ![s] = SlotOpened(m, @, t)],
        acct |-> AccountOpened(m, b.acct, b.pos[s], t)]

\* Mutant of CloseOrder: SHFE's two offsets are not told apart.
CloseOrderUndated(m, t) ==
    IF Shfe(m, t.inst) THEN <<"today", "yd">> ELSE <<"yd", "today">>

\* The slots a close consumes, in order.
CloseOrder(m, t) ==
    IF ~Shfe(m, t.inst) THEN <<"yd", "today">>
    ELSE IF t.offset = "closeToday" THEN <<"today">>
    ELSE IF t.offset = "closeYd" THEN <<"yd">>
    ELSE <<"today", "yd">>

\* Where the slot itself tells today's lots from yesterday's.
ByDate(m, i) == Shfe(m, i) \/ Dated(m, i)

\* Of `vol` lots closed out of a slot of both days, those of yesterday.
\* Negative when today exceeds position.
YesterdayVol(p, vol) == Smaller(vol, p.position - p.today)

\* Mutant of FeeAsToday: today's lots are not cut at the lots closed.
FeeAsTodayUncut(m, i, p, date, vol, fee) ==
    IF Cffex(m, i) THEN fee
    ELSE IF ByDate(m, i) THEN (IF date = "today" THEN vol ELSE 0)
    ELSE vol - YesterdayVol(p, vol)

\* Of the lots closed, those charged at the rate of a close of today's lots.
FeeAsToday(m, i, p, date, vol, fee) ==
    IF Cffex(m, i) THEN Smaller(vol, fee)
    ELSE IF ByDate(m, i) THEN (IF date = "today" THEN vol ELSE 0)
    ELSE vol - YesterdayVol(p, vol)

CloseCommission(m, t, p, date, vol, fee) ==
    LET asToday == FeeAsToday(m, t.inst, p, date, vol, fee)
    IN calcCommissionForOrder(m, t.inst, t.price, Positive(asToday), FALSE, TRUE)
       + calcCommissionForOrder(m, t.inst, t.price, Positive(vol - asToday),
                                FALSE, FALSE)

\* Mutant of CloseGain: yesterday's lots, too, against the average open price.
CloseGainOnOpenPrice(m, t, p, date, vol) ==
    LET gain == IF p.position = 0 THEN 0
                ELSE t.price * vol * Mult(m, t.inst)
                         - (p.open_cost * vol) \div p.position
    IN IF SideClosed(t.dir) = "long" THEN gain ELSE -gain

\* The profit of the lots closed: yesterday's against the settlement price,
\* today's against the average open price.
CloseGain(m, t, p, date, vol) ==
    LET mult == Mult(m, t.inst)
        settled == IF ~ByDate(m, t.inst) THEN YesterdayVol(p, vol)
                   ELSE IF date = "yd" THEN vol ELSE 0
        fresh == Positive(vol - settled)
        gain == (t.price - m.pre_settlement[t.inst]) * Positive(settled) * mult
                + (IF p.position = 0 THEN 0
                   ELSE t.price * fresh * mult
                        - (p.open_cost * fresh) \div p.position)
    IN IF SideClosed(t.dir) = "long" THEN gain ELSE -gain

\* Mutant of MarginShare: the margin of one lot is rounded first.
MarginShareByLot(p, vol) ==
    IF p.position = 0 THEN 0 ELSE (p.margin \div p.position) * vol

\* The margin that leaves with vol of the slot's lots.
MarginShare(p, vol) ==
    IF p.position = 0 THEN 0 ELSE (p.margin * vol) \div p.position

\* One turn of the loop over date_order.
CloseSlot(m, b, t, date) ==
    LET s == <<t.inst, SideClosed(t.dir), date>>
        p == b.pos[s]
        vol == Smaller(b.left, p.position)
        comm == CloseCommission(m, t, p, date, vol, b.fee)
        gain == CloseGain(m, t, p, date, vol)
        share == MarginShare(p, vol)
        cost == t.price * vol * Mult(m, t.inst)
    IN IF b.left <= 0 \/ ~p.listed THEN b ELSE
       [pos |-> [b.pos EXCEPT ![s] =
                    [FreezeLots(p, t.dir, -b.left) EXCEPT
                        !.commission = @ + comm,
                        !.frozen_commission = Positive(@ - comm),
                        !.close_profit = @ + gain,
                        !.margin = Positive(@ - share),
                        !.position = @ - vol,
                        !.position_cost = Positive(@ - cost)]],
        acct |-> [b.acct EXCEPT
                    !.commission = @ + comm,
                    !.frozen_commission = Positive(@ - comm),
                    !.close_profit = @ + gain,
                    !.curr_margin = Positive(@ - share)],
        left |-> b.left - vol,
        fee |-> b.fee - Smaller(vol, b.fee)]

Closed(m, b, t) ==
    LET order == CloseOrder(m, t)
        today == b.pos[<<t.inst, SideClosed(t.dir), "today">>]
        b0 == [pos |-> b.pos, acct |-> b.acct, left |-> t.vol,
               fee |-> IF Cffex(m, t.inst) THEN today.position ELSE 0]
        b1 == CloseSlot(m, b0, t, order[1])
    IN IF Len(order) = 1 THEN b1 ELSE CloseSlot(m, b1, t, order[2])

\* Mutant of Flattened: the profit of an empty slot is left standing.
NotFlattened(pos) == pos

\* The tail of onTradeFill: an empty slot has no position profit, the account's
\* is the sum of what is left.
Flattened(pos) ==
    [s \in Slots |-> IF pos[s].position > 0 THEN pos[s]
                     ELSE [pos[s] EXCEPT !.position_profit = 0]]

\* Mutant of WithProfitOf: the account's position profit is not summed anew.
WithOldProfit(a, pos) == Derive(a)

WithProfitOf(a, pos) ==
    Derive([a EXCEPT !.position_profit = SlotTotal(Profits(pos))])

onTradeFill(t) ==
    LET b == [pos |-> positions, acct |-> account]
        c == IF t.offset = "open" THEN Opened(market, b, t)
             ELSE Closed(market, b, t)
    IN /\ positions' = Flattened(c.pos)
       /\ account' = WithProfitOf(c.acct, Flattened(c.pos))
       /\ UNCHANGED market

----------------------------------------------------------------------------
(* onTick.  A tick without a valid last price returns at once and is left  *)
(* out of Ticks.                                                           *)

Quoted(m, t) ==
    [m EXCEPT !.last_price[t.inst] = t.last,
              !.pre_settlement[t.inst] = IF t.pre > 0 THEN t.pre ELSE @]

MarkedProfit(m, p, s, last) ==
    LET worth == last * Mult(m, s[1]) * p.position
    IN IF s[2] = "long" THEN worth - p.position_cost
                        ELSE p.position_cost - worth

\* Margin follows the market only under the price types '2' and '3'.
MarkedMargin(m, p, s, last) ==
    IF m.price_type \in {"2", "3"}
    THEN calcMargin(m, s[1], last, p.position, s[2], s[3] = "yd")
    ELSE p.margin

Marked(m, pos, i, last) ==
    [s \in Slots |->
        IF s[1] = i /\ pos[s].listed /\ pos[s].position > 0
        THEN [pos[s] EXCEPT
                 !.position_profit = MarkedProfit(m, pos[s], s, last),
                 !.margin = MarkedMargin(m, pos[s], s, last)]
        ELSE pos[s]]

\* Mutant of AccountMarked: the positions' margins move, the account's does not.
AccountMarkedProfitOnly(a, old, new, i) == WithProfitOf(a, new)

\* The account's margin moves by what the instrument's moved.
AccountMarked(a, old, new, i) ==
    WithProfitOf([a EXCEPT !.curr_margin = @ + OfInstrument(Margins(new), i)
                                             - OfInstrument(Margins(old), i)],
                 new)

onTick(t) ==
    LET m == Quoted(market, t)
        new == Marked(m, positions, t.inst, t.last)
        option == t.inst \in m.instruments /\ Info[t.inst].option
    IN /\ market' = m
       /\ IF option THEN UNCHANGED <<positions, account>>
          ELSE /\ positions' = new
               /\ account' = AccountMarked(account, positions, new, t.inst)

----------------------------------------------------------------------------
(* Reference data.  The last two entry points take no lock and derive      *)
(* nothing.                                                                *)

addInstrument(i) ==
    /\ market' = [market EXCEPT !.instruments = @ \cup {i}]
    /\ UNCHANGED <<positions, account>>

setCommission(i) ==
    /\ market' = [market EXCEPT !.commissions = @ \cup {i}]
    /\ UNCHANGED <<positions, account>>

setBrokerMarginPriceType(type) ==
    /\ market' = [market EXCEPT !.price_type = type]
    /\ UNCHANGED <<positions, account>>

setCommissionBaseline(comm) ==
    /\ account' = [account EXCEPT !.commission = comm]
    /\ UNCHANGED <<positions, market>>

----------------------------------------------------------------------------
(* A book as the queries leave it: CTP's account adds up its positions.    *)

Adds(pos, acct) ==
    /\ acct.curr_margin = SlotTotal(Margins(pos))
    /\ acct.position_profit = SlotTotal(Profits(pos))
    /\ acct.close_profit = SlotTotal(Realised(pos))
    /\ acct.frozen_margin <= SlotTotal(FrozenMargins(pos))

FlatIsClean(pos) ==
    \A s \in Slots : pos[s].position = 0 =>
                         pos[s].margin = 0 /\ pos[s].position_profit = 0

SnapshotType ==
    [pos : [Slots -> PositionType], acct : AccountType, market : MarketType]

ASSUME SizeAssumption == NInst \in Nat

ASSUME DataAssumption ==
    /\ Info \in [Instruments -> InfoType]
    /\ Rate \in [Instruments -> RateType]

ASSUME InputAssumption ==
    /\ Orders \subseteq DealType
    /\ Trades \subseteq DealType
    /\ Ticks \subseteq TickType
    /\ PriceTypes \subseteq {"1", "2", "3", "4"}
    /\ Baselines \subseteq Nat

ASSUME SnapshotAssumption ==
    \A b \in Snapshots : /\ b \in SnapshotType
                         /\ Adds(b.pos, b.acct)
                         /\ FlatIsClean(b.pos)

Init ==
    \E b \in Snapshots :
        positions = b.pos /\ account = b.acct /\ market = b.market

Next ==
    \/ \E o \in Orders : onOrderRequest(o)
    \/ \E o \in Orders : \E unfilled \in 0 .. o.vol :
           onOrderRejectOrCancel(o, unfilled)
    \/ \E t \in Trades : onTradeFill(t)
    \/ \E t \in Ticks : onTick(t)
    \/ \E i \in Instruments : addInstrument(i)
    \/ \E i \in Instruments : setCommission(i)
    \/ \E type \in PriceTypes : setBrokerMarginPriceType(type)
    \/ \E comm \in Baselines : setCommissionBaseline(comm)

Spec == Init /\ [][Next]_vars

----------------------------------------------------------------------------
(* What the book promises.                                                 *)

\* Every field stays in its range: no count of lots, cost, margin or frozen
\* amount ever becomes negative, whatever the order of the calls.
TypeOK ==
    /\ positions \in [Slots -> PositionType]
    /\ account \in AccountType
    /\ market \in MarketType

\* The account's margin is accumulated by differences in onTradeFill and
\* onTick, yet it is always the sum of the margins of the positions: neither
\* the proportional release of a close nor its cut-off at zero loses any.
CurrMarginIsSum == account.curr_margin = SlotTotal(Margins(positions))

\* The account's position profit is the sum over the positions, and its close
\* profit moves with theirs, through every close of one or two slots.
ProfitsAreSums ==
    /\ account.position_profit = SlotTotal(Profits(positions))
    /\ account.close_profit = SlotTotal(Realised(positions))

\* A slot with no lots holds no margin and counts no profit: a close that
\* empties a slot leaves no residue behind, whichever way it got there.
FlatHoldsNothing == FlatIsClean(positions)

\* The account never keeps more margin frozen than the positions account for:
\* the wipe of a slot's frozen margin by an opening fill, and a release at
\* another price than the freeze, err only towards releasing too much.
FrozenMarginCovered ==
    account.frozen_margin <= SlotTotal(FrozenMargins(positions))

\* What the account is worth before commission.
Equity(a) == a.static + a.position_profit + a.close_profit

\* A slot whose profit was marked at the last price and whose lots are all of
\* one day, on that day's cost basis: what a tick leaves of such a slot.
MarkedAtLast(m, p, s) ==
    /\ p.position_profit = MarkedProfit(m, p, s, m.last_price[s[1]])
    /\ LET ofToday == IF ByDate(m, s[1]) THEN s[3] = "today"
                      ELSE p.today = p.position
       IN IF ofToday THEN p.position_cost = p.open_cost
          ELSE /\ ByDate(m, s[1]) \/ p.today = 0
               /\ p.position_cost =
                      m.pre_settlement[s[1]] * Mult(m, s[1]) * p.position

SlotsClosed(pos, m, t) ==
    LET order == CloseOrder(m, t)
    IN {s \in {<<t.inst, SideClosed(t.dir), order[k]>> : k \in DOMAIN order} :
            pos[s].listed /\ pos[s].position > 0}

\* A close at the last price, out of slots the last tick marked.
ClosesAtMarket(t) ==
    /\ t.offset # "open"
    /\ t.price = market.last_price[t.inst]
    /\ \A s \in SlotsClosed(positions, market, t) :
           MarkedAtLast(market, positions[s], s)
    /\ onTradeFill(t)

EmptiesSlots(t) ==
    \A s \in SlotsClosed(positions, market, t) : positions'[s].position = 0

KeepsEquity == account'.balance + account'.commission = Equity(account)

\* Closing at the market price turns position profit into close profit and
\* leaves the equity alone: nothing is counted twice when the trade empties
\* every slot it closes (the case the zeroing in onTradeFill was written for).
FullCloseKeepsEquity ==
    [][\A t \in Trades : ClosesAtMarket(t) /\ EmptiesSlots(t) => KeepsEquity]_vars

\* The same of every close, the partial ones included: TEST_SKILL.md:158 holds the
\* balance to the remote one within 0.02, and README.md:184 says it is.
CloseKeepsEquity ==
    [][\A t \in Trades : ClosesAtMarket(t) => KeepsEquity]_vars

\* An opening request that passes the check while money is available leaves
\* the available money non-negative, whatever was frozen before it.
OpenRequestStaysFunded ==
    [][\A o \in Orders :
          /\ o.offset = "open"
          /\ account.available > 0
          /\ account = Derive(account)
          /\ onOrderRequest(o)
          => account'.available >= 0]_vars

FeeFits(t) ==
    account'.commission - account.commission <=
        Larger(calcCommissionForOrder(market, t.inst, t.price, t.vol, FALSE, TRUE),
               calcCommissionForOrder(market, t.inst, t.price, t.vol, FALSE, FALSE))

\* A close is charged for the lots it traded and no more: at most the dearer of
\* the two closing rates on t.vol lots (the formula in calcCommissionForOrder).
FeeOnTradedLots ==
    [][\A t \in Trades : t.offset # "open" /\ onTradeFill(t) => FeeFits(t)]_vars

\* The same where today's lots are known by their slot, or counted down once per
\* trade as on CFFEX: there two turns of the loop charge no lot twice.
FeeOnDatedLots ==
    [][\A t \in Trades :
          /\ ByDate(market, t.inst) \/ Cffex(market, t.inst)
          /\ t.offset # "open" /\ account'.commission > account.commission
          /\ onTradeFill(t)
          => FeeFits(t)]_vars
=============================================================================
