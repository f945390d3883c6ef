-------------------------- MODULE MCPositionManager --------------------------
(* Small instances of PositionManager for TLC: at most MaxCalls calls.      *)
EXTENDS PositionManager, FiniteSets

CONSTANT MaxCalls

VARIABLES calls,
          pair     \* the instruments the calls of this run are about

MCVars == <<vars, calls, pair>>

Half == IF NInst <= 2 THEN {Instruments} ELSE {{1, 2}, {3, 4}}

MCInit ==
    /\ Init
    /\ calls = 0
    /\ pair \in Half
    /\ \A s \in Slots : positions[s].listed => s[1] \in pair
    /\ market.instruments \subseteq pair

LeavesAlone(i) ==
    /\ \A s \in Slots : s[1] = i => positions'[s] = positions[s]
    /\ (i \in market'.instruments) = (i \in market.instruments)
    /\ (i \in market'.commissions) = (i \in market.commissions)
    /\ market'.last_price[i] = market.last_price[i]

Call ==
    /\ calls < MaxCalls
    /\ Next
    /\ \A i \in Instruments \ pair : LeavesAlone(i)
    /\ calls' = calls + 1
    /\ UNCHANGED pair

Rest == calls = MaxCalls /\ UNCHANGED MCVars

MCNext == Call \/ Rest

MCSpec == MCInit /\ [][MCNext]_MCVars

----------------------------------------------------------------------------
Future(exchange, dated) ==
    [mult |-> 2, longRatio |-> 1, shortRatio |-> 2, fixed |-> 0, mini |-> 0,
     option |-> FALSE, dated |-> dated, exchange |-> exchange]

Option(exchange) ==
    [Future(exchange, TRUE) EXCEPT !.option = TRUE, !.fixed = 3, !.mini = 8]

MCRate == [i \in Instruments |->
    [openMoney |-> 1, openLot |-> 1, closeMoney |-> 1, closeLot |-> 0,
     todayMoney |-> 0, todayLot |-> 5]]

\* A future of an exchange that keeps the two days apart, one that does not; a
\* CFFEX future and an option.
FourKinds == <<Future("SHFE", TRUE), Future("DCE", FALSE),
               Future("CFFEX", FALSE), Option("SHFE")>>

DceAlone == <<Future("DCE", FALSE)>>

----------------------------------------------------------------------------
NoPosition ==
    [listed |-> FALSE, position |-> 0, today |-> 0, long_frozen |-> 0,
     short_frozen |-> 0, position_cost |-> 0, open_cost |-> 0, margin |-> 0,
     frozen_margin |-> 0, frozen_commission |-> 0, commission |-> 0,
     close_profit |-> 0, position_profit |-> 0]

\* Yesterday's lots, on the books at the settlement price 3 and multiplier 2
Overnight(lots) ==
    [NoPosition EXCEPT !.listed = TRUE, !.position = lots,
                       !.position_cost = lots * 6, !.open_cost = lots * 4,
                       !.margin = lots * 6]

Money(static, margin) ==
    Derive([balance |-> 0, available |-> 0, static |-> static, held |-> 1,
            curr_margin |-> margin, frozen_margin |-> 0,
            frozen_commission |-> 0, close_profit |-> 0, position_profit |-> 0,
            commission |-> 0])

Reference(known, type) ==
    [instruments |-> known, commissions |-> known,
     pre_settlement |-> [i \in Instruments |-> 3],
     last_price |-> [i \in Instruments |-> 0], price_type |-> type]

\* Only an instrument that keeps the days apart has a slot of yesterday.
OvernightSlot(i) == <<i, "long", IF Info[i].dated THEN "yd" ELSE "today">>

Holding(known, held, static, type) ==
    [pos |-> [s \in Slots |-> IF \E i \in held : s = OvernightSlot(i)
                              THEN Overnight(2) ELSE NoPosition],
     acct |-> Money(static, 12 * Cardinality(held)),
     market |-> Reference(known, type)]

\* An empty book that has heard of nothing yet, and books of either pair
MCSnapshots ==
    {Holding({}, {}, 20, "1")}
        \cup UNION {{Holding({i, i + 1}, {i, i + 1}, 60, "2"),
                     Holding({i, i + 1}, {i}, 40, "4")} : i \in {1, 3}}

FreshSnapshots == {Holding({1}, {}, 60, "1")}

CarriedSnapshots == {Holding({1}, {1}, 60, "1")}

----------------------------------------------------------------------------
Deal(i, dir, offset, price, vol) ==
    [inst |-> i, dir |-> dir, offset |-> offset, price |-> price, vol |-> vol]

\* The calls about instruments i and i + 1.
OrdersOf(i) ==
    {Deal(i, "buy", "open", 4, 2), Deal(i, "sell", "closeToday", 4, 1),
     Deal(i + 1, "sell", "open", 3, 1)}

TradesOf(i) ==
    {Deal(i, "buy", "open", 4, 1), Deal(i, "sell", "closeYd", 5, 2),
     Deal(i, "sell", "close", 2, 3), Deal(i + 1, "buy", "open", 5, 1),
     Deal(i + 1, "sell", "close", 2, 3), Deal(i + 1, "sell", "close", 2, 1)}

TicksOf(i) ==
    {[inst |-> i, last |-> 5, pre |-> 3], [inst |-> i + 1, last |-> 2, pre |-> 0]}

MCOrders == OrdersOf(1) \cup OrdersOf(3)

MCTrades == TradesOf(1) \cup TradesOf(3)

MCTicks == TicksOf(1) \cup TicksOf(3)

\* An order of two lots opened, then closed one lot at a time
LotByLot == {Deal(1, "buy", "open", 4, 2), Deal(1, "sell", "close", 5, 1)}

OneTick == {[inst |-> 1, last |-> 5, pre |-> 3]}
=============================================================================
