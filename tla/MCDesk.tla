------------------------------- MODULE MCDesk -------------------------------
(* A small desk: a dated and an undated future, up to MaxOrders orders.     *)
EXTENDS Desk

\* Lots carried overnight: two, at the settlement price 3
Carried ==
    [listed |-> TRUE, position |-> 2, today |-> 0, long_frozen |-> 0,
     short_frozen |-> 0, position_cost |-> 12, open_cost |-> 8, margin |-> 12,
     frozen_margin |-> 0, frozen_commission |-> 0, commission |-> 0,
     close_profit |-> 0, position_profit |-> 0]

Absent ==
    [Carried EXCEPT !.listed = FALSE, !.position = 0, !.position_cost = 0,
                    !.open_cost = 0, !.margin = 0]

DeskInfo == [i \in Instruments |->
    [mult |-> 2, longRatio |-> 1, shortRatio |-> 1, fixed |-> 0, mini |-> 0,
     option |-> FALSE, dated |-> i = 1,
     exchange |-> IF i = 1 THEN "SHFE" ELSE "DCE"]]

DeskRate == [i \in Instruments |->
    [openMoney |-> 0, openLot |-> 1, closeMoney |-> 0, closeLot |-> 2,
     todayMoney |-> 0, todayLot |-> 3]]

CarriedSlots == {<<1, "long", "yd">>, <<2, "long", "today">>}

DeskSnapshot(type) ==
    [pos |-> [s \in Slots |-> IF s \in CarriedSlots THEN Carried ELSE Absent],
     acct |-> Derive([balance |-> 0, available |-> 0, static |-> 90,
                      held |-> 0, curr_margin |-> 24, frozen_margin |-> 0,
                      frozen_commission |-> 0, close_profit |-> 0,
                      position_profit |-> 0, commission |-> 0]),
     market |-> [instruments |-> Instruments, commissions |-> Instruments,
                 pre_settlement |-> [i \in Instruments |-> 3],
                 last_price |-> [i \in Instruments |-> 3],
                 price_type |-> type]]

\* Settlement price, last price, and open price (what SimNow uses)
DeskSnapshots == {DeskSnapshot("1"), DeskSnapshot("2"), DeskSnapshot("4")}

DeskDeal(i, dir, offset, price, vol) ==
    [inst |-> i, dir |-> dir, offset |-> offset, price |-> price, vol |-> vol]

DeskOrders ==
    {DeskDeal(1, "buy", "open", 4, 2), DeskDeal(1, "sell", "closeToday", 3, 1),
     DeskDeal(1, "sell", "closeYd", 3, 2), DeskDeal(2, "buy", "open", 4, 1),
     DeskDeal(2, "sell", "close", 3, 2),
     \* a side without lots: of the two the close freezes nothing if it is first
     DeskDeal(2, "buy", "close", 3, 1), DeskDeal(2, "sell", "open", 3, 1)}

\* One closing order that nothing fills
ClosingOrder == {DeskDeal(2, "sell", "close", 9, 1)}

DeskTrades ==
    UNION {{Filled(o, v, better) : v \in 1 .. o.vol,
                                   better \in IF o.dir = "buy" THEN {0, 1} ELSE {0}}
           : o \in DeskOrders \cup ClosingOrder}

\* Up, and below the opening price
DeskTicks == {[inst |-> 1, last |-> 5, pre |-> 3], [inst |-> 1, last |-> 2, pre |-> 3]}
=============================================================================
