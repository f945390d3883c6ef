-------------------------------- MODULE Desk --------------------------------
(***************************************************************************)
(* The position book at work: orders that the gateway sends, an exchange   *)
(* that fills and cancels them, and the reports on their way back.  Order  *)
(* reports and trade reports travel in rings of their own (order_updates   *)
(* and trade_updates), each in order; the worker drains one, then the      *)
(* other, while the front keeps pushing, so across the two any order of    *)
(* processing is possible.                                                 *)
(*                                                                         *)
(* The book's own actions are those of PositionManager; here they are      *)
(* called only the way src/src/gateway.cpp calls them.  Every instrument   *)
(* is known to the book (sendOrder refuses until the gateway is ready),    *)
(* no other terminal trades on the account, and OrderManager::create runs  *)
(* before the first report of the order does (OrderFlow shows what happens *)
(* when it does not: the final report of such an order releases nothing).  *)
(***************************************************************************)
EXTENDS PositionManager, FiniteSets

CONSTANT MaxOrders   \* orders sent in one run: the bound of `sent`

ASSUME MaxOrdersAssumption == MaxOrders \in Nat

\* The trade an exchange reports of v lots of an order: at its limit, or one
\* better for a buy.
Filled(o, v, better) == [o EXCEPT !.vol = v, !.price = @ - better]

\* Trades of PositionManager are the ones the exchange may report.
ASSUME TradesAssumption ==
    \A o \in Orders : \A v \in 1 .. o.vol : \A better \in {0, 1} :
        (better > 0 => o.dir = "buy") => Filled(o, v, better) \in Trades

\* SHFE and INE keep yesterday's lots apart from today's.
KeepsDates(i) == Info[i].exchange \in {"SHFE", "INE"}

\* There an order says which of the two it closes: CloseToday or CloseYesterday
\* (README.md:127 of the repository).
ASSUME OffsetAssumption ==
    \A o \in Orders : KeepsDates(o.inst) => o.offset # "close"

\* The book the desk opens with: the queries of the login have told it of every
\* instrument, no order of the account is alive and nothing is frozen, lots are
\* held under listed keys, and those of yesterday under a date of their own on
\* SHFE and INE alone (position_date in types.h).
ASSUME OpeningBookAssumption ==
    \A b \in Snapshots :
        /\ b.market.instruments = Instruments
        /\ b.acct.frozen_commission = 0
        /\ \A s \in Slots :
              /\ b.pos[s].long_frozen = 0 /\ b.pos[s].short_frozen = 0
              /\ b.pos[s].frozen_margin = 0 /\ b.pos[s].frozen_commission = 0
              /\ ~b.pos[s].listed \/ (s[3] = "yd" /\ ~KeepsDates(s[1]))
                 => b.pos[s].position = 0

VARIABLES
    sent,      \* orders sent so far; an order's number is its identity
    working,   \* working[k]: the request of order k and its unfilled lots
    cancels,   \* final order reports not yet processed: request and unfilled
    fills,     \* trades not yet processed
    undo,      \* requests whose ReqOrderInsert failed, not yet released
    lots,      \* lots[s]: what the exchange holds for the account in slot s
    blind,     \* history: the sides an order was sent to close while the book
               \* listed no slot of them, so that it froze no lots
    repriced   \* history: instruments whose margin price moved under an order

history == <<blind, repriced>>

deskVars == <<sent, working, cancels, fills, undo, lots, history>>

allVars == <<vars, deskVars>>

Report == [req : Orders, unfilled : Nat \ {0}]

DeskTypeOK ==
    /\ TypeOK
    /\ sent \in 0 .. MaxOrders
    /\ \A k \in DOMAIN working : k \in 1 .. sent /\ working[k] \in Report
    /\ cancels \in Seq(Report)
    /\ fills \in Seq(DealType)
    /\ undo \in Seq(Orders)
    /\ lots \in [Slots -> Nat]
    /\ blind \subseteq Instruments \X Sides
    /\ repriced \subseteq Instruments

DeskInit ==
    /\ Init
    /\ sent = 0
    /\ working = <<>>
    /\ cancels = <<>>
    /\ fills = <<>>
    /\ undo = <<>>
    /\ lots = [s \in Slots |-> positions[s].position]
    /\ blind = {}
    /\ repriced = {}

\* No order is alive and no report of one on its way.
Idle == working = <<>> /\ cancels = <<>> /\ fills = <<>> /\ undo = <<>>

----------------------------------------------------------------------------
(* sendOrder: freeze, then ReqOrderInsert; the strategy thread releases    *)
(* what it froze when the call fails, other threads running in between.    *)

SendOrder(o) ==
    /\ sent < MaxOrders
    /\ undo = <<>>
    /\ onOrderRequest(o)
    /\ sent' = sent + 1
    /\ \/ /\ working' = [k \in DOMAIN working \cup {sent'} |->
                           IF k = sent' THEN [req |-> o, unfilled |-> o.vol]
                           ELSE working[k]]
          /\ UNCHANGED undo
       \/ undo' = <<o>> /\ UNCHANGED working
    /\ blind' = IF TouchedSlots(positions, o) # {} THEN blind
                ELSE blind \cup {<<o.inst, SideClosed(o.dir)>>}
    /\ UNCHANGED <<cancels, fills, lots, repriced>>

UndoOrder ==
    /\ undo # <<>>
    /\ onOrderRejectOrCancel(Head(undo), Head(undo).vol)
    /\ undo' = Tail(undo)
    /\ UNCHANGED <<sent, working, cancels, fills, lots, history>>

----------------------------------------------------------------------------
(* The exchange.                                                           *)

SlotTraded(o) ==
    IF o.offset = "open" THEN <<o.inst, SideOpened(o.dir), "today">>
    ELSE <<o.inst, SideClosed(o.dir),
           IF KeepsDates(o.inst) /\ o.offset = "closeYd" THEN "yd" ELSE "today">>

Unfilled(k, v) ==
    IF working[k].unfilled = v
    THEN [j \in DOMAIN working \ {k} |-> working[j]]
    ELSE [working EXCEPT ![k].unfilled = @ - v]

\* Fills v lots of order k.
Fill(k, v, better) ==
    LET o == working[k].req
        s == SlotTraded(o)
    IN /\ o.offset # "open" => lots[s] >= v
       /\ better > 0 => o.dir = "buy"
       /\ working' = Unfilled(k, v)
       /\ fills' = Append(fills, Filled(o, v, better))
       /\ lots' = [lots EXCEPT ![s] = IF o.offset = "open" THEN @ + v
                                      ELSE @ - v]
       /\ UNCHANGED <<vars, sent, cancels, undo, history>>

\* A cancel, or a rejection by the exchange: the rest of the order is final.
Cancel(k) ==
    /\ cancels' = Append(cancels, working[k])
    /\ working' = Unfilled(k, working[k].unfilled)
    /\ UNCHANGED <<vars, sent, fills, undo, lots, history>>

----------------------------------------------------------------------------
(* The worker threads.                                                     *)

ProcessCancel ==
    /\ cancels # <<>>
    /\ onOrderRejectOrCancel(Head(cancels).req, Head(cancels).unfilled)
    /\ cancels' = Tail(cancels)
    /\ UNCHANGED <<sent, working, fills, undo, lots, history>>

ProcessTrade ==
    /\ fills # <<>>
    /\ onTradeFill(Head(fills))
    /\ fills' = Tail(fills)
    /\ UNCHANGED <<sent, working, cancels, undo, lots, history>>

\* The price an order's margin follows (0: none, the order's own is taken).
PriceFollowed(m, i) == IF m.price_type = "4" THEN 0 ELSE getMarginPrice(m, i, FALSE)

ProcessTick(t) ==
    /\ onTick(t)
    /\ repriced' = repriced \cup
           {i \in Instruments :
               ~Idle /\ PriceFollowed(market', i) # PriceFollowed(market, i)}
    /\ UNCHANGED <<sent, working, cancels, fills, undo, lots, blind>>

Finished == sent = MaxOrders /\ Idle

DeskNext ==
    \/ \E o \in Orders : SendOrder(o)
    \/ UndoOrder
    \/ \E k \in DOMAIN working : \E v \in 1 .. working[k].unfilled :
           \E better \in {0, 1} : Fill(k, v, better)
    \/ \E k \in DOMAIN working : Cancel(k)
    \/ ProcessCancel
    \/ ProcessTrade
    \/ \E t \in Ticks : ProcessTick(t)
    \/ Finished /\ UNCHANGED allVars

DeskSpec == DeskInit /\ [][DeskNext]_allVars

----------------------------------------------------------------------------
\* Every lot that the book has not heard the end of, of the orders for which
\* concerns(o) holds: working, or reported and not yet processed.
LotsOf(concerns(_)) ==
    LET one(o, v) == IF concerns(o) THEN v ELSE 0
    IN Total(MaxOrders,
             [k \in 1 .. MaxOrders |->
                 IF k \in DOMAIN working
                 THEN one(working[k].req, working[k].unfilled) ELSE 0])
       + Total(Len(cancels),
               [k \in 1 .. Len(cancels) |-> one(cancels[k].req, cancels[k].unfilled)])
       + Total(Len(fills), [k \in 1 .. Len(fills) |-> one(fills[k], fills[k].vol)])
       + Total(Len(undo), [k \in 1 .. Len(undo) |-> one(undo[k], undo[k].vol)])

Outstanding(s) == LotsOf(LAMBDA o : o.offset = "open" /\ SlotTraded(o) = s)

\* The lots frozen for opening a slot are exactly those of orders still alive
\* or reported and unprocessed, in whatever order the two rings are drained: a
\* partial fill and the cancel of the rest release each lot once.
OpeningLotsExact ==
    \A i \in Instruments :
        /\ positions[<<i, "long", "today">>].long_frozen
               = Outstanding(<<i, "long", "today">>)
        /\ positions[<<i, "short", "today">>].short_frozen
               = Outstanding(<<i, "short", "today">>)

\* The same of the lots frozen for closing, on a side where the book lists one
\* slot and listed one when each closing order was sent.  (With two the order
\* freezes its lots in both, and a fill thaws those the loop over date_order
\* reaches: the other slot's count stays.)
ClosingLotsExact ==
    \A i \in Instruments, side \in Sides :
        LET listed == {s \in {<<i, side, d>> : d \in Dates} : positions[s].listed}
            closes(o) == /\ o.inst = i /\ o.offset # "open"
                         /\ SideClosed(o.dir) = side
        IN <<i, side>> \notin blind /\ Cardinality(listed) = 1 =>
               \A s \in listed :
                   (IF side = "long" THEN positions[s].short_frozen
                    ELSE positions[s].long_frozen) = LotsOf(closes)

\* Once the trades are processed the book holds, slot by slot, what the
\* exchange holds: the order in which onTradeFill consumes the slots of the
\* two days agrees with the offset the order asked for.
BookMirrorsExchange ==
    fills = <<>> => \A s \in Slots : positions[s].position = lots[s]

\* With no order alive and no report pending no margin stays frozen in any slot
\* whose price stood still while an order was alive, and none in the account if
\* all did: partial fills at a better price, wipes and releases leave nothing.
MarginReleasedWhenIdle ==
    Idle => /\ \A s \in Slots : s[1] \notin repriced => positions[s].frozen_margin = 0
            /\ repriced = {} => account.frozen_margin = 0

\* With no order alive and no report pending no commission stays frozen
\* (STEP 3 of TEST_SKILL.md after the cancel of a closing order).
CommissionReleasedWhenIdle == Idle => account.frozen_commission = 0
=============================================================================
