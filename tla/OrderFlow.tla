------------------------------ MODULE OrderFlow ------------------------------
(***************************************************************************)
(* The life of an order between the strategy, the front and OrderManager   *)
(* (src/src/order_manager.cpp): sendOrder on the strategy's thread, the    *)
(* SPI thread that pushes reports into two rings, the trade worker that    *)
(* takes them out and updates the records.                                 *)
(*                                                                         *)
(* Of the position book only this is kept: how many lots were handed to    *)
(* onOrderRejectOrCancel and to onTradeFill for each order (what the book  *)
(* does with them is PositionManager's subject).  `pending_`, which nothing *)
(* reads, is left out.                                                     *)
(*                                                                         *)
(* An order's key is its session (front_id and session_id together) and    *)
(* its order_ref.  A login begins a session: order_refs are counted from   *)
(* the beginning, and the private topic, subscribed with                   *)
(* THOST_TERT_RESTART, pushes all the day's messages again, the ones of    *)
(* earlier sessions included.                                              *)
(*                                                                         *)
(* An order_sys_id is the number an exchange gives an order.  Exchanges    *)
(* number their orders apart, so two orders may have the same one; the     *)
(* index of OrderManager is the bare number.                               *)
(***************************************************************************)
EXTENDS Integers, Sequences, FiniteSets

CONSTANTS
    MaxOrders,   \* orders sendOrder sends in one run
    MaxLogins,   \* sessions in one run
    Foreign,     \* orders of other terminals that may work on the account
    Lots,        \* lots of an order of ours; another terminal's has one
    RingSize,    \* elements a ring holds (4095 in trader_handler.h)
    OrderSysID   \* the number each order gets from its exchange

ASSUME BoundAssumption ==
    /\ MaxOrders \in Nat /\ MaxLogins \in Nat \ {0}
    /\ Lots \in Nat \ {0} /\ RingSize \in Nat

Sessions == 1 .. MaxLogins

Refs == 1 .. MaxOrders

Own == Sessions \X Refs

\* Session 0 is another terminal's.
Others == {0} \X Foreign

Keys == Own \cup Others

NoKey == <<0, 0>>

NoSysID == 0   \* order_sys_id before the exchange assigned one

ASSUME ForeignAssumption == Foreign \subseteq Nat \ {0}

ASSUME SysIDAssumption == OrderSysID \in [Keys -> Nat \ {0}]

\* OrderStatus
Statuses == {"unknown", "noTrade", "partTraded", "allTraded", "canceled"}

isFinal(status) == status \in {"allTraded", "canceled"}

OrderRecord ==
    [sys : Nat, status : Statuses, traded : 0 .. Lots,
     total : 0 .. Lots, rejected : BOOLEAN]

OrderMsg == [kind : {"order"}, key : Keys, rec : OrderRecord]

TradeMsg == [kind : {"trade"}, key : Keys, vol : 1 .. Lots]

VARIABLES
    session,           \* front_id and session_id of the last login
    max_order_ref,     \* the last order_ref used in it
    pc, ref,           \* where sendOrder is, and the order_ref it took
    inserted,          \* the key the front knows its order by
    storage,           \* storage_: the records, by key
    exchange_lookup,   \* exchange_lookup_: the keys, by order_sys_id
    order_updates,     \* the ring of order reports
    trade_updates,     \* the ring of trades
    draining,          \* the ring the worker drains
    exchange,          \* the exchange's own state of each order
    asked,             \* order_sys_ids it was asked to cancel
    flow,              \* the messages of the private topic, since the morning
    read,              \* how many of them this session has pushed
    reached,           \* how many of them any session has pushed
    replayed,          \* orders of which a message was pushed a second time
    frozen,            \* lots sendOrder froze, per order
    thawed,            \* lots released by onOrderRejectOrCancel, per order
    booked,            \* lots handed to onTradeFill, per order
    missed             \* orders of which a message was dropped or ignored

sender == <<session, max_order_ref, pc, ref, inserted, frozen>>
worker == <<storage, exchange_lookup, draining, thawed, booked>>
rings == <<order_updates, trade_updates>>
topic == <<flow, read, reached, replayed>>
front == <<exchange, asked, topic>>

vars == <<sender, worker, rings, front, missed>>

TypeOK ==
    /\ session \in Sessions /\ max_order_ref \in 0 .. MaxOrders
    /\ pc \in {"idle", "insert", "undo", "create"} /\ ref \in 0 .. MaxOrders
    /\ inserted \in Own \cup {NoKey}
    /\ DOMAIN storage \subseteq Own
    /\ \A k \in DOMAIN storage : storage[k] \in OrderRecord
    /\ DOMAIN exchange_lookup \subseteq Nat \ {NoSysID}
    /\ \A s \in DOMAIN exchange_lookup : exchange_lookup[s] \in DOMAIN storage
    /\ order_updates \in Seq(OrderMsg) /\ Len(order_updates) <= RingSize
    /\ trade_updates \in Seq(TradeMsg) /\ Len(trade_updates) <= RingSize
    /\ draining \in {"orders", "trades"}
    /\ asked \subseteq Keys
    /\ flow \in Seq(OrderMsg \cup TradeMsg) /\ read \in 0 .. Len(flow)
    /\ reached \in read .. Len(flow) /\ replayed \subseteq Keys
    /\ frozen \in [Keys -> Nat]
    /\ thawed \in [Keys -> Nat] /\ booked \in [Keys -> Nat]
    /\ missed \subseteq Keys

\* What create() stores, and a working order nothing happened to yet.
Fresh == [sys |-> NoSysID, status |-> "unknown", traded |-> 0, total |-> 0,
          rejected |-> FALSE]

Size(k) == IF k \in Own THEN Lots ELSE 1

Working(k) ==
    [Fresh EXCEPT !.sys = OrderSysID[k], !.status = "noTrade", !.total = Size(k)]

\* An order the exchange answers for: neither unsent, nor under way, nor refused
\* by the front.
Known(k) == exchange[k].status \in Statuses

\* An order of another exchange carries the number that is, or will be, k's.
Shared(k) ==
    \E j \in Keys \ {k} :
        OrderSysID[j] = OrderSysID[k] /\ exchange[j].sys # NoSysID

Init ==
    /\ session = 1 /\ max_order_ref = 0
    /\ pc = "idle" /\ ref = 0 /\ inserted = NoKey
    /\ storage = <<>> /\ exchange_lookup = <<>>
    /\ order_updates = <<>> /\ trade_updates = <<>> /\ draining = "orders"
    /\ \E working \in SUBSET Others :
           exchange = [k \in Keys |-> IF k \in working THEN Working(k)
                                      ELSE [Fresh EXCEPT !.status = "none"]]
    /\ asked = {} /\ flow = <<>> /\ read = 0 /\ reached = 0 /\ replayed = {}
    /\ frozen = [k \in Keys |-> 0]
    /\ thawed = [k \in Keys |-> 0] /\ booked = [k \in Keys |-> 0]
    /\ missed = {}

Put(f, k, v) == [j \in DOMAIN f \cup {k} |-> IF j = k THEN v ELSE f[j]]

----------------------------------------------------------------------------
(* The strategy's thread: sendOrder step by step, cancelOrder and          *)
(* cancelAllActive.                                                        *)

\* onOrderRequest returned true; then ++max_order_ref.
Freeze ==
    /\ pc = "idle"
    /\ Cardinality({k \in Own : frozen[k] > 0}) < MaxOrders
    /\ max_order_ref' = max_order_ref + 1 /\ ref' = max_order_ref'
    /\ pc' = "insert"
    /\ UNCHANGED <<session, inserted, frozen, worker, rings, front, missed>>

\* The front knows the order by the session it came in on.  It refuses an
\* order_ref it has had in this session (OnRspOrderInsert).
ReqOrderInsert ==
    /\ pc = "insert"
    /\ LET k == <<session, ref>>
       IN /\ inserted' = k
          /\ frozen' = [frozen EXCEPT ![k] = @ + Lots]
          /\ \/ /\ pc' = "create"
                /\ exchange' = [exchange EXCEPT ![k].status =
                                    IF @ = "none" THEN "submitted" ELSE @]
             \/ pc' = "undo" /\ UNCHANGED exchange
    /\ UNCHANGED <<session, max_order_ref, ref, worker, rings, asked, topic,
                   missed>>

\* The call failed: release what was frozen.
Undo ==
    /\ pc = "undo"
    /\ thawed' = [thawed EXCEPT ![inserted] = @ + Lots]
    /\ pc' = "idle" /\ ref' = 0 /\ inserted' = NoKey
    /\ UNCHANGED <<session, max_order_ref, frozen, storage, exchange_lookup,
                   draining, booked, rings, front, missed>>

\* OrderManager::create, after the order is on its way, with the session there
\* is by now.  emplace keeps a record that has this key.
Create ==
    /\ pc = "create"
    /\ storage' = IF <<session, ref>> \in DOMAIN storage THEN storage
                  ELSE Put(storage, <<session, ref>>, Fresh)
    /\ pc' = "idle" /\ ref' = 0 /\ inserted' = NoKey
    /\ UNCHANGED <<session, max_order_ref, frozen, exchange_lookup, draining,
                   thawed, booked, rings, front, missed>>

\* cancelOrderBySysID names the exchange of the record's request as well, so it
\* means the record's own order.  A record without an order_sys_id is asked for
\* too, under an empty number that means nothing to the front.
Named(records) == {k \in records : storage[k].sys # NoSysID}

\* findByOrderRef in the session there is now, then cancelOrderBySysID.
cancelOrder(r) ==
    /\ pc = "idle"
    /\ <<session, r>> \in DOMAIN storage
    /\ asked' = asked \cup Named({<<session, r>>})
    /\ UNCHANGED <<sender, worker, rings, exchange, topic, missed>>

cancelAllActive ==
    /\ pc = "idle"
    /\ LET active == {k \in DOMAIN storage : ~isFinal(storage[k].status)}
       IN asked' = asked \cup Named(active)
    /\ UNCHANGED <<sender, worker, rings, exchange, topic, missed>>

\* A disconnect and the next login (OnRspUserLogin): order_refs begin again,
\* and so does the private topic.  A message missed comes again.
OnRspUserLogin ==
    /\ session < MaxLogins
    /\ session' = session + 1 /\ max_order_ref' = 0
    /\ read' = 0 /\ missed' = {}
    /\ UNCHANGED <<pc, ref, inserted, frozen, worker, rings, exchange, asked,
                   flow, reached, replayed>>

----------------------------------------------------------------------------
(* The front and the exchange.                                             *)

Report(k, rec) == [kind |-> "order", key |-> k, rec |-> rec]

\* The order becomes rec, and its report goes to the private topic.
Becomes(k, rec, trades) ==
    /\ exchange' = [exchange EXCEPT ![k] = rec]
    /\ flow' = Append(flow, Report(k, rec)) \o trades
    /\ UNCHANGED <<sender, worker, rings, asked, read, reached, replayed, missed>>

Acknowledge(k) ==
    /\ exchange[k].status = "submitted"
    /\ Becomes(k, [Fresh EXCEPT !.total = Lots], <<>>)

\* OnRspOrderInsert with an error: logged and passed to on_error, no more.
RefuseInsert(k) ==
    /\ exchange[k].status = "submitted"
    /\ exchange' = [exchange EXCEPT ![k].status = "refused"]
    /\ UNCHANGED <<sender, worker, rings, asked, topic, missed>>

Enqueue(k) ==
    /\ exchange[k].status = "unknown"
    /\ Becomes(k, Working(k), <<>>)

Reject(k) ==
    /\ exchange[k].status = "unknown"
    /\ Becomes(k, [exchange[k] EXCEPT !.status = "canceled",
                                      !.rejected = TRUE], <<>>)

Live(k) == exchange[k].status \in {"noTrade", "partTraded"}

Trade(k, v) ==
    /\ Live(k) /\ v <= exchange[k].total
    /\ LET rest == exchange[k].total - v
           rec == [exchange[k] EXCEPT
                      !.traded = @ + v, !.total = rest,
                      !.status = IF rest = 0 THEN "allTraded" ELSE "partTraded"]
       IN Becomes(k, rec, <<[kind |-> "trade", key |-> k, vol |-> v]>>)

\* VolumeTotal of a cancelled order is the rest, or zero.
Cancel(k, total) ==
    /\ Live(k) /\ (k \in asked \/ k \in Others)
    /\ total \in {0, exchange[k].total}
    /\ Becomes(k, [exchange[k] EXCEPT !.status = "canceled", !.total = total],
               <<>>)

----------------------------------------------------------------------------
(* The SPI thread: a full ring drops the message.                          *)

Arrives(kind) ==
    /\ read < Len(flow) /\ flow[read + 1].kind = kind
    /\ read' = read + 1
    /\ \/ read = reached /\ reached' = read' /\ UNCHANGED replayed
       \/ /\ read < reached /\ UNCHANGED reached
          /\ replayed' = replayed \cup {flow[read'].key}
    /\ UNCHANGED <<sender, worker, exchange, asked, flow>>

\* Mutant of OnRtnOrder: the ring takes whatever comes.
OnRtnOrderUnbounded ==
    /\ Arrives("order")
    /\ order_updates' = Append(order_updates, flow[read'])
    /\ UNCHANGED <<trade_updates, missed>>

OnRtnOrder ==
    /\ Arrives("order")
    /\ IF Len(order_updates) < RingSize
       THEN order_updates' = Append(order_updates, flow[read']) /\ UNCHANGED missed
       ELSE missed' = missed \cup {flow[read'].key} /\ UNCHANGED order_updates
    /\ UNCHANGED trade_updates

OnRtnTrade ==
    /\ Arrives("trade")
    /\ IF Len(trade_updates) < RingSize
       THEN trade_updates' = Append(trade_updates, flow[read']) /\ UNCHANGED missed
       ELSE missed' = missed \cup {flow[read'].key} /\ UNCHANGED trade_updates
    /\ UNCHANGED order_updates

----------------------------------------------------------------------------
(* The trade worker.                                                       *)

\* Mutant of Found: by the order_ref alone, whatever its session.
FoundByRef(msg) == {k \in DOMAIN storage : k[2] = msg.key[2]}

\* update(): the key of the record a report concerns, by order_ref or, failing
\* that, by order_sys_id: the bare number, whatever exchange it is of.
Found(msg) ==
    IF msg.key \in DOMAIN storage THEN {msg.key}
    ELSE {exchange_lookup[s] :
             s \in ({msg.rec.sys} \ {NoSysID}) \cap DOMAIN exchange_lookup}

\* Mutants of Updated: the status is not taken over, and VolumeTotal is stored
\* for VolumeTraded.
UpdatedStatusless(old, rec) ==
    [rec EXCEPT !.sys = IF old.sys = NoSysID THEN @ ELSE old.sys,
                !.status = old.status]

UpdatedSwapped(old, rec) ==
    [rec EXCEPT !.sys = IF old.sys = NoSysID THEN @ ELSE old.sys,
                !.traded = rec.total]

\* The first order_sys_id a record hears of stays.
Updated(old, rec) ==
    [rec EXCEPT !.sys = IF old.sys = NoSysID THEN @ ELSE old.sys]

Released(rec) == isFinal(rec.status) /\ (rec.status = "canceled" \/ rec.rejected)

\* Mutants of ToRelease: every lot of the order, and no way round a VolumeTotal
\* of zero.
ToReleaseAll(k, rec) == IF Released(rec) THEN Size(k) ELSE 0

ToReleaseTotal(k, rec) == IF Released(rec) THEN rec.total ELSE 0

\* processOrderUpdate: the lots that a final report of order k releases.
ToRelease(k, rec) ==
    IF Released(rec)
    THEN IF rec.total = 0 THEN Size(k) - rec.traded ELSE rec.total
    ELSE 0

processOrderUpdate ==
    LET msg == Head(order_updates)
    IN /\ draining = "orders"
       /\ order_updates # <<>>
       /\ order_updates' = Tail(order_updates)
       /\ \/ /\ Found(msg) = {}
             /\ missed' = missed \cup {msg.key}
             /\ UNCHANGED <<storage, exchange_lookup, thawed>>
          \/ \E k \in Found(msg) :
                /\ storage' = [storage EXCEPT ![k] = Updated(@, msg.rec)]
                /\ exchange_lookup' =
                       IF storage[k].sys = NoSysID /\ msg.rec.sys # NoSysID
                       THEN Put(exchange_lookup, msg.rec.sys, k)
                       ELSE exchange_lookup
                /\ thawed' = [thawed EXCEPT ![msg.key] =
                                              @ + ToRelease(msg.key, msg.rec)]
                /\ UNCHANGED missed
       /\ UNCHANGED <<sender, draining, booked, trade_updates, front>>

\* onTradeFill, whoever's order it was.
processTradeUpdate ==
    /\ draining = "trades"
    /\ trade_updates # <<>>
    /\ trade_updates' = Tail(trade_updates)
    /\ booked' = [booked EXCEPT ![Head(trade_updates).key] =
                                    @ + Head(trade_updates).vol]
    /\ UNCHANGED <<sender, storage, exchange_lookup, draining, thawed,
                   order_updates, front, missed>>

\* Each while loop runs until its ring is empty.
NextLoop ==
    /\ \/ draining = "orders" /\ order_updates = <<>> /\ draining' = "trades"
       \/ draining = "trades" /\ trade_updates = <<>> /\ draining' = "orders"
    /\ UNCHANGED <<sender, storage, exchange_lookup, thawed, booked, rings,
                   front, missed>>

----------------------------------------------------------------------------
Send == Freeze \/ ReqOrderInsert \/ Undo \/ Create

Deliver == OnRtnOrder \/ OnRtnTrade

Work == processOrderUpdate \/ processTradeUpdate \/ NextLoop

Exchange(k) ==
    \/ Acknowledge(k) \/ RefuseInsert(k) \/ Enqueue(k) \/ Reject(k)
    \/ \E v \in 1 .. Lots : Trade(k, v)
    \/ \E total \in 0 .. Lots : Cancel(k, total)

Next ==
    \/ Send
    \/ \E r \in Refs : cancelOrder(r)
    \/ OnRspUserLogin
    \/ cancelAllActive
    \/ \E k \in Keys : Exchange(k)
    \/ Deliver
    \/ Work

Spec == Init /\ [][Next]_vars

\* A call of sendOrder that was entered returns, messages reach the SPI thread,
\* the worker runs.  The exchange owes nothing.
FairSpec ==
    /\ Spec
    /\ WF_vars(ReqOrderInsert \/ Undo \/ Create)
    /\ WF_vars(Deliver)
    /\ WF_vars(Work)

----------------------------------------------------------------------------
\* Every lot frozen for an order is given back once at most, by the trade that
\* fills it or by the report that ends the order or by sendOrder itself, whatever
\* is dropped and however the two rings and create interleave; and the end of
\* another terminal's order releases nothing of ours.  Nothing is claimed of an
\* order of which a session pushed a message again, since update says newly_final
\* once more and the trade is booked once more, nor of another terminal's order
\* that has the number of one of ours.
ReleasedOnce ==
    /\ \A k \in Own \ replayed : thawed[k] + booked[k] <= frozen[k]
    /\ \A k \in Others : ~Shared(k) => thawed[k] = 0

OnTheWay(k) ==
    \/ \E j \in read + 1 .. Len(flow) : flow[j].key = k
    \/ \E j \in DOMAIN order_updates : order_updates[j].key = k
    \/ \E j \in DOMAIN trade_updates : trade_updates[j].key = k

\* Once nothing about an order is on its way, and nothing about it was dropped
\* or ignored in this session, its record is the exchange's, whatever was
\* dropped before: a new session brings it up to date.  In the first session
\* each of its lots is accounted for: filled, released, or still working.  Of an
\* order whose number an order of another exchange shares nothing is claimed, here
\* and below: one's reports may be written into the other's record.
RecordsCurrent ==
    \A k \in DOMAIN storage :
        Known(k) /\ ~OnTheWay(k) /\ k \notin missed /\ ~Shared(k) =>
            /\ storage[k] = exchange[k]
            /\ session = 1 =>
                 /\ booked[k] = exchange[k].traded
                 /\ thawed[k] = IF exchange[k].status = "canceled"
                                THEN Lots - exchange[k].traded ELSE 0

\* A report is written into no record but its own order's, whichever of the two
\* keys finds it, or into that of an order with the same number: not into one
\* with the same order_ref, nor, before it has a number, into one without.
ReportsFindTheirOrder ==
    [][\A k \in DOMAIN storage : storage'[k] # storage[k] =>
          LET own == Head(order_updates).key
          IN  own = k \/ OrderSysID[own] = OrderSysID[k]]_vars

\* A record never falls back while its session lasts, and never when no session
\* came after it: its traded lots do not shrink and a final status stays.
RecordsNeverRegress ==
    [][\A k \in DOMAIN storage : k[1] = session /\ ~Shared(k) =>
          /\ storage'[k].traded >= storage[k].traded
          /\ isFinal(storage[k].status) =>
                 storage'[k].status = storage[k].status]_vars

\* An order that ended at the exchange ends in its record too, unless one of
\* its messages was dropped or ignored, or create came a session late.
EndIsRecorded ==
    \A k \in Own :
        isFinal(exchange[k].status)
            ~> \/ k \in missed \/ Shared(k)
               \/ k \in DOMAIN storage /\ isFinal(storage[k].status)

\* "Order (ref/status/qty): zero deviation" (the table of results in
\* README.md): with no message on its way and sendOrder not running, the record
\* of an order that ended at the exchange says so, with the same traded lots.
EndsMatchRemote ==
    \A k \in Own :
        isFinal(exchange[k].status) /\ ~OnTheWay(k) /\ pc = "idle" =>
            /\ storage[k].status = exchange[k].status
            /\ storage[k].traded = exchange[k].traded
=============================================================================
