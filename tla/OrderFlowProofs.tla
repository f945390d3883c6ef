--------------------------- MODULE OrderFlowProofs ---------------------------
(***************************************************************************)
(* Proofs about OrderFlow, for any number of orders, sessions, lots and    *)
(* other terminals, rings of any size, and any numbers the exchanges give. *)
(* The types need two facts that are not types: a message carries the      *)
(* number its order's exchange gave, and every order_ref handed out in a   *)
(* session belongs to an order frozen in it.  A report finds its order's   *)
(* record, or one whose order has the same number, because a record and    *)
(* the index carry no other (RecordInv, NamesInv).  Records never regress  *)
(* because what is still to be heard of an order forms a chain (ChainInv); *)
(* lots are released once because what messages pushed once are worth      *)
(* never exceeds what was frozen (ReleaseInv); records are current because, *)
(* where nothing was missed, the last that is heard of an order is what    *)
(* the exchange says (CurrencyInv).                                        *)
(***************************************************************************)
EXTENDS OrderFlow, SumsProofs, FiniteSetTheorems, SequenceTheorems, TLAPS

----------------------------------------------------------------------------
(* Keys.                                                                   *)

\* A key names an order of one terminal, and is never the empty one.
LEMMA KeysApart ==
    /\ NoKey \notin Keys
    /\ Own \cap Others = {} /\ Own \subseteq Keys /\ Others \subseteq Keys
    /\ \A k \in Keys : k \in Own \/ k \in Others
    /\ \A s \in Sessions, r \in Refs : <<s, r>> \in Own
<1>1. Sessions \subseteq Nat \ {0} /\ Refs \subseteq Nat \ {0}
  BY BoundAssumption DEF Sessions, Refs
<1>2. \A k \in Own : k[1] # 0
  BY <1>1 DEF Own
<1>3. \A k \in Others : k[1] = 0 /\ k[2] # 0
  BY ForeignAssumption DEF Others
<1>4. NoKey[1] = 0 /\ NoKey[2] = 0
  BY DEF NoKey
<1>5. Own \cap Others = {} /\ NoKey \notin Own /\ NoKey \notin Others
  BY <1>2, <1>3, <1>4
<1> QED BY <1>5 DEF Keys, Own

\* Every order has a number, and no exchange gives the empty one.
LEMMA SysIDs ==
    /\ NoSysID \in Nat
    /\ \A k \in Keys : OrderSysID[k] \in Nat /\ OrderSysID[k] # NoSysID
BY SysIDAssumption DEF NoSysID

\* An order has one lot at least, one of ours as many as sendOrder asks for.
LEMMA Sizes ==
    ASSUME NEW k \in Keys
    PROVE  /\ Size(k) \in Nat /\ Size(k) > 0 /\ Size(k) <= Lots
           /\ k \in Own => Size(k) = Lots
BY BoundAssumption DEF Size

\* There are finitely many keys of ours.
LEMMA OwnFinite == IsFiniteSet(Own)
<1>1. IsFiniteSet(Sessions) /\ IsFiniteSet(Refs)
  BY BoundAssumption, FS_Interval DEF Sessions, Refs
<1> QED BY <1>1, FS_Product DEF Own

----------------------------------------------------------------------------
(* The strategy's thread.                                                  *)

\* Every order_ref of the session belongs to a frozen order, but for the one
\* sendOrder is about to insert.
SenderInv ==
    /\ session \in Sessions /\ max_order_ref \in 0 .. MaxOrders
    /\ pc \in {"idle", "insert", "undo", "create"} /\ ref \in 0 .. MaxOrders
    /\ pc \in {"insert", "create"} => ref \in Refs
    /\ inserted \in Own \cup {NoKey}
    /\ frozen \in [Keys -> Nat]
    /\ \A r \in 1 .. max_order_ref :
          (pc = "insert" /\ r = ref) \/ frozen[<<session, r>>] > 0

\* Where an order may still be sent, an order_ref is left.
LEMMA RefLeft ==
    ASSUME SenderInv, pc = "idle",
           Cardinality({k \in Own : frozen[k] > 0}) < MaxOrders
    PROVE  max_order_ref < MaxOrders
<1> DEFINE Frozen == {k \in Own : frozen[k] > 0}
           f == [r \in 1 .. max_order_ref |-> <<session, r>>]
<1>1. max_order_ref \in Nat /\ max_order_ref <= MaxOrders /\ MaxOrders \in Nat
  BY BoundAssumption DEF SenderInv
<1>2. ASSUME NEW r \in 1 .. max_order_ref PROVE <<session, r>> \in Frozen
  <2>1. r \in Refs
    BY <1>1 DEF Refs
  <2> QED BY <2>1, KeysApart DEF SenderInv
<1>3. f \in [1 .. max_order_ref -> Frozen]
  BY <1>2
<1>4. \A a, b \in DOMAIN f : f[a] = f[b] => a = b
  OBVIOUS
<1>5. f \in Injection(1 .. max_order_ref, Frozen)
  BY <1>3, <1>4 DEF Injection, IsInjective
<1>6. IsFiniteSet(Frozen)
  BY OwnFinite, FS_Subset
<1>7. Cardinality(1 .. max_order_ref) <= Cardinality(Frozen)
  BY <1>5, <1>6, FS_Injection
<1>8. Cardinality(1 .. max_order_ref) = max_order_ref
  BY <1>1, FS_Interval
<1>9. Cardinality(Frozen) \in Nat
  BY <1>6, FS_CardinalityType
<1> QED BY <1>1, <1>7, <1>8, <1>9

\* It is kept by every step.
LEMMA SenderKept == SenderInv /\ [Next]_vars => SenderInv'
<1> SUFFICES ASSUME SenderInv, [Next]_vars PROVE SenderInv'
  OBVIOUS
<1>0. MaxOrders \in Nat /\ Lots \in Nat /\ Lots > 0 /\ MaxLogins \in Nat
  BY BoundAssumption
<1> USE DEF SenderInv
<1>1. CASE Freeze
  <2>1. max_order_ref < MaxOrders
    BY <1>1, RefLeft DEF Freeze
  <2> QED BY <1>0, <1>1, <2>1 DEF Freeze, Refs
<1>2. CASE ReqOrderInsert
  <2>1. <<session, ref>> \in Own /\ <<session, ref>> \in Keys
    BY <1>2, KeysApart DEF ReqOrderInsert
  <2>2. inserted' = <<session, ref>> /\ session' = session /\ ref' = ref
        /\ max_order_ref' = max_order_ref /\ pc = "insert" /\ pc' \in {"create", "undo"}
        /\ frozen' = [frozen EXCEPT ![<<session, ref>>] = @ + Lots]
    BY <1>2 DEF ReqOrderInsert
  <2>3. frozen' \in [Keys -> Nat]
    BY <1>0, <2>1, <2>2
  <2>4. \A r \in 1 .. max_order_ref : frozen'[<<session, r>>] > 0
    <3> TAKE r \in 1 .. max_order_ref
    <3>1. r \in Refs
      BY <1>0 DEF Refs
    <3>2. <<session, r>> \in Keys
      BY <3>1, KeysApart
    <3> QED BY <1>0, <2>1, <2>2, <3>2
  <2> QED BY <2>1, <2>2, <2>3, <2>4
<1>3. CASE Undo \/ Create
  BY <1>0, <1>3 DEF Undo, Create
<1>4. CASE OnRspUserLogin
  BY <1>0, <1>4 DEF OnRspUserLogin, Sessions
<1>5. CASE UNCHANGED sender
  BY <1>5 DEF sender
<1>6. CASE cancelAllActive \/ \E r \in Refs : cancelOrder(r)
  BY <1>5, <1>6 DEF cancelAllActive, cancelOrder
<1>7. ASSUME NEW k \in Keys, Exchange(k) PROVE SenderInv'
  BY <1>5, <1>7 DEF Exchange, Acknowledge, RefuseInsert, Enqueue, Reject, Trade,
                    Cancel, Becomes
<1>8. CASE Deliver \/ Work
  BY <1>5, <1>8 DEF Deliver, OnRtnOrder, OnRtnTrade, Arrives, Work,
                    processOrderUpdate, processTradeUpdate, NextLoop
<1>9. CASE UNCHANGED vars
  BY <1>5, <1>9 DEF vars
<1> QED BY <1>1, <1>2, <1>3, <1>4, <1>6, <1>7, <1>8, <1>9 DEF Next, Send

----------------------------------------------------------------------------
(* Records.                                                                *)

\* A report of an order carries that order's number or none, and no more traded
\* lots than the order had.
NamedMsg ==
    {m \in OrderMsg : /\ m.rec.sys \in {OrderSysID[m.key], NoSysID}
                      /\ m.rec.traded <= Size(m.key)}

\* A record carries its order's number or none, and the lookup leads from a number
\* to a record that carries it.
RecordInv ==
    /\ DOMAIN storage \subseteq Own
    /\ \A k \in DOMAIN storage :
          storage[k] \in OrderRecord /\ storage[k].sys \in {OrderSysID[k], NoSysID}
    /\ DOMAIN exchange_lookup \subseteq Nat \ {NoSysID}
    /\ \A s \in DOMAIN exchange_lookup :
          exchange_lookup[s] \in DOMAIN storage /\ storage[exchange_lookup[s]].sys = s
    /\ draining \in {"orders", "trades"}
    /\ thawed \in [Keys -> Nat] /\ booked \in [Keys -> Nat]

QueuesTyped ==
    /\ order_updates \in Seq(NamedMsg) /\ Len(order_updates) <= RingSize
    /\ trade_updates \in Seq(TradeMsg) /\ Len(trade_updates) <= RingSize

\* A record as OrderManager::create leaves it has the record's type.
LEMMA FreshTyped == Fresh \in OrderRecord
BY BoundAssumption, SysIDs DEF Fresh, OrderRecord, Statuses

\* What update() stores is a record, with the number it had or else the report's.
LEMMA UpdatedTyped ==
    ASSUME NEW old \in OrderRecord, NEW rec \in OrderRecord
    PROVE  /\ Updated(old, rec) \in OrderRecord
           /\ Updated(old, rec).sys = IF old.sys = NoSysID THEN rec.sys ELSE old.sys
BY DEF Updated, OrderRecord

\* No report releases a negative number of lots.
LEMMA ToReleaseIsNat ==
    ASSUME NEW msg \in NamedMsg
    PROVE  ToRelease(msg.key, msg.rec) \in Nat
<1>1. /\ msg.rec.total \in Nat /\ msg.rec.traded \in Nat
      /\ msg.rec.traded <= Size(msg.key) /\ Size(msg.key) \in Nat
  BY BoundAssumption, Sizes DEF NamedMsg, OrderMsg, OrderRecord
<1> QED BY <1>1 DEF ToRelease

\* Where a report is not applied to the record of its own order, it has a number,
\* and so has the record: the same one.
LEMMA FoundItself ==
    ASSUME RecordInv, NEW msg \in NamedMsg, NEW k \in Found(msg)
    PROVE  /\ k \in DOMAIN storage
           /\ \/ k = msg.key
              \/ /\ msg.rec.sys # NoSysID /\ storage[k].sys # NoSysID
                 /\ OrderSysID[k] = OrderSysID[msg.key]
<1>1. CASE msg.key \in DOMAIN storage
  BY <1>1 DEF Found
<1>2. CASE msg.key \notin DOMAIN storage
  <2>1. PICK s \in ({msg.rec.sys} \ {NoSysID}) \cap DOMAIN exchange_lookup :
                k = exchange_lookup[s]
    BY <1>2 DEF Found
  <2>2. k \in DOMAIN storage /\ storage[k].sys = s /\ s # NoSysID /\ s = msg.rec.sys
    BY <2>1 DEF RecordInv
  <2>3. s = OrderSysID[k] /\ s = OrderSysID[msg.key]
    BY <2>2 DEF RecordInv, NamedMsg
  <2> QED BY <2>2, <2>3
<1> QED BY <1>1, <1>2

\* The worker keeps the records in order.
LEMMA UpdateKeepsRecords ==
    ASSUME RecordInv, QueuesTyped, processOrderUpdate
    PROVE  RecordInv'
<1> DEFINE msg == Head(order_updates)
<1>1. msg \in NamedMsg
  BY HeadTailProperties DEF processOrderUpdate, QueuesTyped
<1>2. draining' = draining /\ booked' = booked
  BY DEF processOrderUpdate
<1>3. CASE UNCHANGED <<storage, exchange_lookup, thawed>>
  BY <1>2, <1>3 DEF RecordInv
<1>4. ASSUME NEW k \in Found(msg),
             storage' = [storage EXCEPT ![k] = Updated(@, msg.rec)],
             exchange_lookup' =
                 IF storage[k].sys = NoSysID /\ msg.rec.sys # NoSysID
                 THEN Put(exchange_lookup, msg.rec.sys, k) ELSE exchange_lookup,
             thawed' = [thawed EXCEPT ![msg.key] = @ + ToRelease(msg.key, msg.rec)]
      PROVE  RecordInv'
  <2>1. k \in DOMAIN storage /\ k \in Own
    BY <1>1, FoundItself DEF RecordInv
  <2>2. /\ msg.rec \in OrderRecord /\ msg.rec.sys \in Nat /\ msg.key \in Keys
        /\ msg.rec.sys \in {OrderSysID[k], NoSysID}
    <3>1. msg.rec.sys \in {OrderSysID[msg.key], NoSysID}
      BY <1>1 DEF NamedMsg
    <3>2. k = msg.key \/ OrderSysID[k] = OrderSysID[msg.key]
      BY <1>1, FoundItself
    <3> QED BY <1>1, <3>1, <3>2 DEF NamedMsg, OrderMsg, OrderRecord
  <2>3. storage[k] \in OrderRecord /\ storage[k].sys \in {OrderSysID[k], NoSysID}
    BY <2>1 DEF RecordInv
  <2>4. /\ DOMAIN storage' = DOMAIN storage
        /\ storage'[k] = Updated(storage[k], msg.rec)
        /\ \A j \in DOMAIN storage \ {k} : storage'[j] = storage[j]
    BY <1>4, <2>1
  <2>5. /\ storage'[k] \in OrderRecord /\ storage'[k].sys \in {OrderSysID[k], NoSysID}
        /\ storage[k].sys # NoSysID => storage'[k].sys = storage[k].sys
        /\ storage[k].sys = NoSysID => storage'[k].sys = msg.rec.sys
    BY <2>2, <2>3, <2>4, UpdatedTyped
  <2>6. thawed' \in [Keys -> Nat]
    <3>1. ToRelease(msg.key, msg.rec) \in Nat
      BY <1>1, ToReleaseIsNat
    <3>2. thawed \in [Keys -> Nat]
      BY DEF RecordInv
    <3> HIDE DEF msg
    <3> QED BY <1>4, <2>2, <3>1, <3>2
  <2>7. \A s \in DOMAIN exchange_lookup :
           exchange_lookup[s] \in DOMAIN storage' /\ storage'[exchange_lookup[s]].sys = s
    <3> TAKE s \in DOMAIN exchange_lookup
    <3>1. /\ exchange_lookup[s] \in DOMAIN storage /\ storage[exchange_lookup[s]].sys = s
          /\ s # NoSysID
      BY DEF RecordInv
    <3> QED BY <2>4, <2>5, <3>1
  <2>8. /\ DOMAIN exchange_lookup' \subseteq Nat \ {NoSysID}
        /\ \A s \in DOMAIN exchange_lookup' :
              exchange_lookup'[s] \in DOMAIN storage'
              /\ storage'[exchange_lookup'[s]].sys = s
    <3>1. CASE storage[k].sys = NoSysID /\ msg.rec.sys # NoSysID
      <4>1. /\ DOMAIN exchange_lookup' = DOMAIN exchange_lookup \cup {msg.rec.sys}
            /\ \A s \in DOMAIN exchange_lookup' :
                  exchange_lookup'[s] = IF s = msg.rec.sys THEN k
                                        ELSE exchange_lookup[s]
        BY <1>4, <3>1 DEF Put
      <4>2. storage'[k].sys = msg.rec.sys
        BY <2>5, <3>1
      <4>3. DOMAIN exchange_lookup \subseteq Nat \ {NoSysID}
        BY DEF RecordInv
      <4> HIDE DEF msg
      <4> QED BY <2>1, <2>2, <2>4, <2>7, <3>1, <4>1, <4>2, <4>3
    <3>2. CASE ~(storage[k].sys = NoSysID /\ msg.rec.sys # NoSysID)
      <4>1. exchange_lookup' = exchange_lookup
        BY <1>4, <3>2
      <4> QED BY <2>7, <4>1 DEF RecordInv
    <3> QED BY <3>1, <3>2
  <2>9. /\ DOMAIN storage' \subseteq Own
        /\ \A j \in DOMAIN storage' :
              storage'[j] \in OrderRecord /\ storage'[j].sys \in {OrderSysID[j], NoSysID}
    BY <2>1, <2>4, <2>5 DEF RecordInv
  <2> QED BY <1>2, <2>6, <2>8, <2>9 DEF RecordInv
<1> QED BY <1>3, <1>4 DEF processOrderUpdate

\* So does everybody else.
LEMMA RecordsKept ==
    ASSUME SenderInv, RecordInv, QueuesTyped, [Next]_vars
    PROVE  RecordInv'
<1>0. Lots \in Nat
  BY BoundAssumption
<1>1. CASE Create
  <2>1. CASE <<session, ref>> \in DOMAIN storage
    BY <1>1, <2>1 DEF Create, RecordInv
  <2>2. CASE <<session, ref>> \notin DOMAIN storage
    <3>1. <<session, ref>> \in Own
      BY <1>1, KeysApart DEF Create, SenderInv
    <3>2. /\ DOMAIN storage' = DOMAIN storage \cup {<<session, ref>>}
          /\ \A j \in DOMAIN storage' :
                storage'[j] = IF j = <<session, ref>> THEN Fresh ELSE storage[j]
      BY <1>1, <2>2 DEF Create, Put
    <3>3. Fresh.sys = NoSysID
      BY DEF Fresh
    <3>4. UNCHANGED <<exchange_lookup, draining, thawed, booked>>
      BY <1>1 DEF Create
    <3>5. /\ DOMAIN storage' \subseteq Own
          /\ \A j \in DOMAIN storage' :
                /\ storage'[j] \in OrderRecord
                /\ storage'[j].sys \in {OrderSysID[j], NoSysID}
      BY <3>1, <3>2, <3>3, FreshTyped DEF RecordInv
    <3>6. \A s \in DOMAIN exchange_lookup :
             /\ exchange_lookup[s] \in DOMAIN storage'
             /\ storage'[exchange_lookup[s]].sys = s
      BY <2>2, <3>2 DEF RecordInv
    <3> QED BY <3>4, <3>5, <3>6 DEF RecordInv
  <2> QED BY <2>1, <2>2
<1>2. CASE Undo
  <2>1. thawed' = [thawed EXCEPT ![inserted] = @ + Lots]
        /\ UNCHANGED <<storage, exchange_lookup, draining, booked>>
    BY <1>2 DEF Undo
  <2>2. thawed \in [Keys -> Nat]
    BY DEF RecordInv
  <2>3. thawed' \in [Keys -> Nat]
    <3>1. CASE inserted \in Keys
      BY <1>0, <2>1, <2>2, <3>1
    <3>2. CASE inserted \notin Keys
      BY <2>1, <2>2, <3>2
    <3> QED BY <3>1, <3>2
  <2> QED BY <2>1, <2>3 DEF RecordInv
<1>3. CASE UNCHANGED worker
  BY <1>3 DEF worker, RecordInv
<1>4. CASE Freeze \/ ReqOrderInsert \/ OnRspUserLogin \/ Deliver
  BY <1>3, <1>4 DEF Freeze, ReqOrderInsert, OnRspUserLogin, Deliver, OnRtnOrder,
                    OnRtnTrade, Arrives
<1>5. CASE cancelAllActive \/ \E r \in Refs : cancelOrder(r)
  BY <1>3, <1>5 DEF cancelAllActive, cancelOrder
<1>6. ASSUME NEW k \in Keys, Exchange(k) PROVE RecordInv'
  BY <1>3, <1>6 DEF Exchange, Acknowledge, RefuseInsert, Enqueue, Reject, Trade,
                    Cancel, Becomes
<1>7. CASE processOrderUpdate
  BY <1>7, UpdateKeepsRecords
<1>8. CASE processTradeUpdate
  <2>1. Head(trade_updates).vol \in Nat /\ Head(trade_updates).key \in Keys
    <3>1. Head(trade_updates) \in TradeMsg
      BY <1>8, HeadTailProperties DEF processTradeUpdate, QueuesTyped
    <3> QED BY <1>0, <3>1 DEF TradeMsg
  <2>2. booked \in [Keys -> Nat]
    BY DEF RecordInv
  <2>3. /\ booked' = [booked EXCEPT ![Head(trade_updates).key] =
                                        @ + Head(trade_updates).vol]
        /\ UNCHANGED <<storage, exchange_lookup, draining, thawed>>
    BY <1>8 DEF processTradeUpdate
  <2>4. booked' \in [Keys -> Nat]
    BY <2>1, <2>2, <2>3
  <2> QED BY <2>3, <2>4 DEF RecordInv
<1>9. CASE NextLoop
  BY <1>9 DEF NextLoop, RecordInv
<1>10. CASE UNCHANGED vars
  BY <1>3, <1>10 DEF vars
<1> QED BY <1>1, <1>2, <1>4, <1>5, <1>6, <1>7, <1>8, <1>9, <1>10
        DEF Next, Send, Work

----------------------------------------------------------------------------
(* The front, its messages and the rings.                                  *)

ExchangeStatuses == Statuses \cup {"none", "submitted", "refused"}

ExchangeState ==
    [sys : Nat, status : ExchangeStatuses, traded : 0 .. Lots,
     total : 0 .. Lots, rejected : BOOLEAN]

Messages == NamedMsg \cup TradeMsg

\* Never more lots traded and outstanding than the order had.  What the exchange
\* has not got it has not numbered; the orders that come to it are ours.
Sound(k, state) ==
    /\ state \in ExchangeState
    /\ state.traded + state.total <= Size(k)
    /\ state.sys \in {OrderSysID[k], NoSysID}
    /\ state.status \notin Statuses => state.sys = NoSysID
    /\ state.status = "submitted" => k \in Own

FrontInv ==
    /\ exchange \in [Keys -> ExchangeState]
    /\ \A k \in Keys : Sound(k, exchange[k])
    /\ asked \subseteq Keys
    /\ flow \in Seq(Messages) /\ read \in 0 .. Len(flow)
    /\ reached \in read .. Len(flow) /\ replayed \subseteq Keys
    /\ missed \subseteq Keys

\* What the exchange numbered before it was reported or recorded, with its number.
NamesInv ==
    /\ \A i \in DOMAIN flow :
          flow[i].kind = "order" /\ flow[i].rec.sys # NoSysID
              => exchange[flow[i].key].sys # NoSysID
    /\ \A i \in DOMAIN order_updates :
          order_updates[i].rec.sys # NoSysID
              => exchange[order_updates[i].key].sys # NoSysID
    /\ \A k \in DOMAIN storage :
          storage[k].sys # NoSysID => exchange[k].sys # NoSysID

\* What create() stores, and what the exchange has of an order it accepted.
LEMMA NewOrdersSound ==
    ASSUME NEW k \in Keys, NEW n \in 0 .. Size(k)
    PROVE  /\ Sound(k, [Fresh EXCEPT !.total = n])
           /\ [Fresh EXCEPT !.total = n].status = "unknown"
           /\ [Fresh EXCEPT !.total = n].traded = 0
           /\ Sound(k, [Fresh EXCEPT !.status = "none"])
           /\ Sound(k, Working(k)) /\ Working(k).status = "noTrade"
           /\ Working(k).traded = 0
<1>1. /\ Lots \in Nat /\ Size(k) \in 0 .. Lots /\ n \in 0 .. Lots
      /\ n <= Size(k) /\ OrderSysID[k] \in Nat /\ NoSysID \in Nat
  BY BoundAssumption, Sizes, SysIDs
<1>2. /\ Fresh \in ExchangeState
      /\ Fresh.sys = NoSysID /\ Fresh.status = "unknown"
      /\ Fresh.traded = 0 /\ Fresh.total = 0
  BY <1>1 DEF Fresh, ExchangeState, ExchangeStatuses, Statuses
<1>3. Sound(k, [Fresh EXCEPT !.total = n])
      /\ [Fresh EXCEPT !.total = n].status = "unknown"
      /\ [Fresh EXCEPT !.total = n].traded = 0
  BY <1>1, <1>2 DEF Sound, ExchangeState, Statuses
<1>4. Sound(k, [Fresh EXCEPT !.status = "none"])
  BY <1>1, <1>2 DEF Sound, ExchangeState, ExchangeStatuses
<1>5. Sound(k, Working(k)) /\ Working(k).status = "noTrade" /\ Working(k).traded = 0
  <2>1. /\ Working(k).sys = OrderSysID[k] /\ Working(k).status = "noTrade"
        /\ Working(k).traded = 0 /\ Working(k).total = Size(k)
    BY <1>2 DEF Working, ExchangeState
  <2>2. Working(k) \in ExchangeState
    BY <1>1, <1>2 DEF Working, ExchangeState, ExchangeStatuses, Statuses
  <2> QED BY <1>1, <2>1, <2>2 DEF Sound, Statuses
<1> QED BY <1>3, <1>4, <1>5

\* The report of an order the exchange answers for.
LEMMA ReportNamed ==
    ASSUME NEW k \in Keys, NEW rec, Sound(k, rec), rec.status \in Statuses
    PROVE  rec \in OrderRecord /\ Report(k, rec) \in NamedMsg
<1>1. rec \in OrderRecord
  BY DEF Sound, ExchangeState, OrderRecord
<1>2. rec.traded \in Nat /\ rec.total \in Nat /\ Size(k) \in Nat
  BY <1>1, Sizes, BoundAssumption DEF OrderRecord
<1>3. rec.traded <= Size(k)
  BY <1>2 DEF Sound
<1> QED BY <1>1, <1>3 DEF Report, NamedMsg, OrderMsg, Sound

\* What the exchange reports is what it has by now.
Sends ==
    \A i \in DOMAIN flow' :
        \/ i \in DOMAIN flow /\ flow'[i] = flow[i]
        \/ flow'[i].kind = "order" => flow'[i].rec = exchange'[flow'[i].key]

\* An order at the exchange becomes rec, and its report and trades are sent.
LEMMA BecomesKeeps ==
    ASSUME FrontInv, NEW k \in Keys, NEW rec, NEW trades,
           Sound(k, rec), rec.status \in Statuses,
           trades = <<>> \/ \E m \in TradeMsg : trades = <<m>>,
           Becomes(k, rec, trades)
    PROVE  FrontInv' /\ Sends
<1>2. Report(k, rec) \in NamedMsg
  BY ReportNamed
<1>3. /\ Append(flow, Report(k, rec)) \in Seq(Messages)
      /\ Len(Append(flow, Report(k, rec))) = Len(flow) + 1
      /\ \A i \in 1 .. Len(flow) : Append(flow, Report(k, rec))[i] = flow[i]
      /\ Append(flow, Report(k, rec))[Len(flow) + 1] = Report(k, rec)
  BY <1>2, AppendProperties DEF FrontInv, Messages
<1>4. /\ trades \in Seq(Messages)
      /\ \A i \in 1 .. Len(trades) : trades[i].kind = "trade"
  <2>1. CASE trades = <<>>
    BY <2>1
  <2>2. ASSUME NEW m \in TradeMsg, trades = <<m>>
        PROVE  /\ trades \in Seq(Messages)
               /\ \A i \in 1 .. Len(trades) : trades[i].kind = "trade"
    BY <2>2 DEF Messages, TradeMsg
  <2> QED BY <2>1, <2>2
<1>5. /\ flow' \in Seq(Messages)
      /\ Len(flow') = Len(flow) + 1 + Len(trades)
      /\ \A i \in 1 .. Len(flow') :
            flow'[i] = IF i <= Len(flow) + 1 THEN Append(flow, Report(k, rec))[i]
                       ELSE trades[i - (Len(flow) + 1)]
  BY <1>3, <1>4, ConcatProperties DEF Becomes
<1>6. Len(flow) \in Nat /\ Len(trades) \in Nat
  BY <1>4, LenProperties DEF FrontInv
<1>7. read' \in 0 .. Len(flow') /\ reached' \in read' .. Len(flow')
  BY <1>5, <1>6 DEF Becomes, FrontInv
<1>8. exchange' \in [Keys -> ExchangeState] /\ \A j \in Keys : Sound(j, exchange'[j])
  BY DEF Becomes, FrontInv, Sound
<1>9. Sends
  <2> SUFFICES ASSUME NEW i \in 1 .. Len(flow'), i > Len(flow), flow'[i].kind = "order"
               PROVE  flow'[i].rec = exchange'[flow'[i].key]
    <3>1. DOMAIN flow = 1 .. Len(flow) /\ DOMAIN flow' = 1 .. Len(flow')
      BY <1>5, LenProperties DEF FrontInv
    <3>2. \A i \in 1 .. Len(flow') : i <= Len(flow) => flow'[i] = flow[i]
      BY <1>3, <1>5, <1>6
    <3> QED BY <1>5, <1>6, <3>1, <3>2 DEF Sends
  <2>1. i = Len(flow) + 1
    <3>1. ~(i <= Len(flow) + 1) => i - (Len(flow) + 1) \in 1 .. Len(trades)
      BY <1>5, <1>6
    <3>2. ~(i <= Len(flow) + 1) => flow'[i].kind = "trade"
      BY <1>4, <1>5, <3>1
    <3> QED BY <1>6, <3>2
  <2>2. flow'[i] = Report(k, rec)
    BY <1>3, <1>5, <1>6, <2>1
  <2>3. exchange'[k] = rec
    BY DEF Becomes, FrontInv
  <2> QED BY <2>2, <2>3 DEF Report
<1> QED BY <1>5, <1>7, <1>8, <1>9 DEF Becomes, FrontInv

\* The exchange keeps its part.
LEMMA ExchangeKeeps ==
    ASSUME FrontInv, NEW k \in Keys, Exchange(k)
    PROVE  FrontInv' /\ Sends
<1>0. /\ Lots \in Nat /\ Lots > 0 /\ Size(k) \in Nat /\ Size(k) <= Lots
      /\ exchange[k] \in ExchangeState /\ Sound(k, exchange[k])
      /\ exchange[k].traded \in Nat /\ exchange[k].total \in Nat
  BY BoundAssumption, Sizes DEF FrontInv, ExchangeState
<1>1. CASE Acknowledge(k)
  <2>1. Becomes(k, [Fresh EXCEPT !.total = Lots], <<>>)
    BY <1>1 DEF Acknowledge
  <2>2. Lots \in 0 .. Size(k)
    BY <1>0, <1>1, Sizes DEF Acknowledge, Sound
  <2> QED BY <2>1, <2>2, NewOrdersSound, BecomesKeeps DEF Statuses
<1>2. CASE RefuseInsert(k)
  <2>1. /\ exchange' = [exchange EXCEPT ![k].status = "refused"]
        /\ exchange[k].status = "submitted"
        /\ UNCHANGED <<asked, topic, missed>>
    BY <1>2 DEF RefuseInsert
  <2>2. Sound(k, [exchange[k] EXCEPT !.status = "refused"])
    BY <1>0, <2>1 DEF Sound, ExchangeState, ExchangeStatuses, Statuses
  <2>3. exchange' \in [Keys -> ExchangeState] /\ \A j \in Keys : Sound(j, exchange'[j])
    <3>1. /\ exchange' = [exchange EXCEPT ![k] = [exchange[k] EXCEPT !.status = "refused"]]
          /\ exchange \in [Keys -> ExchangeState] /\ \A j \in Keys : Sound(j, exchange[j])
      BY <2>1 DEF FrontInv
    <3> QED BY <2>2, <3>1 DEF Sound
  <2> QED BY <2>1, <2>3 DEF FrontInv, topic, Sends
<1>3. CASE Enqueue(k)
  <2>1. Becomes(k, Working(k), <<>>)
    BY <1>3 DEF Enqueue
  <2>2. 0 \in 0 .. Size(k)
    BY <1>0
  <2> QED BY <2>1, <2>2, NewOrdersSound, BecomesKeeps DEF Statuses
<1>4. CASE Reject(k)
  <2> DEFINE rec == [exchange[k] EXCEPT !.status = "canceled", !.rejected = TRUE]
  <2>1. Becomes(k, rec, <<>>)
    BY <1>4 DEF Reject
  <2>2. Sound(k, rec) /\ rec.status = "canceled"
    BY <1>0 DEF Sound, ExchangeState, ExchangeStatuses, Statuses
  <2> HIDE DEF rec
  <2> QED BY <2>1, <2>2, BecomesKeeps DEF Statuses
<1>5. ASSUME NEW v \in 1 .. Lots, Trade(k, v) PROVE FrontInv' /\ Sends
  <2> DEFINE rest == exchange[k].total - v
             rec == [exchange[k] EXCEPT
                        !.traded = @ + v, !.total = rest,
                        !.status = IF rest = 0 THEN "allTraded" ELSE "partTraded"]
             trade == [kind |-> "trade", key |-> k, vol |-> v]
  <2>1. v <= exchange[k].total /\ Becomes(k, rec, <<trade>>)
    BY <1>5 DEF Trade
  <2>2. /\ exchange[k].traded + v \in 0 .. Lots /\ rest \in 0 .. Lots
        /\ (exchange[k].traded + v) + rest <= Size(k)
    BY <1>0, <2>1 DEF Sound
  <2>3. /\ rec.sys = exchange[k].sys /\ rec.traded = exchange[k].traded + v
        /\ rec.total = rest /\ rec.status \in {"allTraded", "partTraded"}
    BY <1>0 DEF ExchangeState
  <2>4. rec \in ExchangeState
    BY <1>0, <2>2 DEF ExchangeState, ExchangeStatuses, Statuses
  <2>5. Sound(k, rec)
    BY <1>0, <2>2, <2>3, <2>4 DEF Sound, Statuses
  <2>6. trade \in TradeMsg
    BY DEF TradeMsg
  <2> HIDE DEF rec, trade
  <2> QED BY <2>1, <2>3, <2>5, <2>6, BecomesKeeps DEF Statuses
<1>6. ASSUME NEW total \in 0 .. Lots, Cancel(k, total) PROVE FrontInv' /\ Sends
  <2> DEFINE rec == [exchange[k] EXCEPT !.status = "canceled", !.total = total]
  <2>1. total \in {0, exchange[k].total} /\ Becomes(k, rec, <<>>)
    BY <1>6 DEF Cancel
  <2>2. /\ rec.sys = exchange[k].sys /\ rec.traded = exchange[k].traded
        /\ rec.total = total /\ rec.status = "canceled"
    BY <1>0 DEF ExchangeState
  <2>3. rec \in ExchangeState
    BY <1>0 DEF ExchangeState, ExchangeStatuses, Statuses
  <2>4. exchange[k].traded + total <= Size(k)
    BY <1>0, <2>1 DEF Sound, ExchangeState
  <2>5. Sound(k, rec)
    BY <1>0, <2>2, <2>3, <2>4 DEF Sound, Statuses
  <2> HIDE DEF rec
  <2> QED BY <2>1, <2>2, <2>5, BecomesKeeps DEF Statuses
<1> QED BY <1>1, <1>2, <1>3, <1>4, <1>5, <1>6 DEF Exchange

\* A message in the ring is one the front sent.
LEMMA DeliverKeeps ==
    ASSUME FrontInv, QueuesTyped, Deliver
    PROVE  FrontInv' /\ QueuesTyped'
<1>1. /\ Len(flow) \in Nat /\ read' = read + 1 /\ read' \in 1 .. Len(flow)
      /\ UNCHANGED <<exchange, asked, flow>>
  BY LenProperties DEF Deliver, OnRtnOrder, OnRtnTrade, Arrives, FrontInv
<1>2. flow[read'] \in Messages
  BY <1>1, ElementOfSeq DEF FrontInv
<1>3. flow[read'].key \in Keys
  BY <1>2 DEF Messages, NamedMsg, OrderMsg, TradeMsg
<1>4. RingSize \in Nat /\ Len(order_updates) \in Nat /\ Len(trade_updates) \in Nat
  BY BoundAssumption, LenProperties DEF QueuesTyped
<1>5. missed' \subseteq Keys
  BY <1>3 DEF Deliver, OnRtnOrder, OnRtnTrade, FrontInv
<1>r. reached' \in read' .. Len(flow) /\ replayed' \subseteq Keys
  <2>1. reached \in read .. Len(flow) /\ replayed \subseteq Keys /\ read \in Nat
    BY DEF FrontInv
  <2>2. \/ read = reached /\ reached' = read' /\ replayed' = replayed
        \/ /\ read < reached /\ reached' = reached
           /\ replayed' = replayed \cup {flow[read'].key}
    BY DEF Deliver, OnRtnOrder, OnRtnTrade, Arrives
  <2> QED BY <1>1, <1>3, <2>1, <2>2
<1>6. FrontInv'
  BY <1>1, <1>5, <1>r DEF FrontInv
<1>7. CASE OnRtnOrder
  <2>1. flow[read'] \in NamedMsg
    BY <1>1, <1>2, <1>7 DEF OnRtnOrder, Arrives, Messages, TradeMsg
  <2>2. /\ Append(order_updates, flow[read']) \in Seq(NamedMsg)
        /\ Len(Append(order_updates, flow[read'])) = Len(order_updates) + 1
    BY <2>1, AppendProperties DEF QueuesTyped
  <2>3. trade_updates' = trade_updates
    BY <1>7 DEF OnRtnOrder
  <2>4. CASE order_updates' = order_updates
    BY <1>6, <2>3, <2>4 DEF QueuesTyped
  <2>5. CASE /\ Len(order_updates) < RingSize
             /\ order_updates' = Append(order_updates, flow[read'])
    BY <1>4, <1>6, <2>2, <2>3, <2>5 DEF QueuesTyped
  <2> QED BY <1>7, <2>4, <2>5 DEF OnRtnOrder
<1>8. CASE OnRtnTrade
  <2>1. flow[read'] \in TradeMsg
    BY <1>1, <1>2, <1>8 DEF OnRtnTrade, Arrives, Messages, NamedMsg, OrderMsg
  <2>2. /\ Append(trade_updates, flow[read']) \in Seq(TradeMsg)
        /\ Len(Append(trade_updates, flow[read'])) = Len(trade_updates) + 1
    BY <2>1, AppendProperties DEF QueuesTyped
  <2>3. order_updates' = order_updates
    BY <1>8 DEF OnRtnTrade
  <2>4. CASE trade_updates' = trade_updates
    BY <1>6, <2>3, <2>4 DEF QueuesTyped
  <2>5. CASE /\ Len(trade_updates) < RingSize
             /\ trade_updates' = Append(trade_updates, flow[read'])
    BY <1>4, <1>6, <2>2, <2>3, <2>5 DEF QueuesTyped
  <2> QED BY <1>8, <2>4, <2>5 DEF OnRtnTrade
<1> QED BY <1>7, <1>8 DEF Deliver

\* The worker takes messages out and looks no further.
LEMMA WorkKeeps ==
    ASSUME FrontInv, QueuesTyped, Work
    PROVE  FrontInv' /\ QueuesTyped'
<1>1. CASE processOrderUpdate
  <2>1. /\ order_updates \in Seq(NamedMsg) /\ order_updates # <<>>
        /\ order_updates' = Tail(order_updates)
        /\ UNCHANGED <<trade_updates, front>>
        /\ missed' \subseteq missed \cup {Head(order_updates).key}
    BY <1>1 DEF processOrderUpdate, QueuesTyped
  <2>2. /\ Head(order_updates) \in NamedMsg
        /\ Tail(order_updates) \in Seq(NamedMsg)
        /\ Len(Tail(order_updates)) = Len(order_updates) - 1
        /\ Len(order_updates) \in Nat /\ Len(order_updates) <= RingSize
        /\ RingSize \in Nat
    BY <2>1, HeadTailProperties, LenProperties, BoundAssumption DEF QueuesTyped
  <2>3. Head(order_updates).key \in Keys
    BY <2>2 DEF NamedMsg, OrderMsg
  <2>4. Len(order_updates') <= RingSize
    BY <2>1, <2>2
  <2> QED BY <2>1, <2>2, <2>3, <2>4 DEF FrontInv, QueuesTyped, front, topic
<1>2. CASE processTradeUpdate
  <2>1. /\ trade_updates \in Seq(TradeMsg) /\ trade_updates # <<>>
        /\ trade_updates' = Tail(trade_updates)
        /\ UNCHANGED <<order_updates, front, missed>>
    BY <1>2 DEF processTradeUpdate, QueuesTyped
  <2>2. /\ Tail(trade_updates) \in Seq(TradeMsg)
        /\ Len(Tail(trade_updates)) = Len(trade_updates) - 1
        /\ Len(trade_updates) \in Nat /\ Len(trade_updates) <= RingSize
        /\ RingSize \in Nat
    BY <2>1, HeadTailProperties, LenProperties, BoundAssumption DEF QueuesTyped
  <2>3. Len(trade_updates') <= RingSize
    BY <2>1, <2>2
  <2> QED BY <2>1, <2>2, <2>3 DEF FrontInv, QueuesTyped, front, topic
<1>3. CASE NextLoop
  BY <1>3 DEF NextLoop, rings, front, topic, FrontInv, QueuesTyped
<1> QED BY <1>1, <1>2, <1>3 DEF Work

\* Every step keeps the front and the rings.
LEMMA FrontKept ==
    ASSUME SenderInv, RecordInv, FrontInv, QueuesTyped, [Next]_vars
    PROVE  FrontInv' /\ QueuesTyped'
<1>1. CASE UNCHANGED <<rings, front, missed>>
  BY <1>1 DEF rings, front, topic, FrontInv, QueuesTyped
<1>2. CASE Freeze \/ Undo \/ Create
  BY <1>1, <1>2 DEF Freeze, Undo, Create
<1>3. CASE ReqOrderInsert
  <2>1. exchange' \in [Keys -> ExchangeState] /\ \A k \in Keys : Sound(k, exchange'[k])
    <3>1. CASE exchange' = exchange
      BY <3>1 DEF FrontInv
    <3>2. CASE exchange' = [exchange EXCEPT ![<<session, ref>>].status =
                                IF @ = "none" THEN "submitted" ELSE @]
      <4> DEFINE k == <<session, ref>>
                 rec == [exchange[k] EXCEPT !.status =
                             IF @ = "none" THEN "submitted" ELSE @]
      <4>1. k \in Keys
        BY <1>3, KeysApart DEF ReqOrderInsert, SenderInv
      <4>2. exchange \in [Keys -> ExchangeState] /\ \A j \in Keys : Sound(j, exchange[j])
        BY DEF FrontInv
      <4>5. k \in Own
        BY <1>3, KeysApart DEF ReqOrderInsert, SenderInv
      <4> HIDE DEF k
      <4>3. Sound(k, rec)
        <5>1. Sound(k, exchange[k]) /\ exchange[k] \in ExchangeState
          BY <4>1, <4>2
        <5>2. rec \in ExchangeState
          BY <5>1 DEF ExchangeState, ExchangeStatuses
        <5>3. /\ rec.traded = exchange[k].traded /\ rec.total = exchange[k].total
              /\ rec.sys = exchange[k].sys
              /\ rec.status = IF exchange[k].status = "none" THEN "submitted"
                              ELSE exchange[k].status
          BY <5>1 DEF ExchangeState
        <5> QED BY <4>5, <5>1, <5>2, <5>3 DEF Sound, Statuses
      <4>4. exchange' = [exchange EXCEPT ![k] = rec]
        BY <3>2, <4>1, <4>2 DEF k
      <4> HIDE DEF rec
      <4> QED BY <4>1, <4>2, <4>3, <4>4 DEF Sound
    <3> QED BY <1>3, <3>1, <3>2 DEF ReqOrderInsert
  <2> QED BY <1>3, <2>1 DEF ReqOrderInsert, rings, topic, FrontInv, QueuesTyped
<1>4. CASE OnRspUserLogin
  <2>1. Len(flow) \in Nat
    BY LenProperties DEF FrontInv
  <2>2. /\ read' = 0 /\ missed' = {}
        /\ UNCHANGED <<rings, exchange, asked, flow, reached, replayed>>
    BY <1>4 DEF OnRspUserLogin
  <2>3. reached' \in 0 .. Len(flow')
    BY <2>1, <2>2 DEF FrontInv
  <2> QED BY <2>1, <2>2, <2>3 DEF rings, FrontInv, QueuesTyped
<1>5. ASSUME NEW r \in Refs, cancelOrder(r) PROVE FrontInv' /\ QueuesTyped'
  <2>1. /\ asked' \subseteq asked \cup DOMAIN storage
        /\ UNCHANGED <<rings, exchange, topic, missed>>
    BY <1>5 DEF cancelOrder, Named
  <2>2. asked' \subseteq Keys
    BY <2>1, KeysApart DEF FrontInv, RecordInv
  <2> QED BY <2>1, <2>2 DEF rings, topic, FrontInv, QueuesTyped
<1>6. CASE cancelAllActive
  <2>1. /\ asked' \subseteq asked \cup DOMAIN storage
        /\ UNCHANGED <<rings, exchange, topic, missed>>
    BY <1>6 DEF cancelAllActive, Named
  <2>2. asked' \subseteq Keys
    BY <2>1, KeysApart DEF FrontInv, RecordInv
  <2> QED BY <2>1, <2>2 DEF rings, topic, FrontInv, QueuesTyped
<1>7. ASSUME NEW k \in Keys, Exchange(k) PROVE FrontInv' /\ QueuesTyped'
  <2>1. UNCHANGED rings
    BY <1>7 DEF Exchange, Acknowledge, RefuseInsert, Enqueue, Reject, Trade,
                Cancel, Becomes
  <2> QED BY <1>7, <2>1, ExchangeKeeps DEF rings, QueuesTyped
<1>8. CASE UNCHANGED vars
  BY <1>1, <1>8 DEF vars
<1> QED BY <1>2, <1>3, <1>4, <1>5, <1>6, <1>7, <1>8, DeliverKeeps, WorkKeeps
        DEF Next, Send

\* The number of an order stays, once the exchange has given it.
LEMMA NumbersStay ==
    ASSUME FrontInv, SenderInv, [Next]_vars, NEW k \in Keys,
           exchange[k].sys # NoSysID
    PROVE  exchange'[k].sys = exchange[k].sys
<1>0. /\ exchange \in [Keys -> ExchangeState] /\ \A j \in Keys : Sound(j, exchange[j])
      /\ \A j \in Keys : exchange[j] \in ExchangeState
  BY DEF FrontInv
<1>1. CASE exchange' = exchange
  BY <1>1
<1>2. CASE ReqOrderInsert
  <2>1. \/ exchange' = exchange
        \/ exchange' = [exchange EXCEPT ![<<session, ref>>].status =
                            IF @ = "none" THEN "submitted" ELSE @]
    BY <1>2 DEF ReqOrderInsert
  <2> QED BY <1>0, <2>1 DEF ExchangeState
<1>3. ASSUME NEW j \in Keys, Exchange(j)
      PROVE  exchange'[k].sys = exchange[k].sys
  <2>1. /\ Sound(j, exchange[j]) /\ exchange[j] \in ExchangeState
        /\ Fresh.sys = NoSysID
    BY <1>0 DEF Fresh
  <2>2. CASE Acknowledge(j)
    <3>1. j # k
      BY <1>0, <2>2 DEF Acknowledge, Sound, Statuses
    <3> QED BY <1>0, <2>2, <3>1 DEF Acknowledge, Becomes
  <2>3. CASE RefuseInsert(j)
    BY <1>0, <2>3 DEF RefuseInsert, ExchangeState
  <2>4. CASE Enqueue(j)
    <3>1. Working(j).sys = OrderSysID[j]
      BY DEF Working, Fresh
    <3>2. exchange[k].sys = OrderSysID[k]
      BY <1>0 DEF Sound
    <3> QED BY <1>0, <2>4, <3>1, <3>2 DEF Enqueue, Becomes
  <2>5. CASE Reject(j)
    BY <1>0, <2>5 DEF Reject, Becomes, ExchangeState
  <2>6. ASSUME NEW v \in 1 .. Lots, Trade(j, v)
        PROVE  exchange'[k].sys = exchange[k].sys
    BY <1>0, <2>6 DEF Trade, Becomes, ExchangeState
  <2>7. ASSUME NEW total \in 0 .. Lots, Cancel(j, total)
        PROVE  exchange'[k].sys = exchange[k].sys
    BY <1>0, <2>7 DEF Cancel, Becomes, ExchangeState
  <2> QED BY <1>3, <2>2, <2>3, <2>4, <2>5, <2>6, <2>7 DEF Exchange
<1>4. CASE Freeze \/ Undo \/ Create \/ OnRspUserLogin \/ Deliver
  BY <1>1, <1>4 DEF Freeze, Undo, Create, OnRspUserLogin, Deliver, OnRtnOrder,
                    OnRtnTrade, Arrives, front
<1>5. CASE cancelAllActive \/ \E r \in Refs : cancelOrder(r)
  BY <1>1, <1>5 DEF cancelAllActive, cancelOrder
<1>6. CASE Work
  BY <1>1, <1>6 DEF Work, processOrderUpdate, processTradeUpdate, NextLoop, front
<1>7. CASE UNCHANGED vars
  BY <1>1, <1>7 DEF vars, front
<1> QED BY <1>2, <1>3, <1>4, <1>5, <1>6, <1>7 DEF Next, Send

\* Two orders that have the same number keep it.
LEMMA SharedStays ==
    ASSUME FrontInv, SenderInv, [Next]_vars, NEW k \in Keys, Shared(k)
    PROVE  Shared(k)'
<1>1. PICK j \in Keys \ {k} :
          OrderSysID[j] = OrderSysID[k] /\ exchange[j].sys # NoSysID
  BY DEF Shared
<1>2. exchange'[j].sys # NoSysID
  BY <1>1, NumbersStay
<1> QED BY <1>1, <1>2 DEF Shared

\* So do the reports and the records that have it.
LEMMA NamesKept ==
    ASSUME SenderInv, RecordInv, FrontInv, QueuesTyped, NamesInv, [Next]_vars
    PROVE  NamesInv'
<1>s. \A k \in Keys : exchange[k].sys # NoSysID => exchange'[k].sys # NoSysID
  BY NumbersStay
<1>f. /\ \A i \in DOMAIN flow : flow[i] \in Messages /\ flow[i].key \in Keys
      /\ Len(flow) \in Nat /\ DOMAIN flow = 1 .. Len(flow)
  BY LenProperties, ElementOfSeq DEF FrontInv, Messages, NamedMsg, OrderMsg, TradeMsg
<1>o. \A i \in DOMAIN order_updates :
         order_updates[i] \in NamedMsg /\ order_updates[i].key \in Keys
  BY LenProperties, ElementOfSeq DEF QueuesTyped, NamedMsg, OrderMsg
<1> DEFINE FlowNames == \A i \in DOMAIN flow :
               flow[i].kind = "order" /\ flow[i].rec.sys # NoSysID
                   => exchange[flow[i].key].sys # NoSysID
           RingNames == \A i \in DOMAIN order_updates :
               order_updates[i].rec.sys # NoSysID
                   => exchange[order_updates[i].key].sys # NoSysID
           RecordNames == \A k \in DOMAIN storage :
               storage[k].sys # NoSysID => exchange[k].sys # NoSysID
<1>n. FlowNames /\ RingNames /\ RecordNames
  BY DEF NamesInv
<1>a. UNCHANGED flow => FlowNames'
  BY <1>s, <1>f, <1>n
<1>b. UNCHANGED order_updates => RingNames'
  BY <1>s, <1>o, <1>n
<1>c. UNCHANGED storage => RecordNames'
  BY <1>s, <1>n, KeysApart DEF RecordInv
<1> SUFFICES FlowNames' /\ RingNames' /\ RecordNames'
  BY DEF NamesInv
<1> HIDE DEF FlowNames, RingNames, RecordNames
<1>1. CASE UNCHANGED <<flow, order_updates, storage>>
  BY <1>1, <1>a, <1>b, <1>c
<1>2. CASE Freeze \/ ReqOrderInsert \/ Undo \/ OnRspUserLogin
  BY <1>1, <1>2 DEF Freeze, ReqOrderInsert, Undo, OnRspUserLogin, worker, rings,
                    front, topic
<1>3. CASE Create
  <2>1. /\ DOMAIN storage' \subseteq DOMAIN storage \cup {<<session, ref>>}
        /\ \A j \in DOMAIN storage' :
              storage'[j] = Fresh \/ (j \in DOMAIN storage /\ storage'[j] = storage[j])
    BY <1>3 DEF Create, Put
  <2>2. Fresh.sys = NoSysID
    BY DEF Fresh
  <2>3. RecordNames'
    BY <1>s, <1>n, <2>1, <2>2, KeysApart DEF RecordInv, RecordNames
  <2> QED BY <1>3, <1>a, <1>b, <2>3 DEF Create, rings, front, topic
<1>4. CASE cancelAllActive \/ \E r \in Refs : cancelOrder(r)
  BY <1>1, <1>4 DEF cancelAllActive, cancelOrder, worker, rings, topic
<1>5. ASSUME NEW k \in Keys, Exchange(k)
      PROVE  FlowNames' /\ RingNames' /\ RecordNames'
  <2>1. Sends
    BY <1>5, ExchangeKeeps
  <2>2. UNCHANGED <<order_updates, storage>>
    BY <1>5 DEF Exchange, Acknowledge, RefuseInsert, Enqueue, Reject, Trade,
                Cancel, Becomes, worker, rings
  <2>3. FlowNames'
    BY <1>s, <1>f, <1>n, <2>1 DEF Sends, FlowNames
  <2> QED BY <1>b, <1>c, <2>2, <2>3
<1>6. CASE Deliver
  <2>1. /\ read' \in DOMAIN flow /\ UNCHANGED <<flow, storage, exchange>>
    BY <1>f, <1>6 DEF Deliver, OnRtnOrder, OnRtnTrade, Arrives, FrontInv, worker
  <2>2. CASE UNCHANGED order_updates
    BY <1>1, <2>1, <2>2
  <2>3. CASE /\ order_updates' = Append(order_updates, flow[read'])
             /\ flow[read'].kind = "order"
    <3>1. flow[read'] \in NamedMsg
      BY <1>f, <2>1, <2>3 DEF Messages, TradeMsg
    <3>2. order_updates \in Seq(NamedMsg) /\ Len(order_updates) \in Nat
      BY LenProperties DEF QueuesTyped
    <3>3. /\ DOMAIN order_updates = 1 .. Len(order_updates)
          /\ DOMAIN order_updates' = 1 .. Len(order_updates) + 1
          /\ order_updates'[Len(order_updates) + 1] = flow[read']
          /\ \A i \in 1 .. Len(order_updates) : order_updates'[i] = order_updates[i]
      BY <2>3, <3>1, <3>2, AppendProperties, LenProperties
    <3>4. ASSUME NEW i \in DOMAIN order_updates', order_updates'[i].rec.sys # NoSysID
          PROVE  exchange'[order_updates'[i].key].sys # NoSysID
      <4>1. CASE i = Len(order_updates) + 1
        BY <1>n, <2>1, <2>3, <3>3, <3>4, <4>1 DEF FlowNames
      <4>2. CASE i # Len(order_updates) + 1
        <5>1. i \in 1 .. Len(order_updates)
          BY <3>2, <3>3, <4>2
        <5> QED BY <1>n, <2>1, <3>3, <3>4, <5>1 DEF RingNames
      <4> QED BY <4>1, <4>2
    <3> QED BY <1>a, <1>c, <2>1, <3>4 DEF RingNames
  <2> QED BY <1>6, <2>2, <2>3 DEF Deliver, OnRtnOrder, OnRtnTrade, Arrives
<1>7. CASE processOrderUpdate
  <2> DEFINE msg == Head(order_updates)
  <2>1. /\ order_updates # <<>> /\ order_updates \in Seq(NamedMsg)
        /\ order_updates' = Tail(order_updates) /\ flow' = flow
    BY <1>7 DEF processOrderUpdate, QueuesTyped, front, topic
  <2>2. /\ msg \in NamedMsg /\ 1 \in DOMAIN order_updates /\ msg = order_updates[1]
        /\ \A i \in DOMAIN order_updates' :
              i + 1 \in DOMAIN order_updates /\ order_updates'[i] = order_updates[i + 1]
    <3>1. /\ Head(order_updates) \in NamedMsg /\ Head(order_updates) = order_updates[1]
          /\ Len(order_updates) \in Nat /\ Len(order_updates) > 0
          /\ DOMAIN order_updates = 1 .. Len(order_updates)
      BY <2>1, HeadTailProperties, LenProperties, EmptySeq
    <3>2. /\ Len(Tail(order_updates)) = Len(order_updates) - 1
          /\ DOMAIN Tail(order_updates) = 1 .. Len(order_updates) - 1
          /\ \A i \in 1 .. Len(order_updates) - 1 :
                Tail(order_updates)[i] = order_updates[i + 1]
      BY <2>1, <3>1, HeadTailProperties, LenProperties
    <3> QED BY <2>1, <3>1, <3>2
  <2>3. RingNames'
    BY <1>s, <1>o, <1>n, <2>2 DEF RingNames
  <2>4. ASSUME NEW k \in Found(msg),
               storage' = [storage EXCEPT ![k] = Updated(@, msg.rec)]
        PROVE  RecordNames'
    <3>1. /\ k \in DOMAIN storage
          /\ k = msg.key \/ (msg.rec.sys # NoSysID /\ storage[k].sys # NoSysID)
      BY <2>2, FoundItself
    <3>2. /\ storage[k] \in OrderRecord /\ msg.rec \in OrderRecord /\ k \in Keys
          /\ DOMAIN storage \subseteq Keys
      BY <2>2, <3>1, KeysApart DEF RecordInv, NamedMsg, OrderMsg
    <3>3. /\ DOMAIN storage' = DOMAIN storage
          /\ \A j \in DOMAIN storage \ {k} : storage'[j] = storage[j]
          /\ storage'[k].sys = IF storage[k].sys = NoSysID THEN msg.rec.sys
                               ELSE storage[k].sys
      BY <2>4, <3>1, <3>2, UpdatedTyped
    <3>4. storage'[k].sys # NoSysID => exchange[k].sys # NoSysID
      <4>1. CASE storage[k].sys # NoSysID
        BY <1>n, <3>1, <4>1 DEF RecordNames
      <4>2. CASE storage[k].sys = NoSysID
        <5>1. k = msg.key /\ storage'[k].sys = msg.rec.sys
          BY <3>1, <3>3, <4>2
        <5> QED BY <1>n, <2>2, <5>1 DEF RingNames
      <4> QED BY <4>1, <4>2
    <3>5. \A j \in DOMAIN storage' : storage'[j].sys # NoSysID => exchange[j].sys # NoSysID
      BY <1>n, <3>3, <3>4 DEF RecordNames
    <3> QED BY <1>s, <3>2, <3>3, <3>5 DEF RecordNames
  <2>5. RecordNames'
    BY <1>7, <1>c, <2>4 DEF processOrderUpdate
  <2> QED BY <1>a, <2>1, <2>3, <2>5
<1>8. CASE processTradeUpdate \/ NextLoop
  BY <1>1, <1>8 DEF processTradeUpdate, NextLoop, rings, front, topic
<1>9. CASE UNCHANGED vars
  BY <1>1, <1>9 DEF vars, worker, rings, front, topic
<1> QED BY <1>2, <1>3, <1>4, <1>5, <1>6, <1>7, <1>8, <1>9 DEF Next, Send, Work

----------------------------------------------------------------------------
OrderInv == SenderInv /\ RecordInv /\ FrontInv /\ QueuesTyped /\ NamesInv

\* The invariant holds in every reachable state.
THEOREM OrderInvariant == Spec => []OrderInv
<1>1. Init => OrderInv
  <2> SUFFICES ASSUME Init PROVE OrderInv
    OBVIOUS
  <2>0. /\ MaxOrders \in Nat /\ Lots \in Nat /\ Lots > 0 /\ RingSize \in Nat
        /\ MaxLogins \in Nat /\ MaxLogins > 0
    BY BoundAssumption
  <2>1. SenderInv
    BY <2>0 DEF Init, SenderInv, Sessions
  <2>2. RecordInv
    <3>1. DOMAIN storage = {} /\ DOMAIN exchange_lookup = {}
      BY DEF Init
    <3>2. thawed = [k \in Keys |-> 0] /\ booked = [k \in Keys |-> 0]
          /\ draining = "orders"
      BY DEF Init
    <3> QED BY <3>1, <3>2, KeysApart DEF RecordInv
  <2>3. QueuesTyped
    BY <2>0, EmptySeq DEF Init, QueuesTyped
  <2>4. \A k \in Keys : Sound(k, exchange[k])
    <3> TAKE k \in Keys
    <3>1. 0 \in 0 .. Size(k)
      BY Sizes
    <3>2. exchange[k] = Working(k) \/ exchange[k] = [Fresh EXCEPT !.status = "none"]
      BY DEF Init
    <3> QED BY <3>1, <3>2, NewOrdersSound
  <2>5. exchange \in [Keys -> ExchangeState]
    BY <2>4 DEF Init, Sound
  <2>6. FrontInv
    BY <2>0, <2>4, <2>5, EmptySeq DEF Init, FrontInv
  <2>7. NamesInv
    BY EmptySeq DEF Init, NamesInv
  <2> QED BY <2>1, <2>2, <2>3, <2>6, <2>7 DEF OrderInv
<1>2. OrderInv /\ [Next]_vars => OrderInv'
  BY SenderKept, RecordsKept, FrontKept, NamesKept DEF OrderInv
<1> QED BY <1>1, <1>2, PTL DEF Spec

\* Keys, records, messages and counters keep their types: no record leads to a
\* key nobody has, no more lots trade than an order has, no order_ref is handed
\* out beyond the orders of a run.
THEOREM OrderTypes == Spec => []TypeOK
<1>1. ASSUME OrderInv PROVE TypeOK
  <2> USE <1>1 DEF OrderInv
  <2>1. order_updates \in Seq(OrderMsg)
    BY SeqMonotonic DEF QueuesTyped, NamedMsg
  <2>2. flow \in Seq(OrderMsg \cup TradeMsg)
    BY SeqMonotonic DEF FrontInv, Messages, NamedMsg
  <2>3. DOMAIN exchange_lookup \subseteq Nat \ {NoSysID}
        /\ \A s \in DOMAIN exchange_lookup : exchange_lookup[s] \in DOMAIN storage
    BY DEF RecordInv
  <2> QED BY <2>1, <2>2, <2>3 DEF TypeOK, SenderInv, RecordInv, FrontInv, QueuesTyped
<1> QED BY <1>1, OrderInvariant, PTL

\* Over any number of orders, sessions and replays, a report is written into the
\* record of its own order or into that of one with the same number, never into one
\* that only has the same order_ref or no number yet.
THEOREM ReportsFindOrders == Spec => ReportsFindTheirOrder
<1> DEFINE P == \A k \in DOMAIN storage : storage'[k] # storage[k] =>
                   LET own == Head(order_updates).key
                   IN  own = k \/ OrderSysID[own] = OrderSysID[k]
<1>1. OrderInv /\ [Next]_vars => P \/ UNCHANGED vars
  <2> SUFFICES ASSUME OrderInv, Next, NEW k \in DOMAIN storage, storage'[k] # storage[k]
               PROVE  \/ Head(order_updates).key = k
                      \/ OrderSysID[Head(order_updates).key] = OrderSysID[k]
    OBVIOUS
  <2>1. processOrderUpdate
    <3>1. storage' # storage
      OBVIOUS
    <3>2. ~Create
      BY DEF Create, Put
    <3> QED BY <3>1, <3>2
      DEF Next, Send, Freeze, ReqOrderInsert, Undo, cancelOrder, cancelAllActive,
          OnRspUserLogin, Exchange, Acknowledge, RefuseInsert, Enqueue, Reject, Trade,
          Cancel, Becomes, Deliver, OnRtnOrder, OnRtnTrade, Arrives, Work,
          processTradeUpdate, NextLoop, worker
  <2>2. Head(order_updates) \in NamedMsg
    BY <2>1, HeadTailProperties DEF processOrderUpdate, OrderInv, QueuesTyped
  <2>3. k \in Found(Head(order_updates))
    BY <2>1 DEF processOrderUpdate
  <2> QED BY <2>2, <2>3, FoundItself DEF OrderInv
<1>2. OrderInv /\ [Next]_vars => [P]_vars
  BY <1>1
<1> QED BY <1>2, OrderInvariant, PTL DEF Spec, ReportsFindTheirOrder

\* A report written into another order's record has found one with the same number:
\* each of the two orders shares it.
LEMMA FoundShared ==
    ASSUME OrderInv, order_updates # <<>>, NEW k \in Found(Head(order_updates))
    PROVE  /\ k \in DOMAIN storage
           /\ \/ k = Head(order_updates).key
              \/ Shared(k) /\ Shared(Head(order_updates).key)
<1> DEFINE msg == Head(order_updates)
<1>1. msg \in NamedMsg /\ 1 \in DOMAIN order_updates /\ msg = order_updates[1]
  BY HeadTailProperties, LenProperties, EmptySeq DEF OrderInv, QueuesTyped
<1>2. /\ k \in DOMAIN storage
      /\ \/ k = msg.key
         \/ /\ msg.rec.sys # NoSysID /\ storage[k].sys # NoSysID
            /\ OrderSysID[k] = OrderSysID[msg.key]
  BY <1>1, FoundItself DEF OrderInv
<1>3. msg.key \in Keys /\ k \in Keys
  BY <1>1, <1>2, KeysApart DEF OrderInv, RecordInv, NamedMsg, OrderMsg
<1>4. /\ msg.rec.sys # NoSysID => exchange[msg.key].sys # NoSysID
      /\ storage[k].sys # NoSysID => exchange[k].sys # NoSysID
  BY <1>1, <1>2 DEF OrderInv, NamesInv
<1> HIDE DEF msg
<1>5. k = msg.key \/ (Shared(k) /\ Shared(msg.key))
  BY <1>2, <1>3, <1>4 DEF Shared
<1> QED BY <1>2, <1>5 DEF msg

----------------------------------------------------------------------------
(* Nothing regresses.  Of an order of this session the record, then the    *)
(* reports in the ring, then those the front has still to push, then the   *)
(* exchange's own state form a chain in which each follows from the last.  *)
(* Reports may be missing from the middle of it.                           *)

\* b may be reported after a.
Precedes(a, b) ==
    /\ a.traded <= b.traded
    /\ isFinal(a.status) => b.status = a.status

\* Order k was heard of as r: what the exchange (ex) and the messages after
\* number n of its flow (fl) say of it may come after that.
Future(k, r, ex, fl, n) ==
    /\ Precedes(r, ex[k])
    /\ \A j \in DOMAIN fl :
          j > n /\ fl[j].kind = "order" /\ fl[j].key = k => Precedes(r, fl[j].rec)

Traded(status) == status \in {"partTraded", "allTraded", "canceled"}

\* An order belongs to a session that has begun.
SessionsInv ==
    /\ \A k \in Own : exchange[k].status # "none" => k[1] <= session
    /\ \A i \in DOMAIN flow : flow[i].key[1] <= session
    /\ \A i \in DOMAIN order_updates : order_updates[i].key[1] <= session
    /\ \A k \in DOMAIN storage : k[1] <= session

ChainInv ==
    /\ \A k \in Keys : Traded(exchange[k].status) \/ exchange[k].traded = 0
    /\ \A i \in DOMAIN flow :
          flow[i].kind = "order" =>
              Future(flow[i].key, flow[i].rec, exchange, flow, i)
    /\ \A i \in DOMAIN order_updates :
          order_updates[i].key[1] = session =>
              Future(order_updates[i].key, order_updates[i].rec, exchange, flow, read)
    /\ \A i, j \in DOMAIN order_updates :
          /\ i < j /\ order_updates[i].key = order_updates[j].key
          /\ order_updates[i].key[1] = session
          => Precedes(order_updates[i].rec, order_updates[j].rec)
    /\ \A k \in DOMAIN storage :
          k[1] = session /\ ~Shared(k) =>
              /\ Future(k, storage[k], exchange, flow, read)
              /\ \A i \in DOMAIN order_updates :
                    order_updates[i].key = k =>
                        Precedes(storage[k], order_updates[i].rec)

\* Precedes is a preorder on the states of an order, and a fresh record precedes
\* them all.
LEMMA PrecedesOrder ==
    /\ \A a \in ExchangeState : Precedes(a, a)
    /\ \A a, b, c \in ExchangeState :
          Precedes(a, b) /\ Precedes(b, c) => Precedes(a, c)
    /\ OrderRecord \subseteq ExchangeState
    /\ \A a \in ExchangeState : Precedes(Fresh, a)
<1>1. \A a \in ExchangeState : a.traded \in Nat
  BY BoundAssumption DEF ExchangeState
<1>2. OrderRecord \subseteq ExchangeState
  BY DEF OrderRecord, ExchangeState, ExchangeStatuses
<1>3. Fresh.traded = 0 /\ ~isFinal(Fresh.status)
  BY DEF Fresh, isFinal
<1> QED BY <1>1, <1>2, <1>3 DEF Precedes

\* A later place in the flow has less of a future.
LEMMA FutureLater ==
    ASSUME NEW k, NEW r, NEW ex, NEW fl, NEW m \in Nat, NEW n \in Nat, n >= m,
           DOMAIN fl \subseteq Nat, Future(k, r, ex, fl, m)
    PROVE  Future(k, r, ex, fl, n)
BY DEF Future

\* What the exchange does to an order, and the one report it sends of it.
Moves ==
    /\ \A j \in Keys : Precedes(exchange[j], exchange'[j])
    /\ \A j \in Keys : exchange[j].status = "none" => exchange'[j].status = "none"
    /\ \A j \in Keys : Traded(exchange'[j].status) \/ exchange'[j].traded = 0
    /\ Len(flow) \in Nat /\ DOMAIN flow = 1 .. Len(flow)
    /\ DOMAIN flow \subseteq DOMAIN flow' /\ DOMAIN flow' \subseteq Nat
    /\ \A i \in DOMAIN flow : flow'[i] = flow[i]
    /\ \A i \in DOMAIN flow' \ DOMAIN flow :
          /\ i > Len(flow) /\ flow'[i].key \in Keys
          /\ exchange[flow'[i].key].status # "none"
          /\ flow'[i].kind = "order" =>
                flow'[i].rec = exchange'[flow'[i].key] /\ i = Len(flow) + 1

\* A step of an order at the exchange moves it on: a report, and at most a trade.
LEMMA BecomesMoves ==
    ASSUME OrderInv, ChainInv, NEW k \in Keys, NEW rec, NEW trades,
           Sound(k, rec), rec.status \in Statuses,
           Precedes(exchange[k], rec), Traded(rec.status) \/ rec.traded = 0,
           trades = <<>> \/ \E m \in TradeMsg : trades = <<m>> /\ m.key = k,
           exchange[k].status # "none",
           Becomes(k, rec, trades)
    PROVE  Moves
<1>1. Report(k, rec) \in NamedMsg
  BY ReportNamed
<1>2. flow \in Seq(Messages) /\ Len(flow) \in Nat /\ DOMAIN flow = 1 .. Len(flow)
  BY LenProperties DEF OrderInv, FrontInv
<1>3. /\ Append(flow, Report(k, rec)) \in Seq(Messages)
      /\ Len(Append(flow, Report(k, rec))) = Len(flow) + 1
      /\ \A i \in 1 .. Len(flow) : Append(flow, Report(k, rec))[i] = flow[i]
      /\ Append(flow, Report(k, rec))[Len(flow) + 1] = Report(k, rec)
  BY <1>1, <1>2, AppendProperties DEF Messages
<1>4. /\ trades \in Seq(Messages) /\ Len(trades) \in Nat /\ Len(trades) <= 1
      /\ \A i \in 1 .. Len(trades) : trades[i].kind = "trade" /\ trades[i].key = k
  <2>1. CASE trades = <<>>
    BY <2>1
  <2>2. ASSUME NEW m \in TradeMsg, trades = <<m>>, m.key = k
        PROVE  /\ trades \in Seq(Messages) /\ Len(trades) \in Nat /\ Len(trades) <= 1
               /\ \A i \in 1 .. Len(trades) :
                     trades[i].kind = "trade" /\ trades[i].key = k
    <3>1. m.kind = "trade" /\ m \in Messages
      BY DEF TradeMsg, Messages
    <3> QED BY <2>2, <3>1
  <2> QED BY <2>1, <2>2
<1>5. /\ flow' \in Seq(Messages) /\ Len(flow') = Len(flow) + 1 + Len(trades)
      /\ \A i \in 1 .. Len(flow') :
            flow'[i] = IF i <= Len(flow) + 1 THEN Append(flow, Report(k, rec))[i]
                       ELSE trades[i - (Len(flow) + 1)]
  BY <1>2, <1>3, <1>4, ConcatProperties DEF Becomes
<1>6. DOMAIN flow' = 1 .. Len(flow')
  BY <1>5, LenProperties
<1>7. \A i \in DOMAIN flow : i \in DOMAIN flow' /\ flow'[i] = flow[i]
  BY <1>2, <1>3, <1>4, <1>5, <1>6
<1>8. exchange' = [exchange EXCEPT ![k] = rec] /\ exchange \in [Keys -> ExchangeState]
  BY DEF Becomes, OrderInv, FrontInv
<1>9. ASSUME NEW i \in DOMAIN flow' \ DOMAIN flow
      PROVE  /\ i > Len(flow) /\ flow'[i].key = k
             /\ flow'[i].kind = "order" =>
                   flow'[i].rec = rec /\ i = Len(flow) + 1
  <2>1. i \in 1 .. Len(flow) + 1 + Len(trades) /\ i > Len(flow)
    BY <1>2, <1>4, <1>5, <1>6, <1>9
  <2>2. CASE i = Len(flow) + 1
    <3>1. flow'[i] = Report(k, rec)
      BY <1>2, <1>3, <1>4, <1>5, <2>2
    <3> QED BY <2>1, <2>2, <3>1 DEF Report
  <2>3. CASE i # Len(flow) + 1
    <3>1. i - (Len(flow) + 1) \in 1 .. Len(trades) /\ ~(i <= Len(flow) + 1)
      BY <1>2, <1>4, <2>1, <2>3
    <3>2. flow'[i] = trades[i - (Len(flow) + 1)]
      BY <1>5, <2>1, <3>1
    <3> QED BY <1>4, <2>1, <3>1, <3>2
  <2> QED BY <2>2, <2>3
<1>10. \A j \in Keys : Precedes(exchange[j], exchange'[j])
  BY <1>8, PrecedesOrder
<1>11. /\ \A j \in Keys : exchange[j].status = "none" => exchange'[j].status = "none"
       /\ \A j \in Keys : Traded(exchange'[j].status) \/ exchange'[j].traded = 0
  BY <1>8 DEF ChainInv
<1> QED BY <1>2, <1>5, <1>6, <1>7, <1>8, <1>9, <1>10, <1>11 DEF Moves

\* Every step of the exchange.
LEMMA ExchangeMoves ==
    ASSUME OrderInv, ChainInv, NEW k \in Keys, Exchange(k)
    PROVE  Moves
<1>0. /\ Lots \in Nat /\ Lots > 0 /\ Size(k) \in Nat /\ Size(k) <= Lots
      /\ exchange \in [Keys -> ExchangeState] /\ Sound(k, exchange[k])
      /\ exchange[k].traded \in Nat /\ exchange[k].total \in Nat
      /\ \A j \in Keys : Traded(exchange[j].status) \/ exchange[j].traded = 0
  BY BoundAssumption, Sizes DEF OrderInv, FrontInv, ExchangeState, ChainInv
<1>1. CASE Acknowledge(k)
  <2>1. /\ Becomes(k, [Fresh EXCEPT !.total = Lots], <<>>)
        /\ exchange[k].status = "submitted"
    BY <1>1 DEF Acknowledge
  <2>2. /\ [Fresh EXCEPT !.total = Lots].traded = 0
        /\ [Fresh EXCEPT !.total = Lots].status = "unknown"
        /\ Sound(k, [Fresh EXCEPT !.total = Lots])
    <3>1. Lots \in 0 .. Size(k)
      BY <1>0, <2>1, Sizes DEF Sound
    <3> QED BY <3>1, NewOrdersSound
  <2>3. Precedes(exchange[k], [Fresh EXCEPT !.total = Lots])
    BY <1>0, <2>1, <2>2 DEF Precedes, isFinal, Traded
  <2> QED BY <2>1, <2>2, <2>3, BecomesMoves DEF Statuses
<1>2. CASE RefuseInsert(k)
  <2>1. /\ exchange[k].status = "submitted" /\ flow' = flow
        /\ exchange' = [exchange EXCEPT ![k].status = "refused"]
    BY <1>2 DEF RefuseInsert, topic
  <2>2. /\ \A j \in Keys \ {k} : exchange'[j] = exchange[j]
        /\ exchange'[k].traded = exchange[k].traded /\ exchange'[k].status = "refused"
    BY <1>0, <2>1 DEF ExchangeState
  <2>3. \A j \in Keys : Precedes(exchange[j], exchange'[j])
    <3>1. Precedes(exchange[k], exchange'[k])
      BY <1>0, <2>1, <2>2 DEF Precedes, isFinal
    <3> QED BY <1>0, <2>2, <3>1, PrecedesOrder
  <2>4. Len(flow) \in Nat /\ DOMAIN flow = 1 .. Len(flow)
    BY LenProperties DEF OrderInv, FrontInv
  <2> QED BY <1>0, <2>1, <2>2, <2>3, <2>4 DEF Moves, Traded
<1>3. CASE Enqueue(k)
  <2>1. Becomes(k, Working(k), <<>>) /\ exchange[k].status = "unknown"
    BY <1>3 DEF Enqueue
  <2>2. Working(k).traded = 0 /\ Working(k).status = "noTrade" /\ Sound(k, Working(k))
    <3>1. 0 \in 0 .. Size(k)
      BY <1>0
    <3> QED BY <3>1, NewOrdersSound
  <2>3. Precedes(exchange[k], Working(k))
    BY <1>0, <2>1, <2>2 DEF Precedes, isFinal, Traded
  <2> QED BY <2>1, <2>2, <2>3, BecomesMoves DEF Statuses
<1>4. CASE Reject(k)
  <2> DEFINE rec == [exchange[k] EXCEPT !.status = "canceled", !.rejected = TRUE]
  <2>1. Becomes(k, rec, <<>>) /\ exchange[k].status = "unknown"
    BY <1>4 DEF Reject
  <2>2. Sound(k, rec) /\ rec.status = "canceled" /\ rec.traded = exchange[k].traded
    BY <1>0 DEF Sound, ExchangeState, ExchangeStatuses, Statuses
  <2> HIDE DEF rec
  <2>3. Precedes(exchange[k], rec)
    BY <1>0, <2>1, <2>2 DEF Precedes, isFinal
  <2> QED BY <2>1, <2>2, <2>3, BecomesMoves DEF Statuses, Traded
<1>5. ASSUME NEW v \in 1 .. Lots, Trade(k, v) PROVE Moves
  <2> DEFINE rest == exchange[k].total - v
             rec == [exchange[k] EXCEPT
                        !.traded = @ + v, !.total = rest,
                        !.status = IF rest = 0 THEN "allTraded" ELSE "partTraded"]
             trade == [kind |-> "trade", key |-> k, vol |-> v]
  <2>1. /\ v <= exchange[k].total /\ Becomes(k, rec, <<trade>>)
        /\ exchange[k].status \in {"noTrade", "partTraded"}
    BY <1>5 DEF Trade, Live
  <2>2. /\ exchange[k].traded + v \in 0 .. Lots /\ rest \in 0 .. Lots
        /\ (exchange[k].traded + v) + rest <= Size(k)
    BY <1>0, <2>1 DEF Sound
  <2>3. /\ rec.sys = exchange[k].sys /\ rec.traded = exchange[k].traded + v
        /\ rec.total = rest /\ rec.status \in {"allTraded", "partTraded"}
    BY <1>0 DEF Sound, ExchangeState
  <2>4. rec \in ExchangeState
    BY <1>0, <2>2 DEF Sound, ExchangeState, ExchangeStatuses, Statuses
  <2>5. Sound(k, rec)
    BY <1>0, <2>2, <2>3, <2>4 DEF Sound, Statuses
  <2>6. trade \in TradeMsg /\ trade.key = k
    BY DEF TradeMsg
  <2> HIDE DEF rec, trade
  <2>7. Precedes(exchange[k], rec)
    BY <1>0, <2>1, <2>2, <2>3 DEF Precedes, isFinal
  <2> QED BY <2>1, <2>3, <2>5, <2>6, <2>7, BecomesMoves DEF Statuses, Traded
<1>6. ASSUME NEW total \in 0 .. Lots, Cancel(k, total) PROVE Moves
  <2> DEFINE rec == [exchange[k] EXCEPT !.status = "canceled", !.total = total]
  <2>1. /\ total \in {0, exchange[k].total} /\ Becomes(k, rec, <<>>)
        /\ exchange[k].status \in {"noTrade", "partTraded"}
    BY <1>6 DEF Cancel, Live
  <2>2. /\ rec.sys = exchange[k].sys /\ rec.traded = exchange[k].traded
        /\ rec.total = total /\ rec.status = "canceled"
    BY <1>0 DEF Sound, ExchangeState
  <2>3. rec \in ExchangeState
    BY <1>0 DEF Sound, ExchangeState, ExchangeStatuses, Statuses
  <2>4. exchange[k].traded + total <= Size(k)
    BY <1>0, <2>1 DEF Sound, ExchangeState
  <2>5. Sound(k, rec)
    BY <1>0, <2>2, <2>3, <2>4 DEF Sound, Statuses
  <2> HIDE DEF rec
  <2>6. Precedes(exchange[k], rec)
    BY <1>0, <2>1, <2>2 DEF Precedes, isFinal
  <2> QED BY <2>1, <2>2, <2>5, <2>6, BecomesMoves DEF Statuses, Traded
<1> QED BY <1>1, <1>2, <1>3, <1>4, <1>5, <1>6 DEF Exchange

\* The exchange's step keeps what may come after a report.
LEMMA FutureMoves ==
    ASSUME Moves, NEW k \in Keys, NEW r \in ExchangeState, NEW n \in Nat,
           exchange \in [Keys -> ExchangeState],
           exchange' \in [Keys -> ExchangeState],
           Future(k, r, exchange, flow, n)
    PROVE  Future(k, r, exchange', flow', n)
<1>1. /\ exchange[k] \in ExchangeState /\ exchange'[k] \in ExchangeState
      /\ Precedes(r, exchange[k]) /\ Precedes(exchange[k], exchange'[k])
  BY DEF Future, Moves
<1>2. Precedes(r, exchange'[k])
  BY <1>1, PrecedesOrder
<1>3. ASSUME NEW j \in DOMAIN flow', j > n, flow'[j].kind = "order", flow'[j].key = k
      PROVE  Precedes(r, flow'[j].rec)
  <2>1. CASE j \in DOMAIN flow
    BY <1>3, <2>1 DEF Moves, Future
  <2>2. CASE j \notin DOMAIN flow
    <3>1. flow'[j].rec = exchange'[k]
      BY <1>3, <2>2 DEF Moves
    <3> QED BY <1>2, <3>1
  <2> QED BY <2>1, <2>2
<1> QED BY <1>2, <1>3 DEF Future

\* What is at hand of every key and report.
LEMMA ChainTypes ==
    ASSUME OrderInv
    PROVE  /\ exchange \in [Keys -> ExchangeState]
           /\ session \in Nat /\ read \in Nat /\ Len(flow) \in Nat
           /\ DOMAIN flow = 1 .. Len(flow) /\ DOMAIN flow \subseteq Nat
           /\ \A i \in DOMAIN flow :
                 /\ flow[i].key \in Keys
                 /\ flow[i].kind = "order" => flow[i].rec \in ExchangeState
           /\ Len(order_updates) \in Nat
           /\ DOMAIN order_updates = 1 .. Len(order_updates)
           /\ \A i \in DOMAIN order_updates :
                 order_updates[i].key \in Keys /\ order_updates[i].rec \in ExchangeState
           /\ \A k \in DOMAIN storage : k \in Keys /\ storage[k] \in ExchangeState
<1>1. flow \in Seq(Messages) /\ read \in 0 .. Len(flow)
      /\ order_updates \in Seq(NamedMsg) /\ session \in Sessions
  BY DEF OrderInv, FrontInv, QueuesTyped, SenderInv
<1>2. Len(flow) \in Nat /\ DOMAIN flow = 1 .. Len(flow)
      /\ Len(order_updates) \in Nat /\ DOMAIN order_updates = 1 .. Len(order_updates)
  BY <1>1, LenProperties
<1>3. \A m \in NamedMsg : m.key \in Keys /\ m.rec \in ExchangeState
  BY PrecedesOrder DEF NamedMsg, OrderMsg
<1>4. \A m \in TradeMsg : m.key \in Keys /\ m.kind = "trade"
  BY DEF TradeMsg
<1>5. \A i \in DOMAIN flow : flow[i] \in Messages
  BY <1>1, <1>2, ElementOfSeq
<1>6. \A i \in DOMAIN order_updates : order_updates[i] \in NamedMsg
  BY <1>1, <1>2, ElementOfSeq
<1>7. session \in Nat /\ read \in Nat
  BY <1>1, <1>2, BoundAssumption DEF Sessions
<1>8. \A k \in DOMAIN storage : k \in Keys /\ storage[k] \in ExchangeState
  BY PrecedesOrder, KeysApart DEF OrderInv, RecordInv
<1>9. exchange \in [Keys -> ExchangeState]
  BY DEF OrderInv, FrontInv
<1>10. \A i \in DOMAIN flow :
          /\ flow[i].key \in Keys
          /\ flow[i].kind = "order" => flow[i].rec \in ExchangeState
  BY <1>3, <1>4, <1>5 DEF Messages
<1> QED BY <1>2, <1>3, <1>6, <1>7, <1>8, <1>9, <1>10

\* No order is of a session to come.
LEMMA SessionsKept ==
    ASSUME OrderInv, OrderInv', SessionsInv, ChainInv, [Next]_vars
    PROVE  SessionsInv'
<1>0. /\ session \in Nat /\ \A k \in Keys : k[1] \in Nat
      /\ \A k \in Others : k[1] = 0
  <2>1. \A k \in Own : k[1] \in Nat
    BY BoundAssumption DEF Own, Sessions
  <2>2. \A k \in Others : k[1] = 0
    BY DEF Others
  <2> QED BY <2>1, <2>2, ChainTypes, KeysApart
<1> USE DEF SessionsInv
<1>1. CASE UNCHANGED <<session, exchange, flow, order_updates, storage>>
  BY <1>1
<1>2. CASE ReqOrderInsert
  <2>1. /\ UNCHANGED <<session, flow, order_updates, storage>>
        /\ \A k \in Own : exchange'[k].status # "none" =>
              k = <<session, ref>> \/ exchange[k].status # "none"
    BY <1>2, ChainTypes, KeysApart DEF ReqOrderInsert, rings, worker, topic
  <2> QED BY <1>0, <2>1
<1>3. CASE Create
  <2>1. /\ UNCHANGED <<session, flow, order_updates, exchange>>
        /\ DOMAIN storage' \subseteq DOMAIN storage \cup {<<session, ref>>}
    BY <1>3 DEF Create, Put, rings, front, topic
  <2> QED BY <1>0, <2>1
<1>4. CASE OnRspUserLogin
  <2>1. /\ UNCHANGED <<flow, order_updates, exchange, storage>>
        /\ session' = session + 1
    BY <1>4 DEF OnRspUserLogin, rings, worker
  <2>2. \A n \in Nat : n <= session => n <= session'
    BY <1>0, <2>1
  <2>3. /\ \A k \in Own : k[1] \in Nat
        /\ \A i \in DOMAIN flow : flow[i].key[1] \in Nat
        /\ \A i \in DOMAIN order_updates : order_updates[i].key[1] \in Nat
        /\ \A k \in DOMAIN storage : k[1] \in Nat
    BY <1>0, ChainTypes, KeysApart
  <2> QED BY <2>1, <2>2, <2>3
<1>5. ASSUME NEW k \in Keys, Exchange(k) PROVE SessionsInv'
  <2>1. Moves
    BY <1>5, ExchangeMoves
  <2>2. UNCHANGED <<session, order_updates, storage>>
    BY <1>5 DEF Exchange, Acknowledge, RefuseInsert, Enqueue, Reject, Trade,
                Cancel, Becomes, sender, worker, rings
  <2>3. \A j \in Own : exchange'[j].status # "none" => j[1] <= session
    BY <2>1, KeysApart DEF Moves
  <2>4. ASSUME NEW i \in DOMAIN flow' PROVE flow'[i].key[1] <= session
    <3>1. CASE i \in DOMAIN flow
      BY <2>1, <3>1 DEF Moves
    <3>2. CASE i \notin DOMAIN flow
      <4>1. flow'[i].key \in Keys /\ exchange[flow'[i].key].status # "none"
        BY <2>1, <2>4, <3>2 DEF Moves
      <4>2. CASE flow'[i].key \in Own
        BY <4>1, <4>2
      <4>3. CASE flow'[i].key \in Others
        BY <1>0, <4>3
      <4> QED BY <4>1, <4>2, <4>3, KeysApart
    <3> QED BY <3>1, <3>2
  <2> QED BY <2>2, <2>3, <2>4
<1>6. CASE Deliver
  <2>1. /\ UNCHANGED <<session, exchange, flow, storage>>
        /\ read' \in DOMAIN flow
    BY <1>6, ChainTypes DEF Deliver, OnRtnOrder, OnRtnTrade, Arrives, sender, worker
  <2>2. CASE order_updates' = order_updates
    BY <1>1, <2>1, <2>2
  <2>3. CASE order_updates' = Append(order_updates, flow[read'])
    <3>1. DOMAIN order_updates' = 1 .. Len(order_updates) + 1
      BY <2>3, ChainTypes, LenProperties DEF OrderInv, QueuesTyped
    <3>2. \A i \in DOMAIN order_updates' :
             order_updates'[i] = IF i \in DOMAIN order_updates THEN order_updates[i]
                                 ELSE flow[read']
      BY <2>3, <3>1, ChainTypes
    <3> QED BY <2>1, <3>2
  <2> QED BY <1>6, <2>2, <2>3 DEF Deliver, OnRtnOrder, OnRtnTrade
<1>7. CASE processOrderUpdate
  <2>1. /\ UNCHANGED <<session, exchange, flow>>
        /\ order_updates # <<>> /\ order_updates' = Tail(order_updates)
        /\ DOMAIN storage' = DOMAIN storage
    BY <1>7 DEF processOrderUpdate, sender, front, topic
  <2>2. \A i \in DOMAIN order_updates' :
           i + 1 \in DOMAIN order_updates /\ order_updates'[i] = order_updates[i + 1]
    BY <2>1, HeadTailProperties, ChainTypes DEF OrderInv, QueuesTyped
  <2> QED BY <2>1, <2>2
<1>8. CASE Freeze \/ Undo \/ cancelAllActive \/ \E r \in Refs : cancelOrder(r)
  BY <1>1, <1>8 DEF Freeze, Undo, cancelAllActive, cancelOrder, rings, front, topic,
                    worker, sender
<1>9. CASE processTradeUpdate \/ NextLoop
  BY <1>1, <1>9 DEF processTradeUpdate, NextLoop, sender, rings, front, topic
<1>10. CASE UNCHANGED vars
  BY <1>1, <1>10 DEF vars, sender, rings, front, topic, worker
<1> QED BY <1>2, <1>3, <1>4, <1>5, <1>6, <1>7, <1>8, <1>9, <1>10 DEF Next, Send, Work

\* A message that reaches the SPI thread takes its place in the chain.
LEMMA DeliverChain ==
    ASSUME OrderInv, ChainInv, Deliver
    PROVE  ChainInv'
<1>1. /\ UNCHANGED <<session, exchange, flow, storage>>
      /\ read' = read + 1 /\ read' \in DOMAIN flow
  BY ChainTypes DEF Deliver, OnRtnOrder, OnRtnTrade, Arrives, sender, worker
<1>s. \A k : Shared(k)' <=> Shared(k)
  BY <1>1 DEF Shared
<1>2. read \in Nat /\ read' \in Nat /\ read' > read /\ DOMAIN flow \subseteq Nat
  BY <1>1, ChainTypes
<1>3. \A i \in DOMAIN order_updates :
         order_updates[i].key[1] = session =>
             Future(order_updates[i].key, order_updates[i].rec, exchange, flow, read')
  BY <1>2 DEF ChainInv, Future
<1>4. \A k \in DOMAIN storage :
         k[1] = session /\ ~Shared(k) => Future(k, storage[k], exchange, flow, read')
  BY <1>2 DEF ChainInv, Future
<1>5. CASE order_updates' = order_updates
  BY <1>1, <1>3, <1>4, <1>5, <1>s DEF ChainInv
<1>6. CASE OnRtnOrder /\ order_updates' = Append(order_updates, flow[read'])
  <2> DEFINE m == flow[read']
  <2>1. m.kind = "order"
    BY <1>1, <1>6 DEF OnRtnOrder, Arrives
  <2>2. DOMAIN order_updates' = 1 .. Len(order_updates) + 1
    BY <1>6, ChainTypes, LenProperties DEF OrderInv, QueuesTyped
  <2>3. /\ \A i \in DOMAIN order_updates : order_updates'[i] = order_updates[i]
        /\ \A i \in DOMAIN order_updates' :
              i \notin DOMAIN order_updates =>
                  order_updates'[i] = m /\ i = Len(order_updates) + 1
    BY <1>6, <2>2, ChainTypes
  <2>4. Future(m.key, m.rec, exchange, flow, read')
    BY <1>1, <2>1 DEF ChainInv
  <2>5. \A i \in DOMAIN order_updates :
           order_updates[i].key[1] = session /\ order_updates[i].key = m.key =>
               Precedes(order_updates[i].rec, m.rec)
    BY <1>1, <1>2, <2>1 DEF ChainInv, Future
  <2>6. \A k \in DOMAIN storage :
           k[1] = session /\ ~Shared(k) /\ m.key = k => Precedes(storage[k], m.rec)
    BY <1>1, <1>2, <2>1 DEF ChainInv, Future
  <2> HIDE DEF m
  <2>7. \A i \in DOMAIN order_updates' :
           order_updates'[i].key[1] = session =>
               Future(order_updates'[i].key, order_updates'[i].rec, exchange, flow, read')
    BY <1>3, <2>3, <2>4
  <2>8. ASSUME NEW i \in DOMAIN order_updates', NEW j \in DOMAIN order_updates',
               i < j, order_updates'[i].key = order_updates'[j].key,
               order_updates'[i].key[1] = session
        PROVE  Precedes(order_updates'[i].rec, order_updates'[j].rec)
    <3>1. i \in DOMAIN order_updates
      BY <2>2, <2>8, ChainTypes
    <3>2. CASE j \in DOMAIN order_updates
      BY <2>3, <2>8, <3>1, <3>2 DEF ChainInv
    <3>3. CASE j \notin DOMAIN order_updates
      BY <2>3, <2>5, <2>8, <3>1, <3>3
    <3> QED BY <3>2, <3>3
  <2>9. ASSUME NEW k \in DOMAIN storage, k[1] = session, ~Shared(k),
               NEW i \in DOMAIN order_updates', order_updates'[i].key = k
        PROVE  Precedes(storage[k], order_updates'[i].rec)
    <3>1. CASE i \in DOMAIN order_updates
      BY <2>3, <2>9, <3>1 DEF ChainInv
    <3>2. CASE i \notin DOMAIN order_updates
      BY <2>3, <2>6, <2>9, <3>2
    <3> QED BY <3>1, <3>2
  <2> QED BY <1>1, <1>4, <1>s, <2>7, <2>8, <2>9 DEF ChainInv
<1> QED BY <1>5, <1>6 DEF Deliver, OnRtnOrder, OnRtnTrade

\* What processOrderUpdate does to the records: the one of the report takes its
\* traded lots and its status, unless two orders have the same number.
LEMMA UpdateTakes ==
    ASSUME OrderInv, processOrderUpdate
    PROVE  /\ order_updates # <<>> /\ order_updates' = Tail(order_updates)
           /\ UNCHANGED <<session, exchange, flow, read>>
           /\ DOMAIN storage' = DOMAIN storage
           /\ \A k \in DOMAIN storage :
                 \/ storage'[k] = storage[k]
                 \/ /\ k = order_updates[1].key
                    /\ storage'[k].traded = order_updates[1].rec.traded
                    /\ storage'[k].status = order_updates[1].rec.status
                 \/ Shared(k) /\ Shared(order_updates[1].key)
<1> DEFINE msg == order_updates[1]
<1>1. /\ order_updates # <<>> /\ order_updates' = Tail(order_updates)
      /\ UNCHANGED <<session, exchange, flow, read>>
  BY DEF processOrderUpdate, sender, front, topic
<1>2. msg = Head(order_updates) /\ msg \in NamedMsg
  BY <1>1, HeadTailProperties DEF OrderInv, QueuesTyped
<1>3. CASE UNCHANGED storage
  BY <1>1, <1>3
<1>4. ASSUME NEW k \in Found(msg),
             storage' = [storage EXCEPT ![k] = Updated(@, msg.rec)]
      PROVE  /\ DOMAIN storage' = DOMAIN storage
             /\ \A j \in DOMAIN storage :
                   \/ storage'[j] = storage[j]
                   \/ /\ j = msg.key
                      /\ storage'[j].traded = msg.rec.traded
                      /\ storage'[j].status = msg.rec.status
                   \/ Shared(j) /\ Shared(msg.key)
  <2>1. k \in DOMAIN storage /\ (k = msg.key \/ (Shared(k) /\ Shared(msg.key)))
    BY <1>1, <1>2, <1>4, FoundShared
  <2>2. msg.rec \in OrderRecord
    BY <1>2 DEF NamedMsg, OrderMsg
  <2>3. /\ Updated(storage[k], msg.rec).traded = msg.rec.traded
        /\ Updated(storage[k], msg.rec).status = msg.rec.status
    BY <2>2 DEF Updated, OrderRecord
  <2>4. /\ DOMAIN storage' = DOMAIN storage
        /\ storage'[k] = Updated(storage[k], msg.rec)
        /\ \A j \in DOMAIN storage : j # k => storage'[j] = storage[j]
    BY <1>4, <2>1
  <2> QED BY <2>1, <2>3, <2>4
<1>5. \/ UNCHANGED storage
      \/ \E k \in Found(msg) : storage' = [storage EXCEPT ![k] = Updated(@, msg.rec)]
  BY <1>2 DEF processOrderUpdate
<1> QED BY <1>1, <1>3, <1>4, <1>5

\* Only traded lots and status count.
LEMMA SameFuture ==
    ASSUME NEW a, NEW b, a.traded = b.traded, a.status = b.status
    PROVE  /\ \A c : Precedes(a, c) => Precedes(b, c)
           /\ \A k, ex, fl, n : Future(k, a, ex, fl, n) => Future(k, b, ex, fl, n)
<1>1. \A c : Precedes(a, c) => Precedes(b, c)
  BY DEF Precedes
<1> QED BY <1>1 DEF Future

\* The report the worker takes out was the first of the chain after the record.
LEMMA UpdateChain ==
    ASSUME OrderInv, ChainInv, processOrderUpdate
    PROVE  ChainInv'
<1> DEFINE msg == order_updates[1]
<1>1. /\ order_updates # <<>> /\ order_updates' = Tail(order_updates)
      /\ UNCHANGED <<session, exchange, flow, read>>
      /\ DOMAIN storage' = DOMAIN storage
      /\ \A k \in DOMAIN storage :
            \/ storage'[k] = storage[k]
            \/ /\ k = msg.key
               /\ storage'[k].traded = msg.rec.traded
               /\ storage'[k].status = msg.rec.status
            \/ Shared(k)
  BY UpdateTakes
<1>2. /\ 1 \in DOMAIN order_updates
      /\ DOMAIN order_updates' \subseteq Nat \ {0}
      /\ \A i \in DOMAIN order_updates' :
            i + 1 \in DOMAIN order_updates /\ order_updates'[i] = order_updates[i + 1]
  <2>1. order_updates \in Seq(NamedMsg)
    BY DEF OrderInv, QueuesTyped
  <2>2. /\ Tail(order_updates) \in Seq(NamedMsg)
        /\ Len(Tail(order_updates)) = Len(order_updates) - 1
        /\ \A i \in 1 .. Len(Tail(order_updates)) :
              Tail(order_updates)[i] = order_updates[i + 1]
    BY <1>1, <2>1, HeadTailProperties
  <2>3. DOMAIN order_updates' = 1 .. Len(order_updates) - 1 /\ Len(order_updates) >= 1
    BY <1>1, <2>1, <2>2, LenProperties, EmptySeq
  <2> QED BY <1>1, <2>2, <2>3, ChainTypes
<1>3. \A i \in DOMAIN order_updates' :
         order_updates'[i].key[1] = session =>
             Future(order_updates'[i].key, order_updates'[i].rec, exchange, flow, read)
  BY <1>2 DEF ChainInv
<1>4. \A i, j \in DOMAIN order_updates' :
         /\ i < j /\ order_updates'[i].key = order_updates'[j].key
         /\ order_updates'[i].key[1] = session
         => Precedes(order_updates'[i].rec, order_updates'[j].rec)
  <2>1. \A i, j \in DOMAIN order_updates' : i < j => i + 1 < j + 1
    BY <1>2
  <2> QED BY <1>2, <2>1 DEF ChainInv
<1>5. ASSUME NEW k \in DOMAIN storage, k[1] = session, ~Shared(k)
      PROVE  /\ Future(k, storage'[k], exchange, flow, read)
             /\ \A i \in DOMAIN order_updates' :
                   order_updates'[i].key = k => Precedes(storage'[k], order_updates'[i].rec)
  <2>1. CASE storage'[k] = storage[k]
    BY <1>2, <1>5, <2>1 DEF ChainInv
  <2>2. CASE /\ k = msg.key /\ storage'[k].traded = msg.rec.traded
             /\ storage'[k].status = msg.rec.status
    <3>1. Future(k, msg.rec, exchange, flow, read)
      BY <1>2, <1>5, <2>2 DEF ChainInv
    <3>2. \A i \in DOMAIN order_updates' :
             order_updates'[i].key = k => Precedes(msg.rec, order_updates'[i].rec)
      <4>1. \A i \in DOMAIN order_updates' : 1 < i + 1
        BY <1>2
      <4> QED BY <1>2, <1>5, <2>2, <4>1 DEF ChainInv
    <3> QED BY <2>2, <3>1, <3>2, SameFuture
  <2> QED BY <1>1, <1>5, <2>1, <2>2
<1>6. \A k : Shared(k)' <=> Shared(k)
  BY <1>1 DEF Shared
<1> QED BY <1>1, <1>3, <1>4, <1>5, <1>6 DEF ChainInv

\* The chain of each order is kept by every step.
LEMMA ChainKept ==
    ASSUME OrderInv, OrderInv', SessionsInv, ChainInv, [Next]_vars
    PROVE  ChainInv'
<1>s. /\ \A k \in Keys : Shared(k) => Shared(k)'
      /\ DOMAIN storage \subseteq Keys /\ DOMAIN storage' \subseteq Keys
  BY SharedStays, KeysApart DEF OrderInv, RecordInv
<1>1. CASE UNCHANGED <<session, exchange, flow, read, order_updates, storage>>
  BY <1>s, <1>1 DEF ChainInv
<1>2. CASE ReqOrderInsert
  <2>1. UNCHANGED <<session, flow, read, order_updates, storage>>
    BY <1>2 DEF ReqOrderInsert, rings, worker, topic
  <2>2. CASE exchange' = exchange
    BY <1>1, <2>1, <2>2
  <2>3. CASE exchange' # exchange
    <3> DEFINE k == <<session, ref>>
    <3>1. /\ k \in Keys /\ exchange[k].status = "none"
          /\ exchange' = [exchange EXCEPT ![k].status = "submitted"]
      <4>1. k \in Keys
        BY <1>2, KeysApart DEF ReqOrderInsert, OrderInv, SenderInv
      <4>2. exchange' = [exchange EXCEPT ![k].status =
                             IF @ = "none" THEN "submitted" ELSE @]
        BY <1>2, <2>3 DEF ReqOrderInsert
      <4> HIDE DEF k
      <4>3. exchange[k] \in ExchangeState /\ exchange \in [Keys -> ExchangeState]
        BY <4>1, ChainTypes
      <4>4. ASSUME exchange[k].status # "none" PROVE FALSE
        <5>1. exchange' = [exchange EXCEPT ![k] =
                               [exchange[k] EXCEPT !.status = exchange[k].status]]
          BY <4>2, <4>3, <4>4
        <5>2. [exchange[k] EXCEPT !.status = exchange[k].status] = exchange[k]
          BY <4>3 DEF ExchangeState
        <5> QED BY <2>3, <4>3, <5>1, <5>2
      <4> QED BY <4>1, <4>2, <4>3, <4>4
    <3> HIDE DEF k
    <3>2. /\ \A j \in Keys \ {k} : exchange'[j] = exchange[j]
          /\ exchange'[k].traded = exchange[k].traded
          /\ exchange'[k].status = "submitted"
      BY <3>1, ChainTypes DEF ExchangeState
    <3>4. \A r : Precedes(r, exchange[k]) => Precedes(r, exchange'[k])
      BY <3>1, <3>2 DEF Precedes, isFinal
    <3>5. \A j \in Keys : \A r, n : Future(j, r, exchange, flow, n) => Future(j, r, exchange', flow, n)
      BY <3>2, <3>4 DEF Future
    <3>6. \A j \in Keys : Traded(exchange'[j].status) \/ exchange'[j].traded = 0
      BY <3>1, <3>2 DEF ChainInv, Traded
    <3> QED BY <1>s, <2>1, <3>5, <3>6, ChainTypes DEF ChainInv
  <2> QED BY <2>2, <2>3
<1>3. CASE Create
  <2>1. UNCHANGED <<session, exchange, flow, read, order_updates>>
    BY <1>3 DEF Create, rings, front, topic
  <2>2. \A k \in DOMAIN storage' :
           \/ k \in DOMAIN storage /\ storage'[k] = storage[k]
           \/ k \in Keys /\ storage'[k] = Fresh
    BY <1>3, KeysApart DEF Create, Put, OrderInv, SenderInv
  <2>3. ASSUME NEW k \in DOMAIN storage', k[1] = session, ~Shared(k)
        PROVE  /\ Future(k, storage'[k], exchange, flow, read)
               /\ \A i \in DOMAIN order_updates :
                     order_updates[i].key = k =>
                         Precedes(storage'[k], order_updates[i].rec)
    <3>1. CASE k \in DOMAIN storage /\ storage'[k] = storage[k]
      BY <2>3, <3>1 DEF ChainInv
    <3>2. CASE k \in Keys /\ storage'[k] = Fresh
      <4>1. \A a \in ExchangeState : Precedes(Fresh, a)
        BY PrecedesOrder
      <4>2. /\ \A i \in DOMAIN order_updates : Precedes(Fresh, order_updates[i].rec)
            /\ \A j \in DOMAIN flow :
                  flow[j].kind = "order" => Precedes(Fresh, flow[j].rec)
            /\ Precedes(Fresh, exchange[k])
        BY <3>2, <4>1, ChainTypes
      <4> QED BY <3>2, <4>2 DEF Future
    <3> QED BY <2>2, <2>3, <3>1, <3>2
  <2> QED BY <1>s, <2>1, <2>3 DEF ChainInv
<1>4. CASE OnRspUserLogin
  <2>1. /\ UNCHANGED <<exchange, flow, order_updates, storage>>
        /\ session' = session + 1 /\ session \in Nat
    BY <1>4, ChainTypes DEF OnRspUserLogin, rings, worker
  <2>2. \A n : n <= session => n # session'
    BY <2>1
  <2>3. /\ \A i \in DOMAIN order_updates : order_updates[i].key[1] # session'
        /\ \A k \in DOMAIN storage : k[1] # session'
    BY <2>2 DEF SessionsInv
  <2> QED BY <2>1, <2>3 DEF ChainInv
<1>5. ASSUME NEW k \in Keys, Exchange(k) PROVE ChainInv'
  <2>1. Moves
    BY <1>5, ExchangeMoves
  <2>2. UNCHANGED <<session, read, order_updates, storage>>
    BY <1>5 DEF Exchange, Acknowledge, RefuseInsert, Enqueue, Reject, Trade,
                Cancel, Becomes, sender, worker, rings, topic
  <2>3. exchange' \in [Keys -> ExchangeState]
    BY DEF OrderInv, FrontInv
  <2>4. ASSUME NEW i \in DOMAIN flow', flow'[i].kind = "order"
        PROVE  Future(flow'[i].key, flow'[i].rec, exchange', flow', i)
    <3>1. CASE i \in DOMAIN flow
      <4>1. flow'[i] = flow[i] /\ i \in Nat
        BY <2>1, <3>1 DEF Moves
      <4>2. Future(flow[i].key, flow[i].rec, exchange, flow, i)
        BY <2>4, <3>1, <4>1 DEF ChainInv
      <4> QED BY <2>1, <2>3, <2>4, <3>1, <4>1, <4>2, ChainTypes, FutureMoves
    <3>2. CASE i \notin DOMAIN flow
      <4>1. /\ flow'[i].rec = exchange'[flow'[i].key] /\ i = Len(flow) + 1
            /\ flow'[i].key \in Keys
        BY <2>1, <2>4, <3>2 DEF Moves
      <4>2. Precedes(flow'[i].rec, exchange'[flow'[i].key])
        BY <2>3, <4>1, PrecedesOrder
      <4>3. \A j \in DOMAIN flow' : flow'[j].kind = "order" => ~(j > i)
        BY <2>1, <4>1 DEF Moves
      <4> QED BY <4>2, <4>3 DEF Future
    <3> QED BY <3>1, <3>2
  <2>5. \A i \in DOMAIN order_updates :
           order_updates[i].key[1] = session =>
               Future(order_updates[i].key, order_updates[i].rec, exchange', flow', read)
    BY <2>1, <2>3, ChainTypes, FutureMoves DEF ChainInv
  <2>6. \A j \in DOMAIN storage :
           j[1] = session /\ ~Shared(j) => Future(j, storage[j], exchange', flow', read)
    BY <2>1, <2>3, ChainTypes, FutureMoves DEF ChainInv
  <2>7. \A j \in Keys : Traded(exchange'[j].status) \/ exchange'[j].traded = 0
    BY <2>1 DEF Moves
  <2> QED BY <1>s, <2>2, <2>4, <2>5, <2>6, <2>7 DEF ChainInv
<1>6. CASE Freeze \/ Undo \/ cancelAllActive \/ \E r \in Refs : cancelOrder(r)
  BY <1>1, <1>6 DEF Freeze, Undo, cancelAllActive, cancelOrder, rings, front, topic,
                    worker, sender
<1>7. CASE processTradeUpdate \/ NextLoop
  BY <1>1, <1>7 DEF processTradeUpdate, NextLoop, sender, rings, front, topic
<1>8. CASE UNCHANGED vars
  BY <1>1, <1>8 DEF vars, sender, rings, front, topic, worker
<1> QED BY <1>2, <1>3, <1>4, <1>5, <1>6, <1>7, <1>8, DeliverChain, UpdateChain
        DEF Next, Send, Work

\* The chain holds in every reachable state.
THEOREM ChainsHold == Spec => [](OrderInv /\ SessionsInv /\ ChainInv)
<1>1. Init => SessionsInv /\ ChainInv
  <2> SUFFICES ASSUME Init PROVE SessionsInv /\ ChainInv
    OBVIOUS
  <2>1. /\ storage = <<>> /\ order_updates = <<>> /\ flow = <<>>
        /\ \A k \in Keys :
              \/ exchange[k] = [Fresh EXCEPT !.status = "none"]
              \/ k \in Others /\ exchange[k] = Working(k)
    BY DEF Init
  <2>2. DOMAIN storage = {} /\ DOMAIN order_updates = {} /\ DOMAIN flow = {}
    BY <2>1
  <2>3. \A k \in Own : exchange[k].status = "none"
    BY <2>1, KeysApart DEF Fresh
  <2>4. \A k \in Keys : exchange[k].traded = 0
    <3>1. \A k \in Keys : 0 \in 0 .. Size(k)
      BY Sizes
    <3>2. [Fresh EXCEPT !.status = "none"].traded = 0
      BY DEF Fresh
    <3>3. \A k \in Keys : Working(k).traded = 0
      BY <3>1, NewOrdersSound
    <3> QED BY <2>1, <3>2, <3>3
  <2> QED BY <2>2, <2>3, <2>4 DEF SessionsInv, ChainInv
<1>2. ASSUME OrderInv, OrderInv', SessionsInv /\ ChainInv, [Next]_vars
      PROVE  (SessionsInv /\ ChainInv)'
  BY <1>2, SessionsKept, ChainKept
<1> QED BY <1>1, <1>2, OrderInvariant, PTL DEF Spec

\* A record never falls back while its session lasts: whatever the rings drop,
\* however the replay of a new session overtakes what the worker still holds,
\* unless an order of another exchange has its number.
THEOREM NothingRegresses == Spec => RecordsNeverRegress
<1> DEFINE Forward ==
             \A k \in DOMAIN storage : k[1] = session /\ ~Shared(k) =>
                 /\ storage'[k].traded >= storage[k].traded
                 /\ isFinal(storage[k].status) =>
                        storage'[k].status = storage[k].status
<1>1. ASSUME OrderInv, ChainInv, [Next]_vars
      PROVE  Forward
  <2>0. \A k \in DOMAIN storage : storage[k].traded \in Nat
    BY <1>1, ChainTypes, BoundAssumption DEF ExchangeState
  <2>1. CASE \A k \in DOMAIN storage : storage'[k] = storage[k]
    BY <2>0, <2>1
  <2>2. CASE processOrderUpdate
    <3>1. /\ 1 \in DOMAIN order_updates
          /\ \A k \in DOMAIN storage :
                \/ storage'[k] = storage[k]
                \/ /\ k = order_updates[1].key
                   /\ storage'[k].traded = order_updates[1].rec.traded
                   /\ storage'[k].status = order_updates[1].rec.status
                \/ Shared(k)
      <4>1. order_updates # <<>> /\ order_updates \in Seq(NamedMsg)
        BY <1>1, <2>2, UpdateTakes DEF OrderInv, QueuesTyped
      <4>2. 1 \in DOMAIN order_updates
        BY <4>1, LenProperties, EmptySeq
      <4> QED BY <1>1, <2>2, <4>2, UpdateTakes
    <3>2. /\ order_updates[1].rec.traded \in Nat
      BY <1>1, <3>1, ChainTypes, BoundAssumption DEF ExchangeState
    <3>3. \A k \in DOMAIN storage :
             k[1] = session /\ ~Shared(k) /\ k = order_updates[1].key =>
                 Precedes(storage[k], order_updates[1].rec)
      BY <1>1, <3>1 DEF ChainInv
    <3> QED BY <2>0, <3>1, <3>2, <3>3 DEF Precedes
  <2>3. CASE Create
    BY <2>1, <2>3 DEF Create, Put
  <2>4. CASE UNCHANGED storage
    BY <2>1, <2>4
  <2>5. CASE \E k \in Keys : Exchange(k)
    BY <2>4, <2>5 DEF Exchange, Acknowledge, RefuseInsert, Enqueue, Reject, Trade,
                      Cancel, Becomes, worker
  <2>6. CASE Freeze \/ ReqOrderInsert \/ Undo \/ cancelAllActive
             \/ OnRspUserLogin \/ \E r \in Refs : cancelOrder(r)
    BY <2>4, <2>6 DEF Freeze, ReqOrderInsert, Undo, cancelAllActive, OnRspUserLogin,
                      cancelOrder, worker
  <2>7. CASE Deliver \/ processTradeUpdate \/ NextLoop \/ UNCHANGED vars
    BY <2>4, <2>7 DEF Deliver, OnRtnOrder, OnRtnTrade, Arrives, processTradeUpdate,
                      NextLoop, vars, worker
  <2> QED BY <1>1, <2>2, <2>3, <2>5, <2>6, <2>7 DEF Next, Send, Work
<1>2. ASSUME OrderInv, ChainInv, [Next]_vars
      PROVE  [Forward]_vars
  BY <1>1, <1>2
<1> QED BY <1>2, ChainsHold, PTL DEF Spec, RecordsNeverRegress

----------------------------------------------------------------------------
(* What is frozen is released once.  Each message is worth the lots that   *)
(* processing it releases or books; the messages of an order, and those    *)
(* the exchange may still send, are together worth no more than was frozen *)
(* for it.  A session that pushes messages again has them processed again:  *)
(* of the orders they are about (replayed) nothing is said.                 *)

\* What processing a message releases or books of order k.
Worth(m, k) ==
    IF m.key # k THEN 0
    ELSE IF m.kind = "order" THEN ToRelease(m.key, m.rec) ELSE m.vol

\* What the messages after number n weigh, each as w says.
Weighed(seq, n, w) ==
    Total(Len(seq), [i \in 1 .. Len(seq) |-> IF n < i THEN w[seq[i]] ELSE 0])

\* What the messages after number n do.
Worths(k) == [m \in Messages |-> Worth(m, k)]

Coming(seq, n, k) == Weighed(seq, n, Worths(k))

\* What messages the exchange has still to send may do.
ToCome(state) ==
    IF state.status \in {"submitted", "unknown", "noTrade", "partTraded"}
    THEN Lots - state.traded ELSE 0

Undoing(k) == IF pc = "undo" /\ inserted = k THEN Lots ELSE 0

\* A live order of ours has nothing but what is traded and what is left.
LiveSound(state) ==
    state.status \in {"noTrade", "partTraded"} =>
        ~state.rejected /\ state.traded + state.total = Lots

LiveInv == \A k \in Own : LiveSound(exchange[k])

ReleaseInv ==
    \A k \in Own \ replayed :
        thawed[k] + booked[k]
            + Coming(order_updates, 0, k) + Coming(trade_updates, 0, k)
            + Coming(flow, reached, k) + ToCome(exchange[k]) + Undoing(k)
        <= frozen[k]

\* Of another terminal's order nothing is released, unless its number is shared.
ForeignInv == \A k \in Others : ~Shared(k) => thawed[k] = 0

\* A message releases a number of lots.
LEMMA WorthIsNat ==
    ASSUME NEW m \in Messages, NEW k
    PROVE  Worth(m, k) \in Nat
<1>1. CASE m \in NamedMsg
  <2>1. m.kind = "order" /\ ToRelease(m.key, m.rec) \in Nat
    BY <1>1, ToReleaseIsNat DEF NamedMsg, OrderMsg
  <2> QED BY <2>1 DEF Worth
<1>2. CASE m \in TradeMsg
  <2>1. m.vol \in Nat /\ m.kind = "trade"
    BY <1>2 DEF TradeMsg
  <2> QED BY <2>1 DEF Worth
<1> QED BY <1>1, <1>2 DEF Messages

\* So Worths is a weight.
LEMMA WorthsAreNat ==
    ASSUME NEW k
    PROVE  /\ Worths(k) \in [Messages -> Nat]
           /\ \A m \in Messages : Worths(k)[m] = Worth(m, k)
BY WorthIsNat DEF Worths

\* The terms of Weighed.
LEMMA TermsOfWeighed ==
    ASSUME NEW seq \in Seq(Messages), NEW n \in Nat, NEW w \in [Messages -> Nat]
    PROVE  /\ Len(seq) \in Nat
           /\ [i \in 1 .. Len(seq) |-> IF n < i THEN w[seq[i]] ELSE 0]
                  \in [1 .. Len(seq) -> Nat]
<1>1. Len(seq) \in Nat
  BY LenProperties
<1>2. \A i \in 1 .. Len(seq) : w[seq[i]] \in Nat
  BY ElementOfSeq
<1> QED BY <1>1, <1>2

\* A total of natural numbers is one.
LEMMA TotalOfNats ==
    ASSUME NEW l \in Nat, NEW f \in [1 .. l -> Nat]
    PROVE  Total(l, f) \in Nat
<1>1. f \in [1 .. l -> Int] /\ \A j \in 1 .. l : f[j] >= 0
  OBVIOUS
<1> QED BY <1>1, TotalBounds

\* A sequence of messages weighs a number of lots.
LEMMA WeighedIsNat ==
    ASSUME NEW seq \in Seq(Messages), NEW n \in Nat, NEW w \in [Messages -> Nat]
    PROVE  Weighed(seq, n, w) \in Nat
<1> DEFINE f == [i \in 1 .. Len(seq) |-> IF n < i THEN w[seq[i]] ELSE 0]
<1>1. Len(seq) \in Nat /\ f \in [1 .. Len(seq) -> Nat]
  BY TermsOfWeighed
<1> HIDE DEF f
<1>2. Total(Len(seq), f) \in Nat
  BY <1>1, TotalOfNats
<1> QED BY <1>2 DEF Weighed, f

\* The message number n + 1 is dealt with.
LEMMA WeighedNext ==
    ASSUME NEW seq \in Seq(Messages), NEW n \in Nat, n + 1 \in 1 .. Len(seq),
           NEW w \in [Messages -> Nat]
    PROVE  Weighed(seq, n, w) = w[seq[n + 1]] + Weighed(seq, n + 1, w)
<1> DEFINE f == [i \in 1 .. Len(seq) |-> IF n < i THEN w[seq[i]] ELSE 0]
           g == [i \in 1 .. Len(seq) |-> IF n + 1 < i THEN w[seq[i]] ELSE 0]
<1>1. Len(seq) \in Nat /\ f \in [1 .. Len(seq) -> Nat]
  BY TermsOfWeighed
<1>0. g \in [1 .. Len(seq) -> Nat]
  <2>1. n + 1 \in Nat
    OBVIOUS
  <2> QED BY <2>1, TermsOfWeighed
<1>2. \A j \in 1 .. Len(seq) : j # n + 1 => g[j] = f[j]
  OBVIOUS
<1>3. f[n + 1] = w[seq[n + 1]] /\ g[n + 1] = 0
  OBVIOUS
<1> HIDE DEF f, g
<1>4. f \in [1 .. Len(seq) -> Int] /\ g \in [1 .. Len(seq) -> Int] /\ f[n + 1] \in Int
  BY <1>0, <1>1
<1>5. /\ Total(Len(seq), f) \in Int
      /\ Total(Len(seq), g) = Total(Len(seq), f) + g[n + 1] - f[n + 1]
  BY <1>1, <1>2, <1>4, TotalUpdate
<1>6. Total(Len(seq), f) = w[seq[n + 1]] + Total(Len(seq), g)
  BY <1>3, <1>4, <1>5
<1> QED BY <1>6 DEF Weighed, f, g

\* A message is sent.
LEMMA WeighedAppend ==
    ASSUME NEW seq \in Seq(Messages), NEW m \in Messages, NEW n \in 0 .. Len(seq),
           NEW w \in [Messages -> Nat]
    PROVE  Weighed(Append(seq, m), n, w) = Weighed(seq, n, w) + w[m]
<1> DEFINE l == Len(seq)
           more == Append(seq, m)
           f == [i \in 1 .. l |-> IF n < i THEN w[seq[i]] ELSE 0]
           g == [i \in 1 .. Len(more) |-> IF n < i THEN w[more[i]] ELSE 0]
<1>1. /\ more \in Seq(Messages) /\ l \in Nat /\ Len(more) = l + 1
      /\ \A i \in 1 .. l : more[i] = seq[i]
      /\ more[l + 1] = m
  BY AppendProperties, LenProperties
<1>2. n \in Nat
  BY <1>1
<1>3. f \in [1 .. l -> Nat] /\ g \in [1 .. Len(more) -> Nat]
  BY <1>1, <1>2, TermsOfWeighed
<1> HIDE DEF more, l
<1>4. \A j \in 1 .. l : g[j] = f[j]
  BY <1>1
<1>5. g[l + 1] = w[m]
  <2>1. l + 1 \in 1 .. Len(more) /\ n < l + 1
    BY <1>1, <1>2 DEF l
  <2> QED BY <1>1, <2>1
<1> HIDE DEF f, g
<1>6. f \in [1 .. l -> Int] /\ g \in [1 .. l + 1 -> Int]
  BY <1>1, <1>3
<1>7. Total(l + 1, g) = Total(l, f) + g[l + 1]
  BY <1>1, <1>4, <1>6, TotalAppend
<1> QED BY <1>1, <1>5, <1>7 DEF Weighed, f, g, l, more

\* The first message is taken out.
LEMMA WeighedTail ==
    ASSUME NEW seq \in Seq(Messages), seq # <<>>, NEW w \in [Messages -> Nat]
    PROVE  Weighed(seq, 0, w) = w[seq[1]] + Weighed(Tail(seq), 0, w)
<1> DEFINE l == Len(Tail(seq))
           f == [i \in 1 .. Len(Tail(seq)) |-> IF 0 < i THEN w[Tail(seq)[i]] ELSE 0]
           g == [i \in 1 .. Len(seq) |-> IF 0 < i THEN w[seq[i]] ELSE 0]
<1>1. /\ Tail(seq) \in Seq(Messages) /\ l \in Nat /\ Len(seq) = l + 1
      /\ \A i \in 1 .. l : Tail(seq)[i] = seq[i + 1]
  <2>1. Tail(seq) \in Seq(Messages) /\ Len(Tail(seq)) = Len(seq) - 1
    BY HeadTailProperties
  <2>2. Len(Tail(seq)) \in Nat /\ Len(seq) \in Nat
    BY <2>1, LenProperties
  <2>3. \A i \in 1 .. Len(Tail(seq)) : Tail(seq)[i] = seq[i + 1]
    BY HeadTailProperties
  <2> QED BY <2>1, <2>2, <2>3
<1>2. f \in [1 .. l -> Nat] /\ g \in [1 .. Len(seq) -> Nat]
  BY <1>1, TermsOfWeighed
<1>3. \A j \in 1 .. l : g[j + 1] = f[j]
  <2> HIDE DEF l
  <2>1. ASSUME NEW j \in 1 .. l PROVE g[j + 1] = f[j]
    <3>1. j + 1 \in 1 .. Len(seq) /\ 0 < j /\ 0 < j + 1 /\ j \in 1 .. Len(Tail(seq))
      BY <1>1, <2>1 DEF l
    <3> QED BY <1>1, <2>1, <3>1
  <2> QED BY <2>1
<1>4. g[1] = w[seq[1]]
  <2>1. 1 \in 1 .. Len(seq)
    BY <1>1
  <2> QED BY <2>1
<1> HIDE DEF f, g
<1>5. f \in [1 .. l -> Int] /\ g \in [1 .. l + 1 -> Int] /\ g[1] \in Int
  BY <1>1, <1>2
<1> HIDE DEF l
<1>6. Total(l, f) \in Int /\ Total(l + 1, g) = Total(l, f) + g[1]
  BY <1>1, <1>3, <1>5, TotalTail
<1>7. Total(l + 1, g) = g[1] + Total(l, f)
  BY <1>5, <1>6
<1> QED BY <1>1, <1>4, <1>7 DEF Weighed, f, g, l

\* Messages that weigh nothing add up to nothing.
LEMMA WeighedOfNothing ==
    ASSUME NEW seq \in Seq(Messages), NEW n \in Nat, NEW w \in [Messages -> Nat],
           \A i \in 1 .. Len(seq) : n < i => w[seq[i]] = 0
    PROVE  Weighed(seq, n, w) = 0
<1>1. Len(seq) \in Nat
  BY LenProperties
<1>2. [i \in 1 .. Len(seq) |-> IF n < i THEN w[seq[i]] ELSE 0]
        = [i \in 1 .. Len(seq) |-> 0]
  OBVIOUS
<1> QED BY <1>1, <1>2, TotalZero DEF Weighed

\* The same of what messages do to an order.
LEMMA ComingIsNat ==
    ASSUME NEW seq \in Seq(Messages), NEW n \in Nat, NEW k
    PROVE  Coming(seq, n, k) \in Nat
BY WorthsAreNat, WeighedIsNat DEF Coming

\* The message number n + 1 is dealt with.
LEMMA ComingNext ==
    ASSUME NEW seq \in Seq(Messages), NEW n \in Nat, n + 1 \in 1 .. Len(seq), NEW k
    PROVE  Coming(seq, n, k) = Worth(seq[n + 1], k) + Coming(seq, n + 1, k)
<1>1. seq[n + 1] \in Messages
  BY ElementOfSeq
<1> QED BY <1>1, WorthsAreNat, WeighedNext DEF Coming

\* A message is sent.
LEMMA ComingAppend ==
    ASSUME NEW seq \in Seq(Messages), NEW m \in Messages, NEW n \in 0 .. Len(seq), NEW k
    PROVE  Coming(Append(seq, m), n, k) = Coming(seq, n, k) + Worth(m, k)
BY WorthsAreNat, WeighedAppend DEF Coming

\* The first message is taken out.
LEMMA ComingTail ==
    ASSUME NEW seq \in Seq(Messages), seq # <<>>, NEW k
    PROVE  Coming(seq, 0, k) = Worth(seq[1], k) + Coming(Tail(seq), 0, k)
<1>1. seq[1] \in Messages
  BY HeadTailProperties
<1> QED BY <1>1, WorthsAreNat, WeighedTail DEF Coming

\* An empty sequence releases none.
LEMMA ComingOfNone ==
    ASSUME NEW k
    PROVE  Coming(<<>>, 0, k) = 0
<1>1. <<>> \in Seq(Messages) /\ Len(<<>>) = 0 /\ 0 \in Nat
  OBVIOUS
<1>2. \A i \in 1 .. Len(<<>>) : 0 < i => Worths(k)[<<>>[i]] = 0
  BY <1>1
<1> QED BY <1>1, <1>2, WorthsAreNat, WeighedOfNothing DEF Coming

\* What the types and the chain give about messages and counts.
LEMMA ReleaseTypes ==
    ASSUME OrderInv
    PROVE  /\ flow \in Seq(Messages) /\ order_updates \in Seq(Messages)
           /\ trade_updates \in Seq(Messages)
           /\ reached \in 0 .. Len(flow) /\ Len(flow) \in Nat /\ reached \in Nat
           /\ read \in Nat /\ read <= reached /\ Lots \in Nat /\ Lots > 0
           /\ \A k \in Own :
                 /\ frozen[k] \in Nat /\ thawed[k] \in Nat /\ booked[k] \in Nat
                 /\ ToCome(exchange[k]) \in Nat /\ Undoing(k) \in Nat
                 /\ Coming(order_updates, 0, k) \in Nat
                 /\ Coming(trade_updates, 0, k) \in Nat
                 /\ Coming(flow, reached, k) \in Nat
<1>1. /\ flow \in Seq(Messages) /\ read \in 0 .. Len(flow)
      /\ reached \in read .. Len(flow)
      /\ order_updates \in Seq(NamedMsg) /\ trade_updates \in Seq(TradeMsg)
  BY DEF OrderInv, FrontInv, QueuesTyped
<1>2. order_updates \in Seq(Messages) /\ trade_updates \in Seq(Messages)
  BY <1>1, SeqMonotonic DEF Messages
<1>3. /\ Len(flow) \in Nat /\ read \in Nat /\ reached \in Nat /\ read <= reached
      /\ reached \in 0 .. Len(flow) /\ Lots \in Nat /\ Lots > 0 /\ 0 \in Nat
  BY <1>1, LenProperties, BoundAssumption
<1>4. ASSUME NEW k \in Own
      PROVE  /\ frozen[k] \in Nat /\ thawed[k] \in Nat /\ booked[k] \in Nat
             /\ ToCome(exchange[k]) \in Nat /\ Undoing(k) \in Nat
  <2>1. k \in Keys
    BY KeysApart
  <2>2. frozen[k] \in Nat /\ thawed[k] \in Nat /\ booked[k] \in Nat
    BY <2>1 DEF OrderInv, SenderInv, RecordInv
  <2>3. exchange[k] \in ExchangeState
    BY <2>1 DEF OrderInv, FrontInv
  <2>4. exchange[k].traded \in 0 .. Lots
    BY <2>3 DEF ExchangeState
  <2>5. ToCome(exchange[k]) \in Nat
    BY <1>3, <2>4 DEF ToCome
  <2> QED BY <1>3, <2>2, <2>5 DEF Undoing
<1>5. ASSUME NEW k
      PROVE  /\ Coming(order_updates, 0, k) \in Nat
             /\ Coming(trade_updates, 0, k) \in Nat
             /\ Coming(flow, reached, k) \in Nat
  BY <1>1, <1>2, <1>3, ComingIsNat
<1> QED BY <1>1, <1>2, <1>3, <1>4, <1>5

\* What the exchange sends of an order it takes from what was to come of it.
Pays ==
    \A j \in Own, n \in 0 .. Len(flow) :
        /\ Coming(flow', n, j) \in Nat /\ ToCome(exchange'[j]) \in Nat
        /\ Coming(flow', n, j) + ToCome(exchange'[j])
               <= Coming(flow, n, j) + ToCome(exchange[j])

\* What an order may still release covers what its step sends.
LEMMA BecomesPays ==
    ASSUME OrderInv, NEW k \in Keys, NEW rec, NEW trades, NEW lots \in Nat,
           Sound(k, rec), rec.status \in Statuses,
           \/ trades = <<>> /\ lots = 0
           \/ \E m \in TradeMsg : trades = <<m>> /\ m.key = k /\ m.vol = lots,
           k \in Own => ToRelease(k, rec) + lots + ToCome(rec) <= ToCome(exchange[k]),
           Becomes(k, rec, trades)
    PROVE  Pays
<1> DEFINE report == Report(k, rec)
           with == Append(flow, report)
<1>1. rec \in OrderRecord
  BY DEF Sound, ExchangeState, OrderRecord
<1>2. report \in Messages /\ report.key = k /\ report.kind = "order" /\ report.rec = rec
  BY ReportNamed DEF Report, Messages
<1>3. flow \in Seq(Messages) /\ Len(flow) \in Nat
  BY ReleaseTypes
<1>4. exchange' = [exchange EXCEPT ![k] = rec] /\ flow' = with \o trades
      /\ exchange \in [Keys -> ExchangeState]
  BY DEF Becomes, OrderInv, FrontInv
<1> HIDE DEF report
<1>5. with \in Seq(Messages) /\ Len(with) = Len(flow) + 1
  BY <1>2, <1>3, AppendProperties
<1>6. \A j, n : n \in 0 .. Len(flow) =>
         Coming(with, n, j) = Coming(flow, n, j) + Worth(report, j)
  BY <1>2, <1>3, ComingAppend
<1> HIDE DEF with
<1>7. ASSUME NEW j \in Own, NEW n \in 0 .. Len(flow)
      PROVE  Coming(flow', n, j)
                 = Coming(flow, n, j) + Worth(report, j) + IF j = k THEN lots ELSE 0
  <2>1. n \in Nat /\ n \in 0 .. Len(with)
    BY <1>3, <1>5, <1>7
  <2>2. Coming(flow, n, j) \in Nat /\ Worth(report, j) \in Nat
    BY <1>2, <1>3, <2>1, ComingIsNat, WorthIsNat
  <2>3. CASE trades = <<>> /\ lots = 0
    <3>1. flow' = with
      BY <1>4, <1>5, <2>3, ConcatEmptySeq
    <3> QED BY <1>6, <1>7, <2>2, <2>3, <3>1
  <2>4. ASSUME NEW m \in TradeMsg, trades = <<m>>, m.key = k, m.vol = lots
        PROVE  Coming(flow', n, j)
                   = Coming(flow, n, j) + Worth(report, j) + IF j = k THEN lots ELSE 0
    <3>1. m \in Messages /\ m.kind = "trade"
      BY DEF Messages, TradeMsg
    <3>2. flow' = Append(with, m)
      BY <1>4, <1>5, <2>4, <3>1, AppendIsConcat
    <3>3. Coming(flow', n, j) = Coming(with, n, j) + Worth(m, j)
      BY <1>5, <2>1, <3>1, <3>2, ComingAppend
    <3>4. Worth(m, j) = IF j = k THEN lots ELSE 0
      BY <2>4, <3>1 DEF Worth
    <3>5. Coming(with, n, j) = Coming(flow, n, j) + Worth(report, j)
      BY <1>6, <1>7
    <3> QED BY <3>3, <3>4, <3>5
  <2> QED BY <2>3, <2>4
<1>8. ASSUME NEW j \in Own, NEW n \in 0 .. Len(flow)
      PROVE  /\ Coming(flow', n, j) \in Nat /\ ToCome(exchange'[j]) \in Nat
             /\ Coming(flow', n, j) + ToCome(exchange'[j])
                    <= Coming(flow, n, j) + ToCome(exchange[j])
  <2>0. n \in Nat
    BY <1>3, <1>8
  <2>1. Coming(flow, n, j) \in Nat /\ ToCome(exchange[j]) \in Nat
    BY <1>3, <2>0, ComingIsNat, ReleaseTypes
  <2>2. CASE j = k
    <3>1. Worth(report, j) = ToRelease(k, rec) /\ exchange'[j] = rec
      BY <1>2, <1>4, <2>2 DEF Worth
    <3>2. ToRelease(k, rec) \in Nat /\ ToCome(rec) \in Nat
      <4>1. rec.traded \in 0 .. Lots /\ Lots \in Nat
        BY <1>1, BoundAssumption DEF OrderRecord
      <4>2. Worth(report, j) \in Nat
        BY <1>2, WorthIsNat
      <4> QED BY <3>1, <4>1, <4>2 DEF ToCome
    <3>3. ToRelease(k, rec) + lots + ToCome(rec) <= ToCome(exchange[k])
      BY <1>8, <2>2
    <3>4. Coming(flow', n, j) = Coming(flow, n, j) + ToRelease(k, rec) + lots
      BY <1>7, <2>2, <3>1
    <3> QED BY <2>1, <2>2, <3>1, <3>2, <3>3, <3>4
  <2>3. CASE j # k
    <3>1. Worth(report, j) = 0 /\ exchange'[j] = exchange[j]
      BY <1>2, <1>4, <2>3, KeysApart DEF Worth
    <3>2. Coming(flow', n, j) = Coming(flow, n, j)
      BY <1>7, <2>1, <2>3, <3>1
    <3> QED BY <2>1, <3>1, <3>2
  <2> QED BY <2>2, <2>3
<1> QED BY <1>8 DEF Pays

\* What the next record of an order may still release, and the trade with it.
Covered(k, rec, lots) ==
    /\ rec.status \in Statuses
    /\ k \in Own => LiveSound(rec) /\ ToRelease(k, rec) + lots + ToCome(rec)
                                        <= ToCome(exchange[k])

\* Every step of the exchange.
LEMMA ExchangePays ==
    ASSUME OrderInv, OrderInv', ChainInv, LiveInv, NEW k \in Keys, Exchange(k)
    PROVE  Pays /\ LiveInv'
<1>0. /\ Lots \in Nat /\ Lots > 0
      /\ Size(k) \in Nat /\ Size(k) <= Lots /\ (k \in Own => Size(k) = Lots)
      /\ exchange \in [Keys -> ExchangeState] /\ exchange[k] \in ExchangeState
      /\ exchange[k].traded \in 0 .. Lots /\ exchange[k].total \in 0 .. Lots
      /\ Traded(exchange[k].status) \/ exchange[k].traded = 0
  <2>1. exchange \in [Keys -> ExchangeState] /\ exchange[k] \in ExchangeState
    BY DEF OrderInv, FrontInv
  <2>2. exchange[k].traded \in 0 .. Lots /\ exchange[k].total \in 0 .. Lots
    BY <2>1 DEF ExchangeState
  <2> QED BY <2>1, <2>2, BoundAssumption, Sizes DEF ChainInv
<1>1. ASSUME NEW rec, NEW trades, NEW lots \in Nat,
             Becomes(k, rec, trades), Covered(k, rec, lots),
             \/ trades = <<>> /\ lots = 0
             \/ \E m \in TradeMsg : trades = <<m>> /\ m.key = k /\ m.vol = lots
      PROVE  Pays /\ LiveInv'
  <2>1. exchange' = [exchange EXCEPT ![k] = rec]
    BY <1>1 DEF Becomes
  <2>2. exchange'[k] = rec /\ \A j \in Keys \ {k} : exchange'[j] = exchange[j]
    BY <1>0, <2>1
  <2>3. Sound(k, rec)
    BY <2>2 DEF OrderInv, FrontInv
  <2>4. Pays
    BY <1>1, <2>3, BecomesPays DEF Covered
  <2>5. LiveInv'
    <3>1. ASSUME NEW j \in Own PROVE LiveSound(exchange'[j])
      BY <1>1, <2>2, KeysApart DEF Covered, LiveInv
    <3> QED BY <3>1 DEF LiveInv, LiveSound
  <2> QED BY <2>4, <2>5
<1>2. CASE Acknowledge(k)
  <2> DEFINE rec == [Fresh EXCEPT !.total = Lots]
  <2>1. Becomes(k, rec, <<>>) /\ exchange[k].status = "submitted"
    BY <1>2 DEF Acknowledge
  <2>2. rec.status = "unknown" /\ rec.traded = 0
    BY DEF Fresh
  <2> HIDE DEF rec
  <2>3. ToRelease(k, rec) = 0 /\ ToCome(rec) = Lots /\ LiveSound(rec)
    BY <1>0, <2>2 DEF ToRelease, Released, ToCome, LiveSound, isFinal
  <2>4. ToCome(exchange[k]) = Lots
    BY <1>0, <2>1 DEF ToCome, Traded
  <2>5. Covered(k, rec, 0)
    BY <1>0, <2>2, <2>3, <2>4 DEF Covered, Statuses
  <2> QED BY <1>1, <2>1, <2>5
<1>3. CASE RefuseInsert(k)
  <2>1. /\ exchange' = [exchange EXCEPT ![k].status = "refused"] /\ flow' = flow
    BY <1>3 DEF RefuseInsert, topic
  <2>2. exchange'[k].status = "refused" /\ \A j \in Keys \ {k} : exchange'[j] = exchange[j]
    BY <1>0, <2>1 DEF ExchangeState
  <2>3. ToCome(exchange'[k]) = 0 /\ LiveSound(exchange'[k])
    BY <2>2 DEF ToCome, LiveSound
  <2>4. \A j \in Own : ToCome(exchange'[j]) <= ToCome(exchange[j])
    <3> TAKE j \in Own
    <3>1. ToCome(exchange[j]) \in Nat /\ j \in Keys
      BY ReleaseTypes, KeysApart
    <3> QED BY <2>2, <2>3, <3>1
  <2>5. Pays
    <3>1. ASSUME NEW j \in Own, NEW n \in 0 .. Len(flow)
          PROVE  /\ Coming(flow', n, j) \in Nat /\ ToCome(exchange'[j]) \in Nat
                 /\ Coming(flow', n, j) + ToCome(exchange'[j])
                        <= Coming(flow, n, j) + ToCome(exchange[j])
      <4>1. flow \in Seq(Messages) /\ n \in Nat
        BY <3>1, ReleaseTypes
      <4>2. Coming(flow, n, j) \in Nat
        BY <4>1, ComingIsNat
      <4>3. ToCome(exchange'[j]) \in Nat /\ ToCome(exchange[j]) \in Nat
        <5>1. j \in Keys /\ ToCome(exchange[j]) \in Nat
          BY ReleaseTypes, KeysApart
        <5> QED BY <2>2, <2>3, <5>1
      <4> QED BY <2>1, <2>4, <4>2, <4>3
    <3> QED BY <3>1 DEF Pays
  <2>6. LiveInv'
    <3>1. ASSUME NEW j \in Own PROVE LiveSound(exchange'[j])
      BY <2>2, <2>3, KeysApart DEF LiveInv
    <3> QED BY <3>1 DEF LiveInv, LiveSound
  <2> QED BY <2>5, <2>6
<1>4. CASE Enqueue(k)
  <2>1. Becomes(k, Working(k), <<>>) /\ exchange[k].status = "unknown"
    BY <1>4 DEF Enqueue
  <2>2. /\ Working(k).status = "noTrade" /\ Working(k).traded = 0
        /\ ~Working(k).rejected /\ Working(k).total = Size(k)
    BY DEF Working, Fresh
  <2>4. /\ ToRelease(k, Working(k)) = 0 /\ ToCome(Working(k)) = Lots
        /\ k \in Own => LiveSound(Working(k))
    BY <1>0, <2>2 DEF ToRelease, Released, ToCome, LiveSound, isFinal
  <2>5. ToCome(exchange[k]) = Lots
    BY <1>0, <2>1 DEF ToCome, Traded
  <2>6. Covered(k, Working(k), 0)
    BY <1>0, <2>2, <2>4, <2>5 DEF Covered, Statuses
  <2> QED BY <1>1, <2>1, <2>6
<1>5. CASE Reject(k)
  <2> DEFINE rec == [exchange[k] EXCEPT !.status = "canceled", !.rejected = TRUE]
  <2>1. Becomes(k, rec, <<>>) /\ exchange[k].status = "unknown"
    BY <1>5 DEF Reject
  <2>2. rec.status = "canceled" /\ rec.total \in 0 .. Lots /\ rec.traded = 0
    BY <1>0, <2>1 DEF ExchangeState, Traded
  <2> HIDE DEF rec
  <2>3. ToRelease(k, rec) \in 0 .. Lots /\ ToCome(rec) = 0 /\ LiveSound(rec)
    BY <1>0, <2>2 DEF ToRelease, Released, ToCome, LiveSound, isFinal
  <2>4. ToCome(exchange[k]) = Lots
    BY <1>0, <2>1 DEF ToCome, Traded
  <2>5. Covered(k, rec, 0)
    BY <1>0, <2>2, <2>3, <2>4 DEF Covered, Statuses
  <2> QED BY <1>1, <2>1, <2>5
<1>6. ASSUME NEW v \in 1 .. Lots, Trade(k, v) PROVE Pays /\ LiveInv'
  <2> DEFINE rest == exchange[k].total - v
             rec == [exchange[k] EXCEPT
                        !.traded = @ + v, !.total = rest,
                        !.status = IF rest = 0 THEN "allTraded" ELSE "partTraded"]
             trade == [kind |-> "trade", key |-> k, vol |-> v]
  <2>1. /\ v <= exchange[k].total /\ Becomes(k, rec, <<trade>>)
        /\ exchange[k].status \in {"noTrade", "partTraded"}
    BY <1>6 DEF Trade, Live
  <2>2. /\ rec.traded = exchange[k].traded + v /\ rec.total = rest
        /\ rec.status = IF rest = 0 THEN "allTraded" ELSE "partTraded"
        /\ rec.rejected = exchange[k].rejected
    BY <1>0 DEF ExchangeState
  <2>3. trade \in TradeMsg /\ trade.key = k /\ trade.vol = v /\ v \in Nat
    BY <1>0 DEF TradeMsg
  <2> HIDE DEF rec, trade
  <2>4. ASSUME k \in Own
        PROVE  LiveSound(rec) /\ ToRelease(k, rec) + v + ToCome(rec) <= ToCome(exchange[k])
    <3>1. ~exchange[k].rejected /\ exchange[k].traded + exchange[k].total = Lots
      BY <2>1, <2>4 DEF LiveInv, LiveSound
    <3>2. ToCome(exchange[k]) = Lots - exchange[k].traded
      BY <2>1 DEF ToCome
    <3>3. ToRelease(k, rec) = 0
      BY <2>2, <3>1 DEF ToRelease, Released, isFinal
    <3>4. CASE rest = 0
      <4>1. rec.status = "allTraded"
        BY <2>2, <3>4
      <4>2. ToCome(rec) = 0 /\ LiveSound(rec)
        BY <4>1 DEF ToCome, LiveSound
      <4> QED BY <1>0, <2>3, <3>1, <3>2, <3>3, <3>4, <4>2
    <3>5. CASE rest # 0
      <4>1. rec.status = "partTraded"
        BY <2>2, <3>5
      <4>2. ToCome(rec) = Lots - rec.traded
        BY <4>1 DEF ToCome
      <4>3. rec.traded + rec.total = Lots /\ ~rec.rejected
        BY <1>0, <2>2, <2>3, <3>1
      <4>4. LiveSound(rec)
        BY <4>3 DEF LiveSound
      <4> QED BY <1>0, <2>2, <2>3, <3>2, <3>3, <4>2, <4>4
    <3> QED BY <3>4, <3>5
  <2>5. rec.status \in Statuses
    BY <2>2 DEF Statuses
  <2>6. Covered(k, rec, v)
    BY <2>4, <2>5 DEF Covered
  <2> QED BY <1>1, <2>1, <2>3, <2>6
<1>7. ASSUME NEW total \in 0 .. Lots, Cancel(k, total) PROVE Pays /\ LiveInv'
  <2> DEFINE rec == [exchange[k] EXCEPT !.status = "canceled", !.total = total]
  <2>1. /\ total \in {0, exchange[k].total} /\ Becomes(k, rec, <<>>)
        /\ exchange[k].status \in {"noTrade", "partTraded"}
    BY <1>7 DEF Cancel, Live
  <2>2. /\ rec.traded = exchange[k].traded /\ rec.total = total
        /\ rec.status = "canceled"
    BY <1>0 DEF ExchangeState
  <2> HIDE DEF rec
  <2>3. ASSUME k \in Own
        PROVE  LiveSound(rec) /\ ToRelease(k, rec) + 0 + ToCome(rec) <= ToCome(exchange[k])
    <3>1. exchange[k].traded + exchange[k].total = Lots
      BY <2>1, <2>3 DEF LiveInv, LiveSound
    <3>2. ToCome(exchange[k]) = Lots - exchange[k].traded
      BY <2>1 DEF ToCome
    <3>3. ToRelease(k, rec) = Lots - exchange[k].traded
      <4>1. total = 0 \/ total = Lots - exchange[k].traded
        BY <1>0, <2>1, <3>1
      <4> QED BY <1>0, <2>2, <2>3, <4>1 DEF ToRelease, Released, isFinal
    <3>4. ToCome(rec) = 0 /\ LiveSound(rec)
      BY <2>2 DEF ToCome, LiveSound
    <3> QED BY <1>0, <3>2, <3>3, <3>4
  <2>4. Covered(k, rec, 0)
    BY <2>2, <2>3 DEF Covered, Statuses
  <2> QED BY <1>1, <2>1, <2>4
<1> QED BY <1>2, <1>3, <1>4, <1>5, <1>6, <1>7 DEF Exchange

\* A message that reaches the SPI thread goes to a ring or is dropped.
LEMMA DeliverReleases ==
    ASSUME OrderInv, ReleaseInv, Deliver
    PROVE  ReleaseInv'
<1>1. /\ UNCHANGED <<exchange, flow, frozen, thawed, booked, pc, inserted>>
      /\ read' = read + 1 /\ read < Len(flow)
      /\ \/ read = reached /\ reached' = read + 1 /\ replayed' = replayed
         \/ /\ read < reached /\ reached' = reached
            /\ replayed' = replayed \cup {flow[read + 1].key}
  BY DEF Deliver, OnRtnOrder, OnRtnTrade, Arrives, sender, worker
<1>2. /\ flow \in Seq(Messages) /\ order_updates \in Seq(Messages)
      /\ trade_updates \in Seq(Messages)
      /\ read \in Nat /\ reached \in Nat /\ Len(flow) \in Nat
      /\ Len(order_updates) \in Nat /\ Len(trade_updates) \in Nat
  BY ReleaseTypes, LenProperties
<1>3. read + 1 \in 1 .. Len(flow) /\ flow[read + 1] \in Messages
  BY <1>1, <1>2, ElementOfSeq
<1> DEFINE m == flow[read + 1]
<1>4. ASSUME NEW k \in Own \ replayed'
      PROVE  thawed'[k] + booked'[k]
                 + Coming(order_updates', 0, k) + Coming(trade_updates', 0, k)
                 + Coming(flow', reached', k) + ToCome(exchange'[k])
                 + (IF pc' = "undo" /\ inserted' = k THEN Lots ELSE 0)
             <= frozen'[k]
  <2>1. thawed[k] + booked[k]
            + Coming(order_updates, 0, k) + Coming(trade_updates, 0, k)
            + Coming(flow, reached, k) + ToCome(exchange[k]) + Undoing(k)
        <= frozen[k]
    BY <1>1 DEF ReleaseInv
  <2>2. Worth(m, k) \in Nat /\ Coming(flow, reached', k) \in Nat
    <3>1. reached' \in Nat
      BY <1>1, <1>2
    <3> QED BY <1>2, <1>3, <3>1, WorthIsNat, ComingIsNat
  <2>3. Coming(flow, reached, k) = Worth(m, k) + Coming(flow, reached', k)
    <3>1. CASE read = reached /\ reached' = read + 1
      BY <1>2, <1>3, <3>1, ComingNext
    <3>2. CASE reached' = reached /\ replayed' = replayed \cup {m.key}
      <4>1. Worth(m, k) = 0
        BY <3>2 DEF Worth
      <4>2. Coming(flow, reached', k) = Coming(flow, reached, k)
        BY <3>2
      <4> HIDE DEF m
      <4> QED BY <2>2, <4>1, <4>2
    <3> QED BY <1>1, <3>1, <3>2
  <2> HIDE DEF m
  <2>4. /\ Coming(order_updates', 0, k) \in Nat /\ Coming(trade_updates', 0, k) \in Nat
        /\ Coming(order_updates', 0, k) + Coming(trade_updates', 0, k)
              <= Coming(order_updates, 0, k) + Coming(trade_updates, 0, k) + Worth(m, k)
    <3>1. Coming(order_updates, 0, k) \in Nat /\ Coming(trade_updates, 0, k) \in Nat
      BY ReleaseTypes
    <3>2. /\ Coming(Append(order_updates, m), 0, k)
                = Coming(order_updates, 0, k) + Worth(m, k)
          /\ Coming(Append(trade_updates, m), 0, k)
                = Coming(trade_updates, 0, k) + Worth(m, k)
      <4>1. 0 \in 0 .. Len(order_updates) /\ 0 \in 0 .. Len(trade_updates)
        BY <1>2
      <4>2. m \in Messages
        BY <1>3 DEF m
      <4> QED BY <1>2, <4>1, <4>2, ComingAppend
    <3>3. \/ /\ order_updates' = order_updates /\ trade_updates' = trade_updates
          \/ /\ order_updates' = Append(order_updates, m)
             /\ trade_updates' = trade_updates
          \/ /\ order_updates' = order_updates
             /\ trade_updates' = Append(trade_updates, m)
      BY <1>1 DEF Deliver, OnRtnOrder, OnRtnTrade, m
    <3>4. CASE order_updates' = order_updates /\ trade_updates' = trade_updates
      BY <2>2, <3>1, <3>4
    <3>5. CASE order_updates' = Append(order_updates, m) /\ trade_updates' = trade_updates
      BY <2>2, <3>1, <3>2, <3>5
    <3>6. CASE order_updates' = order_updates /\ trade_updates' = Append(trade_updates, m)
      BY <2>2, <3>1, <3>2, <3>6
    <3> QED BY <3>3, <3>4, <3>5, <3>6
  <2>5. /\ frozen[k] \in Nat /\ thawed[k] \in Nat /\ booked[k] \in Nat
        /\ ToCome(exchange[k]) \in Nat /\ Undoing(k) \in Nat
        /\ Coming(order_updates, 0, k) \in Nat /\ Coming(trade_updates, 0, k) \in Nat
    BY ReleaseTypes
  <2>6. /\ Undoing(k) = (IF pc' = "undo" /\ inserted' = k THEN Lots ELSE 0)
        /\ Coming(flow', reached', k) = Coming(flow, reached', k)
        /\ ToCome(exchange'[k]) = ToCome(exchange[k])
        /\ thawed'[k] = thawed[k] /\ booked'[k] = booked[k]
        /\ frozen'[k] = frozen[k]
    BY <1>1 DEF Undoing
  <2>7. thawed[k] + booked[k]
            + Coming(order_updates', 0, k) + Coming(trade_updates', 0, k)
            + Coming(flow, reached', k) + ToCome(exchange[k]) + Undoing(k)
        <= frozen[k]
    BY <2>1, <2>2, <2>3, <2>4, <2>5
  <2> QED BY <2>6, <2>7
<1> QED BY <1>4 DEF ReleaseInv, Undoing

\* The worker releases and books what a message is worth, or ignores it.
LEMMA WorkReleases ==
    ASSUME OrderInv, ReleaseInv, processOrderUpdate \/ processTradeUpdate
    PROVE  ReleaseInv'
<1>1. /\ UNCHANGED <<exchange, flow, reached, replayed, frozen, pc, inserted>>
      /\ flow \in Seq(Messages)
  BY ReleaseTypes DEF processOrderUpdate, processTradeUpdate, sender, front, topic
<1>2. ASSUME NEW k \in Own
      PROVE  /\ thawed'[k] \in Nat /\ booked'[k] \in Nat
             /\ Coming(order_updates', 0, k) \in Nat
             /\ Coming(trade_updates', 0, k) \in Nat
             /\ thawed'[k] + booked'[k]
                    + Coming(order_updates', 0, k) + Coming(trade_updates', 0, k)
                <= thawed[k] + booked[k]
                    + Coming(order_updates, 0, k) + Coming(trade_updates, 0, k)
  <2>1. /\ thawed[k] \in Nat /\ booked[k] \in Nat
        /\ Coming(order_updates, 0, k) \in Nat /\ Coming(trade_updates, 0, k) \in Nat
    BY ReleaseTypes
  <2>5. order_updates \in Seq(Messages) /\ trade_updates \in Seq(Messages)
    BY ReleaseTypes
  <2>2. thawed \in [Keys -> Nat] /\ booked \in [Keys -> Nat] /\ k \in Keys
    BY KeysApart DEF OrderInv, RecordInv
  <2>3. CASE processOrderUpdate
    <3> DEFINE m == order_updates[1]
    <3>1. /\ order_updates # <<>> /\ order_updates' = Tail(order_updates)
          /\ UNCHANGED <<booked, trade_updates>>
      BY <2>3 DEF processOrderUpdate
    <3>2. m = Head(order_updates) /\ m \in NamedMsg
      BY <3>1, HeadTailProperties DEF OrderInv, QueuesTyped
    <3>3. \/ thawed' = thawed
          \/ thawed' = [thawed EXCEPT ![m.key] = @ + ToRelease(m.key, m.rec)]
      BY <2>3, <3>2 DEF processOrderUpdate
    <3>4. /\ Coming(order_updates, 0, k) = Worth(m, k) + Coming(Tail(order_updates), 0, k)
          /\ Coming(Tail(order_updates), 0, k) \in Nat
      <4>1. Tail(order_updates) \in Seq(Messages) /\ 0 \in Nat
        BY <2>5, <3>1, HeadTailProperties
      <4> QED BY <2>5, <3>1, <4>1, ComingTail, ComingIsNat
    <3> HIDE DEF m
    <3>5. m \in Messages /\ m.kind = "order"
      BY <3>2 DEF Messages, NamedMsg, OrderMsg
    <3>6. Worth(m, k) \in Nat
      BY <3>5, WorthIsNat
    <3>7. thawed'[k] \in Nat /\ thawed'[k] <= thawed[k] + Worth(m, k)
      <4>1. CASE thawed' = thawed
        BY <2>1, <3>6, <4>1
      <4>2. CASE thawed' = [thawed EXCEPT ![m.key] = @ + ToRelease(m.key, m.rec)]
        <5>1. CASE m.key = k
          <6>1. Worth(m, k) = ToRelease(m.key, m.rec)
            BY <3>5, <5>1 DEF Worth
          <6>2. thawed'[k] = thawed[k] + ToRelease(m.key, m.rec)
            BY <2>2, <4>2, <5>1
          <6> QED BY <2>1, <3>6, <6>1, <6>2
        <5>2. CASE m.key # k
          <6>1. thawed'[k] = thawed[k]
            BY <2>2, <4>2, <5>2
          <6> QED BY <2>1, <3>6, <6>1
        <5> QED BY <5>1, <5>2
      <4> QED BY <3>3, <4>1, <4>2
    <3>8. /\ Coming(order_updates', 0, k) = Coming(Tail(order_updates), 0, k)
          /\ Coming(trade_updates', 0, k) = Coming(trade_updates, 0, k)
          /\ booked'[k] = booked[k]
      BY <3>1
    <3>9. /\ Coming(order_updates', 0, k) \in Nat /\ Coming(trade_updates', 0, k) \in Nat
          /\ booked'[k] \in Nat
      BY <2>1, <3>4, <3>8
    <3>10. Coming(order_updates, 0, k) = Worth(m, k) + Coming(order_updates', 0, k)
      BY <3>4, <3>8
    <3>11. thawed'[k] + Coming(order_updates', 0, k)
              <= thawed[k] + Coming(order_updates, 0, k)
      BY <2>1, <3>6, <3>7, <3>9, <3>10
    <3>12. thawed'[k] + booked[k]
               + Coming(order_updates', 0, k) + Coming(trade_updates, 0, k)
           <= thawed[k] + booked[k]
               + Coming(order_updates, 0, k) + Coming(trade_updates, 0, k)
      BY <2>1, <3>7, <3>9, <3>11
    <3> QED BY <3>7, <3>8, <3>9, <3>12
  <2>4. CASE processTradeUpdate
    <3> DEFINE m == trade_updates[1]
    <3>1. /\ trade_updates # <<>> /\ trade_updates' = Tail(trade_updates)
          /\ UNCHANGED <<thawed, order_updates>>
      BY <2>4 DEF processTradeUpdate
    <3>2. m = Head(trade_updates) /\ m \in TradeMsg
      BY <3>1, HeadTailProperties DEF OrderInv, QueuesTyped
    <3>3. booked' = [booked EXCEPT ![m.key] = @ + m.vol]
      BY <2>4, <3>2 DEF processTradeUpdate
    <3>4. /\ Coming(trade_updates, 0, k) = Worth(m, k) + Coming(Tail(trade_updates), 0, k)
          /\ Coming(Tail(trade_updates), 0, k) \in Nat
      <4>1. Tail(trade_updates) \in Seq(Messages) /\ 0 \in Nat
        BY <2>5, <3>1, HeadTailProperties
      <4> QED BY <2>5, <3>1, <4>1, ComingTail, ComingIsNat
    <3> HIDE DEF m
    <3>5. m \in Messages /\ m.kind = "trade"
      BY <3>2 DEF Messages, TradeMsg
    <3>6. Worth(m, k) \in Nat
      BY <3>5, WorthIsNat
    <3>7. booked'[k] = booked[k] + Worth(m, k)
      <4>1. CASE m.key = k
        <5>1. Worth(m, k) = m.vol
          BY <3>5, <4>1 DEF Worth
        <5>2. booked'[k] = booked[k] + m.vol
          BY <2>2, <3>3, <4>1
        <5> QED BY <5>1, <5>2
      <4>2. CASE m.key # k
        <5>1. booked'[k] = booked[k] /\ Worth(m, k) = 0
          BY <2>2, <3>3, <4>2 DEF Worth
        <5> QED BY <2>1, <5>1
      <4> QED BY <4>1, <4>2
    <3>8. /\ Coming(trade_updates', 0, k) = Coming(Tail(trade_updates), 0, k)
          /\ Coming(order_updates', 0, k) = Coming(order_updates, 0, k)
          /\ thawed'[k] = thawed[k]
      BY <3>1
    <3>9. /\ Coming(trade_updates', 0, k) \in Nat /\ Coming(order_updates', 0, k) \in Nat
          /\ booked'[k] \in Nat /\ thawed'[k] \in Nat
      BY <2>1, <3>4, <3>6, <3>7, <3>8
    <3>10. Coming(trade_updates, 0, k) = Worth(m, k) + Coming(trade_updates', 0, k)
      BY <3>4, <3>8
    <3>11. booked'[k] + Coming(trade_updates', 0, k)
              = booked[k] + Coming(trade_updates, 0, k)
      BY <2>1, <3>6, <3>7, <3>9, <3>10
    <3>12. thawed[k] + booked'[k]
               + Coming(order_updates, 0, k) + Coming(trade_updates', 0, k)
           <= thawed[k] + booked[k]
               + Coming(order_updates, 0, k) + Coming(trade_updates, 0, k)
      BY <2>1, <3>9, <3>11
    <3> QED BY <3>8, <3>9, <3>12
  <2> QED BY <2>3, <2>4
<1>3. ASSUME NEW k \in Own \ replayed
      PROVE  thawed'[k] + booked'[k]
                 + Coming(order_updates', 0, k) + Coming(trade_updates', 0, k)
                 + Coming(flow', reached', k) + ToCome(exchange'[k])
                 + (IF pc' = "undo" /\ inserted' = k THEN Lots ELSE 0)
             <= frozen'[k]
  <2>1. thawed[k] + booked[k]
            + Coming(order_updates, 0, k) + Coming(trade_updates, 0, k)
            + Coming(flow, reached, k) + ToCome(exchange[k]) + Undoing(k)
        <= frozen[k]
    BY DEF ReleaseInv
  <2>2. /\ thawed[k] \in Nat /\ booked[k] \in Nat
        /\ Coming(order_updates, 0, k) \in Nat /\ Coming(trade_updates, 0, k) \in Nat
        /\ Coming(flow, reached, k) \in Nat /\ ToCome(exchange[k]) \in Nat
        /\ Undoing(k) \in Nat /\ frozen[k] \in Nat
    BY ReleaseTypes
  <2>3. /\ Undoing(k) = (IF pc' = "undo" /\ inserted' = k THEN Lots ELSE 0)
        /\ Coming(flow', reached', k) = Coming(flow, reached, k)
        /\ ToCome(exchange'[k]) = ToCome(exchange[k])
        /\ frozen'[k] = frozen[k]
    BY <1>1 DEF Undoing
  <2>4. /\ thawed'[k] \in Nat /\ booked'[k] \in Nat
        /\ Coming(order_updates', 0, k) \in Nat /\ Coming(trade_updates', 0, k) \in Nat
        /\ thawed'[k] + booked'[k]
               + Coming(order_updates', 0, k) + Coming(trade_updates', 0, k)
           <= thawed[k] + booked[k]
               + Coming(order_updates, 0, k) + Coming(trade_updates, 0, k)
    BY <1>2
  <2>5. thawed'[k] + booked'[k]
            + Coming(order_updates', 0, k) + Coming(trade_updates', 0, k)
            + Coming(flow, reached, k) + ToCome(exchange[k]) + Undoing(k)
        <= frozen[k]
    BY <2>1, <2>2, <2>4
  <2> QED BY <2>3, <2>5
<1> QED BY <1>1, <1>3 DEF ReleaseInv, Undoing

\* The exchange pays for what it sends.
LEMMA ExchangeReleases ==
    ASSUME OrderInv, ReleaseInv, Pays, NEW j \in Keys, Exchange(j)
    PROVE  ReleaseInv'
<1>1. UNCHANGED <<reached, replayed, order_updates, trade_updates, frozen, thawed,
                  booked, pc, inserted>>
  BY DEF Exchange, Acknowledge, RefuseInsert, Enqueue, Reject, Trade, Cancel,
         Becomes, sender, worker, rings, topic
<1>2. reached \in 0 .. Len(flow)
  BY ReleaseTypes
<1>3. ASSUME NEW k \in Own \ replayed
      PROVE  thawed'[k] + booked'[k]
                 + Coming(order_updates', 0, k) + Coming(trade_updates', 0, k)
                 + Coming(flow', reached', k) + ToCome(exchange'[k])
                 + (IF pc' = "undo" /\ inserted' = k THEN Lots ELSE 0)
             <= frozen'[k]
  <2>1. thawed[k] + booked[k]
            + Coming(order_updates, 0, k) + Coming(trade_updates, 0, k)
            + Coming(flow, reached, k) + ToCome(exchange[k]) + Undoing(k)
        <= frozen[k]
    BY DEF ReleaseInv
  <2>2. /\ thawed[k] \in Nat /\ booked[k] \in Nat
        /\ Coming(order_updates, 0, k) \in Nat /\ Coming(trade_updates, 0, k) \in Nat
        /\ Coming(flow, reached, k) \in Nat
        /\ ToCome(exchange[k]) \in Nat /\ Undoing(k) \in Nat /\ frozen[k] \in Nat
    BY ReleaseTypes
  <2>3. /\ Coming(flow', reached, k) \in Nat /\ ToCome(exchange'[k]) \in Nat
        /\ Coming(flow', reached, k) + ToCome(exchange'[k])
               <= Coming(flow, reached, k) + ToCome(exchange[k])
    BY <1>2 DEF Pays
  <2>4. /\ Undoing(k) = (IF pc' = "undo" /\ inserted' = k THEN Lots ELSE 0)
        /\ Coming(order_updates', 0, k) = Coming(order_updates, 0, k)
        /\ Coming(trade_updates', 0, k) = Coming(trade_updates, 0, k)
        /\ Coming(flow', reached', k) = Coming(flow', reached, k)
        /\ thawed'[k] = thawed[k] /\ booked'[k] = booked[k]
        /\ frozen'[k] = frozen[k]
    BY <1>1 DEF Undoing
  <2>5. thawed[k] + booked[k]
            + Coming(order_updates, 0, k) + Coming(trade_updates, 0, k)
            + Coming(flow', reached, k) + ToCome(exchange'[k]) + Undoing(k)
        <= frozen[k]
    BY <2>1, <2>2, <2>3
  <2> QED BY <2>4, <2>5
<1> QED BY <1>1, <1>3 DEF ReleaseInv, Undoing

\* sendOrder freezes what the order may give back, and takes it back itself when
\* the call fails.
LEMMA InsertReleases ==
    ASSUME OrderInv, ReleaseInv, ChainInv, ReqOrderInsert
    PROVE  ReleaseInv'
<1> DEFINE o == <<session, ref>>
<1>1. /\ UNCHANGED <<flow, reached, replayed, order_updates, trade_updates, thawed,
                     booked>>
      /\ pc = "insert" /\ inserted' = o
      /\ frozen' = [frozen EXCEPT ![o] = @ + Lots]
      /\ \/ /\ pc' = "create"
            /\ exchange' = [exchange EXCEPT ![o].status =
                                IF @ = "none" THEN "submitted" ELSE @]
         \/ pc' = "undo" /\ exchange' = exchange
  BY DEF ReqOrderInsert, rings, worker, topic
<1>2. o \in Own /\ o \in Keys
  BY <1>1, KeysApart DEF OrderInv, SenderInv
<1>3. frozen \in [Keys -> Nat] /\ exchange \in [Keys -> ExchangeState]
  BY DEF OrderInv, SenderInv, FrontInv
<1> HIDE DEF o
<1>4. ASSUME NEW k \in Own \ replayed
      PROVE  thawed'[k] + booked'[k]
                 + Coming(order_updates', 0, k) + Coming(trade_updates', 0, k)
                 + Coming(flow', reached', k) + ToCome(exchange'[k])
                 + (IF pc' = "undo" /\ inserted' = k THEN Lots ELSE 0)
             <= frozen'[k]
  <2> DEFINE undoing == IF pc' = "undo" /\ inserted' = k THEN Lots ELSE 0
             done == thawed[k] + booked[k]
                         + Coming(order_updates, 0, k) + Coming(trade_updates, 0, k)
                         + Coming(flow, reached, k)
  <2>1. done + ToCome(exchange[k]) + Undoing(k) <= frozen[k]
    BY DEF ReleaseInv
  <2>2. /\ done \in Nat /\ ToCome(exchange[k]) \in Nat /\ Undoing(k) = 0
        /\ frozen[k] \in Nat /\ Lots \in Nat /\ k \in Keys
    <3>1. /\ thawed[k] \in Nat /\ booked[k] \in Nat
          /\ Coming(order_updates, 0, k) \in Nat /\ Coming(trade_updates, 0, k) \in Nat
          /\ Coming(flow, reached, k) \in Nat
          /\ ToCome(exchange[k]) \in Nat /\ frozen[k] \in Nat /\ Lots \in Nat
      BY ReleaseTypes
    <3>2. done \in Nat
      BY <3>1
    <3>3. Undoing(k) = 0 /\ k \in Keys
      BY <1>1, KeysApart DEF Undoing
    <3> HIDE DEF done
    <3> QED BY <3>1, <3>2, <3>3
  <2>3. thawed'[k] + booked'[k]
            + Coming(order_updates', 0, k) + Coming(trade_updates', 0, k)
            + Coming(flow', reached', k) = done
    BY <1>1
  <2>4. done + ToCome(exchange'[k]) + undoing <= frozen'[k]
    <3>1. ASSUME k # o PROVE done + ToCome(exchange'[k]) + undoing <= frozen'[k]
      <4>1. frozen'[k] = frozen[k] /\ exchange'[k] = exchange[k] /\ undoing = 0
        BY <1>1, <1>2, <1>3, <2>2, <3>1
      <4> HIDE DEF done, undoing
      <4> QED BY <2>1, <2>2, <4>1
    <3>2. ASSUME k = o PROVE done + ToCome(exchange'[k]) + undoing <= frozen'[k]
      <4>1. frozen'[k] = frozen[k] + Lots
        BY <1>1, <1>2, <1>3, <3>2
      <4>2. /\ ToCome(exchange'[k]) \in Nat /\ undoing \in Nat
            /\ ToCome(exchange'[k]) + undoing <= ToCome(exchange[k]) + Lots
        <5>1. CASE pc' = "undo" /\ exchange' = exchange
          BY <2>2, <5>1
        <5>2. CASE /\ pc' = "create"
                   /\ exchange' = [exchange EXCEPT ![o].status =
                                       IF @ = "none" THEN "submitted" ELSE @]
          <6>1. undoing = 0
            BY <5>2
          <6>2. /\ exchange[k] \in ExchangeState
                /\ exchange'[k] = [exchange[k] EXCEPT !.status =
                                       IF exchange[k].status = "none" THEN "submitted"
                                       ELSE exchange[k].status]
            BY <1>2, <1>3, <3>2, <5>2
          <6>3. /\ exchange'[k].traded = exchange[k].traded
                /\ exchange'[k].status = IF exchange[k].status = "none" THEN "submitted"
                                         ELSE exchange[k].status
                /\ exchange[k].traded \in 0 .. Lots
            BY <6>2 DEF ExchangeState
          <6>4. CASE exchange[k].status = "none"
            <7>1. exchange[k].traded = 0 /\ exchange'[k].status = "submitted"
              BY <2>2, <6>3, <6>4 DEF ChainInv, Traded
            <7>2. ToCome(exchange'[k]) = Lots
              BY <2>2, <6>3, <7>1 DEF ToCome
            <7> QED BY <2>2, <6>1, <7>2
          <6>5. CASE exchange[k].status # "none"
            <7>1. ToCome(exchange'[k]) = ToCome(exchange[k])
              BY <6>3, <6>5 DEF ToCome
            <7> QED BY <2>2, <6>1, <7>1
          <6> QED BY <6>4, <6>5
        <5> QED BY <1>1, <5>1, <5>2
      <4> HIDE DEF done, undoing
      <4> QED BY <2>1, <2>2, <4>1, <4>2
    <3> QED BY <3>1, <3>2
  <2> HIDE DEF done
  <2> QED BY <2>3, <2>4 DEF undoing
<1> QED BY <1>1, <1>4 DEF ReleaseInv, Undoing

\* The release after a failed ReqOrderInsert is paid for.
LEMMA UndoReleases ==
    ASSUME OrderInv, ReleaseInv, Undo
    PROVE  ReleaseInv'
<1>1. /\ UNCHANGED <<flow, reached, replayed, order_updates, trade_updates, booked,
                     frozen, exchange>>
      /\ pc = "undo" /\ pc' = "idle"
      /\ thawed' = [thawed EXCEPT ![inserted] = @ + Lots]
  BY DEF Undo, rings, front, topic
<1>2. thawed \in [Keys -> Nat]
  BY DEF OrderInv, RecordInv
<1>3. ASSUME NEW k \in Own \ replayed
      PROVE  thawed'[k] + booked'[k]
                 + Coming(order_updates', 0, k) + Coming(trade_updates', 0, k)
                 + Coming(flow', reached', k) + ToCome(exchange'[k])
                 + (IF pc' = "undo" /\ inserted' = k THEN Lots ELSE 0)
             <= frozen'[k]
  <2>1. thawed[k] + booked[k]
            + Coming(order_updates, 0, k) + Coming(trade_updates, 0, k)
            + Coming(flow, reached, k) + ToCome(exchange[k]) + Undoing(k)
        <= frozen[k]
    BY DEF ReleaseInv
  <2>2. /\ thawed[k] \in Nat /\ booked[k] \in Nat
        /\ Coming(order_updates, 0, k) \in Nat /\ Coming(trade_updates, 0, k) \in Nat
        /\ Coming(flow, reached, k) \in Nat /\ ToCome(exchange[k]) \in Nat
        /\ Undoing(k) \in Nat /\ Lots \in Nat /\ k \in Keys /\ frozen[k] \in Nat
    BY ReleaseTypes, KeysApart
  <2>3. thawed'[k] = thawed[k] + Undoing(k)
    <3>1. CASE inserted = k
      <4>1. Undoing(k) = Lots
        BY <1>1, <3>1 DEF Undoing
      <4> QED BY <1>1, <1>2, <2>2, <3>1, <4>1
    <3>2. CASE inserted # k
      <4>1. Undoing(k) = 0 /\ thawed'[k] = thawed[k]
        BY <1>1, <1>2, <2>2, <3>2 DEF Undoing
      <4> QED BY <2>2, <4>1
    <3> QED BY <3>1, <3>2
  <2>4. /\ Coming(flow', reached', k) = Coming(flow, reached, k)
        /\ Coming(order_updates', 0, k) = Coming(order_updates, 0, k)
        /\ Coming(trade_updates', 0, k) = Coming(trade_updates, 0, k)
        /\ ToCome(exchange'[k]) = ToCome(exchange[k]) /\ booked'[k] = booked[k]
        /\ frozen'[k] = frozen[k]
        /\ (IF pc' = "undo" /\ inserted' = k THEN Lots ELSE 0) = 0
    BY <1>1
  <2>5. (thawed[k] + Undoing(k)) + booked[k]
            + Coming(order_updates, 0, k) + Coming(trade_updates, 0, k)
            + Coming(flow, reached, k) + ToCome(exchange[k]) + 0
        <= frozen[k]
    BY <2>1, <2>2
  <2> QED BY <2>3, <2>4, <2>5
<1> QED BY <1>1, <1>3 DEF ReleaseInv, Undoing

\* Every step keeps the account of each order.
LEMMA ReleaseKept ==
    ASSUME OrderInv, OrderInv', ChainInv, LiveInv, ReleaseInv, [Next]_vars
    PROVE  LiveInv' /\ ReleaseInv'
<1>1. ASSUME UNCHANGED <<flow, reached, replayed, order_updates, trade_updates,
                         thawed, booked, frozen, exchange>>,
             UNCHANGED <<pc, inserted>> \/ (pc # "undo" /\ pc' # "undo")
      PROVE  LiveInv' /\ ReleaseInv'
  <2>1. \A k : (IF pc' = "undo" /\ inserted' = k THEN Lots ELSE 0)
                  = IF pc = "undo" /\ inserted = k THEN Lots ELSE 0
    BY <1>1
  <2> QED BY <1>1, <2>1 DEF LiveInv, ReleaseInv, Undoing
<1>2. CASE ReqOrderInsert
  <2>1. LiveInv'
    <3>1. \A k \in Own : LiveSound(exchange'[k])
      <4>1. <<session, ref>> \in Keys /\ exchange \in [Keys -> ExchangeState]
        BY <1>2, KeysApart DEF ReqOrderInsert, OrderInv, SenderInv, FrontInv
      <4> DEFINE o == <<session, ref>>
      <4>2. CASE exchange' = exchange
        BY <4>2 DEF LiveInv
      <4>3. CASE exchange' = [exchange EXCEPT ![o].status =
                                  IF @ = "none" THEN "submitted" ELSE @]
        <5> HIDE DEF o
        <5>1. ASSUME NEW k \in Own PROVE LiveSound(exchange'[k])
          <6>1. k \in Keys /\ LiveSound(exchange[k])
            BY KeysApart DEF LiveInv
          <6>2. CASE k = o
            <7>1. /\ exchange[k] \in ExchangeState
                  /\ exchange'[k] = [exchange[k] EXCEPT !.status =
                                         IF exchange[k].status = "none" THEN "submitted"
                                         ELSE exchange[k].status]
              BY <4>1, <4>3, <6>1, <6>2
            <7>2. /\ exchange'[k].traded = exchange[k].traded
                  /\ exchange'[k].total = exchange[k].total
                  /\ exchange'[k].rejected = exchange[k].rejected
                  /\ exchange'[k].status = IF exchange[k].status = "none" THEN "submitted"
                                           ELSE exchange[k].status
              BY <7>1 DEF ExchangeState
            <7> QED BY <6>1, <7>2 DEF LiveSound
          <6>3. CASE k # o
            BY <4>1, <4>3, <6>1, <6>3
          <6> QED BY <6>2, <6>3
        <5> QED BY <5>1
      <4> QED BY <1>2, <4>2, <4>3 DEF ReqOrderInsert
    <3> QED BY <3>1 DEF LiveInv, LiveSound
  <2> QED BY <1>2, <2>1, InsertReleases
<1>3. CASE Undo
  <2>1. exchange' = exchange
    BY <1>3 DEF Undo, front
  <2> QED BY <1>3, <2>1, UndoReleases DEF LiveInv
<1>4. CASE OnRspUserLogin
  BY <1>1, <1>4 DEF OnRspUserLogin, worker, rings
<1>5. ASSUME NEW k \in Keys, Exchange(k) PROVE LiveInv' /\ ReleaseInv'
  BY <1>5, ExchangePays, ExchangeReleases
<1>6. CASE Deliver
  <2>1. exchange' = exchange
    BY <1>6 DEF Deliver, OnRtnOrder, OnRtnTrade, Arrives
  <2> QED BY <1>6, <2>1, DeliverReleases DEF LiveInv
<1>7. CASE processOrderUpdate \/ processTradeUpdate
  <2>1. exchange' = exchange
    BY <1>7 DEF processOrderUpdate, processTradeUpdate, front
  <2> QED BY <1>7, <2>1, WorkReleases DEF LiveInv
<1>8. CASE Freeze \/ Create
  BY <1>1, <1>8 DEF Freeze, Create, worker, rings, front, topic
<1>9. CASE cancelAllActive \/ NextLoop \/ \E r \in Refs : cancelOrder(r)
  BY <1>1, <1>9 DEF cancelAllActive, cancelOrder, NextLoop, sender, worker, rings, front,
                    topic
<1>10. CASE UNCHANGED vars
  BY <1>1, <1>10 DEF vars, sender, worker, rings, front, topic
<1> QED BY <1>2, <1>3, <1>4, <1>5, <1>6, <1>7, <1>8, <1>9, <1>10 DEF Next, Send, Work

\* A report of another terminal's order has no record of its own to find.
LEMMA ForeignKept ==
    ASSUME OrderInv, ForeignInv, [Next]_vars
    PROVE  ForeignInv'
<1>1. ASSUME NEW k \in Others, ~Shared(k)' PROVE thawed'[k] = 0
  <2>1. k \in Keys /\ k \notin Own /\ k # NoKey
    BY KeysApart
  <2>2. ~Shared(k)
    BY <1>1, <2>1, SharedStays DEF OrderInv
  <2>3. thawed[k] = 0 /\ thawed \in [Keys -> Nat]
    BY <2>2 DEF ForeignInv, OrderInv, RecordInv
  <2>4. CASE thawed' = thawed
    BY <2>3, <2>4
  <2>5. CASE Undo
    <3>1. inserted # k /\ thawed' = [thawed EXCEPT ![inserted] = @ + Lots]
      BY <2>1, <2>5 DEF Undo, OrderInv, SenderInv
    <3> QED BY <2>1, <2>3, <3>1
  <2>6. CASE processOrderUpdate
    <3> DEFINE msg == Head(order_updates)
    <3>1. ASSUME NEW j \in Found(msg),
                 thawed' = [thawed EXCEPT ![msg.key] = @ + ToRelease(msg.key, msg.rec)]
          PROVE  thawed'[k] = 0
      <4>1. order_updates # <<>>
        BY <2>6 DEF processOrderUpdate
      <4>2. j \in Own /\ (j = msg.key \/ Shared(msg.key))
        BY <3>1, <4>1, FoundShared DEF OrderInv, RecordInv
      <4>3. msg.key # k
        BY <2>1, <2>2, <4>2
      <4> HIDE DEF msg
      <4> QED BY <2>1, <2>3, <3>1, <4>3
    <3> QED BY <2>4, <2>6, <3>1 DEF processOrderUpdate
  <2>7. CASE Freeze \/ ReqOrderInsert \/ Create \/ OnRspUserLogin
    BY <2>4, <2>7 DEF Freeze, ReqOrderInsert, Create, OnRspUserLogin, worker
  <2>8. CASE cancelAllActive \/ Deliver \/ \E r \in Refs : cancelOrder(r)
    BY <2>4, <2>8 DEF cancelAllActive, cancelOrder, Deliver, OnRtnOrder, OnRtnTrade,
                      Arrives, worker
  <2>9. ASSUME NEW j \in Keys, Exchange(j) PROVE thawed'[k] = 0
    BY <2>4, <2>9 DEF Exchange, Acknowledge, RefuseInsert, Enqueue, Reject, Trade,
                      Cancel, Becomes, worker
  <2>10. CASE processTradeUpdate \/ NextLoop \/ UNCHANGED vars
    BY <2>4, <2>10 DEF processTradeUpdate, NextLoop, vars, worker
  <2> QED BY <2>5, <2>6, <2>7, <2>8, <2>9, <2>10 DEF Next, Send, Work
<1> QED BY <1>1 DEF ForeignInv

\* What is paid for is released in every reachable state.
THEOREM ReleasesHold == Spec => [](LiveInv /\ ReleaseInv /\ ForeignInv)
<1>1. Init => LiveInv /\ ReleaseInv /\ ForeignInv
  <2> SUFFICES ASSUME Init PROVE LiveInv /\ ReleaseInv /\ ForeignInv
    OBVIOUS
  <2>1. /\ order_updates = <<>> /\ trade_updates = <<>> /\ flow = <<>> /\ reached = 0
        /\ pc = "idle"
        /\ frozen = [k \in Keys |-> 0]
        /\ thawed = [k \in Keys |-> 0] /\ booked = [k \in Keys |-> 0]
    BY DEF Init
  <2>w. PICK working \in SUBSET Others :
            exchange = [k \in Keys |-> IF k \in working THEN Working(k)
                                       ELSE [Fresh EXCEPT !.status = "none"]]
    BY DEF Init
  <2>2. ASSUME NEW k \in Own
        PROVE  /\ exchange[k].status = "none"
               /\ frozen[k] = 0 /\ thawed[k] = 0 /\ booked[k] = 0
    <3>1. k \in Keys /\ k \notin working
      BY KeysApart
    <3> QED BY <2>1, <2>w, <3>1 DEF Fresh
  <2>3. \A k \in Own : ToCome(exchange[k]) = 0 /\ Undoing(k) = 0 /\ LiveSound(exchange[k])
    BY <2>1, <2>2 DEF ToCome, Undoing, LiveSound
  <2>4. \A k : /\ Coming(flow, reached, k) = 0
                /\ Coming(order_updates, 0, k) = 0 /\ Coming(trade_updates, 0, k) = 0
    BY <2>1, ComingOfNone
  <2>5. ASSUME NEW k \in Own
        PROVE  thawed[k] + booked[k]
                   + Coming(order_updates, 0, k) + Coming(trade_updates, 0, k)
                   + Coming(flow, reached, k) + ToCome(exchange[k]) + Undoing(k)
               <= frozen[k]
    BY <2>2, <2>3, <2>4
  <2>6. \A k \in Others : thawed[k] = 0
    BY <2>1, KeysApart
  <2> QED BY <2>3, <2>5, <2>6 DEF LiveInv, ReleaseInv, ForeignInv
<1>2. ASSUME OrderInv, OrderInv', ChainInv, LiveInv /\ ReleaseInv /\ ForeignInv,
             [Next]_vars
      PROVE  (LiveInv /\ ReleaseInv /\ ForeignInv)'
  BY <1>2, ReleaseKept, ForeignKept
<1> QED BY <1>1, <1>2, ChainsHold, PTL DEF Spec

\* Every lot frozen for an order is given back once at most, whatever the rings drop,
\* whenever the session changes and whatever VolumeTotal a cancelled order carries,
\* as long as no session pushed a message of the order again; and the end of another
\* terminal's order releases nothing, unless its number is one of ours.
THEOREM EachLotReleasedOnce == Spec => []ReleasedOnce
<1>1. ASSUME OrderInv, ReleaseInv, ForeignInv PROVE ReleasedOnce
  <2>1. ASSUME NEW k \in Own \ replayed PROVE thawed[k] + booked[k] <= frozen[k]
    <3>1. thawed[k] + booked[k]
              + Coming(order_updates, 0, k) + Coming(trade_updates, 0, k)
              + Coming(flow, reached, k) + ToCome(exchange[k]) + Undoing(k)
          <= frozen[k]
      BY <1>1 DEF ReleaseInv
    <3>2. /\ thawed[k] \in Nat /\ booked[k] \in Nat
          /\ Coming(order_updates, 0, k) \in Nat /\ Coming(trade_updates, 0, k) \in Nat
          /\ Coming(flow, reached, k) \in Nat /\ ToCome(exchange[k]) \in Nat
          /\ Undoing(k) \in Nat /\ frozen[k] \in Nat
      BY <1>1, ReleaseTypes
    <3> QED BY <3>1, <3>2
  <2> QED BY <1>1, <2>1 DEF ReleasedOnce, ForeignInv
<1> QED BY <1>1, OrderInvariant, ReleasesHold, PTL

----------------------------------------------------------------------------
(* Records are current.  Where no message of an order was missed, the last *)
(* that is heard of it, in the flow, then in the ring, then in its record, *)
(* is what the exchange says (CurrentInv), unless another order shares its *)
(* number.  In the first session two accounts of its lots balance: the     *)
(* trades booked and on their way, and the lots released and on their way  *)
(* (AccountInv).                                                           *)

IsReport(m, k) == m.kind = "order" /\ m.key = k

\* No report of k among the messages after number n.
Silent(seq, n, k) == \A i \in DOMAIN seq : i > n => ~IsReport(seq[i], k)

\* The last report of k there is says rec.
LastSays(seq, k, rec) ==
    \E i \in DOMAIN seq :
        IsReport(seq[i], k) /\ seq[i].rec = rec /\ Silent(seq, i, k)

\* A message is added to the end.
LEMMA ReportsAppend ==
    ASSUME NEW seq \in Seq(Messages), NEW m \in Messages, NEW k
    PROVE  /\ \A n \in Nat : Silent(Append(seq, m), n, k) => Silent(seq, n, k)
           /\ IsReport(m, k) =>
                 /\ LastSays(Append(seq, m), k, m.rec)
                 /\ \A n \in 0 .. Len(seq) : ~Silent(Append(seq, m), n, k)
           /\ ~IsReport(m, k) =>
                 /\ \A n \in Nat : Silent(seq, n, k) => Silent(Append(seq, m), n, k)
                 /\ \A rec : LastSays(seq, k, rec) => LastSays(Append(seq, m), k, rec)
<1> DEFINE l == Len(seq)
           more == Append(seq, m)
<1>1. /\ l \in Nat /\ DOMAIN seq = 1 .. l /\ DOMAIN more = 1 .. l + 1
      /\ \A i \in 1 .. l : more[i] = seq[i]
      /\ more[l + 1] = m
  BY AppendProperties, LenProperties
<1> HIDE DEF l, more
<1>2. /\ DOMAIN seq \subseteq DOMAIN more /\ l + 1 \in DOMAIN more
      /\ \A i \in DOMAIN more : i \in DOMAIN seq \/ i = l + 1
      /\ \A i \in DOMAIN more : i \in Nat /\ ~(i > l + 1)
      /\ \A n \in 0 .. l : l + 1 > n
  BY <1>1
<1>3. \A n \in Nat : Silent(more, n, k) => Silent(seq, n, k)
  BY <1>1, <1>2 DEF Silent
<1>4. ASSUME IsReport(m, k)
      PROVE  LastSays(more, k, m.rec) /\ \A n \in 0 .. l : ~Silent(more, n, k)
  BY <1>1, <1>2, <1>4 DEF LastSays, Silent
<1>5. ASSUME ~IsReport(m, k)
      PROVE  /\ \A n \in Nat : Silent(seq, n, k) => Silent(more, n, k)
             /\ \A rec : LastSays(seq, k, rec) => LastSays(more, k, rec)
  <2>1. \A n : Silent(seq, n, k) => Silent(more, n, k)
    BY <1>1, <1>2, <1>5 DEF Silent
  <2> QED BY <1>1, <1>2, <2>1 DEF LastSays
<1> QED BY <1>3, <1>4, <1>5 DEF l, more

\* The first message is taken out.
LEMMA ReportsTail ==
    ASSUME NEW seq \in Seq(Messages), seq # <<>>, NEW k
    PROVE  /\ Silent(seq, 0, k) => Silent(Tail(seq), 0, k) /\ ~IsReport(seq[1], k)
           /\ \A rec : LastSays(seq, k, rec) =>
                 \/ LastSays(Tail(seq), k, rec)
                 \/ Silent(Tail(seq), 0, k) /\ IsReport(seq[1], k) /\ seq[1].rec = rec
<1> DEFINE l == Len(seq)
           rest == Tail(seq)
<1>1. /\ l \in Nat /\ l >= 1 /\ DOMAIN seq = 1 .. l /\ DOMAIN rest = 1 .. l - 1
      /\ \A i \in 1 .. l - 1 : rest[i] = seq[i + 1]
  <2>1. Tail(seq) \in Seq(Messages) /\ Len(Tail(seq)) = Len(seq) - 1
        /\ \A i \in 1 .. Len(Tail(seq)) : Tail(seq)[i] = seq[i + 1]
    BY HeadTailProperties
  <2>2. Len(seq) \in Nat /\ Len(seq) # 0
    BY LenProperties, EmptySeq
  <2> QED BY <2>1, <2>2, LenProperties
<1> HIDE DEF l, rest
<1>2. 1 \in DOMAIN seq /\ \A i \in DOMAIN rest : i + 1 \in DOMAIN seq /\ i > 0 /\ i + 1 > 1 /\ i + 1 > 0
  BY <1>1
<1>3. Silent(seq, 0, k) => Silent(rest, 0, k) /\ ~IsReport(seq[1], k)
  BY <1>1, <1>2 DEF Silent
<1>4. ASSUME NEW rec, NEW i \in DOMAIN seq,
             IsReport(seq[i], k), seq[i].rec = rec, Silent(seq, i, k)
      PROVE  \/ LastSays(rest, k, rec)
             \/ Silent(rest, 0, k) /\ IsReport(seq[1], k) /\ seq[1].rec = rec
  <2>1. CASE i = 1
    BY <1>1, <1>2, <1>4, <2>1 DEF Silent
  <2>2. CASE i # 1
    <3>1. i - 1 \in DOMAIN rest /\ rest[i - 1] = seq[i]
      BY <1>1, <2>2
    <3>2. \A j \in DOMAIN rest : j > i - 1 => j + 1 > i
      BY <1>1
    <3>3. Silent(rest, i - 1, k)
      BY <1>1, <1>2, <1>4, <3>2 DEF Silent
    <3> QED BY <1>4, <3>1, <3>3 DEF LastSays
  <2> QED BY <2>1, <2>2
<1> QED BY <1>3, <1>4 DEF rest, LastSays

\* The lots an order that ended gives back.
Due(state) == IF state.status = "canceled" THEN Lots - state.traded ELSE 0

\* Orders of ours at the exchange: only sent ones are known, whole until the
\* first trade.
StatesInv ==
    \A k \in Own :
        /\ frozen[k] = 0 => exchange[k].status = "none"
        /\ exchange[k].status = "unknown" => exchange[k].total = Lots

\* What the exchange reports of an order and the trade it reports with it.
Reports(k, rec, trades, lots) ==
    /\ Becomes(k, rec, trades)
    /\ exchange[k].status # "none"
    /\ rec \in OrderRecord /\ Report(k, rec) \in NamedMsg
    /\ lots \in Nat
    /\ \/ trades = <<>> /\ lots = 0
       \/ \E m \in TradeMsg : trades = <<m>> /\ m.key = k /\ m.vol = lots
    /\ rec.traded = exchange[k].traded + lots
    /\ k \in Own => /\ ToRelease(k, rec) = Due(rec) /\ Due(exchange[k]) = 0
                    /\ rec.status = "unknown" => rec.total = Lots

\* A step of the exchange reports, but for an order the front refuses.
LEMMA ExchangeReports ==
    ASSUME OrderInv, OrderInv', ChainInv, LiveInv, StatesInv,
           NEW k \in Keys, Exchange(k), ~RefuseInsert(k)
    PROVE  \E rec, trades, lots : Reports(k, rec, trades, lots)
<1>0. /\ Lots \in Nat /\ Lots > 0
      /\ exchange \in [Keys -> ExchangeState] /\ exchange[k] \in ExchangeState
      /\ exchange[k].traded \in 0 .. Lots /\ exchange[k].total \in 0 .. Lots
      /\ Traded(exchange[k].status) \/ exchange[k].traded = 0
      /\ k \in Own => Size(k) = Lots
  <2>1. exchange \in [Keys -> ExchangeState] /\ exchange[k] \in ExchangeState
    BY DEF OrderInv, FrontInv
  <2>2. exchange[k].traded \in 0 .. Lots /\ exchange[k].total \in 0 .. Lots
    BY <2>1 DEF ExchangeState
  <2> QED BY <2>1, <2>2, BoundAssumption, Sizes DEF ChainInv
<1>1. ASSUME NEW rec, NEW trades, Becomes(k, rec, trades), rec.status \in Statuses
      PROVE  rec \in OrderRecord /\ Report(k, rec) \in NamedMsg
  <2>1. exchange' = [exchange EXCEPT ![k] = rec]
    BY <1>1 DEF Becomes
  <2>2. exchange'[k] = rec
    BY <1>0, <2>1
  <2>3. Sound(k, rec)
    BY <2>2 DEF OrderInv, FrontInv
  <2> QED BY <1>1, <2>3, ReportNamed
<1>2. CASE Acknowledge(k)
  <2> DEFINE rec == [Fresh EXCEPT !.total = Lots]
  <2>1. Becomes(k, rec, <<>>) /\ exchange[k].status = "submitted"
    BY <1>2 DEF Acknowledge
  <2>2. rec.status = "unknown" /\ rec.traded = 0 /\ rec.total = Lots
    BY DEF Fresh
  <2> HIDE DEF rec
  <2>3. ToRelease(k, rec) = 0 /\ Due(rec) = 0 /\ Due(exchange[k]) = 0
    BY <2>1, <2>2 DEF ToRelease, Released, Due, isFinal
  <2>4. exchange[k].traded = 0
    BY <1>0, <2>1 DEF Traded
  <2>5. rec \in OrderRecord /\ Report(k, rec) \in NamedMsg
    BY <1>1, <2>1, <2>2 DEF Statuses
  <2>6. Reports(k, rec, <<>>, 0)
    BY <2>1, <2>2, <2>3, <2>4, <2>5 DEF Reports
  <2> QED BY <2>6
<1>3. CASE Enqueue(k)
  <2>1. Becomes(k, Working(k), <<>>) /\ exchange[k].status = "unknown"
    BY <1>3 DEF Enqueue
  <2>2. Working(k).status = "noTrade" /\ Working(k).traded = 0
    BY DEF Working, Fresh
  <2>3. /\ ToRelease(k, Working(k)) = 0 /\ Due(Working(k)) = 0
        /\ Due(exchange[k]) = 0
    BY <2>1, <2>2 DEF ToRelease, Released, Due, isFinal
  <2>4. exchange[k].traded = 0
    BY <1>0, <2>1 DEF Traded
  <2>5. Working(k) \in OrderRecord /\ Report(k, Working(k)) \in NamedMsg
    BY <1>1, <2>1, <2>2 DEF Statuses
  <2>6. Reports(k, Working(k), <<>>, 0)
    BY <1>0, <2>1, <2>2, <2>3, <2>4, <2>5 DEF Reports
  <2> QED BY <2>6
<1>4. CASE Reject(k)
  <2> DEFINE rec == [exchange[k] EXCEPT !.status = "canceled", !.rejected = TRUE]
  <2>1. Becomes(k, rec, <<>>) /\ exchange[k].status = "unknown"
    BY <1>4 DEF Reject
  <2>2. /\ rec.status = "canceled" /\ rec.total = exchange[k].total /\ rec.traded = 0
        /\ exchange[k].traded = 0
    BY <1>0, <2>1 DEF ExchangeState, Traded
  <2> HIDE DEF rec
  <2>3. k \in Own => rec.total = Lots
    BY <2>1, <2>2 DEF StatesInv
  <2>4. Due(rec) = Lots /\ Due(exchange[k]) = 0 /\ (k \in Own => ToRelease(k, rec) = Lots)
    BY <1>0, <2>1, <2>2, <2>3 DEF ToRelease, Released, Due, isFinal
  <2>5. rec \in OrderRecord /\ Report(k, rec) \in NamedMsg
    BY <1>1, <2>1, <2>2 DEF Statuses
  <2>6. Reports(k, rec, <<>>, 0)
    BY <1>0, <2>1, <2>2, <2>4, <2>5 DEF Reports
  <2> QED BY <2>6
<1>5. ASSUME NEW v \in 1 .. Lots, Trade(k, v)
      PROVE  \E rec, trades, lots : Reports(k, rec, trades, lots)
  <2> DEFINE rest == exchange[k].total - v
             rec == [exchange[k] EXCEPT
                        !.traded = @ + v, !.total = rest,
                        !.status = IF rest = 0 THEN "allTraded" ELSE "partTraded"]
             trade == [kind |-> "trade", key |-> k, vol |-> v]
  <2>1. /\ Becomes(k, rec, <<trade>>)
        /\ exchange[k].status \in {"noTrade", "partTraded"}
    BY <1>5 DEF Trade, Live
  <2>2. /\ rec.traded = exchange[k].traded + v
        /\ rec.status \in {"allTraded", "partTraded"}
        /\ rec.rejected = exchange[k].rejected
    BY <1>0 DEF ExchangeState
  <2>3. trade \in TradeMsg /\ trade.key = k /\ trade.vol = v /\ v \in Nat
    BY <1>0 DEF TradeMsg
  <2> HIDE DEF rec, trade
  <2>4. Due(rec) = 0 /\ Due(exchange[k]) = 0
    BY <2>1, <2>2 DEF Due
  <2>5. k \in Own => ToRelease(k, rec) = 0
    BY <2>1, <2>2 DEF ToRelease, Released, isFinal, LiveInv, LiveSound
  <2>6. rec \in OrderRecord /\ Report(k, rec) \in NamedMsg
    BY <1>1, <2>1, <2>2 DEF Statuses
  <2>7. Reports(k, rec, <<trade>>, v)
    BY <1>0, <2>1, <2>2, <2>3, <2>4, <2>5, <2>6 DEF Reports
  <2> QED BY <2>7
<1>6. ASSUME NEW total \in 0 .. Lots, Cancel(k, total)
      PROVE  \E rec, trades, lots : Reports(k, rec, trades, lots)
  <2> DEFINE rec == [exchange[k] EXCEPT !.status = "canceled", !.total = total]
  <2>1. /\ total \in {0, exchange[k].total} /\ Becomes(k, rec, <<>>)
        /\ exchange[k].status \in {"noTrade", "partTraded"}
    BY <1>6 DEF Cancel, Live
  <2>2. /\ rec.traded = exchange[k].traded /\ rec.total = total
        /\ rec.status = "canceled"
    BY <1>0 DEF ExchangeState
  <2> HIDE DEF rec
  <2>3. Due(rec) = Lots - exchange[k].traded /\ Due(exchange[k]) = 0
    BY <2>1, <2>2 DEF Due
  <2>4. ASSUME k \in Own PROVE ToRelease(k, rec) = Lots - exchange[k].traded
    <3>1. exchange[k].traded + exchange[k].total = Lots
      BY <2>1, <2>4 DEF LiveInv, LiveSound
    <3>2. total = 0 \/ total = Lots - exchange[k].traded
      BY <1>0, <2>1, <3>1
    <3> QED BY <1>0, <2>2, <2>4, <3>2 DEF ToRelease, Released, isFinal
  <2>5. rec \in OrderRecord /\ Report(k, rec) \in NamedMsg
    BY <1>1, <2>1, <2>2 DEF Statuses
  <2>6. Reports(k, rec, <<>>, 0)
    BY <1>0, <2>1, <2>2, <2>3, <2>4, <2>5 DEF Reports
  <2> QED BY <2>6
<1> QED BY <1>2, <1>3, <1>4, <1>5, <1>6 DEF Exchange

\* What a message books of order k, and what it releases.
Fills(k) ==
    [m \in Messages |-> IF m.kind = "trade" /\ m.key = k THEN m.vol ELSE 0]

Releases(k) ==
    [m \in Messages |-> IF IsReport(m, k) THEN ToRelease(k, m.rec) ELSE 0]

\* Both are numbers of lots.
LEMMA WeightsTyped ==
    ASSUME NEW k
    PROVE  Fills(k) \in [Messages -> Nat] /\ Releases(k) \in [Messages -> Nat]
<1>1. \A m \in Messages : IsReport(m, k) => ToRelease(k, m.rec) \in Nat
  BY ToReleaseIsNat DEF Messages, NamedMsg, OrderMsg, TradeMsg, IsReport
<1>2. \A m \in Messages : m.kind = "trade" => m.vol \in Nat
  BY BoundAssumption DEF Messages, NamedMsg, OrderMsg, TradeMsg
<1> QED BY <1>1, <1>2 DEF Fills, Releases

\* What one report of k, and a trade of so many lots, do to the messages.
Tells(more, seq, n, k, rec, lots) ==
    /\ LastSays(more, k, rec) /\ ~Silent(more, n, k)
    /\ \A j : j # k =>
          /\ Silent(more, n, j) => Silent(seq, n, j)
          /\ \A r : LastSays(seq, j, r) => LastSays(more, j, r)
    /\ \A j :
          /\ Weighed(more, n, Fills(j))
                 = Weighed(seq, n, Fills(j)) + IF j = k THEN lots ELSE 0
          /\ Weighed(more, n, Releases(j))
                 = Weighed(seq, n, Releases(j)) + IF j = k THEN ToRelease(k, rec) ELSE 0
    /\ \A i \in DOMAIN more :
          \/ i \in DOMAIN seq /\ more[i] = seq[i]
          \/ IsReport(more[i], k) /\ more[i].rec = rec
          \/ more[i].kind = "trade"

\* The report alone.
LEMMA ReportTells ==
    ASSUME NEW seq \in Seq(Messages), NEW n \in 0 .. Len(seq), NEW k,
           NEW m \in Messages, IsReport(m, k)
    PROVE  Tells(Append(seq, m), seq, n, k, m.rec, 0)
<1> DEFINE with == Append(seq, m)
<1>1. /\ Len(seq) \in Nat /\ n \in Nat
      /\ DOMAIN with = 1 .. Len(seq) + 1 /\ DOMAIN seq = 1 .. Len(seq)
      /\ \A i \in 1 .. Len(seq) : with[i] = seq[i]
      /\ with[Len(seq) + 1] = m
  BY AppendProperties, LenProperties
<1>2. \A j : IsReport(m, j) <=> j = k
  BY DEF IsReport
<1>3. ASSUME NEW j
      PROVE  /\ Silent(with, n, j) => Silent(seq, n, j)
             /\ j = k => LastSays(with, j, m.rec) /\ ~Silent(with, n, j)
             /\ j # k => \A r : LastSays(seq, j, r) => LastSays(with, j, r)
  BY <1>1, <1>2, ReportsAppend
<1>4. ASSUME NEW j
      PROVE  /\ Weighed(with, n, Fills(j))
                    = Weighed(seq, n, Fills(j)) + IF j = k THEN 0 ELSE 0
             /\ Weighed(with, n, Releases(j))
                    = Weighed(seq, n, Releases(j)) + IF j = k THEN ToRelease(k, m.rec) ELSE 0
  <2>1. /\ Weighed(with, n, Fills(j)) = Weighed(seq, n, Fills(j)) + Fills(j)[m]
        /\ Weighed(with, n, Releases(j)) = Weighed(seq, n, Releases(j)) + Releases(j)[m]
    BY WeightsTyped, WeighedAppend
  <2>2. Fills(j)[m] = 0 /\ Releases(j)[m] = IF j = k THEN ToRelease(k, m.rec) ELSE 0
    BY <1>2 DEF Fills, Releases, IsReport
  <2> QED BY <2>1, <2>2
<1>5. ASSUME NEW i \in DOMAIN with
      PROVE  \/ i \in DOMAIN seq /\ with[i] = seq[i]
             \/ IsReport(with[i], k) /\ with[i].rec = m.rec
  <2> HIDE DEF with
  <2>1. CASE i \in 1 .. Len(seq)
    BY <1>1, <2>1
  <2>2. CASE i = Len(seq) + 1
    BY <1>1, <2>2
  <2> QED BY <1>1, <2>1, <2>2
<1> HIDE DEF with
<1>6. Tells(with, seq, n, k, m.rec, 0)
  BY <1>3, <1>4, <1>5 DEF Tells
<1> QED BY <1>6 DEF with

\* The trade after it.
LEMMA TradeTells ==
    ASSUME NEW seq \in Seq(Messages), NEW n \in Nat, NEW k, NEW rec,
           ToRelease(k, rec) \in Nat, NEW with \in Seq(Messages), n <= Len(with), Tells(with, seq, n, k, rec, 0),
           NEW m \in TradeMsg, m.key = k
    PROVE  Tells(Append(with, m), seq, n, k, rec, m.vol)
<1> DEFINE more == Append(with, m)
<1>1. m \in Messages /\ m.kind = "trade"
  BY DEF Messages, TradeMsg
<1>2. /\ Len(with) \in Nat /\ n \in 0 .. Len(with)
      /\ DOMAIN more = 1 .. Len(with) + 1 /\ DOMAIN with = 1 .. Len(with)
      /\ \A i \in 1 .. Len(with) : more[i] = with[i]
      /\ more[Len(with) + 1] = m
  BY <1>1, AppendProperties, LenProperties
<1>3. \A j : ~IsReport(m, j)
  BY <1>1 DEF IsReport
<1>4. ASSUME NEW j
      PROVE  /\ Silent(more, n, j) => Silent(with, n, j)
             /\ \A r : LastSays(with, j, r) => LastSays(more, j, r)
  BY <1>1, <1>3, ReportsAppend
<1>5. ASSUME NEW j
      PROVE  /\ Weighed(more, n, Fills(j))
                    = Weighed(seq, n, Fills(j)) + IF j = k THEN m.vol ELSE 0
             /\ Weighed(more, n, Releases(j))
                    = Weighed(seq, n, Releases(j)) + IF j = k THEN ToRelease(k, rec) ELSE 0
  <2>1. /\ Weighed(more, n, Fills(j)) = Weighed(with, n, Fills(j)) + Fills(j)[m]
        /\ Weighed(more, n, Releases(j)) = Weighed(with, n, Releases(j)) + Releases(j)[m]
    BY <1>1, <1>2, WeightsTyped, WeighedAppend
  <2>2. Releases(j)[m] = 0 /\ Fills(j)[m] = IF j = k THEN m.vol ELSE 0
    BY <1>1, <1>3 DEF Releases, Fills
  <2>3. Weighed(seq, n, Fills(j)) \in Nat /\ Weighed(seq, n, Releases(j)) \in Nat
    BY WeightsTyped, WeighedIsNat
  <2>4. /\ Weighed(with, n, Fills(j))
               = Weighed(seq, n, Fills(j)) + IF j = k THEN 0 ELSE 0
        /\ Weighed(with, n, Releases(j))
               = Weighed(seq, n, Releases(j)) + IF j = k THEN ToRelease(k, rec) ELSE 0
    BY DEF Tells
  <2> QED BY <2>1, <2>2, <2>3, <2>4
<1>6. ASSUME NEW i \in DOMAIN more
      PROVE  \/ i \in DOMAIN seq /\ more[i] = seq[i]
             \/ IsReport(more[i], k) /\ more[i].rec = rec
             \/ more[i].kind = "trade"
  <2> HIDE DEF more
  <2>1. CASE i \in 1 .. Len(with)
    BY <1>2, <2>1 DEF Tells
  <2>2. CASE i = Len(with) + 1
    BY <1>1, <1>2, <2>2
  <2> QED BY <1>2, <2>1, <2>2
<1> HIDE DEF more
<1>7. Tells(more, seq, n, k, rec, m.vol)
  BY <1>4, <1>5, <1>6 DEF Tells
<1> QED BY <1>7 DEF more

\* Both, as the exchange sends them.
LEMMA FlowTells ==
    ASSUME OrderInv, NEW k \in Keys, NEW rec, NEW trades, NEW lots,
           Reports(k, rec, trades, lots)
    PROVE  Tells(flow', flow, read, k, rec, lots)
<1> DEFINE report == Report(k, rec)
           with == Append(flow, report)
<1>1. /\ Report(k, rec) \in NamedMsg
      /\ \/ trades = <<>> /\ lots = 0
         \/ \E m \in TradeMsg : trades = <<m>> /\ m.key = k /\ m.vol = lots
      /\ flow' = with \o trades
  BY DEF Reports, Becomes
<1>2. /\ report \in Messages /\ IsReport(report, k) /\ report.rec = rec
      /\ ToRelease(k, rec) \in Nat
  <2>1. report.key = k /\ report.kind = "order" /\ report.rec = rec
    BY DEF Report
  <2>2. report \in NamedMsg
    BY <1>1
  <2> HIDE DEF report
  <2>3. ToRelease(report.key, report.rec) \in Nat
    BY <2>2, ToReleaseIsNat
  <2> QED BY <2>1, <2>2, <2>3 DEF Messages, IsReport
<1> HIDE DEF report
<1>3. flow \in Seq(Messages) /\ read \in 0 .. Len(flow) /\ Len(flow) \in Nat /\ read \in Nat
  BY ReleaseTypes DEF OrderInv, FrontInv
<1>4. with \in Seq(Messages) /\ Len(with) = Len(flow) + 1
  BY <1>2, <1>3, AppendProperties
<1>5. Tells(with, flow, read, k, rec, 0)
  BY <1>2, <1>3, ReportTells
<1> HIDE DEF with
<1>6. CASE trades = <<>> /\ lots = 0
  <2>1. flow' = with
    BY <1>1, <1>4, <1>6, ConcatEmptySeq
  <2> QED BY <1>5, <1>6, <2>1
<1>7. ASSUME NEW m \in TradeMsg, trades = <<m>>, m.key = k, m.vol = lots
      PROVE  Tells(flow', flow, read, k, rec, lots)
  <2>1. m \in Messages
    BY DEF Messages
  <2>2. flow' = Append(with, m)
    BY <1>1, <1>4, <1>7, <2>1, AppendIsConcat
  <2>3. read <= Len(with)
    BY <1>3, <1>4
  <2>4. Tells(Append(with, m), flow, read, k, rec, m.vol)
    BY <1>2, <1>3, <1>4, <1>5, <1>7, <2>3, TradeTells
  <2> QED BY <1>7, <2>2, <2>4
<1> QED BY <1>1, <1>6, <1>7

LastInv == \A k \in Own : Known(k) => LastSays(flow, k, exchange[k])

\* With no report of k left to push, the last in the ring says what the exchange
\* has, or the record does.
CurrentInv ==
    \A k \in Own :
        Known(k) /\ k \notin missed /\ ~Shared(k) /\ Silent(flow, read, k) =>
        \/ LastSays(order_updates, k, exchange[k])
        \/ /\ Silent(order_updates, 0, k)
           /\ k \in DOMAIN storage /\ storage[k] = exchange[k]

\* In the first session no order_ref is used twice, and the order of a failed
\* call is none of the exchange's.
FirstInv ==
    session = 1 =>
        /\ pc = "insert" => ref <= max_order_ref
        /\ \A r \in Refs :
              r > max_order_ref \/ (pc = "insert" /\ r = ref) => frozen[<<1, r>>] = 0
        /\ \A k \in Own : pc = "undo" /\ inserted = k =>
              exchange[k].status = "none" /\ frozen[k] > 0

\* The two accounts of the lots of k.
Balanced(k) ==
    /\ booked[k] + Weighed(trade_updates, 0, Fills(k)) + Weighed(flow, read, Fills(k))
           = exchange[k].traded
    /\ thawed[k] + Weighed(order_updates, 0, Releases(k))
           + Weighed(flow, read, Releases(k))
           = Due(exchange[k])

AccountInv ==
    session = 1 =>
        \A k \in Own :
            (frozen[k] = 0 \/ exchange[k].status # "none") /\ k \notin missed
                => Balanced(k)

CurrencyInv == StatesInv /\ LastInv /\ CurrentInv /\ FirstInv /\ AccountInv

\* What a step does not do: take back a number.
Remains == \A k \in Own : Shared(k) => Shared(k)'

\* What the accounts add up is natural numbers.
LEMMA BalanceTypes ==
    ASSUME OrderInv
    PROVE  /\ flow \in Seq(Messages) /\ order_updates \in Seq(Messages)
           /\ trade_updates \in Seq(Messages)
           /\ read \in 0 .. Len(flow) /\ Len(flow) \in Nat /\ read \in Nat
           /\ \A k \in Own :
                 /\ k \in Keys /\ exchange[k] \in ExchangeState
                 /\ exchange[k].traded \in Nat /\ Due(exchange[k]) \in Nat
                 /\ thawed[k] \in Nat /\ booked[k] \in Nat
                 /\ Weighed(flow, read, Fills(k)) \in Nat
                 /\ Weighed(flow, read, Releases(k)) \in Nat
                 /\ Weighed(order_updates, 0, Releases(k)) \in Nat
                 /\ Weighed(trade_updates, 0, Fills(k)) \in Nat
<1>1. /\ flow \in Seq(Messages) /\ order_updates \in Seq(Messages)
      /\ trade_updates \in Seq(Messages)
      /\ read \in 0 .. Len(flow) /\ Len(flow) \in Nat /\ read \in Nat
      /\ Lots \in Nat
      /\ \A k \in Own : thawed[k] \in Nat /\ booked[k] \in Nat
  BY ReleaseTypes DEF OrderInv, FrontInv
<1>2. ASSUME NEW k \in Own
      PROVE  /\ k \in Keys /\ exchange[k] \in ExchangeState
             /\ exchange[k].traded \in Nat /\ Due(exchange[k]) \in Nat
  <2>1. k \in Keys /\ exchange[k] \in ExchangeState
    BY KeysApart DEF OrderInv, FrontInv
  <2>2. exchange[k].traded \in 0 .. Lots
    BY <2>1 DEF ExchangeState
  <2> QED BY <1>1, <2>1, <2>2 DEF Due
<1>3. 0 \in Nat
  OBVIOUS
<1> QED BY <1>1, <1>2, <1>3, WeightsTyped, WeighedIsNat

\* A report of the exchange keeps them all.
LEMMA ReportKeepsCurrency ==
    ASSUME OrderInv, CurrencyInv, Remains,
           NEW k \in Keys, NEW rec, NEW trades, NEW lots, Reports(k, rec, trades, lots)
    PROVE  CurrencyInv'
<1>1. /\ UNCHANGED <<session, max_order_ref, pc, ref, inserted, frozen, storage,
                     thawed, booked, order_updates, trade_updates, read, missed>>
      /\ exchange' = [exchange EXCEPT ![k] = rec]
      /\ exchange \in [Keys -> ExchangeState]
      /\ exchange[k].status # "none"
      /\ rec.status \in Statuses /\ rec.traded = exchange[k].traded + lots
      /\ lots \in Nat
      /\ k \in Own => /\ ToRelease(k, rec) = Due(rec) /\ Due(exchange[k]) = 0
                      /\ rec.status = "unknown" => rec.total = Lots
  BY DEF Reports, Becomes, sender, worker, rings, OrderRecord, OrderInv, FrontInv
<1>2. Tells(flow', flow, read, k, rec, lots)
  BY FlowTells
<1>3. exchange'[k] = rec /\ \A j \in Own : j # k => exchange'[j] = exchange[j]
  BY <1>1, KeysApart
<1>4. \A j \in Own : exchange[j].status = "none" => j # k
  BY <1>1
<1>5. StatesInv'
  BY <1>1, <1>3, <1>4 DEF CurrencyInv, StatesInv
<1>7. LastInv'
  <2>1. ASSUME NEW j \in Own, exchange'[j].status \in Statuses
        PROVE  LastSays(flow', j, exchange'[j])
    BY <1>2, <1>3, <2>1 DEF Tells, CurrencyInv, LastInv, Known
  <2> QED BY <2>1 DEF LastInv, Known
<1>8. CurrentInv'
  <2>1. ASSUME NEW j \in Own, exchange'[j].status \in Statuses, j \notin missed,
               ~Shared(j)', Silent(flow', read, j)
        PROVE  \/ LastSays(order_updates, j, exchange'[j])
               \/ /\ Silent(order_updates, 0, j)
                  /\ j \in DOMAIN storage /\ storage[j] = exchange'[j]
    <3>1. j # k /\ Silent(flow, read, j) /\ ~Shared(j)
      BY <1>2, <2>1 DEF Tells, Remains
    <3> QED BY <1>3, <2>1, <3>1 DEF CurrencyInv, CurrentInv, Known
  <2> QED BY <1>1, <2>1 DEF CurrentInv, Known
<1>9. FirstInv'
  BY <1>1, <1>3, <1>4 DEF CurrencyInv, FirstInv
<1>10. AccountInv'
  <2>1. ASSUME session = 1, NEW j \in Own, j \notin missed,
               frozen[j] = 0 \/ exchange'[j].status # "none"
        PROVE  /\ booked[j] + Weighed(trade_updates, 0, Fills(j))
                      + Weighed(flow', read, Fills(j)) = exchange'[j].traded
               /\ thawed[j] + Weighed(order_updates, 0, Releases(j))
                      + Weighed(flow', read, Releases(j)) = Due(exchange'[j])
    <3>1. frozen[j] = 0 \/ exchange[j].status # "none"
      BY <1>1, <1>3, <2>1
    <3>2. Balanced(j)
      BY <2>1, <3>1 DEF CurrencyInv, AccountInv
    <3>3. /\ Weighed(flow', read, Fills(j))
                 = Weighed(flow, read, Fills(j)) + IF j = k THEN lots ELSE 0
          /\ Weighed(flow', read, Releases(j))
                 = Weighed(flow, read, Releases(j)) + IF j = k THEN ToRelease(k, rec) ELSE 0
      BY <1>2 DEF Tells
    <3>4. /\ thawed[j] \in Nat /\ booked[j] \in Nat
          /\ exchange[j].traded \in Nat /\ Due(exchange[j]) \in Nat
          /\ Weighed(flow, read, Fills(j)) \in Nat
          /\ Weighed(flow, read, Releases(j)) \in Nat
          /\ Weighed(order_updates, 0, Releases(j)) \in Nat
          /\ Weighed(trade_updates, 0, Fills(j)) \in Nat
      BY BalanceTypes
    <3>5. CASE j = k
      <4>1. /\ exchange'[j].traded = exchange[j].traded + lots
            /\ Due(exchange'[j]) = ToRelease(k, rec) /\ Due(exchange[j]) = 0
        BY <1>1, <1>3, <2>1, <3>5
      <4>2. ToRelease(k, rec) \in Nat
        <5>1. Report(k, rec) \in NamedMsg
          BY DEF Reports
        <5>2. ToRelease(Report(k, rec).key, Report(k, rec).rec) \in Nat
          BY <5>1, ToReleaseIsNat
        <5> QED BY <5>2 DEF Report
      <4>3. /\ Weighed(flow', read, Fills(j)) = Weighed(flow, read, Fills(j)) + lots
            /\ Weighed(flow', read, Releases(j))
                   = Weighed(flow, read, Releases(j)) + ToRelease(k, rec)
        BY <3>3, <3>5
      <4>4. booked[j] + Weighed(trade_updates, 0, Fills(j))
                + Weighed(flow', read, Fills(j)) = exchange'[j].traded
        BY <1>1, <3>2, <3>4, <4>1, <4>3 DEF Balanced
      <4>5. thawed[j] + Weighed(order_updates, 0, Releases(j))
                + Weighed(flow, read, Releases(j)) = 0
        BY <3>2, <4>1 DEF Balanced
      <4>6. thawed[j] + Weighed(order_updates, 0, Releases(j))
                + Weighed(flow', read, Releases(j)) = ToRelease(k, rec)
        BY <3>4, <4>2, <4>3, <4>5
      <4> QED BY <4>1, <4>4, <4>6
    <3>6. CASE j # k
      BY <1>3, <3>2, <3>3, <3>4, <3>6 DEF Balanced
    <3> QED BY <3>5, <3>6
  <2> QED BY <1>1, <2>1 DEF AccountInv, Balanced
<1> QED BY <1>5, <1>7, <1>8, <1>9, <1>10 DEF CurrencyInv

\* An order gets on its way or is refused: nothing is heard of it.
LEMMA StatusKeepsCurrency ==
    ASSUME OrderInv, CurrencyInv, Remains, NEW k \in Keys,
           NEW status \in {"submitted", "refused"},
           exchange[k].status \in {"none", "submitted"},
           exchange' = [exchange EXCEPT ![k].status = status],
           UNCHANGED <<flow, read, order_updates, trade_updates, storage, missed>>
    PROVE  /\ LastInv' /\ CurrentInv'
           /\ exchange'[k].status = status /\ \A j \in Own : j # k => exchange'[j] = exchange[j]
           /\ exchange'[k].traded = exchange[k].traded
           /\ Due(exchange'[k]) = Due(exchange[k])
<1>1. exchange \in [Keys -> ExchangeState] /\ exchange[k] \in ExchangeState
  BY DEF OrderInv, FrontInv
<1>2. exchange' = [exchange EXCEPT ![k] = [exchange[k] EXCEPT !.status = status]]
  BY <1>1
<1>3. /\ exchange'[k] = [exchange[k] EXCEPT !.status = status]
      /\ \A j \in Own : j # k => exchange'[j] = exchange[j]
  BY <1>1, <1>2, KeysApart
<1>4. exchange'[k].status = status /\ exchange'[k].traded = exchange[k].traded
  BY <1>1, <1>3 DEF ExchangeState
<1>5. Due(exchange'[k]) = Due(exchange[k])
  BY <1>4 DEF Due
<1>6. \A j \in Own : ~Shared(j)' => ~Shared(j)
  BY DEF Remains
<1>7. \A j \in Own : exchange'[j].status \in Statuses => exchange'[j] = exchange[j]
  BY <1>3, <1>4 DEF Statuses
<1>8. LastInv'
  BY <1>7 DEF CurrencyInv, LastInv, Known
<1>9. CurrentInv'
  BY <1>6, <1>7 DEF CurrencyInv, CurrentInv, Known
<1> QED BY <1>3, <1>4, <1>5, <1>8, <1>9

\* The front refuses an order it got.
LEMMA RefusalKeepsCurrency ==
    ASSUME OrderInv, CurrencyInv, Remains, NEW k \in Keys, RefuseInsert(k)
    PROVE  CurrencyInv'
<1>1. /\ exchange[k].status = "submitted"
      /\ exchange' = [exchange EXCEPT ![k].status = "refused"]
      /\ UNCHANGED <<session, max_order_ref, pc, ref, inserted, frozen, storage, thawed,
                     booked, order_updates, trade_updates, flow, read, missed>>
  BY DEF RefuseInsert, sender, worker, rings, topic
<1>2. /\ LastInv' /\ CurrentInv'
      /\ exchange'[k].status = "refused" /\ \A j \in Own : j # k => exchange'[j] = exchange[j]
      /\ exchange'[k].traded = exchange[k].traded
      /\ Due(exchange'[k]) = Due(exchange[k])
  BY <1>1, StatusKeepsCurrency
<1>3. StatesInv'
  BY <1>1, <1>2 DEF CurrencyInv, StatesInv
<1>4. FirstInv'
  <2>1. \A j \in Own : exchange[j].status = "none" => exchange'[j].status = "none"
    BY <1>1, <1>2
  <2> QED BY <1>1, <2>1 DEF CurrencyInv, FirstInv
<1>5. AccountInv'
  <2>1. \A j \in Own : /\ exchange'[j].status # "none" => exchange[j].status # "none"
                       /\ exchange'[j].traded = exchange[j].traded
                       /\ Due(exchange'[j]) = Due(exchange[j])
    BY <1>1, <1>2
  <2> QED BY <1>1, <2>1 DEF CurrencyInv, AccountInv, Balanced
<1> QED BY <1>2, <1>3, <1>4, <1>5 DEF CurrencyInv

\* sendOrder inserts an order: in the first session under an order_ref nobody
\* had.
LEMMA InsertKeepsCurrency ==
    ASSUME OrderInv, CurrencyInv, Remains, ReqOrderInsert
    PROVE  CurrencyInv'
<1> DEFINE o == <<session, ref>>
<1>1. /\ pc = "insert" /\ inserted' = o /\ pc' \in {"create", "undo"}
      /\ UNCHANGED <<session, max_order_ref, ref, storage, thawed, booked,
                     order_updates, trade_updates, flow, read, missed>>
      /\ frozen' = [frozen EXCEPT ![o] = @ + Lots]
      /\ \/ exchange' = exchange
         \/ /\ pc' = "create"
            /\ exchange' = [exchange EXCEPT ![o].status =
                                IF @ = "none" THEN "submitted" ELSE @]
  BY DEF ReqOrderInsert, worker, rings, topic
<1>2. /\ o \in Own /\ o \in Keys /\ frozen \in [Keys -> Nat]
      /\ Lots \in Nat /\ Lots > 0
      /\ exchange \in [Keys -> ExchangeState] /\ exchange[o] \in ExchangeState
  BY <1>1, KeysApart, BoundAssumption DEF OrderInv, SenderInv, FrontInv
<1>3. session = 1 => frozen[o] = 0 /\ ref <= max_order_ref
  BY <1>1 DEF CurrencyInv, FirstInv, OrderInv, SenderInv
<1>4. session \in Nat /\ \A r \in Refs : r \in Nat /\ <<session, r>> \in Own
  BY KeysApart, BoundAssumption DEF OrderInv, SenderInv, Sessions, Refs
<1> HIDE DEF o
<1>5. /\ frozen'[o] = frozen[o] + Lots /\ frozen'[o] > 0
      /\ \A j \in Own : j # o => frozen'[j] = frozen[j]
  BY <1>1, <1>2, KeysApart
<1>6. \/ exchange' = exchange
      \/ /\ pc' = "create" /\ exchange[o].status = "none"
         /\ exchange' = [exchange EXCEPT ![o].status = "submitted"]
  <2>1. ASSUME exchange[o].status # "none",
               exchange' = [exchange EXCEPT ![o].status =
                                IF @ = "none" THEN "submitted" ELSE @]
        PROVE  exchange' = exchange
    <3>1. exchange' = [exchange EXCEPT ![o] =
                           [exchange[o] EXCEPT !.status = exchange[o].status]]
      BY <1>2, <2>1
    <3>2. [exchange[o] EXCEPT !.status = exchange[o].status] = exchange[o]
      BY <1>2 DEF ExchangeState
    <3> QED BY <1>2, <3>1, <3>2
  <2>2. ASSUME exchange[o].status = "none",
               exchange' = [exchange EXCEPT ![o].status =
                                IF @ = "none" THEN "submitted" ELSE @]
        PROVE  exchange' = [exchange EXCEPT ![o].status = "submitted"]
    BY <1>2, <2>2
  <2> QED BY <1>1, <2>1, <2>2
<1>7. /\ LastInv' /\ CurrentInv'
      /\ \A j \in Own : /\ j # o \/ pc' = "undo" => exchange'[j] = exchange[j]
                        /\ exchange'[j].traded = exchange[j].traded
                        /\ Due(exchange'[j]) = Due(exchange[j])
      /\ exchange'[o] = exchange[o] \/ exchange'[o].status = "submitted"
  <2>1. CASE exchange' = exchange
    BY <1>1, <2>1 DEF CurrencyInv, LastInv, CurrentInv, Known, Remains
  <2>2. CASE /\ pc' = "create" /\ exchange[o].status = "none"
             /\ exchange' = [exchange EXCEPT ![o].status = "submitted"]
    <3>1. /\ LastInv' /\ CurrentInv'
          /\ exchange'[o].status = "submitted"
          /\ \A j \in Own : j # o => exchange'[j] = exchange[j]
          /\ exchange'[o].traded = exchange[o].traded
          /\ Due(exchange'[o]) = Due(exchange[o])
      BY <1>1, <1>2, <2>2, StatusKeepsCurrency
    <3> QED BY <2>2, <3>1
  <2> QED BY <1>6, <2>1, <2>2
<1>8. StatesInv'
  <2>1. ASSUME NEW j \in Own
        PROVE  /\ frozen'[j] = 0 => exchange'[j].status = "none"
               /\ exchange'[j].status = "unknown" => exchange'[j].total = Lots
    <3>1. /\ frozen[j] = 0 => exchange[j].status = "none"
          /\ exchange[j].status = "unknown" => exchange[j].total = Lots
      BY DEF CurrencyInv, StatesInv
    <3>2. CASE j # o
      BY <1>5, <1>7, <3>1, <3>2
    <3>3. CASE j = o /\ exchange'[o] = exchange[o]
      BY <1>5, <3>1, <3>3
    <3>4. CASE j = o /\ exchange'[o] # exchange[o]
      <4>1. exchange'[o].status = "submitted" /\ exchange[o].status = "none"
        BY <1>6, <1>7, <3>4
      <4> QED BY <1>2, <1>5, <1>7, <3>1, <3>4, <4>1
    <3> QED BY <3>2, <3>3, <3>4
  <2> QED BY <2>1 DEF StatesInv
<1>9. FirstInv'
  <2>1. ASSUME session = 1, NEW r \in Refs, r > max_order_ref
        PROVE  frozen'[<<1, r>>] = 0
    <3>1. frozen[<<1, r>>] = 0 /\ <<1, r>> \in Own
      BY <1>4, <2>1 DEF CurrencyInv, FirstInv
    <3>2. <<1, r>> # o
      <4>1. r \in Nat /\ ref \in Nat /\ max_order_ref \in Nat
        <5>1. ref \in 0 .. MaxOrders /\ max_order_ref \in 0 .. MaxOrders
          BY DEF OrderInv, SenderInv
        <5>2. r \in Nat
          BY <1>4, <2>1
        <5> QED BY <5>1, <5>2, BoundAssumption
      <4>2. r # ref
        BY <1>3, <2>1, <4>1
      <4> QED BY <4>2 DEF o
    <3> QED BY <1>5, <3>1, <3>2
  <2>2. ASSUME session = 1, NEW j \in Own, pc' = "undo", o = j
        PROVE  exchange'[j].status = "none" /\ frozen'[j] > 0
    BY <1>2, <1>3, <1>5, <1>7, <2>2 DEF CurrencyInv, StatesInv
  <2> QED BY <1>1, <2>1, <2>2 DEF FirstInv
<1>10. AccountInv'
  <2>1. ASSUME session = 1, NEW j \in Own, j \notin missed,
               frozen'[j] = 0 \/ exchange'[j].status # "none"
        PROVE  Balanced(j)
    <3>1. CASE j = o
      BY <1>2, <1>3, <2>1, <3>1 DEF CurrencyInv, AccountInv
    <3>2. CASE j # o
      BY <1>5, <1>7, <2>1, <3>2 DEF CurrencyInv, AccountInv
    <3> QED BY <3>1, <3>2
  <2>2. \A j \in Own : /\ exchange'[j].traded = exchange[j].traded
                       /\ Due(exchange'[j]) = Due(exchange[j])
    BY <1>7
  <2> QED BY <1>1, <2>1, <2>2 DEF AccountInv, Balanced
<1> QED BY <1>7, <1>8, <1>9, <1>10 DEF CurrencyInv

\* An order is sent, and its record made.
LEMMA SendKeepsCurrency ==
    ASSUME OrderInv, CurrencyInv, Remains, Freeze \/ Undo \/ Create
    PROVE  CurrencyInv'
<1>1. UNCHANGED <<session, frozen, booked, order_updates, trade_updates, exchange,
                  flow, read, missed>>
  BY DEF Freeze, Undo, Create, worker, rings, front, topic
<1>2. StatesInv' /\ LastInv'
  BY <1>1 DEF CurrencyInv, StatesInv, LastInv, Known
<1>3. CASE Freeze
  <2>1. /\ max_order_ref' = max_order_ref + 1 /\ ref' = max_order_ref'
        /\ pc' = "insert" /\ storage' = storage /\ thawed' = thawed
    BY <1>3 DEF Freeze, worker
  <2>2. max_order_ref \in Nat
    BY BoundAssumption DEF OrderInv, SenderInv
  <2>3. CurrentInv' /\ AccountInv'
    BY <1>1, <2>1 DEF CurrencyInv, CurrentInv, AccountInv, Balanced, Known, Remains
  <2>4. ASSUME session = 1
        PROVE  /\ ref' <= max_order_ref'
               /\ \A r \in Refs :
                     r > max_order_ref' \/ r = ref' => frozen[<<1, r>>] = 0
    <3>1. \A r \in Refs : r > max_order_ref => frozen[<<1, r>>] = 0
      BY <2>4 DEF CurrencyInv, FirstInv
    <3>2. \A r \in Refs : r \in Nat
      BY BoundAssumption DEF Refs
    <3> QED BY <2>1, <2>2, <3>1, <3>2
  <2>5. FirstInv'
    BY <1>1, <2>1, <2>4 DEF FirstInv
  <2> QED BY <1>2, <2>3, <2>5 DEF CurrencyInv
<1>4. CASE Undo
  <2>1. /\ pc = "undo" /\ pc' = "idle" /\ storage' = storage
        /\ thawed' = [thawed EXCEPT ![inserted] = @ + Lots]
        /\ max_order_ref' = max_order_ref
    BY <1>4 DEF Undo
  <2>2. CurrentInv'
    BY <1>1, <2>1 DEF CurrencyInv, CurrentInv, Known, Remains
  <2>3. FirstInv'
    BY <1>1, <2>1 DEF CurrencyInv, FirstInv
  <2>4. ASSUME session = 1, NEW j \in Own, frozen[j] = 0 \/ exchange[j].status # "none"
        PROVE  thawed'[j] = thawed[j]
    <3>1. inserted # j
      <4>1. inserted = j => exchange[j].status = "none" /\ frozen[j] > 0
        BY <2>1, <2>4 DEF CurrencyInv, FirstInv
      <4> QED BY <2>4, <4>1
    <3>2. thawed \in [Keys -> Nat] /\ j \in Keys
      BY KeysApart DEF OrderInv, RecordInv
    <3> QED BY <2>1, <3>1, <3>2
  <2>5. AccountInv'
    BY <1>1, <2>4 DEF CurrencyInv, AccountInv, Balanced
  <2> QED BY <1>2, <2>2, <2>3, <2>5 DEF CurrencyInv
<1>5. CASE Create
  <2> DEFINE o == <<session, ref>>
  <2>1. /\ pc' = "idle" /\ thawed' = thawed /\ max_order_ref' = max_order_ref
        /\ storage' = IF o \in DOMAIN storage THEN storage ELSE Put(storage, o, Fresh)
    BY <1>5 DEF Create
  <2> HIDE DEF o
  <2>2. \A j \in DOMAIN storage : j \in DOMAIN storage' /\ storage'[j] = storage[j]
    <3>1. CASE o \in DOMAIN storage
      BY <2>1, <3>1
    <3>2. CASE o \notin DOMAIN storage
      <4>1. /\ DOMAIN storage' = DOMAIN storage \cup {o}
            /\ \A j \in DOMAIN storage' :
                  storage'[j] = IF j = o THEN Fresh ELSE storage[j]
        BY <2>1, <3>2 DEF Put
      <4> QED BY <3>2, <4>1
    <3> QED BY <3>1, <3>2
  <2>3. CurrentInv'
    BY <1>1, <2>2 DEF CurrencyInv, CurrentInv, Known, Remains
  <2>4. FirstInv'
    BY <1>1, <2>1 DEF CurrencyInv, FirstInv
  <2>5. AccountInv'
    BY <1>1, <2>1 DEF CurrencyInv, AccountInv, Balanced
  <2> QED BY <1>2, <2>3, <2>4, <2>5 DEF CurrencyInv
<1> QED BY <1>3, <1>4, <1>5

\* A login pushes everything again: no report is left unpushed.
LEMMA LoginKeepsCurrency ==
    ASSUME OrderInv, CurrencyInv, OnRspUserLogin
    PROVE  CurrencyInv'
<1>1. /\ session' = session + 1 /\ read' = 0 /\ session \in Nat /\ session >= 1
      /\ UNCHANGED <<frozen, storage, order_updates, exchange, flow>>
      /\ flow \in Seq(Messages)
  BY BalanceTypes, BoundAssumption DEF OnRspUserLogin, worker, rings, OrderInv, SenderInv,
                                       Sessions
<1>2. session' # 1
  BY <1>1
<1>3. StatesInv' /\ LastInv'
  BY <1>1 DEF CurrencyInv, StatesInv, LastInv, Known
<1>4. ASSUME NEW k \in Own, exchange[k].status \in Statuses
      PROVE  ~Silent(flow, 0, k)
  <2>1. PICK i \in DOMAIN flow : IsReport(flow[i], k)
    BY <1>4 DEF CurrencyInv, LastInv, Known, LastSays
  <2>2. i > 0
    BY <1>1, <2>1, LenProperties
  <2> QED BY <2>1, <2>2 DEF Silent
<1>5. CurrentInv'
  BY <1>1, <1>4 DEF CurrentInv, Known
<1> QED BY <1>2, <1>3, <1>5 DEF CurrencyInv, FirstInv, AccountInv

\* The SPI thread takes the next message: the ring gets it, or the order is
\* missed.
LEMMA DeliverTakes ==
    ASSUME OrderInv, Deliver
    PROVE  /\ read' = read + 1 /\ read + 1 \in 1 .. Len(flow)
           /\ flow[read + 1] \in Messages
           /\ UNCHANGED <<sender, worker, exchange, flow>>
           /\ \/ /\ flow[read + 1].kind = "order"
                 /\ order_updates' = Append(order_updates, flow[read + 1])
                 /\ UNCHANGED <<trade_updates, missed>>
              \/ /\ flow[read + 1].kind = "trade"
                 /\ trade_updates' = Append(trade_updates, flow[read + 1])
                 /\ UNCHANGED <<order_updates, missed>>
              \/ /\ missed' = missed \cup {flow[read + 1].key}
                 /\ UNCHANGED <<order_updates, trade_updates>>
<1>1. /\ read < Len(flow) /\ read' = read + 1
      /\ UNCHANGED <<sender, worker, exchange, flow>>
  BY DEF Deliver, OnRtnOrder, OnRtnTrade, Arrives
<1>2. read + 1 \in 1 .. Len(flow)
  BY <1>1, BalanceTypes
<1>3. flow[read + 1] \in Messages
  BY <1>2, BalanceTypes, LenProperties, ElementOfSeq
<1>4. CASE OnRtnOrder
  BY <1>1, <1>2, <1>3, <1>4 DEF OnRtnOrder, Arrives
<1>5. CASE OnRtnTrade
  BY <1>1, <1>2, <1>3, <1>5 DEF OnRtnTrade, Arrives
<1> QED BY <1>4, <1>5 DEF Deliver

\* So all is kept when it does.
LEMMA DeliverKeepsCurrency ==
    ASSUME OrderInv, CurrencyInv, Remains, Deliver
    PROVE  CurrencyInv'
<1> DEFINE m == flow[read + 1]
<1>1. /\ read' = read + 1 /\ read + 1 \in 1 .. Len(flow) /\ m \in Messages
      /\ UNCHANGED <<sender, worker, exchange, flow>>
      /\ \/ /\ m.kind = "order" /\ order_updates' = Append(order_updates, m)
            /\ UNCHANGED <<trade_updates, missed>>
         \/ /\ m.kind = "trade" /\ trade_updates' = Append(trade_updates, m)
            /\ UNCHANGED <<order_updates, missed>>
         \/ /\ missed' = missed \cup {m.key}
            /\ UNCHANGED <<order_updates, trade_updates>>
  BY DeliverTakes
<1>2. /\ flow \in Seq(Messages) /\ order_updates \in Seq(Messages)
      /\ trade_updates \in Seq(Messages) /\ read \in Nat
      /\ DOMAIN flow = 1 .. Len(flow) /\ read + 1 \in DOMAIN flow
  BY <1>1, BalanceTypes, LenProperties
<1>3. UNCHANGED <<session, max_order_ref, pc, ref, inserted, frozen, storage, thawed,
                  booked>>
  BY <1>1 DEF sender, worker
<1>4. missed \subseteq missed' /\ DOMAIN order_updates = 1 .. Len(order_updates)
      /\ Len(order_updates) \in Nat
  BY <1>1, <1>2, LenProperties
<1> HIDE DEF m
<1>5. StatesInv' /\ LastInv' /\ FirstInv'
  BY <1>1, <1>3 DEF CurrencyInv, StatesInv, LastInv, FirstInv, Known
<1>7. CurrentInv'
  <2> SUFFICES ASSUME NEW k \in Own, exchange[k].status \in Statuses, k \notin missed',
                      ~Shared(k), Silent(flow, read + 1, k)
               PROVE  \/ LastSays(order_updates', k, exchange[k])
                      \/ /\ Silent(order_updates', 0, k)
                         /\ k \in DOMAIN storage /\ storage[k] = exchange[k]
    BY <1>1, <1>3 DEF CurrentInv, Known, Remains
  <2>1. CASE IsReport(m, k)
    <3>1. PICK i \in DOMAIN flow :
             IsReport(flow[i], k) /\ flow[i].rec = exchange[k] /\ Silent(flow, i, k)
      BY DEF CurrencyInv, LastInv, Known, LastSays
    <3>2. ~(i > read + 1) /\ ~(read + 1 > i)
      BY <1>2, <2>1, <3>1 DEF Silent, m
    <3>3. i = read + 1
      BY <1>2, <3>1, <3>2
    <3>4. m.rec = exchange[k] /\ m.kind = "order" /\ m.key = k
      BY <2>1, <3>1, <3>3 DEF m, IsReport
    <3>5. order_updates' = Append(order_updates, m)
      BY <1>1, <3>4
    <3>6. LastSays(Append(order_updates, m), k, m.rec)
      BY <1>1, <1>2, <2>1, ReportsAppend
    <3> QED BY <3>4, <3>5, <3>6
  <2>2. CASE ~IsReport(m, k)
    <3>1. Silent(flow, read, k)
      <4>1. ASSUME NEW i \in DOMAIN flow, i > read PROVE ~IsReport(flow[i], k)
        <5>1. i = read + 1 \/ i > read + 1
          BY <1>2, <4>1
        <5> QED BY <2>2, <4>1, <5>1 DEF Silent, m
      <4> QED BY <4>1 DEF Silent
    <3>2. \/ LastSays(order_updates, k, exchange[k])
          \/ /\ Silent(order_updates, 0, k)
             /\ k \in DOMAIN storage /\ storage[k] = exchange[k]
      BY <1>4, <3>1 DEF CurrencyInv, CurrentInv, Known
    <3>3. CASE order_updates' = order_updates
      BY <3>2, <3>3
    <3>4. CASE order_updates' = Append(order_updates, m)
      <4>1. /\ Silent(order_updates, 0, k) => Silent(Append(order_updates, m), 0, k)
            /\ \A rec : LastSays(order_updates, k, rec)
                           => LastSays(Append(order_updates, m), k, rec)
        BY <1>1, <1>2, <2>2, ReportsAppend
      <4> QED BY <3>2, <3>4, <4>1
    <3> QED BY <1>1, <3>3, <3>4
  <2> QED BY <2>1, <2>2
<1>8. AccountInv'
  <2> SUFFICES ASSUME session = 1, NEW k \in Own, k \notin missed',
                      frozen[k] = 0 \/ exchange[k].status # "none"
               PROVE  /\ booked[k] + Weighed(trade_updates', 0, Fills(k))
                             + Weighed(flow, read + 1, Fills(k)) = exchange[k].traded
                      /\ thawed[k] + Weighed(order_updates', 0, Releases(k))
                             + Weighed(flow, read + 1, Releases(k)) = Due(exchange[k])
    BY <1>1, <1>3 DEF AccountInv, Balanced
  <2> DEFINE fill == Fills(k)[m]
             give == Releases(k)[m]
             ft == Weighed(trade_updates, 0, Fills(k))
             ff == Weighed(flow, read + 1, Fills(k))
             go == Weighed(order_updates, 0, Releases(k))
             gf == Weighed(flow, read + 1, Releases(k))
  <2>1. /\ booked[k] + ft + Weighed(flow, read, Fills(k)) = exchange[k].traded
        /\ thawed[k] + go + Weighed(flow, read, Releases(k)) = Due(exchange[k])
    BY <1>4 DEF CurrencyInv, AccountInv, Balanced
  <2>2. read + 1 \in Nat /\ 0 \in Nat
    BY <1>2
  <2>3. /\ fill \in Nat /\ give \in Nat
        /\ ft \in Nat /\ ff \in Nat /\ go \in Nat /\ gf \in Nat
        /\ booked[k] \in Nat /\ thawed[k] \in Nat
    BY <1>1, <1>2, <2>2, BalanceTypes, WeightsTyped, WeighedIsNat
  <2>4. /\ Weighed(flow, read, Fills(k)) = fill + ff
        /\ Weighed(flow, read, Releases(k)) = give + gf
    BY <1>1, <1>2, WeightsTyped, WeighedNext DEF m
  <2>5. /\ Weighed(trade_updates', 0, Fills(k)) = ft + fill
        /\ Weighed(order_updates', 0, Releases(k)) = go + give
    <3>1. CASE /\ m.kind = "order" /\ order_updates' = Append(order_updates, m)
               /\ trade_updates' = trade_updates
      <4>1. fill = 0
        BY <1>1, <3>1 DEF Fills
      <4>2. 0 \in 0 .. Len(order_updates)
        BY <1>4
      <4>3. Weighed(Append(order_updates, m), 0, Releases(k)) = go + give
        BY <1>1, <1>2, <4>2, WeightsTyped, WeighedAppend
      <4> QED BY <2>3, <3>1, <4>1, <4>3
    <3>2. CASE /\ m.kind = "trade" /\ trade_updates' = Append(trade_updates, m)
               /\ order_updates' = order_updates
      <4>1. give = 0
        BY <1>1, <3>2 DEF Releases, IsReport
      <4>2. 0 \in 0 .. Len(trade_updates)
        BY <1>2, LenProperties
      <4>3. Weighed(Append(trade_updates, m), 0, Fills(k)) = ft + fill
        BY <1>1, <1>2, <4>2, WeightsTyped, WeighedAppend
      <4> QED BY <2>3, <3>2, <4>1, <4>3
    <3>3. CASE /\ missed' = missed \cup {m.key}
               /\ order_updates' = order_updates /\ trade_updates' = trade_updates
      <4>1. m.key # k
        BY <3>3
      <4>2. fill = 0 /\ give = 0
        BY <1>1, <4>1 DEF Fills, Releases, IsReport
      <4> QED BY <2>3, <3>3, <4>2
    <3> QED BY <1>1, <3>1, <3>2, <3>3
  <2> HIDE DEF fill, give, ft, ff, go, gf
  <2>6. booked[k] + (ft + fill) + ff = booked[k] + ft + (fill + ff)
        /\ thawed[k] + (go + give) + gf = thawed[k] + go + (give + gf)
    BY <2>3
  <2> QED BY <2>1, <2>4, <2>5, <2>6 DEF ff, gf
<1> QED BY <1>5, <1>7, <1>8 DEF CurrencyInv

\* The worker takes the first report out and releases its lots, or the order is
\* missed.  Of the records only the order's own is written, or one of an order that
\* shares its number.
LEMMA UpdateWrites ==
    ASSUME OrderInv, processOrderUpdate
    PROVE  /\ order_updates # <<>> /\ order_updates' = Tail(order_updates)
           /\ UNCHANGED <<sender, front, booked, trade_updates>>
           /\ order_updates[1] \in NamedMsg
           /\ \/ /\ missed' = missed \cup {order_updates[1].key}
                 /\ UNCHANGED <<storage, thawed>>
              \/ /\ missed' = missed /\ DOMAIN storage' = DOMAIN storage
                 /\ \/ order_updates[1].key \in DOMAIN storage
                    \/ Shared(order_updates[1].key)
                 /\ \A j \in DOMAIN storage : ~Shared(j) =>
                       storage'[j] = IF j = order_updates[1].key
                                     THEN Updated(storage[j], order_updates[1].rec)
                                     ELSE storage[j]
                 /\ thawed' = [thawed EXCEPT ![order_updates[1].key] =
                           @ + ToRelease(order_updates[1].key, order_updates[1].rec)]
<1> DEFINE m == order_updates[1]
<1>1. /\ order_updates # <<>> /\ order_updates' = Tail(order_updates)
      /\ UNCHANGED <<sender, front, booked, trade_updates>>
  BY DEF processOrderUpdate
<1>2. m = Head(order_updates) /\ m \in NamedMsg
  BY <1>1, HeadTailProperties DEF OrderInv, QueuesTyped
<1>3. \/ missed' = missed \cup {m.key} /\ UNCHANGED <<storage, thawed>>
      \/ \E k \in Found(m) :
            /\ storage' = [storage EXCEPT ![k] = Updated(@, m.rec)]
            /\ thawed' = [thawed EXCEPT ![m.key] = @ + ToRelease(m.key, m.rec)]
            /\ missed' = missed
  BY <1>2 DEF processOrderUpdate
<1>4. ASSUME NEW k \in Found(m)
      PROVE  /\ k \in DOMAIN storage
             /\ k = m.key \/ (Shared(k) /\ Shared(m.key))
  <2>1. k \in Found(Head(order_updates))
    BY <1>2, <1>4
  <2>2. /\ k \in DOMAIN storage
        /\ \/ k = Head(order_updates).key
           \/ Shared(k) /\ Shared(Head(order_updates).key)
    BY <1>1, <2>1, FoundShared
  <2>3. m.key = Head(order_updates).key
    BY <1>2
  <2> HIDE DEF m
  <2>4. CASE k = Head(order_updates).key
    BY <2>2, <2>3, <2>4
  <2>5. CASE Shared(k) /\ Shared(Head(order_updates).key)
    <3>1. Shared(m.key)
      BY <2>3, <2>5
    <3> QED BY <2>2, <2>5, <3>1
  <2> QED BY <2>2, <2>4, <2>5
<1> HIDE DEF m
<1>5. ASSUME NEW k \in Found(m),
             storage' = [storage EXCEPT ![k] = Updated(@, m.rec)]
      PROVE  /\ DOMAIN storage' = DOMAIN storage
             /\ m.key \in DOMAIN storage \/ Shared(m.key)
             /\ \A j \in DOMAIN storage : ~Shared(j) =>
                   storage'[j] = IF j = m.key THEN Updated(storage[j], m.rec)
                                 ELSE storage[j]
  BY <1>4, <1>5
<1>6. \/ missed' = missed \cup {m.key} /\ UNCHANGED <<storage, thawed>>
      \/ /\ missed' = missed /\ DOMAIN storage' = DOMAIN storage
         /\ m.key \in DOMAIN storage \/ Shared(m.key)
         /\ \A j \in DOMAIN storage : ~Shared(j) =>
               storage'[j] = IF j = m.key THEN Updated(storage[j], m.rec)
                             ELSE storage[j]
         /\ thawed' = [thawed EXCEPT ![m.key] = @ + ToRelease(m.key, m.rec)]
  BY <1>3, <1>5
<1> QED BY <1>1, <1>2, <1>6 DEF m

\* What the last report writes is what the exchange has.
LEMMA UpdateKeepsCurrency ==
    ASSUME OrderInv, CurrencyInv, Remains, processOrderUpdate
    PROVE  CurrencyInv'
<1> DEFINE m == order_updates[1]
<1>1. /\ order_updates # <<>> /\ order_updates' = Tail(order_updates)
      /\ UNCHANGED <<sender, front, booked, trade_updates>>
      /\ m \in NamedMsg
      /\ \/ missed' = missed \cup {m.key} /\ UNCHANGED <<storage, thawed>>
         \/ /\ missed' = missed /\ DOMAIN storage' = DOMAIN storage
            /\ m.key \in DOMAIN storage \/ Shared(m.key)
            /\ \A j \in DOMAIN storage : ~Shared(j) =>
                  storage'[j] = IF j = m.key THEN Updated(storage[j], m.rec)
                                ELSE storage[j]
            /\ thawed' = [thawed EXCEPT ![m.key] = @ + ToRelease(m.key, m.rec)]
  BY UpdateWrites
<1>2. UNCHANGED <<session, max_order_ref, pc, ref, inserted, frozen, exchange, flow, read>>
  BY <1>1 DEF sender, front, topic
<1>3. /\ m \in Messages /\ m.kind = "order" /\ m.rec \in OrderRecord
      /\ missed \subseteq missed'
  BY <1>1 DEF NamedMsg, OrderMsg, Messages
<1>4. /\ order_updates \in Seq(Messages) /\ Tail(order_updates) \in Seq(Messages)
      /\ 1 \in DOMAIN order_updates
      /\ \A i \in DOMAIN order_updates' :
            i + 1 \in DOMAIN order_updates /\ order_updates'[i] = order_updates[i + 1]
  <2>1. order_updates \in Seq(Messages)
    BY BalanceTypes
  <2>2. /\ Tail(order_updates) \in Seq(Messages)
        /\ Len(Tail(order_updates)) = Len(order_updates) - 1
        /\ \A i \in 1 .. Len(Tail(order_updates)) :
              Tail(order_updates)[i] = order_updates[i + 1]
    BY <1>1, <2>1, HeadTailProperties
  <2>3. /\ Len(order_updates) \in Nat /\ Len(order_updates) # 0
        /\ DOMAIN order_updates = 1 .. Len(order_updates)
        /\ DOMAIN order_updates' = 1 .. Len(order_updates) - 1
    BY <1>1, <2>1, <2>2, LenProperties, EmptySeq
  <2> QED BY <1>1, <2>1, <2>2, <2>3
<1> HIDE DEF m
<1>5. StatesInv' /\ LastInv' /\ FirstInv'
  BY <1>2 DEF CurrencyInv, StatesInv, LastInv, FirstInv, Known
<1>7. CurrentInv'
  <2> SUFFICES ASSUME NEW k \in Own, exchange[k].status \in Statuses, k \notin missed',
                      ~Shared(k), Silent(flow, read, k)
               PROVE  \/ LastSays(Tail(order_updates), k, exchange[k])
                      \/ /\ Silent(Tail(order_updates), 0, k)
                         /\ k \in DOMAIN storage' /\ storage'[k] = exchange[k]
    BY <1>1, <1>2 DEF CurrentInv, Known, Remains
  <2>1. \/ LastSays(order_updates, k, exchange[k])
        \/ /\ Silent(order_updates, 0, k)
           /\ k \in DOMAIN storage /\ storage[k] = exchange[k]
    BY <1>3 DEF CurrencyInv, CurrentInv, Known
  <2>2. /\ Silent(order_updates, 0, k)
               => Silent(Tail(order_updates), 0, k) /\ ~IsReport(m, k)
        /\ LastSays(order_updates, k, exchange[k]) =>
              \/ LastSays(Tail(order_updates), k, exchange[k])
              \/ /\ Silent(Tail(order_updates), 0, k)
                 /\ IsReport(m, k) /\ m.rec = exchange[k]
    BY <1>1, <1>4, ReportsTail DEF m
  <2>3. CASE /\ Silent(Tail(order_updates), 0, k) /\ ~IsReport(m, k)
             /\ k \in DOMAIN storage /\ storage[k] = exchange[k]
    <3>1. m.key # k
      BY <1>3, <2>3 DEF IsReport
    <3>2. k \in DOMAIN storage' /\ storage'[k] = storage[k]
      BY <1>1, <2>3, <3>1
    <3> QED BY <2>3, <3>2
  <2>4. CASE /\ Silent(Tail(order_updates), 0, k)
             /\ IsReport(m, k) /\ m.rec = exchange[k]
    <3>1. m.key = k
      BY <2>4 DEF IsReport
    <3>2. k \in DOMAIN storage /\ k \in DOMAIN storage'
          /\ storage'[k] = Updated(storage[k], exchange[k])
      BY <1>1, <2>4, <3>1
    <3>3. storage[k].sys = NoSysID \/ storage[k].sys = exchange[k].sys
      <4>1. storage[k].sys \in {OrderSysID[k], NoSysID}
        BY <3>2 DEF OrderInv, RecordInv
      <4>2. exchange[k].sys \in {OrderSysID[k], NoSysID}
        BY <1>1, <2>4, <3>1 DEF NamedMsg
      <4>3. exchange[k].sys = NoSysID => storage[k].sys = NoSysID
        BY <3>2 DEF OrderInv, NamesInv
      <4> QED BY <4>1, <4>2, <4>3
    <3>4. Updated(storage[k], exchange[k]) = exchange[k]
      <4>1. exchange[k] \in OrderRecord
        BY <1>3, <2>4
      <4>2. [exchange[k] EXCEPT !.sys = exchange[k].sys] = exchange[k]
        BY <4>1 DEF OrderRecord
      <4> QED BY <3>3, <4>2 DEF Updated
    <3> QED BY <2>4, <3>2, <3>4
  <2> QED BY <2>1, <2>2, <2>3, <2>4
<1>8. AccountInv'
  <2> SUFFICES ASSUME session = 1, NEW k \in Own, k \notin missed',
                      frozen[k] = 0 \/ exchange[k].status # "none"
               PROVE  thawed'[k] + Weighed(order_updates', 0, Releases(k))
                             + Weighed(flow, read, Releases(k)) = Due(exchange[k])
    BY <1>1, <1>2, <1>3 DEF CurrencyInv, AccountInv, Balanced
  <2> DEFINE give == Releases(k)[m]
             go == Weighed(Tail(order_updates), 0, Releases(k))
             gf == Weighed(flow, read, Releases(k))
  <2>1. thawed[k] + Weighed(order_updates, 0, Releases(k)) + gf = Due(exchange[k])
    BY <1>3 DEF CurrencyInv, AccountInv, Balanced
  <2>2. Weighed(order_updates, 0, Releases(k)) = give + go
    BY <1>1, <1>4, WeightsTyped, WeighedTail DEF m
  <2>3. give \in Nat /\ go \in Nat /\ gf \in Nat /\ thawed[k] \in Nat
    <3>1. 0 \in Nat
      OBVIOUS
    <3> QED BY <1>3, <1>4, <3>1, BalanceTypes, WeightsTyped, WeighedIsNat
  <2>4. thawed'[k] = thawed[k] + give
    <3>1. thawed \in [Keys -> Nat] /\ k \in Keys
      BY KeysApart DEF OrderInv, RecordInv
    <3>2. CASE m.key = k
      <4>1. give = ToRelease(k, m.rec)
        BY <1>3, <3>2 DEF Releases, IsReport
      <4>2. thawed' = [thawed EXCEPT ![k] = @ + ToRelease(k, m.rec)]
        BY <1>1, <3>2
      <4> QED BY <3>1, <4>1, <4>2
    <3>3. CASE m.key # k
      <4>1. give = 0
        BY <1>3, <3>3 DEF Releases, IsReport
      <4>2. thawed'[k] = thawed[k]
        BY <1>1, <3>1, <3>3
      <4> QED BY <2>3, <4>1, <4>2
    <3> QED BY <3>2, <3>3
  <2>5. Weighed(order_updates', 0, Releases(k)) = go
    BY <1>1
  <2> HIDE DEF give, go, gf
  <2>6. thawed[k] + give + go + gf = thawed[k] + (give + go) + gf
    BY <2>3
  <2> QED BY <2>1, <2>2, <2>4, <2>5, <2>6 DEF gf
<1> QED BY <1>5, <1>7, <1>8 DEF CurrencyInv

\* The worker takes the first trade out and books it.
LEMMA FillKeepsCurrency ==
    ASSUME OrderInv, CurrencyInv, Remains, processTradeUpdate
    PROVE  CurrencyInv'
<1> DEFINE m == trade_updates[1]
<1>1. /\ trade_updates # <<>> /\ trade_updates' = Tail(trade_updates)
      /\ UNCHANGED <<session, max_order_ref, pc, ref, inserted, frozen, storage, thawed,
                     order_updates, exchange, flow, read, missed>>
  BY DEF processTradeUpdate, sender, front, topic
<1>2. m = Head(trade_updates) /\ m \in TradeMsg
  BY <1>1, HeadTailProperties DEF OrderInv, QueuesTyped
<1>3. booked' = [booked EXCEPT ![m.key] = @ + m.vol]
  BY <1>2 DEF processTradeUpdate
<1>4. trade_updates \in Seq(Messages) /\ Tail(trade_updates) \in Seq(Messages)
  BY <1>1, BalanceTypes, HeadTailProperties
<1>5. m \in Messages /\ m.kind = "trade"
  BY <1>2 DEF Messages, TradeMsg
<1> HIDE DEF m
<1>6. StatesInv' /\ LastInv' /\ CurrentInv' /\ FirstInv'
  BY <1>1 DEF CurrencyInv, StatesInv, LastInv, CurrentInv, FirstInv, Known, Remains
<1>7. AccountInv'
  <2> SUFFICES ASSUME session = 1, NEW k \in Own, k \notin missed,
                      frozen[k] = 0 \/ exchange[k].status # "none"
               PROVE  booked'[k] + Weighed(trade_updates', 0, Fills(k))
                             + Weighed(flow, read, Fills(k)) = exchange[k].traded
    BY <1>1 DEF CurrencyInv, AccountInv, Balanced
  <2> DEFINE fill == Fills(k)[m]
             ft == Weighed(Tail(trade_updates), 0, Fills(k))
             ff == Weighed(flow, read, Fills(k))
  <2>1. booked[k] + Weighed(trade_updates, 0, Fills(k)) + ff = exchange[k].traded
    BY DEF CurrencyInv, AccountInv, Balanced
  <2>2. Weighed(trade_updates, 0, Fills(k)) = fill + ft
    BY <1>1, <1>4, WeightsTyped, WeighedTail DEF m
  <2>3. fill \in Nat /\ ft \in Nat /\ ff \in Nat /\ booked[k] \in Nat
    <3>1. 0 \in Nat
      OBVIOUS
    <3> QED BY <1>4, <1>5, <3>1, BalanceTypes, WeightsTyped, WeighedIsNat
  <2>4. booked'[k] = booked[k] + fill
    <3>1. booked \in [Keys -> Nat] /\ k \in Keys
      BY KeysApart DEF OrderInv, RecordInv
    <3>2. CASE m.key = k
      <4>1. fill = m.vol
        BY <1>5, <3>2 DEF Fills
      <4> QED BY <1>3, <3>1, <3>2, <4>1
    <3>3. CASE m.key # k
      <4>1. fill = 0
        BY <1>5, <3>3 DEF Fills
      <4>2. booked'[k] = booked[k]
        BY <1>3, <3>1, <3>3
      <4> QED BY <2>3, <4>1, <4>2
    <3> QED BY <3>2, <3>3
  <2>5. Weighed(trade_updates', 0, Fills(k)) = ft
    BY <1>1
  <2> HIDE DEF fill, ft, ff
  <2>6. booked[k] + fill + ft + ff = booked[k] + (fill + ft) + ff
    BY <2>3
  <2> QED BY <2>1, <2>2, <2>4, <2>5, <2>6 DEF ff
<1> QED BY <1>6, <1>7 DEF CurrencyInv

\* Every step keeps records current.
LEMMA CurrencyKept ==
    ASSUME OrderInv, OrderInv', ChainInv, LiveInv, CurrencyInv, [Next]_vars
    PROVE  CurrencyInv'
<1>0. Remains
  BY KeysApart, SharedStays DEF OrderInv, Remains
<1>1. ASSUME UNCHANGED <<session, max_order_ref, pc, ref, inserted, frozen, storage,
                         thawed, booked, order_updates, trade_updates, exchange, flow,
                         read, missed>>
      PROVE  CurrencyInv'
  BY <1>0, <1>1 DEF CurrencyInv, StatesInv, LastInv, CurrentInv, FirstInv,
                    AccountInv, Balanced, Known, Remains
<1>2. ASSUME NEW k \in Keys, Exchange(k) PROVE CurrencyInv'
  <2>1. CASE RefuseInsert(k)
    BY <1>0, <2>1, RefusalKeepsCurrency
  <2>2. CASE ~RefuseInsert(k)
    <3>1. StatesInv
      BY DEF CurrencyInv
    <3>2. PICK rec, trades, lots : Reports(k, rec, trades, lots)
      BY <1>2, <2>2, <3>1, ExchangeReports
    <3> QED BY <1>0, <3>2, ReportKeepsCurrency
  <2> QED BY <2>1, <2>2
<1>3. CASE Send
  BY <1>0, <1>3, SendKeepsCurrency, InsertKeepsCurrency DEF Send
<1>4. CASE OnRspUserLogin
  BY <1>4, LoginKeepsCurrency
<1>5. CASE Deliver
  BY <1>0, <1>5, DeliverKeepsCurrency
<1>6. CASE processOrderUpdate \/ processTradeUpdate
  BY <1>0, <1>6, UpdateKeepsCurrency, FillKeepsCurrency
<1>7. CASE cancelAllActive \/ NextLoop \/ \E r \in Refs : cancelOrder(r)
  BY <1>1, <1>7 DEF cancelAllActive, cancelOrder, NextLoop, sender, worker, rings, front,
                    topic
<1>8. CASE UNCHANGED vars
  BY <1>1, <1>8 DEF vars, sender, worker, rings, front, topic
<1> QED BY <1>2, <1>3, <1>4, <1>5, <1>6, <1>7, <1>8 DEF Next, Work

\* In every reachable state the last that is heard of an order nothing was missed
\* of is what the exchange says, and in the first session its lots balance.
THEOREM CurrencyHolds == Spec => []CurrencyInv
<1>1. Init => CurrencyInv
  <2> SUFFICES ASSUME Init PROVE CurrencyInv
    OBVIOUS
  <2>1. /\ storage = <<>> /\ order_updates = <<>> /\ trade_updates = <<>>
        /\ flow = <<>> /\ read = 0 /\ pc = "idle"
        /\ frozen = [k \in Keys |-> 0]
        /\ thawed = [k \in Keys |-> 0] /\ booked = [k \in Keys |-> 0]
    BY DEF Init
  <2>w. PICK working \in SUBSET Others :
            exchange = [k \in Keys |-> IF k \in working THEN Working(k)
                                       ELSE [Fresh EXCEPT !.status = "none"]]
    BY DEF Init
  <2>2. DOMAIN storage = {} /\ DOMAIN order_updates = {} /\ DOMAIN flow = {}
    BY <2>1
  <2>3. ASSUME NEW k \in Own
        PROVE  /\ exchange[k].status = "none"
               /\ exchange[k].traded = 0
               /\ frozen[k] = 0 /\ thawed[k] = 0 /\ booked[k] = 0
    <3>1. k \in Keys /\ k \notin working
      BY KeysApart
    <3> QED BY <2>1, <2>w, <3>1 DEF Fresh
  <2>4. StatesInv
    BY <2>3 DEF StatesInv
  <2>5. LastInv /\ CurrentInv
    BY <2>3 DEF LastInv, CurrentInv, Known, Statuses
  <2>6. FirstInv
    <3>1. \A r \in Refs : 1 \in Sessions /\ <<1, r>> \in Own
      BY BoundAssumption, KeysApart DEF Sessions
    <3> QED BY <2>1, <2>3, <3>1 DEF FirstInv
  <2>7. \A k : Weighed(<<>>, 0, Fills(k)) = 0 /\ Weighed(<<>>, 0, Releases(k)) = 0
    <3>1. <<>> \in Seq(Messages) /\ 0 \in Nat
      BY EmptySeq
    <3>2. \A w : \A i \in 1 .. Len(<<>>) : 0 < i => w[<<>>[i]] = 0
      <4>1. Len(<<>>) = 0
        BY EmptySeq
      <4> QED BY <4>1
    <3> QED BY <3>1, <3>2, WeightsTyped, WeighedOfNothing
  <2>8. ASSUME NEW k \in Own PROVE Balanced(k)
    <3>1. Due(exchange[k]) = 0
      BY <2>3 DEF Due
    <3>2. /\ Weighed(trade_updates, 0, Fills(k)) = 0
          /\ Weighed(order_updates, 0, Releases(k)) = 0
          /\ Weighed(flow, read, Fills(k)) = 0 /\ Weighed(flow, read, Releases(k)) = 0
      BY <2>1, <2>7
    <3> QED BY <2>3, <3>1, <3>2 DEF Balanced
  <2>9. AccountInv
    BY <2>8 DEF AccountInv
  <2> QED BY <2>4, <2>5, <2>6, <2>9 DEF CurrencyInv
<1>2. ASSUME OrderInv, OrderInv', ChainInv, LiveInv, CurrencyInv, [Next]_vars
      PROVE  CurrencyInv'
  BY <1>2, CurrencyKept
<1> QED BY <1>1, <1>2, ChainsHold, ReleasesHold, PTL DEF Spec

\* Once nothing of an order is on its way, and nothing of it was dropped or
\* ignored in this session, its record is the exchange's; in the first session
\* its lots were booked and released, each exactly once.  Nothing is said of an
\* order that shares its number.
THEOREM RecordsAreCurrent == Spec => []RecordsCurrent
<1>1. ASSUME OrderInv, CurrencyInv PROVE RecordsCurrent
  <2> SUFFICES ASSUME NEW k \in DOMAIN storage, Known(k), ~OnTheWay(k), k \notin missed,
                      ~Shared(k)
               PROVE  /\ storage[k] = exchange[k]
                      /\ session = 1 =>
                            /\ booked[k] = exchange[k].traded
                            /\ thawed[k] = Due(exchange[k])
    BY DEF RecordsCurrent, Due
  <2>1. k \in Own
    BY <1>1 DEF OrderInv, RecordInv
  <2>2. /\ flow \in Seq(Messages) /\ order_updates \in Seq(Messages)
        /\ trade_updates \in Seq(Messages) /\ read \in Nat
        /\ thawed[k] \in Nat /\ booked[k] \in Nat
    BY <1>1, <2>1, BalanceTypes
  <2>3. /\ Len(flow) \in Nat /\ DOMAIN flow = 1 .. Len(flow)
        /\ DOMAIN order_updates = 1 .. Len(order_updates)
        /\ DOMAIN trade_updates = 1 .. Len(trade_updates)
    BY <2>2, LenProperties
  <2>4. /\ \A i \in 1 .. Len(flow) : read < i => flow[i].key # k
        /\ \A i \in 1 .. Len(order_updates) : order_updates[i].key # k
        /\ \A i \in 1 .. Len(trade_updates) : trade_updates[i].key # k
    <3>1. \A i \in 1 .. Len(flow) : read < i => i \in read + 1 .. Len(flow)
      BY <2>2, <2>3
    <3> QED BY <2>3, <3>1 DEF OnTheWay
  <2>5. Silent(flow, read, k)
    <3>1. \A i \in 1 .. Len(flow) : i > read => read < i
      BY <2>2
    <3> QED BY <2>3, <2>4, <3>1 DEF Silent, IsReport
  <2>6. ~LastSays(order_updates, k, exchange[k])
    BY <2>3, <2>4 DEF LastSays, IsReport
  <2>7. storage[k] = exchange[k]
    BY <1>1, <2>1, <2>5, <2>6 DEF CurrencyInv, CurrentInv
  <2>8. ASSUME session = 1
        PROVE  booked[k] = exchange[k].traded /\ thawed[k] = Due(exchange[k])
    <3>1. exchange[k].status # "none"
      BY DEF Known, Statuses
    <3>2. Balanced(k)
      BY <1>1, <2>1, <2>8, <3>1 DEF CurrencyInv, AccountInv
    <3>3. \A m \in Messages : m.key # k => Fills(k)[m] = 0 /\ Releases(k)[m] = 0
      BY DEF Fills, Releases, IsReport
    <3>4. /\ \A i \in 1 .. Len(flow) : flow[i] \in Messages
          /\ \A i \in 1 .. Len(order_updates) : order_updates[i] \in Messages
          /\ \A i \in 1 .. Len(trade_updates) : trade_updates[i] \in Messages
      BY <2>2, ElementOfSeq
    <3>5. /\ \A i \in 1 .. Len(flow) : read < i =>
                Fills(k)[flow[i]] = 0 /\ Releases(k)[flow[i]] = 0
          /\ \A i \in 1 .. Len(order_updates) : Releases(k)[order_updates[i]] = 0
          /\ \A i \in 1 .. Len(trade_updates) : Fills(k)[trade_updates[i]] = 0
      BY <2>4, <3>3, <3>4
    <3>6. /\ Weighed(flow, read, Fills(k)) = 0 /\ Weighed(flow, read, Releases(k)) = 0
          /\ Weighed(order_updates, 0, Releases(k)) = 0
          /\ Weighed(trade_updates, 0, Fills(k)) = 0
      <4>1. 0 \in Nat
        OBVIOUS
      <4> QED BY <2>2, <3>5, <4>1, WeightsTyped, WeighedOfNothing
    <3> QED BY <2>2, <3>2, <3>6 DEF Balanced
  <2> QED BY <2>7, <2>8
<1> QED BY <1>1, OrderInvariant, CurrencyHolds, PTL
=============================================================================
