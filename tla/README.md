# FalconGateway in TLA+

FalconGateway is a C++ gateway between a trading strategy and CTP, the API of
the Chinese futures exchanges. Its purpose is a *local book*: positions, margin,
frozen money and orders followed in real time, so that the strategy need not ask
the front. This directory models the parts of it where that book, or what feeds
it, can go wrong, checks them with TLC and proves the main invariants with TLAPS.

Paths below are relative to the repository.

## 1. Inventory

| Component | State | Operations | Threads |
|---|---|---|---|
| `PositionManager` (`src/position_manager.cpp`) | `positions_` per instrument, side and date; `account_`; contract data, rates, last and settlement prices, margin price type | `onOrderRequest`, `onOrderRejectOrCancel`, `onTradeFill`, `onTick`, `onQueryPosition`, `onQueryAccount`, setters | strategy, trade worker, market data worker, SPI; one recursive mutex, except two setters and `calcCommissionForOrder` |
| `OrderManager` (`src/order_manager.cpp`) | `storage_` by `front_session_ref`, `exchange_lookup_` by `order_sys_id` | `create`, `update`, `findByOrderRef`, `forEachActive` | strategy creates, worker updates |
| `FalconGateway` (`src/gateway.cpp`) | `ready_`, `running_`, `*_loaded_`, trade history, the two APIs | `start`, `stop`, `sendOrder`, `cancelOrder`, `cancelAllActive`, queries, `compareWithRemote`; worker loops | strategy, two workers, detached timers |
| `TraderHandler` (`src/trader_handler.cpp`) | connection flags, `front_id`, `session_id`, `max_order_ref`, nine rings, `verify_mode` | SPI callbacks: push and return | CTP's SPI thread |
| `MdHandler` (`src/md_handler.cpp`) | connection flags, tick ring | SPI callbacks | CTP's market data thread |
| `RingBuffer` (`include/ring_buffer.h`) | two atomic indices, a vector of slots | `tryPush`, `tryPop` | one producer, one consumer |
| `FlowController` (`include/flow_controller.h`) | atomic `in_flight_`, unlocked queue `pending_` | `submit`, `onResponseComplete` | all of the above |
| `PositionManager`'s and `FalconGateway`'s snapshots (`gateway.cpp:465-511`, `:718-877`) | `trade_history_`, `verify_mode`, comparison rings | bulk load after a login, `compareWithRemote` | SPI, worker, caller |
| config loader, logger, `main.cpp` | – | sequential reading, output, a demonstration | – |

**Interaction.** `sendOrder` asks the book to freeze money (`onOrderRequest`),
calls `ReqOrderInsert`, then tells `OrderManager` (`create`). The front answers
on the SPI thread, which converts and pushes into a ring; the trade worker drains
the ring of order reports, then the ring of trades, then the query results.
An order's final report releases what is left frozen; a trade moves frozen
margin to used margin. Ticks reach the book through a ring and worker of their
own. Queries pass `FlowController`, which lets one out at a time.

**What is hard.** Four threads change the book in an order nobody fixes; reports
of one order travel in two rings; the worker may be ahead of the strategy's
thread; the account is kept partly by differences and partly by sums; freezes
and releases are computed at prices of different moments; an order's money lies
in a slot shared by all orders of that side; exchanges differ in which lots a
close consumes and what it costs; the query gate is unlocked; connections break
and the private topic is replayed from the start. `PROJECT.json` lists the
hazards one by one, each with the properties that would catch it, or the reason
why none does yet.

**What makes each component correct.**

- `PositionManager`: nothing counted becomes negative; the account's totals are
  those of its positions; a flat slot holds nothing; what is frozen is covered,
  suffices while the order works and is gone when it ended; closing at the market
  leaves the equity alone; fees are for the lots traded.
- the gateway around it: the book mirrors the exchange once reports are
  processed, in any order of the two rings.
- `OrderManager`: a record follows its order to the end and never back, whichever
  key finds it; a report finds its own order; each lot is given back once.
- `RingBuffer`: two threads, no shared slot, a FIFO that loses nothing it accepted.
- `FlowController`: one query in flight, each sent once, none forgotten.
- session: ready only with a book that is loaded; a reconnect applies nothing twice.

## 2. Modules

| Module | Models | Composes |
|---|---|---|
| `Sums` | totals over the positions, `std::max`/`std::min` | – |
| `PositionManager` | the book, one action per entry point (all but the bulk query handlers) | `Sums` |
| `Desk` | the book in the gateway: orders, partial fills, cancels, two report queues, the failed `ReqOrderInsert` | `PositionManager` |
| `OrderFlow` | `sendOrder` step by step, cancels, SPI callbacks, rings that overflow, worker, `OrderManager`; relogins and the replay of the private topic | – |
| `BoundedFifo` | abstract: a bounded queue | – |
| `RingBuffer` | `tryPush`/`tryPop`, one step per access to shared memory | implements `BoundedFifo` |
| `MarketData` | `MdHandler`, `mdWorkerLoop`, subscriptions, start and stop, around the tick ring | `RingBuffer` |
| `FlowController` | `submit`/`onResponseComplete`, one step per access to `in_flight_` or `pending_` | – |
| `Session` | connection, login, settlement, `startQueries` and its timer, `checkReady`, relogin, stop | `FlowController` |
| `Sync` | queried snapshots and pushed trades meeting in the book and the trade history; `compareWithRemote` and `verify_mode` | – |
| `MCPositionManager`, `MCDesk`, `MCOrderFlow`, `MCFlowController`, `MCSession` | instances for TLC | the module they name |
| `SumsProofs`, `PositionManagerProofs`, `DeskProofs`, `MarketDataProofs`, `FlowControllerProofs`, `SessionProofs`, `SyncProofs`, `OrderFlowProofs` | theorems | the module they name (`MarketDataProofs` that of the ring, too) |

Operators whose comment begins with "Mutant of" are not part of a specification:
each is the definition below it with a plausible bug, and exists to show that a
property of a run can fail. `PROJECT.json` pairs them with the properties.

### PositionManager

A slot `<<instrument, side, date>>` is `posKey`; `listed` says whether the key is
in `positions_`. Every locked entry point is one action. The arithmetic is kept
statement by statement where order matters (the opening fill's wipe of frozen
money, the loop over `date_order` with `remaining` and
`cffex_today_fee_remaining` as fields `left` and `fee` of the loop's state).

- *Money is integers.* Prices, ratios and rates are whole numbers. Two divisions
  remain, the average open price and the margin share of a close; they round
  down. The code computes in doubles, where each step may be off in the last bit;
  what is checked and proved (sums agree, nothing is left behind) is about the
  arithmetic meant, exact wherever no such division remains, and says nothing
  about the accumulation of rounding errors.
- `static` stands for `pre_balance + deposit - withdraw` and `held` for
  `frozen_cash + delivery_margin + reserve`, which the code never changes between
  snapshots.
- Trades need no order before them: the front pushes trades of all terminals.
- `onQueryPosition`/`onQueryAccount` are represented by the set `Snapshots` of
  initial books, which add up as CTP's do (`SnapshotAssumption`). When a snapshot
  replaces the book in mid-flight is the subject of `Sync`.

### Desk

`sent`, `working`, `lots` are the exchange; `cancels` and `fills` are the rings
`order_updates` (its final reports) and `trade_updates`. The worker drains one
ring, then the other, while both are being filled, so the model lets it take from
either. A fill may be one tick better than a buy's limit, which is where freeze
and release part. Assumed: no other terminal, and `create` ran before the first
report (the run `OrderFlow_Race` shows what happens otherwise). Three assumptions
on the constants say what that means, and TLC evaluates them on the run:

- `OpeningBookAssumption`: the login's queries are answered before the strategy
  trades, so every instrument is known, nothing is frozen, lots are held under
  listed keys, and yesterday's under a date of their own only on SHFE and INE
  (`position_date`, `include/types.h:94`).
- `OffsetAssumption`: on SHFE and INE a close says which lots it closes,
  `CloseToday` or `CloseYesterday` (`README.md:127`). A plain `Close` there is a
  mistake of the strategy; the exchange would take it for yesterday's lots, the
  book for today's first (`position_manager.cpp:427-437`).
- `TradesAssumption`: the trades the exchange may report are among those the book
  is specified for.

Two variables are history: no guard reads them, they only say of which sides and
instruments a property speaks. `blind` holds the sides an order was sent to close
while the book listed no slot of them (`onOrderRequest` then freezes no lots,
`position_manager.cpp:252-262`, but a later cancel or fill thaws them); `repriced`
the instruments whose margin price moved while an order was alive, after which a
release gives back another sum than the order froze.

### OrderFlow

The steps of `sendOrder` are separate, because the SPI thread and the worker run
between them. `thawed` and `booked` count the lots handed to
`onOrderRejectOrCancel` and `onTradeFill`; `missed` remembers orders of which a
message was dropped by a full ring or ignored as untracked. A cancelled order may
report its rest or zero as `VolumeTotal`, as `processOrderUpdate`'s fallback
expects. `RefuseInsert` is `OnRspOrderInsert`.

The key of a record is a session (`front_id` and `session_id` together) and an
`order_ref`. `OnRspUserLogin` begins a session: `max_order_ref` starts again, and
so does the private topic, which the gateway subscribes with
`THOST_TERT_RESTART`: `flow` is that topic since the morning, `read` how much of
it the present connection has pushed. What the worker and the strategy are in the
middle of goes on across the login. `reached` and `replayed` are history: how much
of the topic any session has pushed, and the orders of which a message was pushed a
second time.

An exchange gives each order a number (`OrderSysID`, a constant that maps orders to
numbers as it likes), unique at that exchange only. `OrderManager::update` looks a
report up by key and, failing that, by the bare number (`exchange_lookup_`,
`order_manager.cpp:50-57`, `:76`), so `Found` may lead the report of another
terminal's order to a record of ours, which `processOrderUpdate` then overwrites.
`Shared(k)` marks the orders whose number an order of another exchange has.

### RingBuffer and MarketData

A thread's acquire load and what it does with the value are different steps, so
it works with an index that may be old. `alive` tracks the objects placement new
made and the destructor ended. `Pending`, the slots from `read_pos` to
`write_pos`, is the refinement mapping to `BoundedFifo`.

`MarketData` runs that ring between the SPI thread and `mdWorkerLoop`:
`OnRtnDepthMarketData` begins a push, the inner loop pops until it finds the ring
empty, and connection events, logins, subscriptions, `stop` and its teardown
happen between any two accesses. A tick is the instrument it is of.

### FlowController and Session

`FlowController`: the SPI thread and any set of submitting threads. `Races` marks
overlapping pushes into the unlocked `std::queue`; one of them may be lost
(`lost`), as may answers when the front disconnects or a call fails.

`Session` makes those threads the gateway's: the worker (which submits the
settlement confirmation of every login), one detached thread of `startQueries`
per login, and the SPI thread. `flag` holds `TraderHandler`'s atomics, `gw` the
gateway's; `at` is the place in `tradeWorkerLoop` between two accesses to a flag,
so a callback may come between any two `exchange(false)`. The six-second timer
fires at any time after the last `submit`. `main` is the thread of `start` and
`stop`; `Release` pulls the API away while the other threads go on, and `crashed`
records that one of them used it afterwards.

### Sync

A trade opens one lot of one position, so a position is a number of trades.
Pushed trades, position answers and trade answers travel in rings of their own;
the worker empties each ring before it looks at the next. `Login` loses the
answer under way (and, because nobody resets `in_flight_`, every later one:
`stuck`), restarts the pushes and queries everything again. `compareWithRemote`
is five steps: `verify_mode` on, drain and ask, read after four seconds,
`verify_mode` off (`gateway.cpp:755`), compare. An answer that comes after the
fourth goes to the live ring, and the worker may put it over the local book before
the fifth looks at it. `clean` is not in the code: it marks what was taken at a
moment when the worker had booked every trade, which is what the properties
need to say when the book must be exact.

## 3. Runs

| Run | Checks | Bounds, and why they suffice |
|---|---|---|
| `Book` | types, `CurrMarginIsSum`, `ProfitsAreSums`, `FlatHoldsNothing`, `FrozenMarginCovered`, `FullCloseKeepsEquity`, `OpenRequestStaysFunded`, `FeeOnDatedLots` | five calls (`MaxCalls`): enough to learn of an instrument, freeze, fill, mark and close it. Two pairs of instruments, one pair per behaviour: SHFE and DCE futures (days apart, days together), CFFEX future and option (its fees, option margin). Price type `2` (the one that moves margins) set at any time, books empty and with overnight lots |
| `Book_FeeDce` | `FeeOnTradedLots`: **violated** | open, close a lot, close a lot |
| `Book_PartialClose` | `CloseKeepsEquity`: **violated** | a tick, then one lot of two closed at the price of the tick |
| `Desk` | `DeskTypeOK`, `OpeningLotsExact`, `ClosingLotsExact`, `BookMirrorsExchange`, `MarginReleasedWhenIdle` | two orders (`MaxOrders`) of seven kinds, up to two lots each: two orders share a slot, and one may be partly filled and cancelled while the other is frozen; one closes a side without lots, before or after it is opened. Price types `1`, `2`, `4`, ticks up and down. Without their conditions on `blind` and `repriced` the two properties that have one fail on this instance |
| `Desk_ClosingCancel` | `CommissionReleasedWhenIdle`: **violated** | one order |
| `OrderFlow` | types, `ReleasedOnce`, `RecordsCurrent`, `ReportsFindTheirOrder`, `RecordsNeverRegress`, `EndIsRecorded` | one order of two lots in all (`MaxOrders`, `Lots`) and one of another terminal (`Foreign`) over two sessions (`MaxLogins`): the lots of the order are filled apart and its reports replayed. A number of its own if it is inserted in the first session, the other terminal's if in the second (`MCOrderSysID`), so both kinds of record are there. Since one order is sent, no `order_ref` is taken twice, and records of two orders of ours do not meet; the theorems cover that. Rings of two (`RingSize`), so they overflow |
| `OrderFlow_Race` | `EndsMatchRemote`: **violated** | one order of one lot, one session |
| `MarketData` | types, `SlotsApart`, `AliveExactly`, `ImplementsFifo`, `EveryTickPopped`, `LoginSubscribes`, `MdStopReturns` | four slots (`Capacity`), two instruments: every index wraps, full and empty both occur; two connections (`MaxConnects`), one call of `subscribe` or `unsubscribe` (`MaxCalls`) beside the worker's own |
| `Flow_Compare` | `SubmittedIsServed`: **violated** | two queries from one thread |
| `Session` | types, `OneInFlight`, `SentOnce`, `ReadyAfterQueries`, `WaitingIsServed`, `LoginBecomesReady`, `FailureIsReported`, `StopReturns` | two connections and two logins (`MaxConnects`, `Logins`), one `start` (`MaxStarts`; the models allow more); three queries from three threads: a query can be popped, lose the flight and be queued again |
| `Session_Ready` | `ReadyMeansLoaded`: **violated** | one login, two queries of `startQueries` |
| `Sync` | types, `LocalExact`, `HistoryExact`, `CompareAgrees`, `EveryTradeBooked`, `EveryQueryEnds` | two trades, two logins, one comparison (`MaxTrades`, `MaxLogins`, `MaxCompares`): a snapshot before, between and after the trades, a replay, an answer later than the comparison that asked for it |

The book's run uses a client that makes any call in any order, which is more than
the gateway does; a property that needs the gateway's discipline is stated in
`Desk`. `RingBuffer` and `FlowController` have no run of their own for their
invariants: `MarketData` and `Session` run them with the threads the gateway
makes, and the proofs cover every other instance.

The bounds of the counters (`MaxCalls`, `MaxOrders`, `MaxLogins`, `MaxTrades`,
`MaxCompares`, `MaxConnects`, `MaxStarts`) stop a run, not the program. When they
are used up a run may come to rest; the specifications that do say so with a step
that changes nothing (`Rest`, `Finished`, `Ended`), so TLC's deadlock check stays
on for the rest.

### What the violated runs show

- `Book_FeeDce`: closes never reduce `today_position`, so `position -
  today_position` becomes negative and a close is charged for more lots than it
  traded (`position_manager.cpp:490-497`).
- `Book_PartialClose`: after a partial close the profit of the lots closed is in
  `close_profit` and still in `position_profit` (`:567-579`). The next tick does not
  correct it: line 559 lowers `position_cost` by what the lots were sold for, so a
  tick at that price computes the same profit again (cost 12, profit 8 at price 5;
  one of two lots closed at 5: cost 2, profit 8). The excess stays until the slot is
  flat. `DEV_SUMMARY.md` 3.11 cures the double count where `position<=0` only, and
  `README.md:184` reports the balance exact to 0.05.
- `Desk_ClosingCancel`: a close freezes its commission twice (`:229`, `:264-267`).
- `Flow_Compare`: the answer arrives between `exchange(true)` and `push`
  (`flow_controller.h:26-27`); the query waits for ever.
- `OrderFlow_Race`: the order ends before `create` (`gateway.cpp:192-199`).
- `Session_Ready`: the timer sets the loaded flags whether or not the queries were
  answered (`gateway.cpp:376-383`); `DEV_SUMMARY.md` 3.6 reads ready as "the
  initial queries are all done". What does hold is `ReadyAfterQueries`: they have
  all been handed to the gate.

### Fairness

- `MarketData`: `mdWorkerLoop`, a push that was begun, and the steps of `stop`
  once it was entered. `mdWorkerLoop` spins while the gateway runs. The front owes
  no answer to a login and no tick. `LoginSubscribes` needs one thing more, said
  in its premise: that the worker leaves its inner loop, which ticks that keep
  coming could prevent.
- `FlowController` (run `Flow_Compare`): threads inside `submit` and the SPI
  thread inside `onResponseComplete` go on, and the front answers what it
  accepted. No thread is obliged to submit.
- `Session`: the worker, the threads of `startQueries` (their timer included), the
  gate's steps, `stop` once it was entered, and answers of the front to what it
  accepted. Nothing says that it accepts a login, that a connection comes up or
  that it holds. The liveness properties claim nothing once an answer was lost,
  because nothing in the code recovers from that (`reset` has no caller), or once
  `stop` was called or a thread used a released API.
- `OrderFlow`: a `sendOrder` in progress goes on, messages reach the SPI thread,
  the worker runs. The exchange owes nothing: no order has to be acknowledged,
  filled or cancelled.
- `Sync`: the front pushes and answers, the worker runs. No trade has to be
  executed, no connection lost, no comparison made.

All of it is weak fairness. The specifications of the book and of the desk have no
fairness and no liveness property: they promise nothing until somebody calls.

## 4. Proofs

Every theorem is for all values of the constants: any number of instruments,
orders, sessions, threads, queries, any ring size and any capacity of at least
two. `PROJECT.json` lists them with what each establishes.

| Module | Proves |
|---|---|
| `PositionManagerProofs` | of the book: `TypeOK`, `CurrMarginIsSum`, `ProfitsAreSums`, `FlatHoldsNothing`, `FrozenMarginCovered`, `OpenRequestStaysFunded`, `FeeOnDatedLots`, `FullCloseKeepsEquity` |
| `DeskProofs` | `DeskSpec => Spec`: the desk implements the book; `DeskTypeOK`; hence the book's invariants in the composition; `BookMirrorsExchange`, `OpeningLotsExact`, `ClosingLotsExact`, `MarginReleasedWhenIdle`; `CommissionReleasedWhenIdle` if every order opens |
| `MarketDataProofs` | of the ring: `TypeOK`, `SlotsApart`, `AliveExactly`, `ImplementsFifo`: the ring implements `BoundedFifo`; `MdSpec => Spec` of the ring, hence the same for ticks; `MdTypeOK` |
| `FlowControllerProofs` | `TypeOK`, `OneInFlight`, `SentOnce`; no query vanishes (`Kept`) |
| `SessionProofs` | `SessionSpec => Spec` of the gate; hence `OneInFlight` and `SentOnce` across logins and restarts; `SessionTypeOK`, `ReadyAfterQueries` |
| `SyncProofs` | `SyncTypeOK`, `LocalExact`, `HistoryExact`, `CompareAgrees` |
| `OrderFlowProofs` | `TypeOK`, `ReportsFindTheirOrder`, `RecordsNeverRegress`, `ReleasedOnce`, `RecordsCurrent` |
| `SumsProofs` | lemmas about totals: of margins and profits over the instruments, of lots over the messages of a queue |

**The book.** Assumptions: `SizeAssumption`, `DataAssumption`, `InputAssumption`
(types of the constants) and `SnapshotAssumption` (the book a login leaves adds
up, and its flat slots are clean). None of the sums is inductive alone. A close
cuts the margin at zero in the slot and in the account separately; the two cuts
agree only because the slot's margin is non-negative, the release is at most the
slot's margin (the share of `vol` of `position` lots, with `vol <= position`), and
the account's margin is the sum of non-negative margins, so at least the slot's.
`BookInv` therefore conjoins types (which say what is non-negative), the sums of
margin, position profit and close profit, flat slots, and frozen margin covered;
each conjunct is used in preserving another. One lemma per action shows that it
keeps `BookInv`, `CloseSlot` (one turn of the loop) on its own because a close
makes one turn or two. The totals are recursive functions; `SumsProofs` shows by
induction on the number of instruments how a total changes with one term
(`TotalUpdate`) and that it bounds each of its terms (`TotalBounds`).

Two action properties follow the loop of a close turn by turn. The commission of
a turn is a rate times the lots it closes (`CommissionScales`), so a turn charges
at most the dearest rate for them and `Charged`, what all turns so far may have
cost, is kept by each (`TurnKeepsCharged`). Equity is the sum of position and
close profit. A turn that empties a slot marked at the trade's price removes the
slot's profit from the one and adds the same amount to the other (`GainOfMarked`:
the mark is against the position's cost, the gain against the slot's); a close
of all a side holds is made of such turns only, and `LoopEquity` adds them up.

**The desk.** That every step of the desk is a step of the book needs an
invariant of its own: a report carries the request of an order that was sent, with
no more lots than it asked for, and a trade is one the exchange may report
(`TradesAssumption` says that the book's specification admits those). The book's
theorems then hold of the desk without another proof.

`BookMirrorsExchange` speaks of the moment when the ring of trades is empty; what
holds before is that the book *will* hold what the exchange holds. `Replays(h)`
says so: `h` begins with the lots of the book, takes each waiting trade into
account (`After`, slot by slot and never below zero) and ends with the lots of
the exchange. A fill adds a link at the end, the worker takes one from the front
(`MirrorInv`). The step that matters is `onTradeFill`: its loop over `date_order`
must consume the very slot the exchange traded, which it does because lots are
held under listed keys and, outside SHFE and INE, never under yesterday's date
(`BookShape`), and because on SHFE and INE the order names the date
(`OffsetAssumption`).

`OpeningLotsExact` is a balance. `Alive` sums what is frozen for opening a slot
over the four places an order's lots can be: working at the exchange, in the final
reports, in the trades under way, in the releases of failed calls. Each step moves
lots from one place to another or thaws what it takes out. Working orders are a
function on order numbers, the rest are sequences, so the lemmas on totals come in
both forms. The thaw is cut at zero (`Positive`); that the cut never bites is the
balance itself, since a sum of lots is at least each of its terms.

The other three invariants of frozen lots and money are counted with `Alive`, too.
It takes a weight, what `v` lots of an order are worth, and needs only that lots
together are worth what they are apart (`Weighs`); the lemmas on what each step
does to the count (`SendCounts`, `FillCounts`, `ReleaseCounts`...) are stated once,
for every weight.

- `ClosingLotsExact` is a balance again, of the orders that close a side. The book
  freezes them in every listed slot of the side, so the count is exact in a slot
  as long as the side's other slot is not listed; `ClosingInv` says so, and that a
  slot not listed has nothing frozen, which is what makes a slot start at the right
  count when a trade lists it.
- `MarginReleasedWhenIdle` needs a bound, not a balance: the first opening fill of a
  slot wipes what all the orders of the slot have frozen (`:384`). `MarginInv` says
  that while no opening trade of the slot waits, the slot has frozen at most what
  its live orders would freeze at today's price. A waiting trade breaks the bound
  and its processing restores it at zero. The weight is the margin of the lots,
  linear because `calcMargin` is (`OrderMarginScales`), and stands still under ticks
  unless the instrument is `repriced`. The account follows: its frozen margin is
  covered by the slots' (`FrozenMarginCovered`), and they are all zero.
- `CommissionReleased`: with the commission as weight the same bound holds if every
  order opens (`OnlyOpens`), and the account is covered by the slots
  (`CommissionInv`). The run `Desk_ClosingCancel` shows that one closing order is
  enough to break it, so the hypothesis is not for the proof's convenience.

**The ring.** `RingInv` adds to the types what a thread learnt when it entered
and the other cannot take away (`Admitted`): a push that found room still has
room, because only the push moves `write_pos` and pops make more room; a pop that
found an element still has one. `RingDetail` adds which slots hold elements
(`Contents`) and which objects are alive (`AliveInRing`). The refinement to
`BoundedFifo` is by cases: a publishing push appends to `Pending`
(`QueueGrows`), a releasing pop takes its head (`QueueShrinks`), a refused push
finds `Capacity - 1` elements (`FullCount`), and every other step leaves `Pending`
alone (`QueueStays`). The market data session needs one invariant for that, that
the front sends ticks only of known instruments. `MdTypeOK` bounds the login
requests by the connections (`LoginsFollow`): each connection is worth one, whose
flag is set, or the worker is about to send it, or it was sent.

**The gate.** `FlowInv` says that `in_flight` is set as long as anybody holds the
flight, and that only the SPI thread handles answers. `OnePlace` says that each
query is in one place: a script, the hands of one thread, the queue, or sent; so a
query sent cannot be sent again. It rests on `DistinctAssumption`: every call of
`submit` brings a query of its own. `Kept` is the other half: a query is in at
least one of those places, or it is the one of two overlapping pushes that got
lost. So a query that is never served waits in `pending_`, which is where
`Flow_Compare` finds it, and was not dropped. `SessionProofs` shows that every step
of the session is one of the gate's or leaves it alone; the gate's theorems carry
over. `ReadyAfterQueries` there rests on two more facts: a timer that runs or has
run belongs to a thread that submitted all its queries (`TimersAreLate`), and the
loaded flags were set by some timer (`ReadyIsLoaded`).

**Synchronisation.** A clean book is exact (`LocalExact`), but a row becomes the
book only when the worker takes it out of its ring, long after it was read at the
exchange. `RowsInv` says of every row on its way, in the answer, in a ring or in
the hands of `compareWithRemote`, what it will be worth: a clean row of a position
is the exchange's position and every trade is booked (`Current`), a clean row of
the history is a trade that was booked (`Listed`). A trade or a login in between
makes rows stale, and stale rows claim nothing: the book is not clean after a
login, nor after an old row was put over it. `HistoryExact` needs besides that
the pushes not yet booked are the next ones in order (`PushesFollow`); both are of
the first session, since a second login starts the pushes anew and
`processTradeUpdate` lists them again. `CompareAgrees` is an action property of the
last step, when `verify_mode` is off already; it follows from `Current` for `remote`
and `LocalExact` for the book.

**The order path.** The types of the records are not inductive: `processOrderUpdate`
stores what a message says. `OrderInv` says that every message and every record
carries its own order's `order_sys_id` or none (two orders may have the same), and
that a number in the index leads to a record of that number. A record
found by the index thus has the number of the report (`FoundItself`), which is what
`ReportsFindTheirOrder` needs; and if it is not the report's own order's, both orders
have been given that number, so both are `Shared` (`FoundShared`, from `NamesInv`:
what the exchange has not named goes unnamed in flow, ring and record). That is what
keeps the records of the other orders out of it in the proofs below. That
`max_order_ref` stays in bounds is a counting argument (`RefLeft`): the `order_ref`s
of a session belong to different frozen orders.

`RecordsNeverRegress` compares a record with the report the worker takes out, so it
needs to know what may be in the ring. `ChainInv` puts what is said of an order of
this session in one line: its record, the reports in the ring, the reports the
front has still to push, the exchange's state. Each may follow the ones before it
(`Precedes`: no fewer traded lots, a final status kept). Dropping a report takes a
link out, which keeps the rest in order; pushing one moves a link; the exchange
adds one at the end (`Moves`). A login would break the line, since it pushes old
reports behind newer ones, but only for orders of earlier sessions: `SessionsInv`
says that no order belongs to a session still to come.

`ReleasedOnce` needs every message counted. `Worth` is what processing a message
releases or books of an order, `Coming` the total over the messages not yet dealt
with, `ToCome` what those the exchange may still send are worth. `ReleaseInv` says
of every order of ours that was not replayed that what was given back, with what is
coming through the rings, with the messages no session has pushed yet (the flow after
`reached`) and with what is to come, is no more than was frozen (`Pays`: what the
exchange sends, it takes from what was to come; this is where the way round a
`VolumeTotal` of zero is needed). A login does not change it, since it changes
neither `reached` nor the rings; a message pushed a second time makes its order
`replayed`. That another terminal's order releases nothing is `ForeignInv`: its report
is written somewhere only if its number is shared. Sums over sequences are kept in
lemmas of their own (`WeighedNext`, `WeighedAppend`, `WeighedTail`), so that each step
is linear.

`RecordsCurrent` is about the end of the same line. `LastInv`: the last report of
an order in the flow says what the exchange has. `CurrentInv`: when no report of
the order is left to push and none was missed, the last one in the ring says so,
or, with none in the ring, the record does. Writing a report is the identity only
where the record has no other `order_sys_id`, hence `~Shared` and, for an order the
exchange has not named, `NamesInv`. A login makes every
report unpushed again, so nothing is claimed until the replay has gone by. The
lots need equations where `ReleaseInv` has bounds: in the first session the trades
booked, in the ring and unpushed add up to what the exchange traded, and the lots
released, in the ring and unpushed to what an order that ended leaves (`Balanced`,
two sums with different weights, `Fills` and `Releases`). An order whose insert
failed releases its lots without a report; it is exempt because the exchange never
hears of it, which holds as long as no `order_ref` is used twice (`FirstInv`), that
is, in the first session.

*Only model-checked.*

- Every liveness property. Liveness under fairness and `ENABLED` are out of TLAPS's
  reach.

Every invariant and every safety action property of a passing run is proved.

Induction through theorems that take an operator as a parameter is out of reach,
too; `SumsProofs` therefore states its induction over a set of numbers. No module
declares a `RECURSIVE` operator. Strings of the models contain no spaces, which the
SMT backend cannot read.

## 5. Not modelled

- Of some 24 000 counted lines about 20 500 are CTP's vendored headers
  (`src/include/ctp`): types and interfaces that declare no behaviour of this
  program. The front and the exchange are environment actions, marked external.
- The commission baseline (`gateway.cpp:497-511`): a sum of doubles over the
  history at whatever rates are loaded; `PositionManager` lets it be any number of
  a set at any time.
- Configuration, logging, the example driver: sequential reading, formatting and a
  script of calls that `Desk` and `OrderFlow` make in any order.
- `FixedQueue` (`ring_buffer.h`), which nothing uses; `pending_`,
  `findByOrderSysID`, `FlowController::reset`, `PositionManager::reset`,
  `setPreSettlement`, `updateLastPrice`, which nothing reads or calls.
- Data races inside an entry point of the book (the two unlocked setters): a
  setter is a step between entry points. A second strategy thread inside
  `sendOrder`.
- Memory safety after `Release`: using a null API is a step (`crashed`), what the
  library does afterwards is not.
- The account's snapshot and its comparison, which take the path `Sync` models for
  positions; the order and commission parts of `compareWithRemote`, which print.

Some things the code does are against what a document or a comment says, and no run
shows them: they were met while modelling, the models do them, and the properties
exempt them. `PROJECT.json` says so at each hazard.

| The code | Said otherwise | Exempted by |
|---|---|---|
| an opening fill wipes the margin of everything frozen in its slot, the unfilled rest of the order included (`position_manager.cpp:384`) | `TEST_SKILL.md:161`: FrozenMargin is the margin of pending opens (待成交开仓冻结保证金) | `FrozenMarginCovered`, `MarginReleasedWhenIdle` bound it from above only |
| an order whose margin price fell before its cancel gets back less than it froze, and the rest stays (`:298`) | `DEV_SUMMARY.md:272`: "FrozenMargin \| 100% \| 归零残留彻底修复" (residue cured) | `repriced` |
| a request is accepted whatever it costs when `available` is zero or negative (`:223`) | `position_manager.h:55`: "Returns false if margin insufficient"; `DEV_SUMMARY.md:70` | the premise of `OpenRequestStaysFunded` |
| a close freezes lots in both date slots and a fill thaws one; of a side not listed it freezes none and thaws (`:252`) | `TEST_SKILL.md:171-172`, `:223`: long_frozen and short_frozen match exactly | one slot, not `blind`, in `ClosingLotsExact` |
| every final report releases, not the first only (`order_manager.cpp:81`), so a replay releases again | `order_manager.h:35`: newly_final is 刚变为终态 (has just become final) | `replayed` in `ReleasedOnce` |
| the index is the bare `order_sys_id` (`order_manager.cpp:51`, `:76`), so a report may overwrite another order's record | `README.md:139`: ExchangeID + OrderSysID | `Shared` in the properties of records; "one of the same number" in `ReportsFindTheirOrder` |
| a replayed trade is booked and listed again (`gateway.cpp:595`) | `README.md:144`, `:182`, `DEV_SUMMARY.md:269`: merged without duplicates (去重合并) | the first session only in `HistoryExact`; `clean` in `LocalExact` |
| an answer later than four seconds goes to the live ring and over the local book (`gateway.cpp:741`, `:755`) | `TEST_SKILL.md:143`, `DEV_SUMMARY.md:219`: does not pollute the local state (不污染本地状态) | `clean` in `LocalExact`; a named cause in `CompareAgrees` |

Of the following nothing in the repository says what should happen: an order refused by the
front is only logged (`trader_handler.cpp:50`); a query whose answer is lost blocks
the gate for good; a trade dropped by a full ring leaves the book wrong until the
next snapshot; a cancel of an order the exchange has not named yet is sent without a
number (`gateway.cpp:206`); after a market data reconnect run-time subscriptions are
not made again (`gateway.cpp:541`).

Shown by a theorem and not by a run: that CFFEX's two turns of the loop charge no lot
twice (`FeeOnDatedLots`; in the run its lots are in one slot, so the loop makes one
turn).

## 6. Plan

Done: the book, desk, ring, gate, order path with relogins, session, market data
and synchronisation; refinements of the ring to a queue, and of desk, session and
market data to the component each is built around.

Worth doing next:

1. Violated runs for the disagreements of section 5's table, each a claim of the
   quoted line: the replayed release and the shared number on `OrderFlow`, the late
   answer and the duplicated history on `Sync`, the residue and the second slot on
   `Desk`, the unfunded request on the book.
2. An abstract account (money in four places, moved but never made) that
   `PositionManager` and `Desk` implement where they do.
3. `Desk` with another terminal on the account, and with a snapshot loaded between
   two of its steps (the composition of `Desk` and `Sync`).

## 7. Running

    tlc -workers 2 -config Desk.cfg MCDesk
    tlapm PositionManagerProofs.tla

`PROJECT.json` names the module and configuration of every run.
