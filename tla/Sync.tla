-------------------------------- MODULE Sync --------------------------------
(***************************************************************************)
(* How the local book follows the exchange.  Trades are pushed on the      *)
(* private topic, which starts from the day's first trade after every      *)
(* login (THOST_TERT_RESTART); snapshots of the positions and the list of  *)
(* trades are queried after every login, and positions once more by        *)
(* compareWithRemote.  Pushes and answers travel apart, and the worker     *)
(* takes them from rings of their own, pushes first                        *)
(* (src/src/gateway.cpp, src/src/trader_handler.cpp).                      *)
(*                                                                         *)
(* Each trade opens one lot of one position, so a position is a number of  *)
(* trades.  The account is queried, loaded and compared by handlers of its *)
(* own that do the same.  Queries are answered one at a time in the order  *)
(* submitted (module FlowController); rings that overflow are OrderFlow's. *)
(*                                                                         *)
(* `clean` is no state of the code: it marks what was taken at a moment    *)
(* when the worker had booked every trade, with no trade since.            *)
(***************************************************************************)
EXTENDS Integers, Sequences, SequencesExt

CONSTANTS
    MaxTrades,    \* trades executed
    MaxLogins,    \* logins, the first included
    MaxCompares   \* calls of compareWithRemote

ASSUME SyncAssumption ==
    MaxTrades \in Nat /\ MaxLogins \in Nat /\ MaxCompares \in Nat

VARIABLES
    executed,             \* trades the exchange has executed
    pushed,               \* trades pushed since the last login
    logins, compares,     \* logins and calls of compareWithRemote so far
    queries,              \* queries submitted, the first one at the front
    answer,               \* rows of an answer on their way, or none
    stuck,                \* in_flight_ waits for an answer a disconnect took
    trade_updates, position_results, trade_query_results,   \* live rings
    verify_mode, cmp_positions,
    comparing,            \* where compareWithRemote is
    remote,               \* remote_positions
    book,                 \* PositionManager's position
    trade_history,
    at                    \* what the worker drains

front == <<executed, pushed, logins>>

asking == <<queries, answer, stuck>>

rings == <<trade_updates, position_results, trade_query_results>>

verify == <<compares, verify_mode, cmp_positions, comparing, remote>>

local == <<book, trade_history, at>>

syncVars == <<front, asking, rings, verify, local>>

Trades == 1 .. MaxTrades

\* A row of a position answer or of a trade answer: a number of lots, or a trade.
Row == [value : Trades, clean : BOOLEAN]

Rows == [table : {"position", "trade"}, rows : Seq(Row)]

None == [table |-> "none", rows |-> <<>>]

SyncTypeOK ==
    /\ executed \in 0 .. MaxTrades /\ pushed \in 0 .. executed
    /\ logins \in 0 .. MaxLogins /\ compares \in 0 .. MaxCompares
    /\ queries \in Seq({"position", "trade"})
    /\ answer \in Rows \cup {None} /\ stuck \in BOOLEAN
    /\ answer # None => queries # <<>> /\ Head(queries) = answer.table
    /\ trade_updates \in Seq(Trades)
    /\ position_results \in Seq(Row) /\ trade_query_results \in Seq(Row)
    /\ verify_mode \in BOOLEAN /\ cmp_positions \in Seq(Row)
    /\ comparing \in {"idle", "drain", "wait", "read", "compare"}
    /\ remote \in Seq(Row)
    /\ book \in [position : Nat, clean : BOOLEAN]
    /\ trade_history \in [trades : Seq(Trades), clean : BOOLEAN]
    /\ at \in {"trades", "positions", "history"}

SyncInit ==
    /\ executed = 0 /\ pushed = 0 /\ logins = 0 /\ compares = 0
    /\ queries = <<>> /\ answer = None /\ stuck = FALSE
    /\ trade_updates = <<>> /\ position_results = <<>>
    /\ trade_query_results = <<>>
    /\ verify_mode = FALSE /\ cmp_positions = <<>>
    /\ comparing = "idle" /\ remote = <<>>
    /\ book = [position |-> 0, clean |-> TRUE]
    /\ trade_history = [trades |-> <<>>, clean |-> TRUE]
    /\ at = "trades"

\* Trades the worker has booked since the last login.
Booked == pushed - Len(trade_updates)

----------------------------------------------------------------------------
(* The exchange and the front.                                             *)

Dirty(seq) == [k \in DOMAIN seq |-> [seq[k] EXCEPT !.clean = FALSE]]

\* Snapshots under way are no longer what the exchange has.
SnapshotsAge ==
    /\ answer' = IF answer.table = "position"
                 THEN [answer EXCEPT !.rows = Dirty(@)] ELSE answer
    /\ position_results' = Dirty(position_results)
    /\ cmp_positions' = Dirty(cmp_positions)
    /\ remote' = Dirty(remote)

Trade ==
    /\ executed < MaxTrades
    /\ executed' = executed + 1
    /\ SnapshotsAge
    /\ UNCHANGED <<pushed, logins, queries, stuck, trade_updates,
                   trade_query_results, compares, verify_mode, comparing, local>>

\* The snapshot a query is answered with.  A flat account has no rows.
Snapshot ==
    /\ queries # <<>> /\ answer = None /\ ~stuck
    /\ LET clean == Booked = executed
           row(n) == [value |-> n, clean |-> clean]
       IN  answer' = [table |-> Head(queries),
                      rows |-> IF executed = 0 THEN <<>>
                               ELSE IF Head(queries) = "position"
                               THEN <<row(executed)>>
                               ELSE [k \in 1 .. executed |-> row(k)]]
    /\ UNCHANGED <<front, queries, stuck, rings, verify, local>>

\* Mutant of OnRtnTrade: verify_mode diverts the pushes as well.
OnRtnTradeUnlessVerifying ==
    /\ logins > 0 /\ pushed < executed
    /\ pushed' = pushed + 1
    /\ trade_updates' = IF verify_mode THEN trade_updates
                        ELSE Append(trade_updates, pushed')
    /\ UNCHANGED <<executed, logins, asking, position_results,
                   trade_query_results, verify, local>>

\* A connection pushes what it has not pushed yet.
OnRtnTrade ==
    /\ logins > 0 /\ pushed < executed
    /\ pushed' = pushed + 1
    /\ trade_updates' = Append(trade_updates, pushed')
    /\ UNCHANGED <<executed, logins, asking, position_results,
                   trade_query_results, verify, local>>

\* The query is over: onResponseComplete.
Complete == answer' = None /\ queries' = Tail(queries)

\* Mutant of Delivered: onResponseComplete after every row, not after the last.
DeliveredEachRow ==
    /\ queries' = Tail(queries)
    /\ answer' = IF Len(answer.rows) > 1 THEN [answer EXCEPT !.rows = Tail(@)]
                 ELSE None

Delivered ==
    IF Len(answer.rows) > 1
    THEN answer' = [answer EXCEPT !.rows = Tail(@)] /\ UNCHANGED queries
    ELSE Complete

OnRspQryInvestorPosition ==
    /\ answer.table = "position" /\ answer.rows # <<>>
    /\ IF verify_mode
       THEN /\ cmp_positions' = Append(cmp_positions, Head(answer.rows))
            /\ UNCHANGED position_results
       ELSE /\ position_results' = Append(position_results, Head(answer.rows))
            /\ UNCHANGED cmp_positions
    /\ Delivered
    /\ UNCHANGED <<front, stuck, trade_updates, trade_query_results, compares,
                   verify_mode, comparing, remote, local>>

OnRspQryTrade ==
    /\ answer.table = "trade" /\ answer.rows # <<>>
    /\ trade_query_results' = Append(trade_query_results, Head(answer.rows))
    /\ Delivered
    /\ UNCHANGED <<front, stuck, trade_updates, position_results, verify, local>>

\* Mutant of OnEmptyAnswer: an answer without rows does not end its query.
OnEmptyAnswerIgnored ==
    /\ answer # None /\ answer.rows = <<>>
    /\ answer' = None
    /\ UNCHANGED <<front, queries, stuck, rings, verify, local>>

OnEmptyAnswer ==
    /\ answer # None /\ answer.rows = <<>>
    /\ Complete
    /\ UNCHANGED <<front, stuck, rings, verify, local>>

\* The connection is lost and made again: the answer under way is gone, and so
\* is every later one, since nobody resets in_flight_.  The new login starts
\* the private topic from the beginning and startQueries asks for everything.
Login ==
    /\ logins < MaxLogins
    /\ logins' = logins + 1 /\ pushed' = 0
    /\ stuck' = (stuck \/ queries # <<>>)
    /\ answer' = None
    /\ queries' = queries \o <<"position", "trade">>
    /\ IF logins = 0 THEN UNCHANGED <<rings, verify, local>>
       ELSE /\ position_results' = Dirty(position_results)
            /\ trade_query_results' = Dirty(trade_query_results)
            /\ cmp_positions' = Dirty(cmp_positions)
            /\ remote' = Dirty(remote)
            /\ book' = [book EXCEPT !.clean = FALSE]
            /\ UNCHANGED <<trade_updates, compares, verify_mode, comparing,
                           trade_history, at>>
    /\ UNCHANGED executed

----------------------------------------------------------------------------
(* The trade worker: each ring until it is empty, then the next one.       *)

GoOn(ring, next) ==
    /\ ring = <<>>
    /\ at' = next
    /\ UNCHANGED <<front, asking, rings, verify, book, trade_history>>

\* Mutant of processTradeUpdate: listed and not booked.
processTradeUpdateUnbooked ==
    /\ at = "trades" /\ trade_updates # <<>>
    /\ trade_updates' = Tail(trade_updates)
    /\ trade_history' =
          [trade_history EXCEPT !.trades = Append(@, Head(trade_updates))]
    /\ UNCHANGED <<front, asking, position_results, trade_query_results, verify,
                   book, at>>

\* processTradeUpdate.  Nothing looks at the trade's identifier.
processTradeUpdate ==
    /\ at = "trades" /\ trade_updates # <<>>
    /\ trade_updates' = Tail(trade_updates)
    /\ book' = [book EXCEPT !.position = @ + 1]
    /\ trade_history' =
          [trade_history EXCEPT !.trades = Append(@, Head(trade_updates))]
    /\ UNCHANGED <<front, asking, position_results, trade_query_results, verify, at>>

\* Mutant of onQueryPosition: adds the snapshot to what is there.
onQueryPositionAdds ==
    /\ at = "positions" /\ position_results # <<>>
    /\ position_results' = Tail(position_results)
    /\ book' = [position |-> book.position + Head(position_results).value,
                clean |-> Head(position_results).clean]
    /\ UNCHANGED <<front, asking, trade_updates, trade_query_results, verify,
                   trade_history, at>>

onQueryPosition ==
    /\ at = "positions" /\ position_results # <<>>
    /\ position_results' = Tail(position_results)
    /\ book' = [position |-> Head(position_results).value,
                clean |-> Head(position_results).clean]
    /\ UNCHANGED <<front, asking, trade_updates, trade_query_results, verify,
                   trade_history, at>>

\* Mutant of takeQueriedTrade: no look into the history.
takeQueriedTradeAlways ==
    /\ at = "history" /\ trade_query_results # <<>>
    /\ trade_query_results' = Tail(trade_query_results)
    /\ LET row == Head(trade_query_results)
       IN  trade_history' =
              [trades |-> Append(trade_history.trades, row.value),
               clean |-> trade_history.clean /\ row.clean]
    /\ UNCHANGED <<front, asking, trade_updates, position_results, verify, book, at>>

\* A trade of the list, unless the history has it.
takeQueriedTrade ==
    /\ at = "history" /\ trade_query_results # <<>>
    /\ trade_query_results' = Tail(trade_query_results)
    /\ LET row == Head(trade_query_results)
       IN  trade_history' =
              [trades |-> IF Contains(trade_history.trades, row.value)
                          THEN trade_history.trades
                          ELSE Append(trade_history.trades, row.value),
               clean |-> trade_history.clean /\ row.clean]
    /\ UNCHANGED <<front, asking, trade_updates, position_results, verify, book, at>>

tradeWorkerLoop ==
    \/ processTradeUpdate \/ onQueryPosition \/ takeQueriedTrade
    \/ at = "trades" /\ GoOn(trade_updates, "positions")
    \/ /\ at = "positions"
       /\ GoOn(position_results,
               IF trade_query_results = <<>> THEN "trades" ELSE "history")
    \/ at = "history" /\ GoOn(trade_query_results, "trades")

----------------------------------------------------------------------------
(* compareWithRemote, on the caller's thread.                              *)

VerifyOn ==
    /\ logins > 0
    /\ comparing = "idle" /\ compares < MaxCompares
    /\ verify_mode' = TRUE
    /\ compares' = compares + 1
    /\ comparing' = "drain"
    /\ UNCHANGED <<front, asking, rings, cmp_positions, remote, local>>

\* What an earlier call left in the buffer goes; then it asks.
DrainAndAsk ==
    /\ comparing = "drain"
    /\ cmp_positions' = <<>> /\ remote' = <<>>
    /\ queries' = Append(queries, "position")
    /\ comparing' = "wait"
    /\ UNCHANGED <<front, answer, stuck, rings, compares, verify_mode, local>>

\* After four seconds, whatever has come.
ReadRemote ==
    /\ comparing = "wait"
    /\ remote' = cmp_positions /\ cmp_positions' = <<>>
    /\ comparing' = "read"
    /\ UNCHANGED <<front, asking, rings, compares, verify_mode, local>>

\* From here on an answer still under way goes to the live ring.
VerifyOff ==
    /\ comparing = "read"
    /\ verify_mode' = FALSE
    /\ comparing' = "compare"
    /\ UNCHANGED <<front, asking, rings, compares, cmp_positions, remote, local>>

\* remote_positions against the book there is by now.
CompareLocal ==
    /\ comparing = "compare"
    /\ comparing' = "idle"
    /\ UNCHANGED <<front, asking, rings, compares, verify_mode, cmp_positions,
                   remote, local>>

compareWithRemote ==
    VerifyOn \/ DrainAndAsk \/ ReadRemote \/ VerifyOff \/ CompareLocal

----------------------------------------------------------------------------
Answering == OnRspQryInvestorPosition \/ OnRspQryTrade \/ OnEmptyAnswer

SyncNext ==
    \/ Trade \/ Snapshot \/ OnRtnTrade \/ Answering \/ Login
    \/ tradeWorkerLoop
    \/ compareWithRemote

SyncSpec == SyncInit /\ [][SyncNext]_syncVars

\* The front pushes and answers, the worker runs.  Nothing says that a trade
\* is executed, a connection lost or a comparison asked for.
FairSync ==
    /\ SyncSpec
    /\ WF_syncVars(Snapshot)
    /\ WF_syncVars(OnRtnTrade)
    /\ WF_syncVars(Answering)
    /\ WF_syncVars(tradeWorkerLoop)

----------------------------------------------------------------------------
\* A position read at a moment when the worker had booked every trade, and
\* loaded before the next one was executed, makes the book exact: whatever was
\* wrong before is healed, and the pushes booked afterwards keep it so.  Nothing
\* is claimed once a login replays the day's trades, nor once another snapshot
\* is loaded: onQueryPosition puts it over the book even when it is older, be it
\* an answer of the login that crossed a trade or an answer of compareWithRemote
\* that came after verify_mode was turned off.
LocalExact == book.clean => book.position = Booked

\* In the first session the history lists each booked trade once, in order, if
\* every list merged into it was taken with all of them booked.  Not so after a
\* second login, whose pushes processTradeUpdate lists again.
HistoryExact ==
    logins <= 1 /\ trade_history.clean =>
        trade_history.trades = [k \in 1 .. Booked |-> k]

Differs == \E k \in DOMAIN remote : remote[k].value # book.position

\* A comparison finds a difference only for one of three reasons: the answer it
\* read was taken while a trade waited to be booked, or before one was executed;
\* the book was loaded from such a snapshot, a late answer to this very
\* comparison included; or a second login replayed the day's trades into a book
\* that no snapshot has healed since.
CompareAgrees ==
    [][CompareLocal /\ Differs =>
          ~book.clean \/ \E k \in DOMAIN remote : ~remote[k].clean]_syncVars

\* When no more trades are executed, all of them get into the history, after
\* however many logins.
EveryTradeBooked ==
    logins > 0 /\ executed = MaxTrades ~>
        \A k \in Trades : Contains(trade_history.trades, k)

\* Every query is answered and its rows are used, unless a disconnect took an
\* answer: then no later query is sent.
EveryQueryEnds ==
    queries # <<>> ~> stuck \/ (queries = <<>> /\ position_results = <<>>)
=============================================================================
