----------------------------- MODULE SyncProofs -----------------------------
(***************************************************************************)
(* Proofs about Sync, for any number of trades, logins and comparisons.    *)
(* That a book loaded from a clean snapshot is exact is not inductive: the *)
(* rows have to be right while they travel, too (RowsInv), and the history *)
(* needs that the pushes not yet booked are the next ones, in order        *)
(* (PushesFollow), which is so until a second login starts them anew.      *)
(***************************************************************************)
EXTENDS Sync, SequenceTheorems, TLAPS

\* A row of a position snapshot: clean, it is the exchange's position, and the
\* worker has booked every trade.
Current == {r \in Row : r.clean => r.value = executed /\ Booked = executed}

\* A row of a list of trades: clean, it is a trade the worker has booked.
Listed == {r \in Row : r.clean => r.value <= Booked}

Stale == {r \in Row : ~r.clean}

RowsInv ==
    /\ \/ answer = None
       \/ answer.table = "position" /\ answer.rows \in Seq(Current)
       \/ answer.table = "trade" /\ answer.rows \in Seq(Listed)
    /\ position_results \in Seq(Current)
    /\ cmp_positions \in Seq(Current)
    /\ remote \in Seq(Current)
    /\ trade_query_results \in Seq(Listed)

\* The pushes not yet booked go on where the booked ones end, as long as no
\* second login has started them anew.
PushesFollow ==
    logins <= 1 =>
        trade_updates = [k \in 1 .. Len(trade_updates) |-> Booked + k]

\* Nothing is pushed or asked for before the first login.
BeforeLogin ==
    logins = 0 =>
        pushed = 0 /\ queries = <<>> /\ trade_updates = <<>> /\ comparing = "idle"

SyncInv ==
    /\ SyncTypeOK
    /\ RowsInv
    /\ PushesFollow
    /\ BeforeLogin
    /\ LocalExact
    /\ HistoryExact

----------------------------------------------------------------------------
(* Sequences of rows.                                                      *)

\* Elements that are in a set remain in it when the sequence loses its head.
LEMMA TailOf ==
    ASSUME NEW S, NEW s \in Seq(S), s # <<>>
    PROVE  Head(s) \in S /\ Tail(s) \in Seq(S)
BY HeadTailProperties

\* An element that is appended leaves the head of a non-empty sequence alone.
LEMMA HeadOfAppend ==
    ASSUME NEW S, NEW s \in Seq(S), NEW e \in S
    PROVE  /\ Append(s, e) \in Seq(S)
           /\ s # <<>> => Append(s, e) # <<>> /\ Head(Append(s, e)) = Head(s)
<1>1. /\ Append(s, e) \in Seq(S) /\ Len(s) \in Nat
      /\ Len(Append(s, e)) = Len(s) + 1
      /\ \A i \in 1 .. Len(s) : Append(s, e)[i] = s[i]
  BY AppendProperties, LenProperties
<1>2. s # <<>> => Len(s) >= 1
  BY EmptySeq
<1>3. Append(s, e) # <<>>
  BY <1>1
<1>4. Head(s) = s[1] /\ Head(Append(s, e)) = Append(s, e)[1]
  OBVIOUS
<1> QED BY <1>1, <1>2, <1>3, <1>4

\* What a trade or a login makes of rows under way.
LEMMA Dirtied ==
    ASSUME NEW s \in Seq(Row)
    PROVE  Dirty(s) \in Seq(Stale)
<1>1. Len(s) \in Nat /\ DOMAIN s = 1 .. Len(s) /\ \A k \in 1 .. Len(s) : s[k] \in Row
  BY LenProperties
<1>2. \A k \in 1 .. Len(s) : [s[k] EXCEPT !.clean = FALSE] \in Stale
  BY <1>1 DEF Row, Stale
<1> QED BY <1>1, <1>2, IsASeq DEF Dirty

\* A row that is not clean claims nothing, neither now nor after the step.
LEMMA StaleRows ==
    /\ Stale \subseteq Row /\ Current \subseteq Row /\ Listed \subseteq Row
    /\ Stale \subseteq Current /\ Stale \subseteq Listed
    /\ Stale \subseteq Current' /\ Stale \subseteq Listed'
BY DEF Stale, Current, Listed

----------------------------------------------------------------------------
(* Types.                                                                  *)

\* How many trades are booked is a number.
LEMMA BookedType ==
    ASSUME SyncTypeOK
    PROVE  /\ Booked \in Int /\ Len(trade_updates) \in Nat
           /\ pushed \in Nat /\ executed \in Nat /\ Booked <= pushed
<1>1. Len(trade_updates) \in Nat
  BY LenProperties DEF SyncTypeOK
<1>2. executed \in Nat /\ pushed \in Nat
  BY SyncAssumption DEF SyncTypeOK
<1> QED BY <1>1, <1>2 DEF Booked

\* The end of an answer, or its next row, leaves the answer typed.
LEMMA DeliveredTypes ==
    ASSUME SyncTypeOK, answer # None, Delivered \/ Complete
    PROVE  /\ answer' \in Rows \cup {None}
           /\ queries' \in Seq({"position", "trade"})
           /\ answer' # None => queries' # <<>> /\ Head(queries') = answer'.table
<1>1. answer \in Rows /\ queries # <<>> /\ queries \in Seq({"position", "trade"})
      /\ Head(queries) = answer.table
  BY DEF SyncTypeOK
<1>2. CASE Complete
  BY <1>1, <1>2, TailOf DEF Complete
<1>3. CASE answer' = [answer EXCEPT !.rows = Tail(@)] /\ UNCHANGED queries
           /\ Len(answer.rows) > 1
  <2>1. answer.rows \in Seq(Row) /\ answer.rows # <<>>
    BY <1>1, <1>3, EmptySeq DEF Rows
  <2>2. Tail(answer.rows) \in Seq(Row)
    BY <2>1, TailOf
  <2>3. answer' \in Rows /\ answer'.table = answer.table
    BY <1>1, <1>3, <2>2 DEF Rows
  <2> QED BY <1>1, <1>3, <2>3
<1> QED BY <1>2, <1>3 DEF Delivered

\* The types hold in every reachable state.
LEMMA TypesKept == SyncTypeOK /\ [SyncNext]_syncVars => SyncTypeOK'
<1> SUFFICES ASSUME SyncTypeOK, [SyncNext]_syncVars PROVE SyncTypeOK'
  OBVIOUS
<1>0. MaxTrades \in Nat /\ MaxLogins \in Nat /\ MaxCompares \in Nat
  BY SyncAssumption
<1>n. /\ executed \in 0 .. MaxTrades /\ pushed \in 0 .. executed
      /\ logins \in 0 .. MaxLogins /\ compares \in 0 .. MaxCompares
  BY DEF SyncTypeOK
<1>b. book \in [position : Nat, clean : BOOLEAN]
  BY DEF SyncTypeOK
<1>t. /\ queries \in Seq({"position", "trade"})
      /\ answer \in Rows \cup {None} /\ stuck \in BOOLEAN
      /\ answer # None => queries # <<>> /\ Head(queries) = answer.table
      /\ trade_updates \in Seq(Trades)
      /\ position_results \in Seq(Row) /\ trade_query_results \in Seq(Row)
      /\ cmp_positions \in Seq(Row) /\ remote \in Seq(Row)
      /\ verify_mode \in BOOLEAN
      /\ trade_history \in [trades : Seq(Trades), clean : BOOLEAN]
  BY DEF SyncTypeOK
<1>d. /\ Dirty(position_results) \in Seq(Row)
      /\ Dirty(trade_query_results) \in Seq(Row)
      /\ Dirty(cmp_positions) \in Seq(Row) /\ Dirty(remote) \in Seq(Row)
  BY <1>t, Dirtied, StaleRows, SeqMonotonic
<1>1. CASE Trade
  <2>1. executed' \in 0 .. MaxTrades /\ pushed' \in 0 .. executed'
    BY <1>0, <1>1, <1>n DEF Trade
  <2>2. answer' \in Rows \cup {None} /\ answer'.table = answer.table
        /\ (answer' # None => answer # None)
    <3>1. CASE answer.table = "position"
      <4>1. answer \in Rows
        BY <1>t, <3>1 DEF None
      <4>2. answer.rows \in Seq(Row)
        BY <4>1 DEF Rows
      <4>3. Dirty(answer.rows) \in Seq(Row)
        BY <4>2, Dirtied, StaleRows, SeqMonotonic
      <4> QED BY <1>1, <3>1, <4>1, <4>3 DEF Trade, SnapshotsAge, Rows, None
    <3>2. CASE answer.table # "position"
      BY <1>1, <1>t, <3>2 DEF Trade, SnapshotsAge
    <3> QED BY <3>1, <3>2
  <2> QED BY <1>1, <1>d, <2>1, <2>2 DEF Trade, SnapshotsAge, SyncTypeOK, local
<1>2. CASE Snapshot
  <2>1. Head(queries) \in {"position", "trade"}
    BY <1>2, <1>t, TailOf DEF Snapshot
  <2> DEFINE clean == Booked = executed
             row(n) == [value |-> n, clean |-> clean]
  <2>2. clean \in BOOLEAN
    OBVIOUS
  <2> HIDE DEF clean
  <2>3. \A n \in 1 .. executed : row(n) \in Row
    BY <1>0, <1>n, <2>2 DEF Row, Trades
  <2>4. answer'.table = Head(queries) /\ answer' \in Rows
    <3>1. CASE executed = 0
      BY <1>2, <2>1, <3>1 DEF Snapshot, Rows
    <3>2. CASE executed # 0 /\ Head(queries) = "position"
      <4>1. row(executed) \in Row
        BY <1>n, <2>3, <3>2
      <4>2. <<row(executed)>> \in Seq(Row)
        BY <4>1
      <4> QED BY <1>2, <3>2, <4>2 DEF Snapshot, Rows, clean
    <3>3. CASE executed # 0 /\ Head(queries) # "position"
      <4>1. [k \in 1 .. executed |-> row(k)] \in Seq(Row)
        BY <1>n, <2>3, IsASeq
      <4> QED BY <1>2, <2>1, <3>3, <4>1 DEF Snapshot, Rows, clean
    <3> QED BY <3>1, <3>2, <3>3
  <2> QED BY <1>2, <2>4 DEF Snapshot, SyncTypeOK, front, rings, verify, local
<1>3. CASE OnRtnTrade
  <2>1. pushed' \in 0 .. executed /\ pushed' \in Trades
    BY <1>0, <1>3, <1>n DEF OnRtnTrade, Trades
  <2>2. trade_updates' \in Seq(Trades)
    BY <1>3, <1>t, <2>1, AppendProperties DEF OnRtnTrade
  <2> QED BY <1>3, <2>1, <2>2 DEF OnRtnTrade, SyncTypeOK, asking, verify, local
<1>4. CASE OnRspQryInvestorPosition
  <2>1. answer # None
    BY <1>4 DEF OnRspQryInvestorPosition, None
  <2>2. answer.rows \in Seq(Row)
    BY <1>t, <2>1 DEF Rows
  <2>3. Head(answer.rows) \in Row
    BY <1>4, <2>2, TailOf DEF OnRspQryInvestorPosition
  <2>4. /\ Append(position_results, Head(answer.rows)) \in Seq(Row)
        /\ Append(cmp_positions, Head(answer.rows)) \in Seq(Row)
    BY <1>t, <2>3, AppendProperties
  <2>5. position_results' \in Seq(Row) /\ cmp_positions' \in Seq(Row)
    BY <1>4, <1>t, <2>4 DEF OnRspQryInvestorPosition
  <2> QED BY <1>4, <2>1, <2>5, DeliveredTypes
          DEF OnRspQryInvestorPosition, SyncTypeOK, front, local
<1>5. CASE OnRspQryTrade
  <2>1. answer # None
    BY <1>5 DEF OnRspQryTrade, None
  <2>2. answer.rows \in Seq(Row)
    BY <1>t, <2>1 DEF Rows
  <2>3. Head(answer.rows) \in Row
    BY <1>5, <2>2, TailOf DEF OnRspQryTrade
  <2>4. trade_query_results' \in Seq(Row)
    BY <1>5, <1>t, <2>3, AppendProperties DEF OnRspQryTrade
  <2> QED BY <1>5, <2>1, <2>4, DeliveredTypes
          DEF OnRspQryTrade, SyncTypeOK, front, verify, local
<1>6. CASE OnEmptyAnswer
  BY <1>6, DeliveredTypes DEF OnEmptyAnswer, SyncTypeOK, front, rings, verify, local
<1>7. CASE Login
  <2>1. logins' \in 0 .. MaxLogins /\ pushed' \in 0 .. executed'
    BY <1>0, <1>7, <1>n DEF Login
  <2>2. queries' \in Seq({"position", "trade"})
    <3>1. <<"position", "trade">> \in Seq({"position", "trade"})
      OBVIOUS
    <3> QED BY <1>7, <1>t, <3>1, ConcatProperties DEF Login
  <2>3. answer' = None /\ stuck' \in BOOLEAN /\ executed' = executed
    BY <1>7 DEF Login
  <2>4. CASE UNCHANGED <<rings, verify, local>>
    BY <2>1, <2>2, <2>3, <2>4 DEF SyncTypeOK, rings, verify, local
  <2>5. CASE /\ position_results' = Dirty(position_results)
             /\ trade_query_results' = Dirty(trade_query_results)
             /\ cmp_positions' = Dirty(cmp_positions)
             /\ remote' = Dirty(remote)
             /\ book' = [book EXCEPT !.clean = FALSE]
             /\ UNCHANGED <<trade_updates, compares, verify_mode, comparing,
                            trade_history, at>>
    BY <1>d, <2>1, <2>2, <2>3, <2>5 DEF SyncTypeOK
  <2> QED BY <1>7, <2>4, <2>5 DEF Login
<1>8. CASE processTradeUpdate
  <2>1. Head(trade_updates) \in Trades /\ Tail(trade_updates) \in Seq(Trades)
    BY <1>8, <1>t, TailOf DEF processTradeUpdate
  <2>2. Append(trade_history.trades, Head(trade_updates)) \in Seq(Trades)
    BY <1>t, <2>1, AppendProperties
  <2>3. book' \in [position : Nat, clean : BOOLEAN]
    BY <1>8, <1>b DEF processTradeUpdate
  <2>4. trade_history' \in [trades : Seq(Trades), clean : BOOLEAN]
    BY <1>8, <1>t, <2>2 DEF processTradeUpdate
  <2> QED BY <1>8, <2>1, <2>3, <2>4
          DEF processTradeUpdate, SyncTypeOK, front, asking, verify
<1>9. CASE onQueryPosition
  <2>1. Head(position_results) \in Row /\ Tail(position_results) \in Seq(Row)
    BY <1>9, <1>t, TailOf DEF onQueryPosition
  <2>2. book' \in [position : Nat, clean : BOOLEAN]
    BY <1>9, <2>1 DEF onQueryPosition, Row, Trades
  <2> QED BY <1>9, <2>1, <2>2
          DEF onQueryPosition, SyncTypeOK, front, asking, verify
<1>10. CASE takeQueriedTrade
  <2>1. Head(trade_query_results) \in Row /\ Tail(trade_query_results) \in Seq(Row)
    BY <1>10, <1>t, TailOf DEF takeQueriedTrade
  <2>2. Append(trade_history.trades, Head(trade_query_results).value) \in Seq(Trades)
    BY <1>t, <2>1, AppendProperties DEF Row
  <2>3. trade_history' \in [trades : Seq(Trades), clean : BOOLEAN]
    BY <1>10, <1>t, <2>1, <2>2 DEF takeQueriedTrade, Row
  <2> QED BY <1>10, <2>1, <2>3
          DEF takeQueriedTrade, SyncTypeOK, front, asking, verify
<1>11. ASSUME NEW r, NEW next \in {"trades", "positions", "history"}, GoOn(r, next)
       PROVE  SyncTypeOK'
  BY <1>11 DEF GoOn, SyncTypeOK, front, asking, rings, verify
<1>12. CASE VerifyOn
  <2>1. compares' \in 0 .. MaxCompares
    BY <1>0, <1>12, <1>n DEF VerifyOn
  <2> QED BY <1>12, <2>1 DEF VerifyOn, SyncTypeOK, front, asking, rings, local
<1>13. CASE DrainAndAsk
  <2>1. queries' \in Seq({"position", "trade"})
        /\ (queries # <<>> => queries' # <<>> /\ Head(queries') = Head(queries))
    <3>1. queries \in Seq({"position", "trade"})
      BY DEF SyncTypeOK
    <3>2. queries' = Append(queries, "position")
      BY <1>13 DEF DrainAndAsk
    <3> QED BY <3>1, <3>2, HeadOfAppend
  <2> QED BY <1>13, <2>1 DEF DrainAndAsk, SyncTypeOK, front, rings, local
<1>14. CASE ReadRemote \/ VerifyOff \/ CompareLocal
  <2>1. <<>> \in Seq(Row)
    OBVIOUS
  <2> QED BY <1>14, <2>1
          DEF ReadRemote, VerifyOff, CompareLocal, SyncTypeOK, front, asking, rings, local
<1>15. CASE UNCHANGED syncVars
  BY <1>15 DEF syncVars, SyncTypeOK, front, asking, rings, verify, local
<1> QED BY <1>1, <1>2, <1>3, <1>4, <1>5, <1>6, <1>7, <1>8, <1>9, <1>10, <1>11,
           <1>12, <1>13, <1>14, <1>15
        DEF SyncNext, Answering, tradeWorkerLoop, compareWithRemote

----------------------------------------------------------------------------
(* The rows under way.                                                     *)

\* A push waits until it is booked: it moves no trade from one to the other.
LEMMA BookedCounts ==
    ASSUME SyncTypeOK
    PROVE  /\ UNCHANGED <<pushed, trade_updates>> => Booked' = Booked
           /\ OnRtnTrade => Booked' = Booked
           /\ processTradeUpdate => Booked' = Booked + 1
<1>0. Len(trade_updates) \in Nat /\ pushed \in Nat
  BY BookedType
<1>q. trade_updates \in Seq(Trades)
  BY DEF SyncTypeOK
<1>1. UNCHANGED <<pushed, trade_updates>> => Booked' = Booked
  BY DEF Booked
<1>2. ASSUME OnRtnTrade PROVE Booked' = Booked
  <2>1. pushed + 1 \in Trades
    <3>1. pushed \in 0 .. executed /\ executed \in 0 .. MaxTrades /\ MaxTrades \in Nat
      BY SyncAssumption DEF SyncTypeOK
    <3> QED BY <1>2, <3>1 DEF OnRtnTrade, Trades
  <2>2. Len(Append(trade_updates, pushed + 1)) = Len(trade_updates) + 1
    BY <1>q, <2>1, AppendProperties
  <2>3. pushed' = pushed + 1 /\ Len(trade_updates') = Len(trade_updates) + 1
    BY <1>2, <2>2 DEF OnRtnTrade
  <2>4. pushed' - Len(trade_updates') = pushed - Len(trade_updates)
    BY <1>0, <2>3
  <2> QED BY <2>4 DEF Booked
<1>3. ASSUME processTradeUpdate PROVE Booked' = Booked + 1
  <2>1. Len(trade_updates') = Len(trade_updates) - 1
    BY <1>q, <1>3, HeadTailProperties DEF processTradeUpdate
  <2>2. pushed' = pushed
    BY <1>3 DEF processTradeUpdate, front
  <2>3. pushed' - Len(trade_updates') = pushed - Len(trade_updates) + 1
    BY <1>0, <2>1, <2>2
  <2> QED BY <2>3 DEF Booked
<1> QED BY <1>1, <1>2, <1>3

\* Every other step leaves the trades booked alone, a second login apart.
LEMMA BookedMoves ==
    ASSUME SyncTypeOK, BeforeLogin, [SyncNext]_syncVars
    PROVE  \/ Booked' = Booked /\ executed' = executed
           \/ Trade /\ Booked' = Booked
           \/ processTradeUpdate /\ Booked' = Booked + 1 /\ executed' = executed
           \/ Login /\ logins > 0
<1>1. UNCHANGED <<pushed, trade_updates>> => Booked' = Booked
  BY BookedCounts
<1>2. CASE Trade
  BY <1>1, <1>2 DEF Trade
<1>3. CASE Snapshot
  BY <1>1, <1>3 DEF Snapshot, front, rings
<1>4. CASE OnRtnTrade
  BY <1>4, BookedCounts DEF OnRtnTrade
<1>5. CASE Answering
  BY <1>1, <1>5 DEF Answering, OnRspQryInvestorPosition, OnRspQryTrade,
                    OnEmptyAnswer, front, rings
<1>6. CASE Login
  <2>1. CASE logins > 0
    BY <1>6, <2>1
  <2>2. CASE logins = 0
    BY <1>1, <1>6, <2>2 DEF Login, BeforeLogin, rings
  <2> QED BY <2>1, <2>2, SyncAssumption DEF SyncTypeOK
<1>7. CASE processTradeUpdate
  BY <1>7, BookedCounts DEF processTradeUpdate, front
<1>8. CASE onQueryPosition \/ takeQueriedTrade
  BY <1>1, <1>8 DEF onQueryPosition, takeQueriedTrade, front
<1>9. ASSUME NEW r, NEW next, GoOn(r, next)
      PROVE  Booked' = Booked /\ executed' = executed
  BY <1>1, <1>9 DEF GoOn, front, rings
<1>10. CASE compareWithRemote
  BY <1>1, <1>10 DEF compareWithRemote, VerifyOn, DrainAndAsk, ReadRemote,
                     VerifyOff, CompareLocal, front, rings
<1>11. CASE UNCHANGED syncVars
  BY <1>1, <1>11 DEF syncVars, front, rings
<1> QED BY <1>2, <1>3, <1>4, <1>5, <1>6, <1>7, <1>8, <1>9, <1>10, <1>11
        DEF SyncNext, tradeWorkerLoop

\* A row that was right stays right, unless the step is a trade or a login.
LEMMA RowsLast ==
    ASSUME SyncTypeOK, BeforeLogin, [SyncNext]_syncVars
    PROVE  /\ ~Trade /\ (Login => logins = 0) => Current \subseteq Current'
           /\ (Login => logins = 0) => Listed \subseteq Listed'
<1>0. Booked \in Int /\ Len(trade_updates) \in Nat
      /\ \A r \in Row : r.value \in Int
  BY BookedType DEF Row, Trades
<1>1. CASE Booked' = Booked
  <2>1. Listed \subseteq Listed'
    BY <1>1 DEF Listed
  <2>2. executed' = executed => Current \subseteq Current'
    BY <1>1 DEF Current
  <2> QED BY <1>1, <2>1, <2>2, BookedMoves, <1>0
<1>2. CASE processTradeUpdate /\ Booked' = Booked + 1
  <2>1. Listed \subseteq Listed'
    BY <1>0, <1>2 DEF Listed
  <2>2. Booked # executed
    <3>1. Len(trade_updates) > 0
      BY <1>2, EmptySeq DEF processTradeUpdate, SyncTypeOK
    <3>2. pushed \in Nat /\ executed \in Nat /\ pushed <= executed
      BY BookedType DEF SyncTypeOK
    <3> QED BY <1>0, <3>1, <3>2 DEF Booked
  <2>3. Current \subseteq Stale
    BY <2>2 DEF Current, Stale
  <2> QED BY <2>1, <2>3, StaleRows
<1> QED BY <1>0, <1>1, <1>2, BookedMoves

\* The rows under way stay right: a snapshot is right when it is taken, and
\* what happens later dirties it or leaves it right.
LEMMA RowsKept ==
    ASSUME SyncTypeOK, RowsInv, BeforeLogin, [SyncNext]_syncVars
    PROVE  RowsInv'
<1> DEFINE Answered(a) == \/ a = None
                          \/ a.table = "position" /\ a.rows \in Seq(Current')
                          \/ a.table = "trade" /\ a.rows \in Seq(Listed')
<1>s. /\ Stale \subseteq Current' /\ Stale \subseteq Listed'
      /\ Current \subseteq Row /\ Listed \subseteq Row
  BY StaleRows
<1>r. /\ position_results \in Seq(Current) /\ cmp_positions \in Seq(Current)
      /\ remote \in Seq(Current) /\ trade_query_results \in Seq(Listed)
  BY DEF RowsInv
<1>d. /\ Dirty(position_results) \in Seq(Current')
      /\ Dirty(cmp_positions) \in Seq(Current')
      /\ Dirty(remote) \in Seq(Current')
      /\ Dirty(trade_query_results) \in Seq(Listed')
  <2>1. /\ position_results \in Seq(Row) /\ cmp_positions \in Seq(Row)
        /\ remote \in Seq(Row) /\ trade_query_results \in Seq(Row)
    BY <1>s, <1>r, SeqMonotonic
  <2> QED BY <1>s, <2>1, Dirtied, SeqMonotonic
<1>l. (Login => logins = 0) => trade_query_results \in Seq(Listed')
  BY <1>r, RowsLast, SeqMonotonic
<1>1. CASE Trade
  <2>1. Listed \subseteq Listed' /\ trade_query_results \in Seq(Listed')
    <3>1. ~Login
      BY <1>1, SyncAssumption DEF Trade, Login, SyncTypeOK
    <3> QED BY <3>1, <1>l, RowsLast
  <2>2. Answered(answer')
    <3>1. CASE answer.table = "position"
      <4>1. answer \in Rows
        BY <3>1 DEF SyncTypeOK, None
      <4>2. Dirty(answer.rows) \in Seq(Current')
        BY <4>1, <1>s, Dirtied, SeqMonotonic DEF Rows
      <4>3. answer' = [answer EXCEPT !.rows = Dirty(answer.rows)]
        BY <1>1, <3>1 DEF Trade, SnapshotsAge
      <4>4. answer'.rows = Dirty(answer.rows) /\ answer'.table = "position"
        BY <3>1, <4>1, <4>3 DEF Rows
      <4> QED BY <4>2, <4>4
    <3>2. CASE answer = None
      BY <1>1, <3>2 DEF Trade, SnapshotsAge, None
    <3>3. CASE answer.table = "trade" /\ answer.rows \in Seq(Listed)
      <4>1. answer.rows \in Seq(Listed')
        BY <2>1, <3>3, SeqMonotonic
      <4> QED BY <1>1, <3>3, <4>1 DEF Trade, SnapshotsAge
    <3> QED BY <3>1, <3>2, <3>3 DEF RowsInv
  <2> QED BY <1>1, <1>d, <2>1, <2>2 DEF Trade, SnapshotsAge, RowsInv
<1>2. CASE Login /\ logins # 0
  BY <1>2, <1>d DEF Login, RowsInv
<1>3. CASE ~Trade /\ (Login => logins = 0)
  <2>1. Current \subseteq Current' /\ Listed \subseteq Listed'
    BY <1>3, RowsLast
  <2>2. /\ position_results \in Seq(Current') /\ cmp_positions \in Seq(Current')
        /\ remote \in Seq(Current') /\ trade_query_results \in Seq(Listed')
    BY <1>r, <2>1, SeqMonotonic
  <2>3. Answered(answer)
    BY <2>1, SeqMonotonic DEF RowsInv
  <2>4. CASE UNCHANGED <<answer, position_results, cmp_positions, remote,
                         trade_query_results>>
    BY <2>2, <2>3, <2>4 DEF RowsInv
  <2>5. CASE Login
    BY <1>3, <2>2, <2>5 DEF Login, RowsInv, rings, verify
  <2>6. CASE Snapshot
    <3> DEFINE clean == Booked = executed
               row(n) == [value |-> n, clean |-> clean]
    <3>0. SUFFICES Answered(answer')
      BY <2>2, <2>6 DEF RowsInv, Snapshot, rings, verify
    <3>1. Booked' = Booked /\ executed' = executed
      BY <2>6 DEF Snapshot, Booked, front, rings
    <3>2. Head(queries) \in {"position", "trade"}
      BY <2>6, TailOf DEF Snapshot, SyncTypeOK
    <3>3. executed \in Nat /\ executed <= MaxTrades /\ MaxTrades \in Nat
      BY SyncAssumption DEF SyncTypeOK
    <3>4. clean \in BOOLEAN /\ (clean => Booked = executed)
      OBVIOUS
    <3> HIDE DEF clean
    <3>5. CASE executed = 0
      <4>1. answer' = [table |-> Head(queries), rows |-> <<>>]
        BY <2>6, <3>5 DEF Snapshot
      <4> QED BY <3>2, <4>1
    <3>6. CASE executed # 0 /\ Head(queries) = "position"
      <4>1. row(executed) \in Current'
        BY <3>1, <3>3, <3>4, <3>6 DEF Current, Row, Trades
      <4>2. <<row(executed)>> \in Seq(Current')
        BY <4>1
      <4>3. answer' = [table |-> "position", rows |-> <<row(executed)>>]
        BY <2>6, <3>6 DEF Snapshot, clean
      <4> QED BY <4>2, <4>3
    <3>7. CASE executed # 0 /\ Head(queries) = "trade"
      <4>1. \A k \in 1 .. executed : row(k) \in Listed'
        BY <3>1, <3>3, <3>4 DEF Listed, Row, Trades
      <4>2. [k \in 1 .. executed |-> row(k)] \in Seq(Listed')
        BY <3>3, <4>1, IsASeq
      <4>3. answer' = [table |-> "trade", rows |-> [k \in 1 .. executed |-> row(k)]]
        BY <2>6, <3>7 DEF Snapshot, clean
      <4> QED BY <4>2, <4>3
    <3> QED BY <3>2, <3>5, <3>6, <3>7
  <2>7. CASE OnRspQryInvestorPosition
    <3>1. answer # None /\ answer.table = "position" /\ answer.rows # <<>>
          /\ answer \in Rows
      BY <2>7 DEF OnRspQryInvestorPosition, SyncTypeOK, None
    <3>2. answer.rows \in Seq(Current')
      BY <2>3, <3>1
    <3>3. Head(answer.rows) \in Current' /\ Tail(answer.rows) \in Seq(Current')
      BY <3>1, <3>2, TailOf
    <3>4. /\ Append(position_results, Head(answer.rows)) \in Seq(Current')
          /\ Append(cmp_positions, Head(answer.rows)) \in Seq(Current')
      BY <2>2, <3>3, AppendProperties
    <3>5. \/ answer' = None
          \/ answer' = [answer EXCEPT !.rows = Tail(answer.rows)]
      BY <2>7 DEF OnRspQryInvestorPosition, Delivered, Complete
    <3>6. Answered(answer')
      <4>1. CASE answer' = None
        BY <4>1
      <4>2. CASE answer' = [answer EXCEPT !.rows = Tail(answer.rows)]
        <5>1. answer'.rows = Tail(answer.rows) /\ answer'.table = answer.table
          BY <3>1, <4>2 DEF Rows
        <5> QED BY <3>1, <3>3, <5>1
      <4> QED BY <3>5, <4>1, <4>2
    <3> QED BY <2>2, <2>7, <3>4, <3>6 DEF OnRspQryInvestorPosition, RowsInv
  <2>8. CASE OnRspQryTrade
    <3>1. answer # None /\ answer.table = "trade" /\ answer.rows # <<>>
          /\ answer \in Rows
      BY <2>8 DEF OnRspQryTrade, SyncTypeOK, None
    <3>2. answer.rows \in Seq(Listed')
      BY <2>3, <3>1
    <3>3. Head(answer.rows) \in Listed' /\ Tail(answer.rows) \in Seq(Listed')
      BY <3>1, <3>2, TailOf
    <3>4. Append(trade_query_results, Head(answer.rows)) \in Seq(Listed')
      BY <2>2, <3>3, AppendProperties
    <3>5. \/ answer' = None
          \/ answer' = [answer EXCEPT !.rows = Tail(answer.rows)]
      BY <2>8 DEF OnRspQryTrade, Delivered, Complete
    <3>6. Answered(answer')
      <4>1. CASE answer' = None
        BY <4>1
      <4>2. CASE answer' = [answer EXCEPT !.rows = Tail(answer.rows)]
        <5>1. answer'.rows = Tail(answer.rows) /\ answer'.table = answer.table
          BY <3>1, <4>2 DEF Rows
        <5> QED BY <3>1, <3>3, <5>1
      <4> QED BY <3>5, <4>1, <4>2
    <3> QED BY <2>2, <2>8, <3>4, <3>6 DEF OnRspQryTrade, RowsInv, verify
  <2>9. CASE OnEmptyAnswer
    BY <2>2, <2>9 DEF OnEmptyAnswer, Complete, RowsInv, rings, verify
  <2>10. CASE onQueryPosition
    <3>1. Tail(position_results) \in Seq(Current')
      BY <2>2, <2>10, TailOf DEF onQueryPosition
    <3> QED BY <2>2, <2>3, <2>10, <3>1 DEF onQueryPosition, RowsInv, asking, verify
  <2>11. CASE takeQueriedTrade
    <3>1. Tail(trade_query_results) \in Seq(Listed')
      BY <2>2, <2>11, TailOf DEF takeQueriedTrade
    <3> QED BY <2>2, <2>3, <2>11, <3>1 DEF takeQueriedTrade, RowsInv, asking, verify
  <2>12. CASE DrainAndAsk \/ ReadRemote
    <3>1. <<>> \in Seq(Current')
      OBVIOUS
    <3> QED BY <2>2, <2>3, <2>12, <3>1
            DEF DrainAndAsk, ReadRemote, RowsInv, asking, rings
  <2>13. CASE OnRtnTrade \/ processTradeUpdate
    BY <2>4, <2>13 DEF OnRtnTrade, processTradeUpdate, asking, verify
  <2>14. ASSUME NEW r, NEW next, GoOn(r, next) PROVE RowsInv'
    BY <2>4, <2>14 DEF GoOn, asking, rings, verify
  <2>15. CASE VerifyOn \/ VerifyOff \/ CompareLocal
    BY <2>4, <2>15 DEF VerifyOn, VerifyOff, CompareLocal, asking, rings
  <2>16. CASE UNCHANGED syncVars
    BY <2>4, <2>16 DEF syncVars, asking, rings, verify
  <2> QED BY <1>3, <2>5, <2>6, <2>7, <2>8, <2>9, <2>10, <2>11, <2>12, <2>13,
             <2>14, <2>15, <2>16
          DEF SyncNext, Answering, tradeWorkerLoop, compareWithRemote
<1> QED BY <1>1, <1>2, <1>3

----------------------------------------------------------------------------
(* The book and the history.                                               *)

\* Before the first login nothing is under way.
LEMMA BeforeLoginKept ==
    ASSUME SyncTypeOK, BeforeLogin, [SyncNext]_syncVars
    PROVE  BeforeLogin'
<1>0. logins \in Nat
  BY SyncAssumption DEF SyncTypeOK
<1>1. CASE Login
  BY <1>0, <1>1 DEF Login, BeforeLogin
<1>2. CASE logins = 0 /\ UNCHANGED <<pushed, queries, trade_updates, comparing>>
  BY <1>2 DEF BeforeLogin
<1>3. CASE logins = 0 /\ ~Login
  <2>1. pushed = 0 /\ queries = <<>> /\ trade_updates = <<>> /\ answer = None
        /\ comparing = "idle"
    BY <1>3 DEF BeforeLogin, SyncTypeOK
  <2>2. ~Answering
    BY <2>1 DEF Answering, OnRspQryInvestorPosition, OnRspQryTrade, OnEmptyAnswer,
                None
  <2>3. ~Snapshot /\ ~OnRtnTrade /\ ~processTradeUpdate /\ ~VerifyOn
    BY <1>3, <2>1 DEF Snapshot, OnRtnTrade, processTradeUpdate, VerifyOn
  <2>4. ~DrainAndAsk /\ ~ReadRemote /\ ~VerifyOff /\ ~CompareLocal
    BY <2>1 DEF DrainAndAsk, ReadRemote, VerifyOff, CompareLocal
  <2> QED
    BY <1>2, <1>3, <2>2, <2>3, <2>4
    DEF SyncNext, tradeWorkerLoop, compareWithRemote, Trade, onQueryPosition,
        takeQueriedTrade, GoOn, syncVars, front, asking, rings, verify
<1>4. CASE logins # 0 /\ ~Login
  <2>1. logins' = logins
    BY <1>4 DEF SyncNext, Answering, tradeWorkerLoop, compareWithRemote, Trade,
        Snapshot, OnRtnTrade, OnRspQryInvestorPosition, OnRspQryTrade,
        OnEmptyAnswer, processTradeUpdate, onQueryPosition, takeQueriedTrade, GoOn,
        VerifyOn, DrainAndAsk, ReadRemote, VerifyOff, CompareLocal, syncVars, front
  <2> QED BY <1>4, <2>1 DEF BeforeLogin
<1> QED BY <1>1, <1>3, <1>4

\* An exact book stays exact: each trade booked counts one, and a clean
\* snapshot brings what the exchange has when all trades are booked.
LEMMA LocalKept ==
    ASSUME SyncTypeOK, RowsInv, BeforeLogin, LocalExact, [SyncNext]_syncVars
    PROVE  LocalExact'
<1>0. Booked \in Int /\ book \in [position : Nat, clean : BOOLEAN]
      /\ logins \in Nat
  BY BookedType, SyncAssumption DEF SyncTypeOK
<1>1. CASE book' = book /\ Booked' = Booked
  BY <1>1 DEF LocalExact
<1>2. CASE UNCHANGED <<book, pushed, trade_updates>> \/ OnRtnTrade
  BY <1>1, <1>2, BookedCounts DEF OnRtnTrade, local
<1>3. CASE Login
  <2>1. CASE logins = 0
    BY <1>2, <1>3, <2>1 DEF Login, BeforeLogin, local, rings
  <2>2. CASE logins # 0
    <3>1. book' = [book EXCEPT !.clean = FALSE]
      BY <1>3, <2>2 DEF Login
    <3> QED BY <1>0, <3>1 DEF LocalExact
  <2> QED BY <2>1, <2>2
<1>4. CASE processTradeUpdate
  <2>1. book' = [book EXCEPT !.position = @ + 1] /\ Booked' = Booked + 1
    BY <1>4, BookedCounts DEF processTradeUpdate
  <2>2. book'.position = book.position + 1 /\ book'.clean = book.clean
    BY <1>0, <2>1
  <2> QED BY <1>0, <2>1, <2>2 DEF LocalExact
<1>5. CASE onQueryPosition
  <2>1. Booked' = Booked
    BY <1>5, BookedCounts DEF onQueryPosition, front
  <2>2. Head(position_results) \in Current
    BY <1>5, TailOf DEF onQueryPosition, RowsInv
  <2>3. /\ book'.position = Head(position_results).value
        /\ book'.clean = Head(position_results).clean
    BY <1>5 DEF onQueryPosition
  <2> QED BY <2>1, <2>2, <2>3 DEF Current, LocalExact
<1>6. CASE Trade \/ Snapshot \/ Answering \/ compareWithRemote
  BY <1>2, <1>6
  DEF Trade, Snapshot, Answering, OnRspQryInvestorPosition, OnRspQryTrade,
      OnEmptyAnswer, compareWithRemote, VerifyOn, DrainAndAsk, ReadRemote,
      VerifyOff, CompareLocal, front, rings, local
<1>7. CASE takeQueriedTrade
  BY <1>2, <1>7 DEF takeQueriedTrade, front
<1>8. ASSUME NEW r, NEW next, GoOn(r, next) PROVE LocalExact'
  BY <1>2, <1>8 DEF GoOn, front, rings
<1>9. CASE UNCHANGED syncVars
  BY <1>2, <1>9 DEF syncVars, front, rings, local
<1> QED BY <1>2, <1>3, <1>4, <1>5, <1>6, <1>7, <1>8, <1>9
        DEF SyncNext, tradeWorkerLoop

\* In the first session no push is booked that was not counted.
LEMMA BookedNat ==
    ASSUME SyncTypeOK, PushesFollow, logins <= 1
    PROVE  Booked \in Nat
<1>1. Booked \in Int /\ Len(trade_updates) \in Nat /\ pushed \in Nat
      /\ Booked = pushed - Len(trade_updates)
  BY BookedType DEF Booked
<1>2. CASE Len(trade_updates) = 0
  BY <1>1, <1>2
<1>3. CASE Len(trade_updates) > 0
  <2>1. 1 \in 1 .. Len(trade_updates)
    BY <1>1, <1>3
  <2>2. trade_updates[1] = Booked + 1
    BY <2>1 DEF PushesFollow
  <2>3. trade_updates[1] \in Trades
    BY <2>1, ElementOfSeq DEF SyncTypeOK
  <2> QED BY <1>1, <2>2, <2>3 DEF Trades
<1> QED BY <1>1, <1>2, <1>3

\* The numbers from b + 1 on lose their first one at the front and gain the
\* next one at the back.
LEMMA CountingUp ==
    ASSUME NEW n \in Nat, NEW b \in Int, NEW s \in Seq(Int),
           s = [k \in 1 .. n |-> b + k]
    PROVE  /\ Len(s) = n
           /\ Append(s, b + n + 1) = [k \in 1 .. n + 1 |-> b + k]
           /\ n > 0 => /\ Head(s) = b + 1
                       /\ Tail(s) = [k \in 1 .. n - 1 |-> b + 1 + k]
<1>1. Len(s) = n
  BY LenProperties
<1>2. Append(s, b + n + 1) = [k \in 1 .. n + 1 |-> b + k]
  <2>1. \A k \in 1 .. n + 1 : b + k \in Int
    OBVIOUS
  <2>2. n + 1 \in Nat
    OBVIOUS
  <2> DEFINE t == [k \in 1 .. n + 1 |-> b + k]
  <2>3. t \in Seq(Int)
    BY <2>1, <2>2, IsASeq
  <2>4. Len(t) = n + 1
    BY <2>2, <2>3, LenProperties
  <2>5. \A k \in 1 .. n + 1 : t[k] = b + k
    OBVIOUS
  <2> HIDE DEF t
  <2>6. b + n + 1 \in Int
    OBVIOUS
  <2>7. /\ Append(s, b + n + 1) \in Seq(Int) /\ Len(Append(s, b + n + 1)) = n + 1
        /\ \A i \in 1 .. n : Append(s, b + n + 1)[i] = s[i]
        /\ Append(s, b + n + 1)[n + 1] = b + n + 1
    BY <1>1, <2>6, AppendProperties
  <2>8. \A k \in 1 .. n + 1 : Append(s, b + n + 1)[k] = t[k]
    BY <2>5, <2>7
  <2>9. Append(s, b + n + 1) = t
    BY <2>3, <2>4, <2>7, <2>8, SeqEqual
  <2> QED BY <2>9 DEF t
<1>3. ASSUME n > 0
      PROVE  Head(s) = b + 1 /\ Tail(s) = [k \in 1 .. n - 1 |-> b + 1 + k]
  <2>1. s # <<>>
    BY <1>1, <1>3
  <2>2. Head(s) = s[1] /\ s[1] = b + 1
    BY <1>3
  <2> DEFINE t == [k \in 1 .. n - 1 |-> b + 1 + k]
  <2>3. n - 1 \in Nat /\ \A k \in 1 .. n - 1 : b + 1 + k \in Int
    BY <1>3
  <2>4. t \in Seq(Int)
    BY <2>3, IsASeq
  <2>5. Len(t) = n - 1
    BY <2>3, <2>4, LenProperties
  <2>6. /\ Tail(s) \in Seq(Int) /\ Len(Tail(s)) = n - 1
        /\ \A i \in 1 .. n - 1 : Tail(s)[i] = s[i + 1]
    BY <1>1, <2>1, HeadTailProperties
  <2>7. \A k \in 1 .. n - 1 : s[k + 1] = b + 1 + k /\ t[k] = b + 1 + k
    OBVIOUS
  <2> HIDE DEF t
  <2>8. \A i \in 1 .. n - 1 : Tail(s)[i] = t[i]
    BY <2>6, <2>7
  <2>9. Tail(s) = t
    BY <2>4, <2>5, <2>6, <2>8, SeqEqual
  <2> QED BY <2>2, <2>9 DEF t
<1> QED BY <1>1, <1>2, <1>3

\* The history and the pushes that follow it go on counting.
LEMMA HistoryKept ==
    ASSUME SyncTypeOK, RowsInv, BeforeLogin, PushesFollow, HistoryExact,
           [SyncNext]_syncVars
    PROVE  PushesFollow' /\ HistoryExact'
<1>0. Booked \in Int /\ Len(trade_updates) \in Nat /\ logins \in Nat
      /\ Booked = pushed - Len(trade_updates) /\ pushed \in Nat
  BY BookedType, SyncAssumption DEF Booked, SyncTypeOK
<1>h. trade_history \in [trades : Seq(Trades), clean : BOOLEAN]
  BY DEF SyncTypeOK
<1>i. trade_updates \in Seq(Int) /\ trade_history.trades \in Seq(Int)
  <2>1. Trades \subseteq Int
    BY DEF Trades
  <2> QED BY <1>h, <2>1, SeqMonotonic DEF SyncTypeOK
<1>1. CASE ~(logins' <= 1)
  BY <1>1 DEF PushesFollow, HistoryExact
<1>2. CASE UNCHANGED <<trade_history, pushed, trade_updates>>
           /\ (logins' <= 1 => logins <= 1)
  BY <1>2, BookedCounts DEF PushesFollow, HistoryExact
<1>3. CASE OnRtnTrade
  <2>1. Booked' = Booked /\ trade_history' = trade_history /\ logins' = logins
    BY <1>3, BookedCounts DEF OnRtnTrade, local
  <2>2. ASSUME logins <= 1
        PROVE  trade_updates' = [k \in 1 .. Len(trade_updates') |-> Booked + k]
    <3>1. trade_updates' = Append(trade_updates, Booked + Len(trade_updates) + 1)
      <4>1. pushed' = Booked + Len(trade_updates) + 1
        BY <1>0, <1>3 DEF OnRtnTrade
      <4> QED BY <1>3, <4>1 DEF OnRtnTrade
    <3>2. trade_updates = [k \in 1 .. Len(trade_updates) |-> Booked + k]
      BY <2>2 DEF PushesFollow
    <3>3. trade_updates' = [k \in 1 .. Len(trade_updates) + 1 |-> Booked + k]
      BY <1>0, <1>i, <3>1, <3>2, CountingUp
    <3>4. Len(trade_updates') = Len(trade_updates) + 1
      <4>1. Booked + Len(trade_updates) + 1 \in Int
        BY <1>0
      <4> QED BY <1>i, <3>1, <4>1, AppendProperties
    <3> QED BY <3>3, <3>4
  <2> QED BY <2>1, <2>2 DEF PushesFollow, HistoryExact
<1>4. CASE processTradeUpdate
  <2>1. Booked' = Booked + 1 /\ logins' = logins
    BY <1>4, BookedCounts DEF processTradeUpdate, front
  <2>2. /\ trade_updates' = Tail(trade_updates) /\ trade_updates # <<>>
        /\ trade_history' = [trade_history EXCEPT
               !.trades = Append(@, Head(trade_updates))]
    BY <1>4 DEF processTradeUpdate
  <2>3. /\ trade_history'.clean = trade_history.clean
        /\ trade_history'.trades = Append(trade_history.trades, Head(trade_updates))
    BY <1>h, <2>2
  <2>4. ASSUME logins <= 1
        PROVE  /\ trade_updates' = [k \in 1 .. Len(trade_updates') |-> Booked' + k]
               /\ trade_history.clean =>
                     trade_history'.trades = [k \in 1 .. Booked' |-> k]
    <3>1. trade_updates = [k \in 1 .. Len(trade_updates) |-> Booked + k]
      BY <2>4 DEF PushesFollow
    <3>2. Len(trade_updates) > 0 /\ Len(Tail(trade_updates)) = Len(trade_updates) - 1
      BY <1>i, <2>2, EmptySeq, HeadTailProperties
    <3>3. /\ Head(trade_updates) = Booked + 1
          /\ Tail(trade_updates) =
                [k \in 1 .. Len(trade_updates) - 1 |-> Booked + 1 + k]
      <4>1. Booked \in Int /\ Len(trade_updates) \in Nat
        BY <1>0
      <4>2. trade_updates \in Seq(Int)
        BY <1>i
      <4> QED BY <3>1, <3>2, <4>1, <4>2, CountingUp
    <3>4. Booked \in Nat
      BY <2>4, BookedNat
    <3>5. trade_history.clean =>
              trade_history.trades = [k \in 1 .. Booked |-> 0 + k]
      BY <2>4, <3>4 DEF HistoryExact
    <3>6. trade_history.clean => Append(trade_history.trades, 0 + Booked + 1)
             = [k \in 1 .. Booked + 1 |-> 0 + k]
      <4>1. 0 \in Int
        OBVIOUS
      <4> QED BY <1>i, <3>4, <3>5, <4>1, CountingUp
    <3>7. trade_history.clean =>
              trade_history'.trades = [k \in 1 .. Booked + 1 |-> k]
      <4>1. Head(trade_updates) = 0 + Booked + 1
        BY <3>3, <3>4
      <4>2. trade_history.clean =>
                trade_history'.trades = [k \in 1 .. Booked + 1 |-> 0 + k]
        BY <2>3, <3>6, <4>1
      <4>3. [k \in 1 .. Booked + 1 |-> 0 + k] = [k \in 1 .. Booked + 1 |-> k]
        BY <3>4
      <4> QED BY <4>2, <4>3
    <3> QED BY <2>1, <2>2, <3>2, <3>3, <3>7
  <2> QED BY <2>1, <2>3, <2>4 DEF PushesFollow, HistoryExact
<1>5. CASE takeQueriedTrade
  <2>1. Booked' = Booked /\ trade_updates' = trade_updates /\ logins' = logins
    BY <1>5, BookedCounts DEF takeQueriedTrade, front
  <2> DEFINE row == Head(trade_query_results)
  <2>2. row \in Listed
    BY <1>5, TailOf DEF takeQueriedTrade, RowsInv
  <2>3. /\ trade_history'.clean = (trade_history.clean /\ row.clean)
        /\ trade_history'.trades =
              IF Contains(trade_history.trades, row.value)
              THEN trade_history.trades
              ELSE Append(trade_history.trades, row.value)
    BY <1>5 DEF takeQueriedTrade
  <2>4. ASSUME logins <= 1, trade_history'.clean
        PROVE  trade_history.clean /\ trade_history'.trades = trade_history.trades
    <3>1. trade_history.clean /\ row.clean
      BY <2>3, <2>4
    <3>2. row.value \in 1 .. Booked /\ Booked \in Nat
      BY <2>2, <2>4, <3>1, BookedNat, SyncAssumption DEF Listed, Row, Trades
    <3>3. trade_history.trades = [k \in 1 .. Booked |-> k]
      BY <2>4, <3>1 DEF HistoryExact
    <3>4. Len(trade_history.trades) = Booked /\ trade_history.trades[row.value] = row.value
      <4>1. trade_history.trades = [k \in 1 .. Booked |-> 0 + k]
        BY <3>2, <3>3
      <4> QED BY <1>i, <3>2, <4>1, CountingUp
    <3>5. Contains(trade_history.trades, row.value)
      BY <3>2, <3>4 DEF Contains
    <3> QED BY <2>3, <3>1, <3>5
  <2> QED BY <2>1, <2>4 DEF PushesFollow, HistoryExact
<1>6. CASE Login
  <2>1. CASE logins = 0
    BY <1>2, <1>6, <2>1 DEF Login, BeforeLogin, local, rings
  <2>2. CASE logins # 0
    <3>1. logins' = logins + 1
      BY <1>6 DEF Login
    <3> QED BY <1>0, <1>1, <2>2, <3>1
  <2> QED BY <2>1, <2>2
<1>7. CASE Trade \/ Snapshot \/ Answering \/ compareWithRemote
  BY <1>2, <1>7
  DEF Trade, Snapshot, Answering, OnRspQryInvestorPosition, OnRspQryTrade,
      OnEmptyAnswer, compareWithRemote, VerifyOn, DrainAndAsk, ReadRemote,
      VerifyOff, CompareLocal, front, rings, local
<1>8. CASE onQueryPosition
  BY <1>2, <1>8 DEF onQueryPosition, front
<1>9. ASSUME NEW r, NEW next, GoOn(r, next) PROVE PushesFollow' /\ HistoryExact'
  BY <1>2, <1>9 DEF GoOn, front, rings
<1>10. CASE UNCHANGED syncVars
  BY <1>2, <1>10 DEF syncVars, front, rings, local
<1> QED BY <1>3, <1>4, <1>5, <1>6, <1>7, <1>8, <1>9, <1>10
        DEF SyncNext, tradeWorkerLoop

----------------------------------------------------------------------------
(* Theorems.                                                               *)

\* The invariant holds in every reachable state.
THEOREM SyncInvariant == SyncSpec => []SyncInv
<1>1. SyncInit => SyncInv
  <2> SUFFICES ASSUME SyncInit PROVE SyncInv
    OBVIOUS
  <2>1. Booked = 0
    <3>1. Len(trade_updates) = 0 /\ pushed = 0
      BY EmptySeq DEF SyncInit
    <3> QED BY <3>1 DEF Booked
  <2>2. SyncTypeOK
    <3>1. \A S : <<>> \in Seq(S)
      OBVIOUS
    <3>2. MaxTrades \in Nat /\ MaxLogins \in Nat /\ MaxCompares \in Nat
      BY SyncAssumption
    <3>3. /\ executed \in 0 .. MaxTrades /\ pushed \in 0 .. executed
          /\ logins \in 0 .. MaxLogins /\ compares \in 0 .. MaxCompares
      BY <3>2 DEF SyncInit
    <3>4. /\ book \in [position : Nat, clean : BOOLEAN]
          /\ trade_history \in [trades : Seq(Trades), clean : BOOLEAN]
      BY <3>1 DEF SyncInit
    <3> QED BY <3>1, <3>3, <3>4 DEF SyncInit, SyncTypeOK
  <2>3. RowsInv
    <3>1. \A S : <<>> \in Seq(S)
      OBVIOUS
    <3> QED BY <3>1 DEF SyncInit, RowsInv
  <2>4. PushesFollow /\ HistoryExact
    BY <2>1 DEF SyncInit, PushesFollow, HistoryExact
  <2>5. BeforeLogin /\ LocalExact
    BY <2>1 DEF SyncInit, BeforeLogin, LocalExact
  <2> QED BY <2>2, <2>3, <2>4, <2>5 DEF SyncInv
<1>2. SyncInv /\ [SyncNext]_syncVars => SyncInv'
  BY TypesKept, RowsKept, BeforeLoginKept, LocalKept, HistoryKept DEF SyncInv
<1> QED BY <1>1, <1>2, PTL DEF SyncSpec

\* Queries, answers, rings, book and history keep their types, and the answer
\* under way belongs to the query at the front.
THEOREM SyncTypes == SyncSpec => []SyncTypeOK
<1>1. SyncInv => SyncTypeOK
  BY DEF SyncInv
<1> QED BY <1>1, SyncInvariant, PTL

\* Whatever was wrong with the book before, a snapshot taken with all trades
\* booked and loaded before the next one is executed heals it; from then on it
\* differs from the exchange by the pushes under way and by nothing else, until a
\* login replays the day's trades or another snapshot is loaded over it.
THEOREM BookIsExact == SyncSpec => []LocalExact
<1>1. SyncInv => LocalExact
  BY DEF SyncInv
<1> QED BY <1>1, SyncInvariant, PTL

\* In the first session the history lists each booked trade once and in order,
\* although it is filled from the pushes and merged with lists, as long as those
\* were taken with all trades booked.
THEOREM HistoryIsExact == SyncSpec => []HistoryExact
<1>1. SyncInv => HistoryExact
  BY DEF SyncInv
<1> QED BY <1>1, SyncInvariant, PTL

\* compareWithRemote finds a difference only if a row it compares with was taken
\* before all trades were booked, or aged by one since; or if the book is not
\* clean: loaded from such a row, even in the moment between the end of verify_mode
\* and the comparison, or replayed into by a second login.
THEOREM ComparisonsAgree == SyncSpec => CompareAgrees
<1>1. SyncInv => [CompareLocal /\ Differs =>
                     ~book.clean \/ \E k \in DOMAIN remote : ~remote[k].clean]_syncVars
  <2> SUFFICES ASSUME SyncInv, NEW k \in DOMAIN remote,
                      remote[k].value # book.position, book.clean,
                      \A j \in DOMAIN remote : remote[j].clean
               PROVE  FALSE
    BY DEF Differs, SyncInv, SyncTypeOK, Row
  <2>1. remote[k] \in Current
    BY LenProperties DEF SyncInv, RowsInv
  <2>2. remote[k].value = Booked
    BY <2>1 DEF Current
  <2> QED BY <2>2 DEF SyncInv, LocalExact
<1> QED BY <1>1, SyncInvariant, PTL DEF CompareAgrees

=============================================================================
