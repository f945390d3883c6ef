----------------------------- MODULE MarketData -----------------------------
(***************************************************************************)
(* The market data side of the gateway: the callbacks of MdHandler         *)
(* (src/src/md_handler.cpp) on the SPI thread, the tick ring between them  *)
(* and the market data worker, the worker's loop, the strategy's subscribe *)
(* and unsubscribe, and what start and stop do to all of it                *)
(* (src/src/gateway.cpp).                                                  *)
(*                                                                         *)
(* The ring is RingBuffer, taken access by access: OnRtnDepthMarketData is *)
(* its push, the inner loop of mdWorkerLoop its pop.  A tick is the        *)
(* instrument it is of.  What processTick does to the book is onTick of    *)
(* PositionManager.                                                        *)
(***************************************************************************)
EXTENDS RingBuffer

CONSTANTS
    SubscribeList,   \* config_.subscribe_list
    MaxConnects,     \* connections in one run
    MaxCalls         \* calls of subscribe and unsubscribe by the strategy

ASSUME SubscribeAssumption ==
    SubscribeList \subseteq Values /\ MaxConnects \in Nat /\ MaxCalls \in Nat

VARIABLES
    link,         \* the connection, as the front sees it
    requests,     \* logins the front has not answered
    subscribed,   \* instruments the front sends ticks of
    flag,         \* the flags of MdHandler
    running,      \* running_
    api,          \* md_api_ is not null
    at,           \* where mdWorkerLoop is
    main,         \* where the thread that calls start and stop is
    connects, calls,
    crashed       \* the worker used the API that stop had set to null

ringVars == vars

sessionVars == <<link, requests, subscribed, flag, connects>>

threadVars == <<running, api, at, main, calls, crashed>>

mdVars == <<ringVars, sessionVars, threadVars>>

MdTypeOK ==
    /\ TypeOK
    /\ link \in {"down", "up", "logged"} /\ requests \in 0 .. MaxConnects
    /\ subscribed \subseteq Values
    /\ link # "logged" => subscribed = {}
    /\ flag \in [front_connected : BOOLEAN, login_success : BOOLEAN]
    /\ running \in BOOLEAN /\ api \in BOOLEAN
    /\ at \in {"none", "head", "log_in", "login", "subscribe", "drain", "done"}
    /\ main \in {"new", "running", "stopping", "released", "stopped"}
    /\ connects \in 0 .. MaxConnects /\ calls \in 0 .. MaxCalls
    /\ crashed \in BOOLEAN

MdInit ==
    /\ Init
    /\ link = "down" /\ requests = 0 /\ subscribed = {} /\ connects = 0
    /\ flag = [front_connected |-> FALSE, login_success |-> FALSE]
    /\ running = FALSE /\ api = FALSE /\ at = "none" /\ main = "new"
    /\ calls = 0 /\ crashed = FALSE

----------------------------------------------------------------------------
(* start and stop.                                                         *)

start ==
    /\ main = "new"
    /\ main' = "running" /\ running' = TRUE /\ api' = TRUE /\ at' = "head"
    /\ UNCHANGED <<ringVars, sessionVars, calls, crashed>>

\* Mutant of stop: running_ stays set.
stopUnannounced ==
    /\ main = "running"
    /\ main' = "stopping"
    /\ UNCHANGED <<ringVars, sessionVars, running, api, at, calls, crashed>>

stop ==
    /\ main = "running"
    /\ main' = "stopping" /\ running' = FALSE
    /\ UNCHANGED <<ringVars, sessionVars, api, at, calls, crashed>>

\* RegisterSpi(nullptr), Release, md_api_ = nullptr.  A callback that runs goes
\* on.
Release ==
    /\ main = "stopping"
    /\ main' = "released" /\ api' = FALSE
    /\ link' = "down" /\ requests' = 0 /\ subscribed' = {}
    /\ UNCHANGED <<ringVars, flag, connects, running, at, calls, crashed>>

Join ==
    /\ main = "released" /\ at = "done"
    /\ main' = "stopped"
    /\ UNCHANGED <<ringVars, sessionVars, running, api, at, calls, crashed>>

----------------------------------------------------------------------------
(* MdHandler, on the SPI thread.  A callback starts when the last one has  *)
(* returned: the SPI thread may be inside tryPush.                         *)

Callback == api /\ producer = "idle" /\ ~crashed

OnFrontConnected ==
    /\ Callback
    /\ link = "down" /\ connects < MaxConnects
    /\ link' = "up" /\ connects' = connects + 1
    /\ flag' = [flag EXCEPT !.front_connected = TRUE]
    /\ UNCHANGED <<ringVars, requests, subscribed, threadVars>>

\* No flag tells the worker, and no subscription is remembered.
OnFrontDisconnected ==
    /\ Callback
    /\ link # "down"
    /\ link' = "down" /\ requests' = 0 /\ subscribed' = {}
    /\ flag' = [flag EXCEPT !.front_connected = FALSE]
    /\ UNCHANGED <<ringVars, connects, threadVars>>

\* Accepted; refused; or refused as the second login of this connection.
OnRspUserLogin ==
    /\ Callback
    /\ requests > 0 /\ requests' = requests - 1
    /\ \/ /\ link = "up" /\ link' = "logged"
          /\ flag' = [flag EXCEPT !.login_success = TRUE]
       \/ /\ flag' = [flag EXCEPT !.login_success = FALSE]
          /\ UNCHANGED link
    /\ UNCHANGED <<ringVars, subscribed, connects, threadVars>>

\* The front sends a tick: tryPush begins.
OnRtnDepthMarketData ==
    /\ Callback
    /\ \/ \E v \in subscribed : PushStart(v)
       \/ subscribed # {} /\ PushFull
    /\ UNCHANGED <<sessionVars, threadVars>>

FinishPush ==
    /\ PushConstruct \/ PushPublish
    /\ UNCHANGED <<sessionVars, threadVars>>

----------------------------------------------------------------------------
(* subscribe and unsubscribe.  A front that nobody is logged in to refuses *)
(* (OnRspSubMarketData only logs).                                         *)

\* What the front does with a list.
Subscribed(list) == IF link = "logged" THEN subscribed \cup list ELSE subscribed

subscribe(v) ==
    /\ main = "running" /\ calls < MaxCalls /\ calls' = calls + 1
    /\ subscribed' = Subscribed({v})
    /\ UNCHANGED <<ringVars, link, requests, flag, connects, running, api, at,
                   main, crashed>>

unsubscribe(v) ==
    /\ main = "running" /\ calls < MaxCalls /\ calls' = calls + 1
    /\ subscribed' = subscribed \ {v}
    /\ UNCHANGED <<ringVars, link, requests, flag, connects, running, api, at,
                   main, crashed>>

----------------------------------------------------------------------------
(* mdWorkerLoop.                                                           *)

Goes(from, to) ==
    /\ at = from /\ at' = to
    /\ UNCHANGED <<running, api, main, calls, crashed>>

\* while (running_), then front_connected.exchange(false)
LoopHead ==
    /\ Goes("head", IF ~running THEN "done"
                    ELSE IF flag.front_connected THEN "log_in" ELSE "login")
    /\ flag' = [flag EXCEPT !.front_connected = @ /\ ~running]
    /\ UNCHANGED <<ringVars, link, requests, subscribed, connects>>

\* md_api_->ReqUserLogin, without a look at md_api_.
ReqUserLogin ==
    /\ at = "log_in"
    /\ IF api
       THEN /\ at' = "login" /\ UNCHANGED crashed
            /\ requests' = IF link = "down" THEN requests ELSE requests + 1
       ELSE /\ crashed' = TRUE /\ UNCHANGED <<at, requests>>
    /\ UNCHANGED <<ringVars, link, subscribed, flag, connects, running, api, main,
                   calls>>

\* Mutant of TakeLogin: the flag is cleared before it is read.
TakeLoginCleared ==
    /\ Goes("login", "drain")
    /\ flag' = [flag EXCEPT !.login_success = FALSE]
    /\ UNCHANGED <<ringVars, link, requests, subscribed, connects>>

\* login_success.exchange(false)
TakeLogin ==
    /\ Goes("login", IF flag.login_success THEN "subscribe" ELSE "drain")
    /\ flag' = [flag EXCEPT !.login_success = FALSE]
    /\ UNCHANGED <<ringVars, link, requests, subscribed, connects>>

\* subscribe(config_.subscribe_list), which does look at md_api_.
Subscribe ==
    /\ Goes("subscribe", "drain")
    /\ subscribed' = Subscribed(SubscribeList)
    /\ UNCHANGED <<ringVars, link, requests, flag, connects>>

\* while (tick_buffer.tryPop(tick)) processTick(tick)
PopTick ==
    /\ at = "drain"
    /\ Pop
    /\ UNCHANGED <<sessionVars, threadVars>>

Drained ==
    /\ consumer = "idle" /\ ~HasElement
    /\ Goes("drain", "head")
    /\ UNCHANGED <<ringVars, sessionVars>>

mdWorkerLoop ==
    /\ ~crashed
    /\ \/ LoopHead \/ ReqUserLogin \/ TakeLogin \/ Subscribe
       \/ PopTick \/ Drained

----------------------------------------------------------------------------
Ended == crashed \/ main = "stopped"

MdNext ==
    \/ ~crashed /\ (start \/ stop \/ Release \/ Join)
    \/ OnFrontConnected \/ OnFrontDisconnected \/ OnRspUserLogin
    \/ OnRtnDepthMarketData
    \/ ~crashed /\ FinishPush
    \/ \E v \in Values : ~crashed /\ (subscribe(v) \/ unsubscribe(v))
    \/ mdWorkerLoop
    \/ Ended /\ UNCHANGED mdVars

MdSpec == MdInit /\ [][MdNext]_mdVars

\* The worker and the SPI thread run, and stop goes on once it was entered.
\* Nothing says that the front answers a login or sends a tick.
FairMd ==
    /\ MdSpec
    /\ WF_mdVars(mdWorkerLoop)
    /\ WF_mdVars(~crashed /\ FinishPush)
    /\ WF_mdVars(~crashed /\ (Release \/ Join))

----------------------------------------------------------------------------
\* A tick in the ring is processed, unless somebody stops the gateway: neither
\* reconnecting nor a front that never pauses keeps the worker from it.
EveryTickPopped ==
    \A i \in Index :
        (\E k \in 1 .. Count : i = SlotOf(k)) ~>
            read_pos = After(i) \/ ~running \/ crashed

\* A login whose success the worker has still to see ends with the configured
\* instruments subscribed, on the first connection and on every later one,
\* unless the connection breaks or a second login takes the flag back, and if
\* the ticks of the strategy's own subscriptions do not keep the worker in its
\* inner loop for ever.
LoginSubscribes ==
    []<>(at # "drain") =>
        (link = "logged" /\ flag.login_success ~>
            \/ SubscribeList \subseteq subscribed
            \/ link # "logged" \/ requests > 0 \/ ~running \/ crashed)

\* stop returns, however many ticks the front still sends.
MdStopReturns == main = "stopping" ~> main = "stopped" \/ crashed
=============================================================================
