------------------------------- MODULE Session -------------------------------
(***************************************************************************)
(* The life of the gateway's connection to the trading front: start, the   *)
(* connection events and their flags (src/src/trader_handler.cpp), the     *)
(* pass of tradeWorkerLoop that turns them into authentication, login,     *)
(* settlement and queries, the detached threads that query and then make   *)
(* the gateway ready, disconnects and reconnects, and stop                 *)
(* (src/src/gateway.cpp).                                                  *)
(*                                                                         *)
(* Every query passes the gate of FlowController, whose steps are taken    *)
(* here step by step, and whose threads are now what the gateway makes     *)
(* them: the worker, one thread of startQueries per login, and the SPI     *)
(* thread.  A callback starts only when the SPI thread has left the last   *)
(* one: it sleeps and sends inside onResponseComplete.                     *)
(*                                                                         *)
(* Time is left out: the timers fire in any order, however long the        *)
(* answers take.  What the worker drains between the connection events and *)
(* checkReady is the subject of OrderFlow and Sync.                        *)
(***************************************************************************)
EXTENDS FlowController

CONSTANTS
    Worker,        \* the trade worker
    Logins,        \* one startQueries thread per login
    Instrument,    \* the instrument queries among Queries
    MaxConnects,   \* connections in one run
    MaxStarts      \* calls of start in one run

ASSUME ThreadAssumption ==
    /\ Logins \subseteq Nat
    /\ Worker \notin Logins
    /\ Users = {Worker} \cup Logins

ASSUME LimitAssumption == MaxConnects \in Nat /\ MaxStarts \in Nat

VARIABLES
    link,       \* the connection, as the front sees it
    requests,   \* authentications and logins it has not answered, in order
    flag,       \* the flags of TraderHandler
    gw,         \* the flags of FalconGateway
    at,         \* where the worker is in its loop
    starter,    \* where the thread of each login is
    main,       \* where the thread that calls start and stop is
    connects,   \* connections so far
    starts,     \* starts so far
    crashed     \* a thread used an API that stop had set to null

gate == vars

control == <<at, starter, main, connects, starts, crashed>>

sessionVars == <<gate, link, requests, flag, gw, control>>

Flags == [front_connected : BOOLEAN, front_disconnected : BOOLEAN,
          authenticated : BOOLEAN, login_success : BOOLEAN,
          need_relogin : BOOLEAN]

\* loaded: positions_loaded_ and account_loaded_, always set together;
\* reported: login_fail_reported; api: trade_api_ is not null.
GatewayFlags == [running : BOOLEAN, ready : BOOLEAN, loaded : BOOLEAN,
                 reported : BOOLEAN, api : BOOLEAN]

SessionTypeOK ==
    /\ TypeOK
    /\ link \in {"down", "up", "authed", "logged"}
    /\ requests \in Seq({"auth", "login"})
    /\ flag \in Flags /\ gw \in GatewayFlags
    /\ at \in {"none", "head", "connected", "authenticate", "authenticated",
               "log_in", "login", "confirm", "confirming", "disconnected",
               "ready", "done"}
    /\ starter \in [Logins -> {"none", "querying", "timer", "done"}]
    /\ main \in {"idle", "running", "stopping", "released"}
    /\ connects \in 0 .. MaxConnects /\ starts \in 0 .. MaxStarts
    /\ crashed \in BOOLEAN

SessionInit ==
    /\ Init
    /\ link = "down" /\ requests = <<>>
    /\ flag = [front_connected |-> FALSE, front_disconnected |-> FALSE,
               authenticated |-> FALSE, login_success |-> FALSE,
               need_relogin |-> TRUE]
    /\ gw = [running |-> FALSE, ready |-> FALSE, loaded |-> FALSE,
             reported |-> FALSE, api |-> FALSE]
    /\ at = "none" /\ starter = [n \in Logins |-> "none"] /\ main = "idle"
    /\ connects = 0 /\ starts = 0 /\ crashed = FALSE

----------------------------------------------------------------------------
(* start and stop.  Neither resets a flag of the handler, the loaded flags *)
(* or the static login_fail_reported.                                      *)

start ==
    /\ main = "idle" /\ starts < MaxStarts
    /\ pc[Spi] = "idle"
    /\ gw' = [gw EXCEPT !.running = TRUE, !.api = TRUE]
    /\ main' = "running" /\ at' = "head" /\ starts' = starts + 1
    /\ UNCHANGED <<gate, link, requests, flag, starter, connects, crashed>>

\* Mutant of stop: running_ stays set.
stopUnannounced ==
    /\ main = "running"
    /\ main' = "stopping"
    /\ UNCHANGED <<gate, link, requests, flag, gw, at, starter, connects, starts,
                   crashed>>

stop ==
    /\ main = "running"
    /\ gw' = [gw EXCEPT !.running = FALSE]
    /\ main' = "stopping"
    /\ UNCHANGED <<gate, link, requests, flag, at, starter, connects, starts,
                   crashed>>

\* The answers under way are lost: what a disconnect and Release have in common.
DropAnswers == IF awaiting = {} THEN UNCHANGED gate ELSE Disconnect

\* RegisterSpi(nullptr), Release, trade_api_ = nullptr: no callback starts any
\* more; one that runs goes on.
Release ==
    /\ main = "stopping"
    /\ DropAnswers
    /\ gw' = [gw EXCEPT !.api = FALSE]
    /\ link' = "down" /\ requests' = <<>>
    /\ main' = "released"
    /\ UNCHANGED <<flag, at, starter, connects, starts, crashed>>

\* The worker is joined, the threads of startQueries are not.
Join ==
    /\ main = "released" /\ at = "done"
    /\ gw' = [gw EXCEPT !.ready = FALSE]
    /\ main' = "idle" /\ at' = "none"
    /\ UNCHANGED <<gate, link, requests, flag, starter, connects, starts, crashed>>

----------------------------------------------------------------------------
(* The SPI thread: connection events.                                      *)

Callback == ~crashed /\ gw.api /\ pc[Spi] = "idle"

OnFrontConnected ==
    /\ Callback
    /\ link = "down" /\ connects < MaxConnects
    /\ link' = "up" /\ connects' = connects + 1
    /\ flag' = [flag EXCEPT !.front_connected = TRUE]
    /\ UNCHANGED <<gate, requests, gw, at, starter, main, starts, crashed>>

OnFrontDisconnected ==
    /\ Callback
    /\ link # "down"
    /\ DropAnswers
    /\ link' = "down" /\ requests' = <<>>
    /\ flag' = [flag EXCEPT !.front_connected = FALSE,
                            !.front_disconnected = TRUE]
    /\ UNCHANGED <<gw, control>>

Answers(request) ==
    /\ Callback
    /\ requests # <<>> /\ Head(requests) = request
    /\ requests' = Tail(requests)
    /\ UNCHANGED <<gate, gw, control>>

OnRspAuthenticate ==
    /\ Answers("auth")
    /\ \/ /\ link' = IF link = "up" THEN "authed" ELSE link
          /\ flag' = [flag EXCEPT !.authenticated = TRUE]
       \/ /\ flag' = [flag EXCEPT !.need_relogin = FALSE]
          /\ UNCHANGED link

LoggedIn ==
    /\ link = "authed" /\ link' = "logged"
    /\ flag' = [flag EXCEPT !.login_success = TRUE, !.need_relogin = TRUE]

\* ErrorID 5: this connection is logged in.
DuplicateLogin ==
    /\ link = "logged"
    /\ flag' = [flag EXCEPT !.login_success = FALSE]
    /\ UNCHANGED link

LoginRefused ==
    /\ link # "logged"
    /\ flag' = [flag EXCEPT !.login_success = FALSE, !.need_relogin = FALSE]
    /\ UNCHANGED link

OnRspUserLogin ==
    /\ Answers("login")
    /\ LoggedIn \/ DuplicateLogin \/ LoginRefused

\* The last answer of a query.  An instrument query that found nothing runs
\* checkReady on the SPI thread.
OnLastAnswer ==
    /\ Callback
    /\ link = "logged"
    /\ Answer
    /\ \/ UNCHANGED gw
       \/ /\ awaiting \cap Instrument # {}
          /\ gw.loaded
          /\ gw' = [gw EXCEPT !.ready = TRUE]
    /\ UNCHANGED <<link, requests, flag, control>>

----------------------------------------------------------------------------
(* The gate, in whatever thread.                                           *)

Crash ==
    /\ crashed' = TRUE
    /\ UNCHANGED <<link, requests, flag, gw, at, starter, main, connects, starts>>

\* query(): the lambda calls trade_api_->ReqQry*.  A front that nobody is
\* logged in to answers nothing that ends the flight.
SendQuery(t) ==
    /\ Execute(t)
    /\ link # "logged" => query[t] \in lost'
    /\ IF gw.api THEN UNCHANGED <<link, requests, flag, gw, control>> ELSE Crash

Submitting(t) ==
    /\ ~crashed
    /\ \/ SendQuery(t)
       \/ /\ Exchange(t) \/ Push(t)
          /\ UNCHANGED <<link, requests, flag, gw, control>>

onResponseComplete ==
    /\ ~crashed
    /\ Complete
    /\ UNCHANGED <<link, requests, flag, gw, control>>

----------------------------------------------------------------------------
(* The worker: one pass of its loop.                                       *)

Goes(from, to) ==
    /\ at = from /\ at' = to
    /\ UNCHANGED <<starter, main, connects, starts, crashed>>

LoopHead ==
    /\ Goes("head", IF gw.running THEN "connected" ELSE "done")
    /\ UNCHANGED <<gate, link, requests, flag, gw>>

\* flag f, by exchange(false)
Take(f, next, otherwise) ==
    /\ at' = IF flag[f] THEN next ELSE otherwise
    /\ flag' = [flag EXCEPT ![f] = FALSE]
    /\ UNCHANGED <<gate, link, requests, starter, main, connects, starts, crashed>>

TakeConnected ==
    /\ at = "connected"
    /\ Take("front_connected", "authenticate", "authenticated")
    /\ UNCHANGED gw

\* ReqAuthenticate and ReqUserLogin.  A front that is down takes nothing.
Ask(request, from, to) ==
    /\ at = from
    /\ IF gw.api
       THEN /\ at' = to
            /\ requests' = IF link = "down" THEN requests
                           ELSE Append(requests, request)
            /\ UNCHANGED <<link, flag, gw, starter, main, connects, starts, crashed>>
       ELSE Crash
    /\ UNCHANGED gate

ReqAuthenticate == Ask("auth", "authenticate", "authenticated")

TakeAuthenticated ==
    /\ at = "authenticated"
    /\ Take("authenticated", "log_in", "login")
    /\ UNCHANGED gw

ReqUserLogin == Ask("login", "log_in", "login")

\* Mutant of TakeLogin: a login that failed for good is not reported.
TakeLoginSilently ==
    /\ at = "login"
    /\ Take("login_success", "confirm", "disconnected")
    /\ UNCHANGED gw

\* login_success, or else the report of a login that failed for good.
TakeLogin ==
    /\ at = "login"
    /\ Take("login_success", "confirm", "disconnected")
    /\ gw' = [gw EXCEPT !.reported =
                  @ \/ (~flag.login_success /\ ~flag.need_relogin /\ ~gw.ready)]

\* confirmSettlement submits its query ...
Confirm ==
    /\ Goes("confirm", "confirming")
    /\ Call(Worker)
    /\ UNCHANGED <<link, requests, flag, gw>>

\* ... and detaches the thread that will run startQueries.
SpawnStarter ==
    /\ at = "confirming" /\ pc[Worker] = "idle"
    /\ at' = "disconnected"
    /\ \E n \in Logins :
          /\ starter[n] = "none"
          /\ \A m \in Logins : m < n => starter[m] # "none"
          /\ starter' = [starter EXCEPT ![n] = "querying"]
    /\ UNCHANGED <<gate, link, requests, flag, gw, main, connects, starts, crashed>>

TakeDisconnected ==
    /\ at = "disconnected"
    /\ Take("front_disconnected", "ready", "ready")
    /\ gw' = [gw EXCEPT !.ready = @ /\ ~flag.front_disconnected]

checkReady ==
    /\ Goes("ready", "head")
    /\ gw' = [gw EXCEPT !.ready = @ \/ gw.loaded]
    /\ UNCHANGED <<gate, link, requests, flag>>

----------------------------------------------------------------------------
(* The thread of one login: after a second startQueries, and six seconds   *)
(* after the last submit the loaded flags, answers or no answers.          *)

StartQuery(n) ==
    /\ starter[n] = "querying"
    /\ Call(n)
    /\ UNCHANGED <<link, requests, flag, gw, control>>

Stage(n, from, to) ==
    /\ starter[n] = from
    /\ starter' = [starter EXCEPT ![n] = to]
    /\ UNCHANGED <<gate, link, requests, flag, at, main, connects, starts, crashed>>

\* Mutant of SpawnTimer: the timer is set before the queries.
SpawnTimerFirst(n) == Stage(n, "querying", "timer") /\ UNCHANGED gw

SpawnTimer(n) ==
    /\ todo[n] = <<>> /\ pc[n] = "idle"
    /\ Stage(n, "querying", "timer")
    /\ UNCHANGED gw

\* Mutant of TimerFires: the two flags are forgotten.
TimerFiresUnheard(n) == Stage(n, "timer", "done") /\ UNCHANGED gw

TimerFires(n) ==
    /\ Stage(n, "timer", "done")
    /\ gw' = [gw EXCEPT !.loaded = TRUE]

----------------------------------------------------------------------------
WorkerStep ==
    /\ ~crashed
    /\ \/ LoopHead
       \/ TakeConnected \/ ReqAuthenticate
       \/ TakeAuthenticated \/ ReqUserLogin
       \/ TakeLogin \/ Confirm \/ SpawnStarter
       \/ TakeDisconnected
       \/ checkReady

StarterStep(n) == ~crashed /\ (StartQuery(n) \/ SpawnTimer(n) \/ TimerFires(n))

Teardown == ~crashed /\ (Release \/ Join)

\* Nothing is left to be run.
Ended == crashed \/ (main = "idle" /\ starts = MaxStarts)

SessionNext ==
    \/ ~crashed /\ (start \/ stop)
    \/ Teardown
    \/ OnFrontConnected \/ OnFrontDisconnected
    \/ OnRspAuthenticate \/ OnRspUserLogin \/ OnLastAnswer
    \/ onResponseComplete
    \/ \E t \in Threads : Submitting(t)
    \/ WorkerStep
    \/ \E n \in Logins : StarterStep(n)
    \/ Ended /\ UNCHANGED sessionVars

SessionSpec == SessionInit /\ [][SessionNext]_sessionVars

\* Threads are scheduled, stop that was entered goes on, and the front answers
\* what it accepted.  Nothing says that it accepts a login, that a connection
\* comes up or that it holds.
FairSession ==
    /\ SessionSpec
    /\ WF_sessionVars(WorkerStep)
    /\ \A n \in Logins : WF_sessionVars(StarterStep(n))
    /\ \A t \in Threads : WF_sessionVars(Submitting(t))
    /\ WF_sessionVars(onResponseComplete)
    /\ WF_sessionVars(OnRspAuthenticate)
    /\ WF_sessionVars(OnRspUserLogin)
    /\ WF_sessionVars(OnLastAnswer)
    /\ WF_sessionVars(Teardown)

----------------------------------------------------------------------------
Waits(q) == \E k \in DOMAIN pending : pending[k] = q

\* A query that waits in pending_ while in_flight_ is set is sent, if no answer
\* is lost and no API is pulled away: the answer that ends the flight finds it.
WaitingIsServed ==
    \A q \in Queries :
        in_flight /\ Waits(q) ~> Sent(q) \/ lost # {} \/ crashed \/ ~gw.api

\* The queries of a login's startQueries.
Startup(n) == {Script[n][k] : k \in DOMAIN Script[n]}

\* The gateway is ready only after some login's timer has fired, which is set
\* when all the queries of its startQueries have been handed to the gate: the
\* gate has sent them or holds them.
ReadyAfterQueries ==
    gw.ready =>
        \E n \in Logins :
            /\ starter[n] = "done"
            /\ \A q \in Startup(n) :
                  Sent(q) \/ Waits(q) \/ q \in lost \/ query[Spi] = q

\* A second login is under way on a connection that has one: its answer takes
\* back login_success, whether or not the worker has seen it.
LoggingInAgain == link = "logged" /\ \E k \in DOMAIN requests : requests[k] = "login"

\* An answered login makes the gateway ready, unless the connection breaks, a
\* second login is made on it, somebody stops the gateway or it crashes: the
\* flags carry the event from the SPI thread to the worker, from there to the
\* thread of startQueries, and back.
LoginBecomesReady ==
    link = "logged" /\ flag.login_success ~>
        \/ gw.ready \/ link # "logged" \/ LoggingInAgain
        \/ ~gw.running \/ crashed

\* A login that failed for good is reported, unless the gateway was ready.
FailureIsReported ==
    ~flag.need_relogin ~>
        \/ gw.reported \/ gw.ready \/ flag.need_relogin
        \/ ~gw.running \/ crashed

\* stop returns: the worker leaves its loop, even out of a query it is sending.
StopReturns == main = "stopping" ~> main = "idle" \/ crashed

\* "The gateway is ready (the initial queries are all done)" (section 3.6 of
\* DEV_SUMMARY.md): every query of some login's startQueries was answered.
ReadyMeansLoaded ==
    gw.ready =>
        \E n \in Logins : \A q \in Startup(n) :
            Sent(q) /\ q \notin awaiting \cup lost
=============================================================================
