---------------------------- MODULE SessionProofs ----------------------------
(***************************************************************************)
(* The session's query gate is a FlowController: every step of the session *)
(* is a step of the gate or leaves the gate alone, whatever the scripts,   *)
(* however many logins and connections.  What FlowControllerProofs shows   *)
(* of the gate therefore holds in the session.                             *)
(***************************************************************************)
EXTENDS Session, FlowControllerProofs

\* The threads of the gateway are threads of the gate.
LEMMA GatewayThreads ==
    /\ Worker \in Users
    /\ \A n \in Logins : n \in Users
BY ThreadAssumption

\* A connection that goes away loses the answers under way and does nothing
\* else to the gate.
LEMMA DroppedAnswers == DropAnswers => [Next]_vars
BY DEF DropAnswers, Next, gate

\* Neither the worker's flags nor the snapshots of the timer touch the gate.
LEMMA WorkerGate == WorkerStep => [Next]_vars
<1> SUFFICES ASSUME WorkerStep PROVE [Next]_vars
  OBVIOUS
<1>1. CASE LoopHead
  BY <1>1 DEF LoopHead, gate
<1>2. CASE TakeConnected
  BY <1>2 DEF TakeConnected, Take, gate
<1>3. CASE ReqAuthenticate
  BY <1>3 DEF ReqAuthenticate, Ask, gate
<1>4. CASE TakeAuthenticated
  BY <1>4 DEF TakeAuthenticated, Take, gate
<1>5. CASE ReqUserLogin
  BY <1>5 DEF ReqUserLogin, Ask, gate
<1>6. CASE TakeLogin
  BY <1>6 DEF TakeLogin, Take, gate
<1>7. CASE Confirm
  BY <1>7, GatewayThreads DEF Confirm, Next
<1>8. CASE SpawnStarter
  BY <1>8 DEF SpawnStarter, gate
<1>9. CASE TakeDisconnected
  BY <1>9 DEF TakeDisconnected, Take, gate
<1>10. CASE checkReady
  BY <1>10 DEF checkReady, gate
<1> QED BY <1>1, <1>2, <1>3, <1>4, <1>5, <1>6, <1>7, <1>8, <1>9, <1>10
        DEF WorkerStep

\* Every step of the session is a step of the gate or leaves it alone.
LEMMA SessionStep == [SessionNext]_sessionVars => [Next]_vars
<1> SUFFICES ASSUME [SessionNext]_sessionVars PROVE [Next]_vars
  OBVIOUS
<1>1. CASE start \/ stop
  BY <1>1 DEF start, stop, gate
<1>2. CASE Release
  BY <1>2, DroppedAnswers DEF Release
<1>3. CASE Join
  BY <1>3 DEF Join, gate
<1>4. CASE OnFrontConnected
  BY <1>4 DEF OnFrontConnected, gate
<1>5. CASE OnFrontDisconnected
  BY <1>5, DroppedAnswers DEF OnFrontDisconnected
<1>6. CASE OnRspAuthenticate \/ OnRspUserLogin
  BY <1>6 DEF OnRspAuthenticate, OnRspUserLogin, Answers, gate
<1>7. CASE OnLastAnswer
  BY <1>7 DEF OnLastAnswer, Next
<1>8. CASE onResponseComplete
  BY <1>8 DEF onResponseComplete, Next
<1>9. ASSUME NEW t \in Threads, Submitting(t) PROVE [Next]_vars
  BY <1>9 DEF Submitting, SendQuery, Submit, Next
<1>10. ASSUME NEW n \in Logins, StarterStep(n) PROVE [Next]_vars
  <2>1. CASE StartQuery(n)
    BY <2>1, GatewayThreads DEF StartQuery, Next
  <2>2. CASE SpawnTimer(n) \/ TimerFires(n)
    BY <2>2 DEF SpawnTimer, TimerFires, Stage, gate
  <2> QED BY <1>10, <2>1, <2>2 DEF StarterStep
<1>11. CASE UNCHANGED sessionVars
  BY <1>11 DEF sessionVars, gate
<1> QED BY <1>1, <1>2, <1>3, <1>4, <1>5, <1>6, <1>7, <1>8, <1>9, <1>10,
           <1>11, WorkerGate DEF SessionNext, Teardown

\* The session implements the query gate: the worker, the threads of
\* startQueries, the SPI thread, disconnects and stop do to in_flight_ and
\* pending_ only what FlowController lets its threads do.
THEOREM SessionImplementsGate == SessionSpec => Spec
<1>1. SessionInit => Init
  BY DEF SessionInit
<1> QED BY <1>1, SessionStep, PTL DEF SessionSpec, Spec

\* In the whole session, over any number of connections and logins, at most one
\* query is in flight: no callback, timer or disconnect opens the gate twice.
THEOREM SessionOneInFlight == SessionSpec => []OneInFlight
BY SessionImplementsGate, OneQueryInFlight, PTL

\* Nor is any query of the session sent twice.
THEOREM SessionSentOnce == SessionSpec => []SentOnce
BY SessionImplementsGate, NoQueryTwice, PTL

----------------------------------------------------------------------------
(* What the flags of the session stand for.                                *)

\* A login's thread that has set its timer has nothing left to submit.
TimersAreLate ==
    \A n \in Logins :
        starter[n] \in {"timer", "done"} => todo[n] = <<>> /\ pc[n] = "idle"

\* The gateway is ready only when it is loaded, and loaded by some timer.
ReadyIsLoaded ==
    /\ gw.ready => gw.loaded
    /\ gw.loaded => \E n \in Logins : starter[n] = "done"

SessionInv ==
    /\ SessionTypeOK
    /\ TimersAreLate
    /\ ReadyIsLoaded

\* The part of the types that is the session's own.
ControlTypes ==
    /\ link \in {"down", "up", "authed", "logged"}
    /\ requests \in Seq({"auth", "login"})
    /\ flag \in Flags /\ gw \in GatewayFlags
    /\ at \in {"none", "head", "connected", "authenticate", "authenticated",
               "log_in", "login", "confirm", "confirming", "disconnected",
               "ready", "done"}
    /\ starter \in [Logins -> {"none", "querying", "timer", "done"}]
    /\ main \in {"idle", "running", "stopping", "released"}
    /\ connects \in 0 .. MaxConnects /\ starts \in 0 .. MaxStarts
    /\ crashed \in BOOLEAN

\* Steps that leave the session's own state alone keep its types.
LEMMA ControlAlone ==
    ControlTypes /\ UNCHANGED <<link, requests, flag, gw, control>> => ControlTypes'
BY DEF ControlTypes, control

\* So does a crash.
LEMMA CrashTypes == ControlTypes /\ Crash => ControlTypes'
BY DEF ControlTypes, Crash

\* A pass of the worker.
LEMMA WorkerTypes ==
    ASSUME ControlTypes, WorkerStep
    PROVE  ControlTypes'
<1> USE DEF ControlTypes
<1>1. CASE LoopHead
  BY <1>1 DEF LoopHead, Goes
<1>2. CASE TakeConnected
  BY <1>2 DEF TakeConnected, Take, Flags
<1>3. CASE ReqAuthenticate
  <2>1. Append(requests, "auth") \in Seq({"auth", "login"})
    BY AppendProperties
  <2> QED BY <1>3, <2>1, CrashTypes DEF ReqAuthenticate, Ask
<1>4. CASE TakeAuthenticated
  BY <1>4 DEF TakeAuthenticated, Take, Flags
<1>5. CASE ReqUserLogin
  <2>1. Append(requests, "login") \in Seq({"auth", "login"})
    BY AppendProperties
  <2> QED BY <1>5, <2>1, CrashTypes DEF ReqUserLogin, Ask
<1>6. CASE TakeLogin
  <2>1. gw' \in GatewayFlags
    BY <1>6 DEF TakeLogin, GatewayFlags, Flags
  <2>2. flag' \in Flags
    BY <1>6 DEF TakeLogin, Take, Flags
  <2> QED BY <1>6, <2>1, <2>2 DEF TakeLogin, Take
<1>7. CASE Confirm
  BY <1>7 DEF Confirm, Goes
<1>8. CASE SpawnStarter
  BY <1>8 DEF SpawnStarter
<1>9. CASE TakeDisconnected
  <2>1. gw' \in GatewayFlags
    BY <1>9 DEF TakeDisconnected, GatewayFlags, Flags
  <2>2. flag' \in Flags
    BY <1>9 DEF TakeDisconnected, Take, Flags
  <2> QED BY <1>9, <2>1, <2>2 DEF TakeDisconnected, Take
<1>10. CASE checkReady
  BY <1>10 DEF checkReady, Goes, GatewayFlags
<1> QED BY <1>1, <1>2, <1>3, <1>4, <1>5, <1>6, <1>7, <1>8, <1>9, <1>10
        DEF WorkerStep

\* Every step keeps the session's types.
LEMMA ControlKept ==
    ASSUME ControlTypes, [SessionNext]_sessionVars
    PROVE  ControlTypes'
<1>0. MaxConnects \in Nat /\ MaxStarts \in Nat
  BY LimitAssumption
<1>e. <<>> \in Seq({"auth", "login"})
  OBVIOUS
<1>n. connects \in 0 .. MaxConnects /\ starts \in 0 .. MaxStarts
  BY DEF ControlTypes
<1>s. start => starts' \in 0 .. MaxStarts
  BY <1>0, <1>n DEF start
<1>c. OnFrontConnected => connects' \in 0 .. MaxConnects
  BY <1>0, <1>n DEF OnFrontConnected
<1> USE DEF ControlTypes
<1>1. CASE start
  <2>1. gw' \in GatewayFlags
    BY <1>1 DEF start, GatewayFlags
  <2> QED BY <1>1, <1>s, <2>1 DEF start
<1>2. CASE stop
  BY <1>2 DEF stop, GatewayFlags
<1>3. CASE Release
  BY <1>e, <1>3 DEF Release, GatewayFlags
<1>4. CASE Join
  BY <1>4 DEF Join, GatewayFlags
<1>5. CASE OnFrontConnected
  <2>1. flag' \in Flags
    BY <1>5 DEF OnFrontConnected, Flags
  <2> QED BY <1>5, <1>c, <2>1 DEF OnFrontConnected
<1>6. CASE OnFrontDisconnected
  BY <1>e, <1>6 DEF OnFrontDisconnected, Flags, control
<1>7. CASE OnRspAuthenticate
  <2>1. Tail(requests) \in Seq({"auth", "login"})
    BY <1>7, HeadTail DEF OnRspAuthenticate, Answers
  <2>2. flag' \in Flags /\ link' \in {"down", "up", "authed", "logged"}
    BY <1>7 DEF OnRspAuthenticate, Flags
  <2> QED BY <1>7, <2>1, <2>2 DEF OnRspAuthenticate, Answers, control
<1>8. CASE OnRspUserLogin
  <2>1. Tail(requests) \in Seq({"auth", "login"})
    BY <1>8, HeadTail DEF OnRspUserLogin, Answers
  <2>2. flag' \in Flags /\ link' \in {"down", "up", "authed", "logged"}
    BY <1>8 DEF OnRspUserLogin, LoggedIn, DuplicateLogin, LoginRefused, Flags
  <2> QED BY <1>8, <2>1, <2>2 DEF OnRspUserLogin, Answers, control
<1>9. CASE OnLastAnswer
  BY <1>9 DEF OnLastAnswer, GatewayFlags, control
<1>10. CASE onResponseComplete
  BY <1>10, ControlAlone DEF onResponseComplete
<1>11. ASSUME NEW t \in Threads, Submitting(t) PROVE ControlTypes'
  BY <1>11, ControlAlone, CrashTypes DEF Submitting, SendQuery
<1>12. CASE WorkerStep
  BY <1>12, WorkerTypes
<1>13. ASSUME NEW n \in Logins, StarterStep(n) PROVE ControlTypes'
  <2>1. CASE StartQuery(n)
    BY <2>1, ControlAlone DEF StartQuery
  <2>2. CASE SpawnTimer(n)
    BY <2>2 DEF SpawnTimer, Stage
  <2>3. CASE TimerFires(n)
    BY <2>3 DEF TimerFires, Stage, GatewayFlags
  <2> QED BY <1>13, <2>1, <2>2, <2>3 DEF StarterStep
<1>14. CASE UNCHANGED sessionVars
  BY <1>14, ControlAlone DEF sessionVars
<1> QED BY <1>1, <1>2, <1>3, <1>4, <1>5, <1>6, <1>7, <1>8, <1>9, <1>10, <1>11,
           <1>12, <1>13, <1>14 DEF SessionNext, Teardown

----------------------------------------------------------------------------
(* What ready means.                                                       *)

\* A login's thread submits before it sets its timer, and nothing afterwards.
LEMMA TimersKept ==
    ASSUME FlowInv, ControlTypes, TimersAreLate, [SessionNext]_sessionVars
    PROVE  TimersAreLate'
<1> SUFFICES ASSUME NEW n \in Logins, starter'[n] \in {"timer", "done"}
             PROVE  todo'[n] = <<>> /\ pc'[n] = "idle"
  BY DEF TimersAreLate
<1>0. /\ n \in Users /\ n \in Threads /\ n # Worker /\ n # Spi
      /\ pc \in [Threads -> {"idle", "submit", "push", "execute", "clear", "pop"}]
      /\ todo \in [Users -> Seq(Queries)]
      /\ Worker \in Users /\ Worker \in Threads
      /\ starter \in [Logins -> {"none", "querying", "timer", "done"}]
      /\ \A m \in Logins : m \in Users
  BY ThreadAssumption, SpiAssumption DEF FlowInv, TypeOK, ControlTypes, Threads
<1>1. CASE starter[n] \in {"timer", "done"}
  <2>1. todo[n] = <<>> /\ pc[n] = "idle"
    BY <1>1 DEF TimersAreLate
  <2>2. \A t \in Users : Call(t) => t # n
    BY <2>1 DEF Call
  <2>3. \A t \in Threads : Submit(t) => t # n
    BY <2>1 DEF Submit, Exchange, Push, Execute
  <2>4. [Next]_vars
    BY SessionStep
  <2>5. ASSUME NEW t \in Users, Call(t) PROVE todo'[n] = <<>> /\ pc'[n] = "idle"
    BY <1>0, <2>1, <2>2, <2>5 DEF Call
  <2>6. ASSUME NEW t \in Threads, Submit(t) PROVE todo'[n] = <<>> /\ pc'[n] = "idle"
    BY <1>0, <2>1, <2>3, <2>6 DEF Submit, Exchange, Push, Execute
  <2>7. CASE Answer \/ Disconnect \/ Complete \/ UNCHANGED vars
    BY <1>0, <2>1, <2>7 DEF Answer, Disconnect, Complete, Clear, PopNothing,
                            PopNext, vars
  <2> QED BY <2>4, <2>5, <2>6, <2>7 DEF Next
<1>2. CASE starter[n] \notin {"timer", "done"}
  <2>1. starter' # starter
    BY <1>2
  <2>2. CASE SpawnStarter
    BY <1>0, <1>2, <2>2 DEF SpawnStarter
  <2>3. ASSUME NEW m \in Logins, StarterStep(m)
        PROVE  todo'[n] = <<>> /\ pc'[n] = "idle"
    <3>1. CASE StartQuery(m)
      BY <2>1, <3>1 DEF StartQuery, control
    <3>2. CASE SpawnTimer(m)
      <4>1. m = n
        BY <1>0, <1>2, <3>2 DEF SpawnTimer, Stage
      <4> QED BY <3>2, <4>1 DEF SpawnTimer, Stage, gate, vars
    <3>3. CASE TimerFires(m)
      BY <1>0, <1>2, <3>3 DEF TimerFires, Stage
    <3> QED BY <2>3, <3>1, <3>2, <3>3 DEF StarterStep
  <2>4. CASE WorkerStep /\ ~SpawnStarter
    BY <2>1, <2>4
    DEF WorkerStep, LoopHead, TakeConnected, ReqAuthenticate, TakeAuthenticated,
        ReqUserLogin, TakeLogin, Confirm, TakeDisconnected, checkReady, Goes, Take,
        Ask, Crash
  <2>5. ASSUME NEW t \in Threads, Submitting(t) PROVE FALSE
    BY <2>1, <2>5 DEF Submitting, SendQuery, Crash, control
  <2>6. CASE start \/ stop \/ Teardown \/ OnFrontConnected \/ OnFrontDisconnected
    BY <2>1, <2>6 DEF start, stop, Teardown, Release, Join, OnFrontConnected,
                      OnFrontDisconnected, control
  <2>7. CASE \/ OnRspAuthenticate \/ OnRspUserLogin \/ OnLastAnswer
             \/ onResponseComplete \/ UNCHANGED sessionVars
    BY <2>1, <2>7 DEF OnRspAuthenticate, OnRspUserLogin, Answers, OnLastAnswer,
                      onResponseComplete, sessionVars, control
  <2> QED BY <2>2, <2>3, <2>4, <2>5, <2>6, <2>7 DEF SessionNext
<1> QED BY <1>1, <1>2

\* ready_ is set only where the loaded flags are, and those only by a timer; no
\* step takes the loaded flags back.
LEMMA LoadedKept ==
    ASSUME ControlTypes, ReadyIsLoaded, [SessionNext]_sessionVars
    PROVE  ReadyIsLoaded'
<1>0. gw \in GatewayFlags
      /\ starter \in [Logins -> {"none", "querying", "timer", "done"}]
  BY DEF ControlTypes
<1>1. CASE UNCHANGED <<gw, starter>>
  BY <1>1 DEF ReadyIsLoaded
<1>2. CASE starter' = starter /\ gw'.loaded = gw.loaded
           /\ (gw'.ready => gw.ready \/ gw.loaded)
  BY <1>2 DEF ReadyIsLoaded
<1>3. CASE start \/ stop \/ Teardown
  BY <1>0, <1>2, <1>3 DEF start, stop, Teardown, Release, Join, GatewayFlags
<1>4. CASE \/ OnFrontConnected \/ OnFrontDisconnected \/ OnRspAuthenticate
           \/ OnRspUserLogin \/ onResponseComplete
  BY <1>1, <1>4 DEF OnFrontConnected, OnFrontDisconnected, OnRspAuthenticate,
                    OnRspUserLogin, Answers, onResponseComplete, control
<1>5. CASE OnLastAnswer
  BY <1>0, <1>2, <1>5 DEF OnLastAnswer, GatewayFlags, control
<1>6. ASSUME NEW t \in Threads, Submitting(t) PROVE ReadyIsLoaded'
  BY <1>1, <1>6 DEF Submitting, SendQuery, Crash, control
<1>7. CASE WorkerStep /\ ~SpawnStarter
  <2>1. starter' = starter
    BY <1>7 DEF WorkerStep, LoopHead, TakeConnected, ReqAuthenticate,
        TakeAuthenticated, ReqUserLogin, TakeLogin, Confirm, TakeDisconnected,
        checkReady, Goes, Take, Ask, Crash
  <2>2. gw'.loaded = gw.loaded /\ (gw'.ready => gw.ready \/ gw.loaded)
    BY <1>0, <1>7 DEF WorkerStep, LoopHead, TakeConnected, ReqAuthenticate,
        TakeAuthenticated, ReqUserLogin, TakeLogin, Confirm, TakeDisconnected,
        checkReady, Ask, Crash, GatewayFlags
  <2> QED BY <1>2, <2>1, <2>2
<1>8. CASE SpawnStarter
  <2>1. \A n \in Logins : starter[n] = "done" => starter'[n] = "done"
    BY <1>0, <1>8 DEF SpawnStarter
  <2> QED BY <1>8, <2>1 DEF SpawnStarter, ReadyIsLoaded
<1>9. ASSUME NEW n \in Logins, StarterStep(n) PROVE ReadyIsLoaded'
  <2>1. CASE StartQuery(n)
    BY <1>1, <2>1 DEF StartQuery, control
  <2>2. CASE SpawnTimer(n)
    <3>1. \A m \in Logins : starter[m] = "done" => starter'[m] = "done"
      BY <1>0, <2>2 DEF SpawnTimer, Stage
    <3> QED BY <2>2, <3>1 DEF SpawnTimer, ReadyIsLoaded
  <2>3. CASE TimerFires(n)
    <3>1. starter'[n] = "done"
      BY <1>0, <2>3 DEF TimerFires, Stage
    <3>2. gw'.loaded /\ gw'.ready = gw.ready
      BY <1>0, <2>3 DEF TimerFires, GatewayFlags
    <3> QED BY <3>1, <3>2 DEF ReadyIsLoaded
  <2> QED BY <1>9, <2>1, <2>2, <2>3 DEF StarterStep
<1>10. CASE UNCHANGED sessionVars
  BY <1>1, <1>10 DEF sessionVars, control
<1> QED BY <1>3, <1>4, <1>5, <1>6, <1>7, <1>8, <1>9, <1>10 DEF SessionNext

\* The invariant holds in every reachable state.
THEOREM SessionInvariant == SessionSpec => []SessionInv
<1>1. SessionInit => ControlTypes /\ TimersAreLate /\ ReadyIsLoaded
  <2> SUFFICES ASSUME SessionInit
               PROVE  ControlTypes /\ TimersAreLate /\ ReadyIsLoaded
    OBVIOUS
  <2>1. MaxConnects \in Nat /\ MaxStarts \in Nat
    BY LimitAssumption
  <2>2. flag \in Flags /\ gw \in GatewayFlags
    BY DEF SessionInit, Flags, GatewayFlags
  <2>3. connects \in 0 .. MaxConnects /\ starts \in 0 .. MaxStarts
    BY <2>1 DEF SessionInit
  <2>4. ControlTypes
    <3>1. requests \in Seq({"auth", "login"})
      BY DEF SessionInit
    <3> QED BY <2>2, <2>3, <3>1 DEF SessionInit, ControlTypes
  <2>5. TimersAreLate /\ ReadyIsLoaded
    BY DEF SessionInit, TimersAreLate, ReadyIsLoaded
  <2> QED BY <2>4, <2>5
<1>2. FlowInv /\ ControlTypes /\ TimersAreLate /\ ReadyIsLoaded
          /\ [SessionNext]_sessionVars
      => (ControlTypes /\ TimersAreLate /\ ReadyIsLoaded)'
  BY ControlKept, TimersKept, LoadedKept
<1>3. FlowInv /\ ControlTypes /\ TimersAreLate /\ ReadyIsLoaded => SessionInv
  BY DEF SessionInv, SessionTypeOK, ControlTypes, FlowInv
<1> QED BY <1>1, <1>2, <1>3, SessionImplementsGate, FlowInvariant, PTL
        DEF SessionSpec

\* Connection, requests, flags, threads and counters keep their types.
THEOREM SessionTypes == SessionSpec => []SessionTypeOK
<1>1. SessionInv => SessionTypeOK
  BY DEF SessionInv
<1> QED BY <1>1, SessionInvariant, PTL

\* The gateway is ready only after some login's startQueries has handed all its
\* queries to the gate, which sent each of them, holds it, or lost it in a race:
\* whatever reconnects, second logins and late timers there were.
THEOREM ReadyIsLate == SessionSpec => []ReadyAfterQueries
<1>1. SessionInv /\ Kept => ReadyAfterQueries
  <2> SUFFICES ASSUME SessionInv, Kept, gw.ready PROVE ReadyAfterQueries
    BY DEF ReadyAfterQueries
  <2>1. PICK n \in Logins : starter[n] = "done"
    BY DEF SessionInv, ReadyIsLoaded
  <2>2. n \in Users /\ todo[n] = <<>> /\ pc[n] = "idle"
    BY <2>1, GatewayThreads DEF SessionInv, TimersAreLate
  <2>3. Range(todo[n]) = {} /\ ~Held(n)
    BY <2>2 DEF Range, Held
  <2>4. Startup(n) = Range(Script[n])
    BY DEF Startup, Range
  <2>5. \A q \in Startup(n) : Passed(q)
    BY <2>2, <2>3, <2>4 DEF Kept
  <2>6. \A q \in Startup(n) : Sent(q) \/ Waits(q) \/ q \in lost \/ query[Spi] = q
    BY <2>5 DEF Passed, Sent, Waits, Range
  <2> QED BY <2>1, <2>6 DEF ReadyAfterQueries
<1> QED BY <1>1, SessionInvariant, SessionImplementsGate, QueriesKept, PTL

=============================================================================
