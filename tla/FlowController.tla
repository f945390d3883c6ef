--------------------------- MODULE FlowController ---------------------------
(***************************************************************************)
(* The gate in front of CTP's query interface (src/include/               *)
(* flow_controller.h): at most one query in flight, the others wait in     *)
(* pending_.  Nothing locks it.  Queries are submitted by the trade worker *)
(* (confirmSettlement), the thread of startQueries and the strategy's      *)
(* thread (query*, compareWithRemote); the CTP SPI thread runs             *)
(* onResponseComplete when the last answer of a query arrives, and submits *)
(* the next query from there.                                              *)
(*                                                                         *)
(* Every access to in_flight_ or pending_ is a step of its own.  A push    *)
(* that overlaps another thread's push is a data race on std::queue: such  *)
(* a push may be lost.  A push and the SPI thread's pop work on the two    *)
(* ends of the deque, so either order of the two stands for their overlap. *)
(* The sleep that spaces queries out is left out: it only delays.          *)
(***************************************************************************)
EXTENDS Integers, Sequences

CONSTANTS
    Users,     \* threads that submit queries
    Spi,       \* the SPI thread
    Queries,   \* queries
    NoQuery,   \* what a thread holds before its first query
    Script     \* Script[t]: the queries thread t submits, in order

ASSUME SpiAssumption == Spi \notin Users

ASSUME NoQueryAssumption == NoQuery \notin Queries

ASSUME ScriptAssumption == Script \in [Users -> Seq(Queries)]

\* Every call of submit brings a std::function of its own.
ASSUME DistinctAssumption ==
    \A t, u \in Users : \A j \in DOMAIN Script[t], k \in DOMAIN Script[u] :
        Script[t][j] = Script[u][k] => t = u /\ j = k

Threads == Users \cup {Spi}

VARIABLES
    in_flight,   \* in_flight_
    pending,     \* pending_
    pc,          \* where each thread is
    query,       \* the query a thread holds
    todo,        \* what a user thread has still to submit
    awaiting,    \* queries sent whose last answer has not been handled
    sent,        \* queries sent, in order
    lost         \* queries whose answer never comes, or that a race dropped

vars == <<in_flight, pending, pc, query, todo, awaiting, sent, lost>>

TypeOK ==
    /\ in_flight \in BOOLEAN
    /\ pending \in Seq(Queries)
    /\ pc \in [Threads -> {"idle", "submit", "push", "execute", "clear", "pop"}]
    /\ query \in [Threads -> Queries \cup {NoQuery}]
    /\ todo \in [Users -> Seq(Queries)]
    /\ awaiting \subseteq Queries
    /\ sent \in Seq(Queries)
    /\ lost \subseteq Queries

Init ==
    /\ in_flight = FALSE
    /\ pending = <<>>
    /\ pc = [t \in Threads |-> "idle"]
    /\ query = [t \in Threads |-> NoQuery]
    /\ todo = Script
    /\ awaiting = {}
    /\ sent = <<>>
    /\ lost = {}

----------------------------------------------------------------------------
(* submit.                                                                 *)

Call(t) ==
    /\ pc[t] = "idle"
    /\ todo[t] # <<>>
    /\ query' = [query EXCEPT ![t] = Head(todo[t])]
    /\ todo' = [todo EXCEPT ![t] = Tail(@)]
    /\ pc' = [pc EXCEPT ![t] = "submit"]
    /\ UNCHANGED <<in_flight, pending, awaiting, sent, lost>>

\* Mutant of Exchange: a load where the exchange is.
ExchangeAsLoad(t) ==
    /\ pc[t] = "submit"
    /\ pc' = [pc EXCEPT ![t] = IF in_flight THEN "push" ELSE "execute"]
    /\ UNCHANGED <<in_flight, pending, query, todo, awaiting, sent, lost>>

\* in_flight_.exchange(true)
Exchange(t) ==
    /\ pc[t] = "submit"
    /\ pc' = [pc EXCEPT ![t] = IF in_flight THEN "push" ELSE "execute"]
    /\ in_flight' = TRUE
    /\ UNCHANGED <<pending, query, todo, awaiting, sent, lost>>

\* Another thread is between the same two instructions.
Races(t) == \E u \in Threads \ {t} : pc[u] = "push"

Push(t) ==
    /\ pc[t] = "push"
    /\ pc' = [pc EXCEPT ![t] = "idle"]
    /\ \/ /\ pending' = Append(pending, query[t])
          /\ UNCHANGED lost
       \/ /\ Races(t)
          /\ lost' = lost \cup {query[t]}
          /\ UNCHANGED pending
    /\ UNCHANGED <<in_flight, query, todo, awaiting, sent>>

\* execute: the ReqQry* call.  Its return value is ignored: a call that fails
\* is a query nobody will answer.
Execute(t) ==
    /\ pc[t] = "execute"
    /\ pc' = [pc EXCEPT ![t] = "idle"]
    /\ sent' = Append(sent, query[t])
    /\ \/ awaiting' = awaiting \cup {query[t]} /\ UNCHANGED lost
       \/ lost' = lost \cup {query[t]} /\ UNCHANGED awaiting
    /\ UNCHANGED <<in_flight, pending, query, todo>>

Submit(t) == Exchange(t) \/ Push(t) \/ Execute(t)

----------------------------------------------------------------------------
(* The front and the SPI thread.                                           *)

\* Mutant of Answer: a handler that forgets onResponseComplete.
AnswerUncounted ==
    /\ pc[Spi] = "idle"
    /\ \E q \in awaiting : awaiting' = awaiting \ {q}
    /\ UNCHANGED <<in_flight, pending, pc, query, todo, sent, lost>>

\* The last answer of a query: OnRspQry* with bIsLast.
Answer ==
    /\ pc[Spi] = "idle"
    /\ \E q \in awaiting : awaiting' = awaiting \ {q}
    /\ pc' = [pc EXCEPT ![Spi] = "clear"]
    /\ UNCHANGED <<in_flight, pending, query, todo, sent, lost>>

\* The front disconnects: answers under way are lost, reset() is not called.
Disconnect ==
    /\ awaiting # {}
    /\ awaiting' = {}
    /\ lost' = lost \cup awaiting
    /\ UNCHANGED <<in_flight, pending, pc, query, todo, sent>>

\* onResponseComplete: in_flight_ = false
Clear ==
    /\ pc[Spi] = "clear"
    /\ in_flight' = FALSE
    /\ pc' = [pc EXCEPT ![Spi] = "pop"]
    /\ UNCHANGED <<pending, query, todo, awaiting, sent, lost>>

PopNothing ==
    /\ pc[Spi] = "pop"
    /\ pending = <<>>
    /\ pc' = [pc EXCEPT ![Spi] = "idle"]
    /\ UNCHANGED <<in_flight, pending, query, todo, awaiting, sent, lost>>

\* Mutants of PopNext: pop() without front(), and front() without pop().
PopNextUnread ==
    /\ pc[Spi] = "pop"
    /\ pending # <<>>
    /\ query' = [query EXCEPT ![Spi] = NoQuery]
    /\ pending' = Tail(pending)
    /\ pc' = [pc EXCEPT ![Spi] = "submit"]
    /\ UNCHANGED <<in_flight, todo, awaiting, sent, lost>>

PopNextKept ==
    /\ pc[Spi] = "pop"
    /\ pending # <<>>
    /\ query' = [query EXCEPT ![Spi] = Head(pending)]
    /\ pc' = [pc EXCEPT ![Spi] = "submit"]
    /\ UNCHANGED <<in_flight, pending, todo, awaiting, sent, lost>>

PopNext ==
    /\ pc[Spi] = "pop"
    /\ pending # <<>>
    /\ query' = [query EXCEPT ![Spi] = Head(pending)]
    /\ pending' = Tail(pending)
    /\ pc' = [pc EXCEPT ![Spi] = "submit"]
    /\ UNCHANGED <<in_flight, todo, awaiting, sent, lost>>

Complete == Clear \/ PopNothing \/ PopNext

\* Every query was submitted and no thread has anything left to do.
Quiet ==
    /\ \A t \in Threads : pc[t] = "idle"
    /\ \A t \in Users : todo[t] = <<>>
    /\ awaiting = {}

Next ==
    \/ \E t \in Users : Call(t)
    \/ \E t \in Threads : Submit(t)
    \/ Answer
    \/ Disconnect
    \/ Complete
    \/ Quiet /\ UNCHANGED vars

Spec == Init /\ [][Next]_vars

\* Threads are scheduled, a call that was entered is left, and the front
\* answers what it accepted (unless it disconnects).  Nothing says when, or
\* that, a thread submits its next query.
FairSpec ==
    /\ Spec
    /\ \A t \in Threads : WF_vars(Submit(t))
    /\ WF_vars(Answer)
    /\ WF_vars(Complete)

----------------------------------------------------------------------------
\* CTP allows one query at a time: of the threads executing one, the queries
\* the front is answering and the answer being handled there is one at most.
OneInFlight ==
    /\ \A t, u \in Threads : pc[t] = "execute" /\ pc[u] = "execute" => t = u
    /\ \A q, r \in awaiting : q = r
    /\ awaiting # {} => \A t \in Threads : pc[t] \notin {"execute", "clear"}
    /\ pc[Spi] = "clear" => \A t \in Threads : pc[t] # "execute"

\* t holds a query it has taken and not yet put anywhere.
Held(t) == pc[t] \in {"submit", "push", "execute"}

\* No query is sent twice, however often it is put back at the end of pending_.
SentOnce == \A j, k \in DOMAIN sent : sent[j] = sent[k] => j = k

Sent(q) == \E k \in DOMAIN sent : sent[k] = q

\* Every query submitted is sent, if no answer is lost ("stored in the pending
\* queue and sent when the answer arrives").
SubmittedIsServed ==
    \A q \in Queries :
        (\E t \in Users : Held(t) /\ query[t] = q)
            ~> (lost # {} \/ Sent(q))
=============================================================================
