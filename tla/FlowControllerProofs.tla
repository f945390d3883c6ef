------------------------ MODULE FlowControllerProofs ------------------------
(***************************************************************************)
(* Proofs about FlowController, for every set of threads and every script  *)
(* of queries.  OneInFlight is not inductive: what keeps a second thread   *)
(* out is the flag, so the invariant says that the flag is set as long as  *)
(* anybody holds the flight.                                               *)
(***************************************************************************)
EXTENDS FlowController, SequenceTheorems, TLAPS

\* A thread is sending, the front is answering, or the answer is being handled.
Flying ==
    \/ \E t \in Threads : pc[t] = "execute"
    \/ awaiting # {}
    \/ pc[Spi] = "clear"

\* A thread inside submit() holds a query of its own.
HoldsQuery == \A t \in Threads : Held(t) => query[t] \in Queries

\* Only the SPI thread handles answers.
SpiAlone == \A t \in Users : pc[t] \notin {"clear", "pop"}

FlowInv ==
    /\ TypeOK
    /\ HoldsQuery
    /\ SpiAlone
    /\ OneInFlight
    /\ Flying => in_flight

\* What is left of a non-empty sequence.
LEMMA HeadTail ==
    ASSUME NEW S, NEW s \in Seq(S), s # <<>>
    PROVE  Head(s) \in S /\ Tail(s) \in Seq(S)
OBVIOUS

\* The invariant holds in every reachable state.
THEOREM FlowInvariant == Spec => []FlowInv
<1>1. Init => FlowInv
  <2> SUFFICES ASSUME Init PROVE FlowInv
    OBVIOUS
  <2>1. Spi \in Threads /\ \A t \in Users : t \in Threads
    BY DEF Threads
  <2>2. \A t \in Threads : pc[t] = "idle"
    BY DEF Init
  <2>3. pc \in [Threads -> {"idle", "submit", "push", "execute", "clear", "pop"}]
        /\ query \in [Threads -> Queries \cup {NoQuery}]
    BY DEF Init
  <2>4. todo \in [Users -> Seq(Queries)]
    BY ScriptAssumption DEF Init
  <2>5. pending \in Seq(Queries) /\ sent \in Seq(Queries)
    BY DEF Init
  <2>6. TypeOK
    BY <2>3, <2>4, <2>5 DEF Init, TypeOK
  <2>7. HoldsQuery /\ SpiAlone /\ ~Flying
    BY <2>1, <2>2 DEF HoldsQuery, Held, SpiAlone, Flying, Init
  <2>8. OneInFlight
    BY <2>1, <2>2 DEF OneInFlight, Init
  <2> QED BY <2>6, <2>7, <2>8 DEF FlowInv
<1>2. FlowInv /\ [Next]_vars => FlowInv'
  <2> SUFFICES ASSUME FlowInv, [Next]_vars PROVE FlowInv'
    OBVIOUS
  <2> USE DEF FlowInv, TypeOK, HoldsQuery, SpiAlone, OneInFlight, Flying, Held
  <2>0. Spi \in Threads /\ Users \subseteq Threads /\ Spi \notin Users
        /\ \A t \in Threads : t = Spi \/ t \in Users
    BY SpiAssumption DEF Threads
  <2>1. ASSUME NEW t \in Users, Call(t) PROVE FlowInv'
    <3>1. Head(todo[t]) \in Queries /\ Tail(todo[t]) \in Seq(Queries)
      BY <2>1, HeadTail DEF Call
    <3> QED BY <2>0, <2>1, <3>1 DEF Call
  <2>2. ASSUME NEW t \in Threads, Exchange(t) PROVE FlowInv'
    BY <2>0, <2>2 DEF Exchange
  <2>3. ASSUME NEW t \in Threads, Push(t) PROVE FlowInv'
    <3>1. query[t] \in Queries
      BY <2>3 DEF Push
    <3>2. Append(pending, query[t]) \in Seq(Queries)
      BY <3>1
    <3> QED BY <2>0, <2>3, <3>1, <3>2 DEF Push
  <2>4. ASSUME NEW t \in Threads, Execute(t) PROVE FlowInv'
    <3>1. query[t] \in Queries
      BY <2>4 DEF Execute
    <3>2. Append(sent, query[t]) \in Seq(Queries)
      BY <3>1
    <3> QED BY <2>0, <2>4, <3>1, <3>2 DEF Execute
  <2>5. CASE Answer
    BY <2>0, <2>5 DEF Answer
  <2>6. CASE Disconnect
    BY <2>0, <2>6 DEF Disconnect
  <2>7. CASE Clear
    BY <2>0, <2>7 DEF Clear
  <2>8. CASE PopNothing
    BY <2>0, <2>8 DEF PopNothing
  <2>9. CASE PopNext
    <3>1. Head(pending) \in Queries /\ Tail(pending) \in Seq(Queries)
      BY <2>9, HeadTail DEF PopNext
    <3> QED BY <2>0, <2>9, <3>1 DEF PopNext
  <2>10. CASE UNCHANGED vars
    BY <2>10 DEF vars
  <2> QED BY <2>1, <2>2, <2>3, <2>4, <2>5, <2>6, <2>7, <2>8, <2>9, <2>10
          DEF Next, Submit, Complete
<1> QED BY <1>1, <1>2, PTL DEF Spec

\* However many threads submit, at most one query is in flight: between the
\* exchange that lets a thread in and the store that ends its query no other
\* thread sends one.
THEOREM OneQueryInFlight == Spec => []OneInFlight
<1>1. FlowInv => OneInFlight
  BY DEF FlowInv
<1> QED BY <1>1, FlowInvariant, PTL

\* Threads, queue and history keep their types.
THEOREM FlowTypes == Spec => []TypeOK
<1>1. FlowInv => TypeOK
  BY DEF FlowInv
<1> QED BY <1>1, FlowInvariant, PTL

----------------------------------------------------------------------------
(* No query twice.                                                         *)

\* Every query is in one place at most: still to be submitted, held by a
\* thread, waiting in pending_, or sent.
OnePlace ==
    /\ IsInjective(pending) /\ IsInjective(sent)
    /\ Range(pending) \cap Range(sent) = {}
    /\ \A t, u \in Threads :
          Held(t) /\ Held(u) /\ query[t] = query[u] => t = u
    /\ \A t \in Threads : Held(t) => query[t] \notin Range(pending) \cup Range(sent)
    /\ \A t \in Users :
          /\ IsInjective(todo[t])
          /\ \A u \in Users \ {t} : Range(todo[t]) \cap Range(todo[u]) = {}
          /\ Range(todo[t]) \cap (Range(pending) \cup Range(sent)) = {}
          /\ \A u \in Threads : Held(u) => query[u] \notin Range(todo[t])

\* Taking the head of a sequence without repetitions leaves the others.
LEMMA TailOnce ==
    ASSUME NEW S, NEW s \in Seq(S), s # <<>>, IsInjective(s)
    PROVE  /\ IsInjective(Tail(s)) /\ Head(s) \in Range(s)
           /\ Range(Tail(s)) = Range(s) \ {Head(s)}
<1>1. /\ Tail(s) \in Seq(S) /\ Len(s) \in Nat /\ Len(s) > 0
      /\ Len(Tail(s)) = Len(s) - 1 /\ Head(s) = s[1]
      /\ \A i \in 1 .. Len(s) - 1 : Tail(s)[i] = s[i + 1]
  BY HeadTailProperties, EmptySeq, LenProperties
<1>2. DOMAIN s = 1 .. Len(s) /\ DOMAIN Tail(s) = 1 .. Len(s) - 1
  BY <1>1, LenProperties
<1>3. IsInjective(Tail(s))
  BY <1>1, <1>2 DEF IsInjective
<1>4. Head(s) \in Range(s)
  BY <1>1, <1>2 DEF Range
<1>5. ASSUME NEW e \in Range(Tail(s)) PROVE e \in Range(s) \ {Head(s)}
  BY <1>1, <1>2, <1>5 DEF Range, IsInjective
<1>6. ASSUME NEW e \in Range(s), e # Head(s) PROVE e \in Range(Tail(s))
  <2>1. PICK k \in 1 .. Len(s) : e = s[k]
    BY <1>2 DEF Range
  <2>2. k - 1 \in 1 .. Len(s) - 1 /\ Tail(s)[k - 1] = e
    BY <1>1, <1>6, <2>1
  <2> QED BY <1>2, <2>2 DEF Range
<1> QED BY <1>3, <1>4, <1>5, <1>6

\* Appending a new element repeats none.
LEMMA AppendOnce ==
    ASSUME NEW S, NEW s \in Seq(S), NEW e \in S
    PROVE  /\ Range(Append(s, e)) = Range(s) \cup {e}
           /\ IsInjective(s) /\ e \notin Range(s) => IsInjective(Append(s, e))
<1>1. /\ Append(s, e) \in Seq(S) /\ Len(s) \in Nat
      /\ Len(Append(s, e)) = Len(s) + 1
      /\ \A i \in 1 .. Len(s) : Append(s, e)[i] = s[i]
      /\ Append(s, e)[Len(s) + 1] = e
  BY AppendProperties, LenProperties
<1>2. DOMAIN s = 1 .. Len(s) /\ DOMAIN Append(s, e) = 1 .. Len(s) + 1
  BY <1>1, LenProperties
<1>3. \A i \in 1 .. Len(s) + 1 : i = Len(s) + 1 \/ i \in 1 .. Len(s)
  BY <1>1
<1>4. Len(s) + 1 \in 1 .. Len(s) + 1 /\ 1 .. Len(s) \subseteq 1 .. Len(s) + 1
  BY <1>1
<1>5. Range(Append(s, e)) = Range(s) \cup {e}
  BY <1>1, <1>2, <1>3, <1>4 DEF Range
<1>6. ASSUME IsInjective(s), e \notin Range(s) PROVE IsInjective(Append(s, e))
  BY <1>1, <1>2, <1>3, <1>6 DEF Range, IsInjective
<1> QED BY <1>5, <1>6

\* Every query stays in one place.
THEOREM QueriesStayApart == Spec => []OnePlace
<1>1. Init => OnePlace
  <2> SUFFICES ASSUME Init PROVE OnePlace
    OBVIOUS
  <2>1. Range(pending) = {} /\ Range(sent) = {}
        /\ IsInjective(pending) /\ IsInjective(sent)
    BY DEF Init, Range, IsInjective
  <2>2. \A t \in Threads : ~Held(t)
    BY DEF Init, Held
  <2>3. \A t, u \in Users :
            /\ IsInjective(todo[t])
            /\ t # u => Range(todo[t]) \cap Range(todo[u]) = {}
    BY DistinctAssumption DEF Init, IsInjective, Range
  <2> QED BY <2>1, <2>2, <2>3 DEF OnePlace
<1>2. FlowInv /\ OnePlace /\ [Next]_vars => OnePlace'
  <2> SUFFICES ASSUME FlowInv, OnePlace, [Next]_vars PROVE OnePlace'
    OBVIOUS
  <2> USE DEF FlowInv, TypeOK, HoldsQuery, SpiAlone, OnePlace, Held
  <2>0. Spi \in Threads /\ Users \subseteq Threads /\ Spi \notin Users
        /\ \A t \in Threads : t = Spi \/ t \in Users
    BY SpiAssumption DEF Threads
  <2>1. ASSUME NEW t \in Users, Call(t) PROVE OnePlace'
    <3>1. /\ IsInjective(Tail(todo[t])) /\ Head(todo[t]) \in Range(todo[t])
          /\ Range(Tail(todo[t])) = Range(todo[t]) \ {Head(todo[t])}
      BY <2>1, TailOnce DEF Call
    <3>2. /\ query' = [query EXCEPT ![t] = Head(todo[t])]
          /\ todo' = [todo EXCEPT ![t] = Tail(todo[t])]
          /\ pc' = [pc EXCEPT ![t] = "submit"] /\ pc[t] = "idle"
          /\ pending' = pending /\ sent' = sent
      BY <2>1 DEF Call
    <3> QED BY <2>0, <3>1, <3>2
  <2>2. ASSUME NEW t \in Threads, Exchange(t) PROVE OnePlace'
    BY <2>0, <2>2 DEF Exchange
  <2>3. ASSUME NEW t \in Threads, Push(t) PROVE OnePlace'
    <3>1. query[t] \in Queries /\ query[t] \notin Range(pending) \cup Range(sent)
      BY <2>3 DEF Push
    <3>2. /\ Range(Append(pending, query[t])) = Range(pending) \cup {query[t]}
          /\ IsInjective(Append(pending, query[t]))
      BY <3>1, AppendOnce
    <3>3. /\ pending' = Append(pending, query[t]) \/ pending' = pending
          /\ pc' = [pc EXCEPT ![t] = "idle"] /\ pc[t] = "push"
          /\ query' = query /\ todo' = todo /\ sent' = sent
      BY <2>3 DEF Push
    <3>4. CASE pending' = pending
      BY <2>0, <3>3, <3>4
    <3>5. CASE pending' = Append(pending, query[t])
      BY <2>0, <3>1, <3>2, <3>3, <3>5
    <3> QED BY <3>3, <3>4, <3>5
  <2>4. ASSUME NEW t \in Threads, Execute(t) PROVE OnePlace'
    <3>1. query[t] \in Queries /\ query[t] \notin Range(pending) \cup Range(sent)
      BY <2>4 DEF Execute
    <3>2. /\ Range(Append(sent, query[t])) = Range(sent) \cup {query[t]}
          /\ IsInjective(Append(sent, query[t]))
      BY <3>1, AppendOnce
    <3>3. /\ sent' = Append(sent, query[t])
          /\ pc' = [pc EXCEPT ![t] = "idle"] /\ pc[t] = "execute"
          /\ query' = query /\ todo' = todo /\ pending' = pending
      BY <2>4 DEF Execute
    <3> QED BY <2>0, <3>1, <3>2, <3>3
  <2>5. CASE Answer
    BY <2>0, <2>5 DEF Answer
  <2>6. CASE Disconnect
    BY <2>0, <2>6 DEF Disconnect
  <2>7. CASE Clear
    BY <2>0, <2>7 DEF Clear
  <2>8. CASE PopNothing
    BY <2>0, <2>8 DEF PopNothing
  <2>9. CASE PopNext
    <3>1. /\ IsInjective(Tail(pending)) /\ Head(pending) \in Range(pending)
          /\ Range(Tail(pending)) = Range(pending) \ {Head(pending)}
      BY <2>9, TailOnce DEF PopNext
    <3>2. /\ query' = [query EXCEPT ![Spi] = Head(pending)]
          /\ pending' = Tail(pending)
          /\ pc' = [pc EXCEPT ![Spi] = "submit"] /\ pc[Spi] = "pop"
          /\ todo' = todo /\ sent' = sent
      BY <2>9 DEF PopNext
    <3> QED BY <2>0, <3>1, <3>2
  <2>10. CASE UNCHANGED vars
    BY <2>10 DEF vars
  <2> QED BY <2>1, <2>2, <2>3, <2>4, <2>5, <2>6, <2>7, <2>8, <2>9, <2>10
          DEF Next, Submit, Complete
<1> QED BY <1>1, <1>2, FlowInvariant, PTL DEF Spec

\* However often a query is put back at the end of pending_, and whatever races
\* or disconnects there are, it is sent once at most.
THEOREM NoQueryTwice == Spec => []SentOnce
<1>1. OnePlace => SentOnce
  BY DEF OnePlace, SentOnce, IsInjective
<1> QED BY <1>1, QueriesStayApart, PTL

----------------------------------------------------------------------------
(* No query forgotten.                                                     *)

\* The gate has the query, or had it: it waits, the SPI thread has taken it out
\* of pending_, it was sent, or a race dropped it.
Passed(q) ==
    \/ q \in Range(pending) \cup Range(sent) \cup lost
    \/ Held(Spi) /\ query[Spi] = q

\* Every query of every thread has still to be submitted, is being submitted, or
\* the gate has it.
Kept ==
    \A t \in Users : \A q \in Range(Script[t]) :
        \/ q \in Range(todo[t])
        \/ Held(t) /\ query[t] = q
        \/ Passed(q)

\* What is left when the head of a sequence is taken.
LEMMA HeadOrTail ==
    ASSUME NEW S, NEW s \in Seq(S), s # <<>>, NEW e \in Range(s)
    PROVE  e = Head(s) \/ e \in Range(Tail(s))
<1>1. /\ Len(s) \in Nat /\ Len(Tail(s)) = Len(s) - 1 /\ Head(s) = s[1]
      /\ \A i \in 1 .. Len(s) - 1 : Tail(s)[i] = s[i + 1]
      /\ DOMAIN s = 1 .. Len(s) /\ DOMAIN Tail(s) = 1 .. Len(s) - 1
  BY HeadTailProperties, LenProperties
<1>2. PICK k \in 1 .. Len(s) : e = s[k]
  BY <1>1 DEF Range
<1>3. CASE k = 1
  BY <1>1, <1>2, <1>3
<1>4. CASE k # 1
  <2>1. k - 1 \in 1 .. Len(s) - 1 /\ Tail(s)[k - 1] = e
    BY <1>1, <1>2, <1>4
  <2> QED BY <1>1, <2>1 DEF Range
<1> QED BY <1>3, <1>4

\* What the gate has it keeps or passes on.
LEMMA PassedStays ==
    ASSUME FlowInv, [Next]_vars, NEW q, Passed(q)
    PROVE  Passed(q)'
<1> USE DEF FlowInv, TypeOK, HoldsQuery, SpiAlone, Passed, Held
<1>0. Spi \in Threads /\ Users \subseteq Threads /\ Spi \notin Users
      /\ \A t \in Threads : t = Spi \/ t \in Users
  BY SpiAssumption DEF Threads
<1>1. ASSUME NEW t \in Users, Call(t) PROVE Passed(q)'
  BY <1>0, <1>1 DEF Call
<1>2. ASSUME NEW t \in Threads, Exchange(t) PROVE Passed(q)'
  BY <1>0, <1>2 DEF Exchange
<1>3. ASSUME NEW t \in Threads, Push(t) PROVE Passed(q)'
  <2>1. Range(Append(pending, query[t])) = Range(pending) \cup {query[t]}
    BY <1>3, AppendOnce DEF Push
  <2> QED BY <1>0, <1>3, <2>1 DEF Push
<1>4. ASSUME NEW t \in Threads, Execute(t) PROVE Passed(q)'
  <2>1. Range(Append(sent, query[t])) = Range(sent) \cup {query[t]}
    BY <1>4, AppendOnce DEF Execute
  <2> QED BY <1>0, <1>4, <2>1 DEF Execute
<1>5. CASE Answer
  BY <1>0, <1>5 DEF Answer
<1>6. CASE Disconnect
  BY <1>0, <1>6 DEF Disconnect
<1>7. CASE Clear
  BY <1>0, <1>7 DEF Clear
<1>8. CASE PopNothing
  BY <1>0, <1>8 DEF PopNothing
<1>9. CASE PopNext
  <2>1. q \in Range(pending) => q = Head(pending) \/ q \in Range(Tail(pending))
    BY <1>9, HeadOrTail DEF PopNext
  <2> QED BY <1>0, <1>9, <2>1 DEF PopNext
<1>10. CASE UNCHANGED vars
  BY <1>10 DEF vars
<1> QED BY <1>1, <1>2, <1>3, <1>4, <1>5, <1>6, <1>7, <1>8, <1>9, <1>10
        DEF Next, Submit, Complete

\* Every query of every script is accounted for: none is dropped on its way into
\* the gate, through pending_ or out of it, races and lost answers apart.
THEOREM QueriesKept == Spec => []Kept
<1>1. Init => Kept
  BY DEF Init, Kept
<1>2. FlowInv /\ Kept /\ [Next]_vars => Kept'
  <2> SUFFICES ASSUME FlowInv, Kept, [Next]_vars, NEW u \in Users,
                      NEW q \in Range(Script[u]), ~Passed(q)
               PROVE  \/ q \in Range(todo'[u])
                      \/ Held(u)' /\ query'[u] = q
                      \/ Passed(q)'
    BY PassedStays DEF Kept
  <2> USE DEF FlowInv, TypeOK, HoldsQuery, SpiAlone, Held
  <2>0. Spi \in Threads /\ Users \subseteq Threads /\ Spi \notin Users
        /\ \A t \in Threads : t = Spi \/ t \in Users
    BY SpiAssumption DEF Threads
  <2>k. q \in Range(todo[u]) \/ (Held(u) /\ query[u] = q)
    BY DEF Kept
  <2>1. ASSUME NEW t \in Users, Call(t)
        PROVE  q \in Range(todo'[u]) \/ (Held(u)' /\ query'[u] = q)
    <3>1. t = u => q = Head(todo[t]) \/ q \in Range(Tail(todo[t]))
      BY <2>1, <2>k, HeadOrTail DEF Call
    <3> QED BY <2>0, <2>1, <2>k, <3>1 DEF Call
  <2>2. ASSUME NEW t \in Threads, Exchange(t)
        PROVE  q \in Range(todo'[u]) \/ (Held(u)' /\ query'[u] = q)
    BY <2>0, <2>2, <2>k DEF Exchange
  <2>3. ASSUME NEW t \in Threads, Push(t)
        PROVE  q \in Range(todo'[u]) \/ (Held(u)' /\ query'[u] = q) \/ Passed(q)'
    <3>1. Range(Append(pending, query[t])) = Range(pending) \cup {query[t]}
      BY <2>3, AppendOnce DEF Push
    <3> QED BY <2>0, <2>3, <2>k, <3>1 DEF Push, Passed
  <2>4. ASSUME NEW t \in Threads, Execute(t)
        PROVE  q \in Range(todo'[u]) \/ (Held(u)' /\ query'[u] = q) \/ Passed(q)'
    <3>1. Range(Append(sent, query[t])) = Range(sent) \cup {query[t]}
      BY <2>4, AppendOnce DEF Execute
    <3> QED BY <2>0, <2>4, <2>k, <3>1 DEF Execute, Passed
  <2>5. ASSUME Answer \/ Disconnect \/ Clear \/ PopNothing \/ PopNext
                   \/ UNCHANGED vars
        PROVE  q \in Range(todo'[u]) \/ (Held(u)' /\ query'[u] = q)
    BY <2>0, <2>5, <2>k
    DEF Answer, Disconnect, Clear, PopNothing, PopNext, vars
  <2> QED BY <2>1, <2>2, <2>3, <2>4, <2>5 DEF Next, Submit, Complete
<1> QED BY <1>1, <1>2, FlowInvariant, PTL DEF Spec

=============================================================================
