------------------------ MODULE AMQPPublisherProofs ------------------------
(***************************************************************************)
(* Proofs about AMQPPublisher, for any number of workers and connections   *)
(* and every number of attempts.                                           *)
(***************************************************************************)
EXTENDS AMQPPublisher, TLAPS

USE AttemptsAssumption

\* The locals of a goroutine keep their types where it returns.
LEMMA ReturnTypes ==
  ASSUME TypeOK, NEW t \in Threads, Return(t)
  PROVE  /\ at' \in [Threads -> Places]
         /\ held' \in [Threads -> Conns \cup {Nil}]
         /\ tries' \in [Threads -> Nat] /\ \A u \in Threads : tries'[u] < Limit(u)
         /\ second' \in [Threads -> BOOLEAN] /\ resend' \in [Threads -> BOOLEAN]
  BY DEF TypeOK, Places, Limit, Return

\* The same where an attempt fails.
LEMMA AttemptTypes ==
  ASSUME TypeOK, NEW t \in Threads, AttemptFails(t)
  PROVE  /\ at' \in [Threads -> Places]
         /\ held' \in [Threads -> Conns \cup {Nil}]
         /\ tries' \in [Threads -> Nat] /\ \A u \in Threads : tries'[u] < Limit(u)
         /\ second' \in [Threads -> BOOLEAN] /\ resend' \in [Threads -> BOOLEAN]
<1>1. CASE tries[t] + 1 < Limit(t)
  BY <1>1 DEF AttemptFails, TypeOK, Places, Limit
<1>2. CASE ~(tries[t] + 1 < Limit(t)) /\ t = "main"
  BY <1>2 DEF AttemptFails, locals, TypeOK, Places
<1>3. CASE ~(tries[t] + 1 < Limit(t)) /\ t # "main"
  <2>1. Return(t)
    BY <1>3 DEF AttemptFails
  <2> QED
    BY <2>1, ReturnTypes
<1> QED
  BY <1>1, <1>2, <1>3

\* Every step of a goroutine keeps the types.
LEMMA ThreadTypes ==
  ASSUME TypeOK, NEW t \in Threads, Thread(t)
  PROVE  TypeOK'
<1>1. CASE DialSucceeds(t)
  <2>1. PICK c \in Conns : /\ held' = [held EXCEPT ![t] = c]
                           /\ open' = open \cup {c}
    <3>1. (CHOOSE c \in Conns : Fresh(c)) \in Conns
      BY <1>1 DEF DialSucceeds
    <3> QED
      BY <1>1, <3>1 DEF DialSucceeds
  <2> QED
    BY <1>1, <2>1 DEF DialSucceeds, Goto, TypeOK, Places
<1>2. CASE DialFails(t) \/ StoreRefused(t)
  <2>1. /\ AttemptFails(t) /\ UNCHANGED <<conn, closed, ctxDone, brokerUp>>
        /\ open' \subseteq open /\ lost' \subseteq lost
    BY <1>2 DEF DialFails, StoreRefused, network
  <2> QED
    BY <2>1, AttemptTypes DEF TypeOK
<1>3. CASE Register(t)
  BY <1>3 DEF Register, Goto, network, locals, TypeOK, Places
<1>4. CASE Store(t)
  <2>1. at' \in [Threads -> Places]
    BY <1>4 DEF Store, TypeOK, Places
  <2>2. held' \in [Threads -> Conns \cup {Nil}] /\ conn' \in Conns \cup {Nil}
    BY <1>4 DEF Store, TypeOK
  <2>3. tries' \in [Threads -> Nat] /\ \A u \in Threads : tries'[u] < Limit(u)
    BY <1>4 DEF Store, TypeOK, Limit
  <2> QED
    BY <1>4, <2>1, <2>2, <2>3 DEF Store, network, TypeOK
<1>5. CASE MainConnected /\ t = "main"
  BY <1>5, ReturnTypes DEF MainConnected, network, TypeOK
<1>6. CASE ReconnectBegins(t)
  BY <1>6 DEF ReconnectBegins, CloseConn, Goto, locals, TypeOK, Places
<1>7. CASE ReconnectGivesUp(t) \/ PublishReturns(t) \/ PublishGivesUp(t)
  BY <1>7, ReturnTypes DEF ReconnectGivesUp, PublishReturns, PublishGivesUp,
                           network, TypeOK
<1>8. CASE PublishFails(t)
  BY <1>8 DEF PublishFails, Goto, network, TypeOK, Places
<1>9. CASE SecondAttempt(t) \/ TakeAgain(t)
  <2>1. Take(t) /\ UNCHANGED <<conn, closed, network, tries, ctxDone, brokerUp>>
    BY <1>9 DEF SecondAttempt, TakeAgain
  <2>2. second' \in [Threads -> BOOLEAN]
    BY <1>9 DEF SecondAttempt, TakeAgain, TypeOK
  <2> QED
    BY <2>1, <2>2 DEF Take, network, TypeOK, Places
<1>10. CASE HandlerHears(t)
  BY <1>10 DEF HandlerHears, Goto, locals, TypeOK, Places
<1>11. CASE HandlerEnds(t)
  BY <1>11, ReturnTypes DEF HandlerEnds, TypeOK
<1> QED
  BY <1>1, <1>2, <1>3, <1>4, <1>5, <1>6, <1>7, <1>8, <1>9, <1>10, <1>11
     DEF Thread, Connect, Reconnect, Publish, Handler

\* The variables of the publisher keep their types; no goroutine makes more
\* attempts than it may (amqp.go:34-47, 210-221).
THEOREM TypeCorrect == Spec => []TypeOK
<1>1. Init => TypeOK
  <2> SUFFICES ASSUME Init PROVE TypeOK
    OBVIOUS
  <2>1. closed \in BOOLEAN /\ ctxDone \in BOOLEAN /\ brokerUp \in BOOLEAN
    BY Zenon DEF Init
  <2> QED
    BY <2>1 DEF Init, TypeOK, Places, Limit
<1>2. TypeOK /\ [Next]_vars => TypeOK'
  <2> SUFFICES ASSUME TypeOK, [Next]_vars PROVE TypeOK'
    OBVIOUS
  <2>1. ASSUME NEW t \in Threads, Thread(t) PROVE TypeOK'
    BY <2>1, ThreadTypes
  <2>2. ASSUME NEW t \in Callers, PublishBegin(t) PROVE TypeOK'
    <3>1. t \in Threads
      BY DEF Threads
    <3> QED
      BY <2>2, <3>1 DEF PublishBegin, Take, network, TypeOK, Places
  <2>3. CASE Cancel
    BY <2>3 DEF Cancel, network, locals, TypeOK
  <2>4. CASE Close
    BY <2>4 DEF Close, CloseConn, locals, TypeOK
  <2>5. CASE BrokerChanges
    <3>1. brokerUp' \in BOOLEAN
      BY <2>5, Zenon DEF BrokerChanges
    <3> QED
      BY <2>5, <3>1 DEF BrokerChanges, network, locals, TypeOK
  <2>6. ASSUME NEW c \in Conns, Lose(c) PROVE TypeOK'
    <3>1. open' \subseteq Conns /\ lost' \subseteq Conns
      BY <2>6 DEF Lose, TypeOK
    <3> QED
      BY <2>6, <3>1 DEF Lose, locals, TypeOK
  <2>7. CASE UNCHANGED vars
    BY <2>7 DEF vars, network, locals, TypeOK
  <2> QED
    BY <2>1, <2>2, <2>3, <2>4, <2>5, <2>6, <2>7 DEF Next, Broker
<1> QED
  BY <1>1, <1>2, PTL DEF Spec
-----------------------------------------------------------------------------
\* Whoever reconnects, and however many do so while the program closes the
\* publisher, it has no connection afterwards: connect looks at closed under
\* the lock with which it stores (amqp.go:79-85).
THEOREM ClosedIsFinal == Spec => []ClosedForGood
<1>1. Init => ClosedForGood
  BY DEF Init, ClosedForGood
<1>2. ClosedForGood /\ [Next]_vars => ClosedForGood'
  <2> SUFFICES ASSUME ClosedForGood, [Next]_vars PROVE ClosedForGood'
    OBVIOUS
  <2> USE DEF ClosedForGood
  <2>1. ASSUME NEW t \in Threads, Thread(t) PROVE ClosedForGood'
    <3>1. CASE Store(t)
      BY <3>1 DEF Store
    <3>2. CASE ReconnectBegins(t)
      BY <3>2 DEF ReconnectBegins
    <3>3. CASE UNCHANGED <<conn, closed>>
      BY <3>3
    <3> QED
      BY <2>1, <3>1, <3>2, <3>3
         DEF Thread, Connect, DialSucceeds, DialFails, Register, StoreRefused,
             MainConnected, Reconnect, ReconnectGivesUp, Publish, PublishReturns,
             PublishFails, SecondAttempt, TakeAgain, PublishGivesUp, Handler,
             HandlerHears, HandlerEnds
  <2>2. CASE Close
    BY <2>2 DEF Close
  <2>3. CASE \/ \E t \in Callers : PublishBegin(t)
             \/ Cancel \/ Broker \/ UNCHANGED vars
    BY <2>3 DEF PublishBegin, Cancel, Broker, BrokerChanges, Lose, vars
  <2> QED
    BY <2>1, <2>2, <2>3 DEF Next
<1> QED
  BY <1>1, <1>2, PTL DEF Spec
-----------------------------------------------------------------------------
(* Every connection is watched *)

\* A connection that is opened is not stored and has no goroutine yet,
OpeningIsNew ==
  \A t \in Threads :
    Opening(t) => held[t] \in Conns /\ at[held[t]] = "idle" /\ held[t] # conn

\* and one goroutine opens it.
OpeningIsOwned ==
  \A t, u \in Threads : Opening(t) /\ Opening(u) /\ held[t] = held[u] => t = u

\* An error that was delivered is found by the goroutine of the connection.
LostIsHeard == \A c \in lost : c \notin open /\ Registered(c)

WatchInv == ConnectionsWatched /\ OpeningIsNew /\ OpeningIsOwned /\ LostIsHeard

\* A connection in use is not taken for a new one.
LEMMA FreshIsUnused ==
  ASSUME WatchInv, NEW c \in Conns, Fresh(c)
  PROVE  /\ c \notin lost /\ c # conn /\ at[c] = "idle"
         /\ \A t \in Threads : held[t] # c
BY DEF WatchInv, LostIsHeard, Registered, Fresh

\* The end of a call, or of an attempt, leaves the others where they are.
LEMMA ReturnAlone ==
  ASSUME TypeOK, NEW t \in Threads, Return(t) \/ AttemptFails(t)
  PROVE  /\ at'[t] \in {"idle", "dial", "exited"}
         /\ \A u \in Threads : u # t => at'[u] = at[u] /\ held'[u] = held[u]
<1>1. CASE Return(t)
  BY <1>1 DEF Return, TypeOK
<1>2. CASE AttemptFails(t)
  <2>1. CASE tries[t] + 1 < Limit(t)
    BY <1>2, <2>1 DEF AttemptFails, TypeOK
  <2>2. CASE ~(tries[t] + 1 < Limit(t)) /\ t = "main"
    BY <1>2, <2>2 DEF AttemptFails, locals, TypeOK
  <2>3. CASE ~(tries[t] + 1 < Limit(t)) /\ t # "main"
    BY <1>1, <1>2, <2>3 DEF AttemptFails
  <2> QED
    BY <2>1, <2>2, <2>3
<1> QED
  BY <1>1, <1>2

\* A goroutine that neither waits for the connection nor opens it moves.
LEMMA OthersStillThere ==
  ASSUME NEW t \in Threads, NEW c \in Threads, ~Opening(t),
         \A u \in Threads : u # t => at'[u] = at[u] /\ held'[u] = held[u],
         c = t => at[c] # "wait"
  PROVE  /\ at[c] = "wait" => at'[c] = "wait"
         /\ Registered(c) => Registered(c)'
         /\ \A u \in Threads : Opening(u) /\ held[u] = c => Opening(u)' /\ held'[u] = c
<1>1. at[c] = "wait" => at'[c] = "wait"
  OBVIOUS
<1>2. \A u \in Threads : at[u] = "store" /\ held[u] = c
                        => at'[u] = "store" /\ held'[u] = c
  BY DEF Opening
<1>3. \A u \in Threads : Opening(u) /\ held[u] = c => Opening(u)' /\ held'[u] = c
  BY DEF Opening
<1> QED
  BY <1>1, <1>2, <1>3 DEF Registered

\* A step of a goroutine that opens nothing, before or after it, and that waits
\* for no connection that is open.
LEMMA OtherStepKeeps ==
  ASSUME WatchInv, NEW t \in Threads,
         \A u \in Threads : u # t => at'[u] = at[u] /\ held'[u] = held[u],
         ~Opening(t), ~Opening(t)', at[t] # "idle" \/ t \notin Conns,
         at[t] = "wait" => t \notin open' /\ t \notin lost',
         open' \subseteq open, lost' \subseteq lost, conn' = conn \/ conn' \notin Conns,
         open \subseteq Conns, lost \subseteq Conns, Conns \subseteq Threads
  PROVE  WatchInv'
<1>1. \A u \in Threads : Opening(u)' => u # t /\ Opening(u) /\ held'[u] = held[u]
  BY DEF Opening
<1>2. \A u \in Threads : Opening(u) => u # t /\ Opening(u)' /\ held'[u] = held[u]
  BY DEF Opening
<1>3. OpeningIsNew'
  BY <1>1 DEF WatchInv, OpeningIsNew
<1>4. OpeningIsOwned'
  BY <1>1 DEF WatchInv, OpeningIsOwned
<1>5. LostIsHeard'
  <2>1. ASSUME NEW c \in lost' PROVE c \notin open' /\ Registered(c)'
    <3>1. c \in Threads /\ c \notin open /\ Registered(c)
      BY <2>1 DEF WatchInv, LostIsHeard
    <3>2. c = t => at[c] # "wait"
      BY <2>1
    <3> QED
      BY <3>1, <3>2, OthersStillThere
  <2> QED
    BY <2>1 DEF LostIsHeard
<1>6. ConnectionsWatched'
  <2>1. ASSUME NEW c \in open'
        PROVE  at'[c] = "wait" \/ \E u \in Threads : Opening(u)' /\ held'[u] = c
    <3>1. CASE at[c] = "wait"
      BY <2>1, <3>1
    <3>2. CASE \E u \in Threads : Opening(u) /\ held[u] = c
      BY <1>2, <3>2
    <3> QED
      BY <2>1, <3>1, <3>2 DEF WatchInv, ConnectionsWatched
  <2>2. ASSUME conn' \in open' PROVE at'[conn'] = "wait"
    <3>1. conn' = conn /\ conn \in open /\ conn \in Threads
      BY <2>2
    <3>2. at[conn] = "wait"
      BY <3>1 DEF WatchInv, ConnectionsWatched
    <3> QED
      BY <2>2, <3>1, <3>2
  <2> QED
    BY <2>1, <2>2 DEF ConnectionsWatched
<1> QED
  BY <1>3, <1>4, <1>5, <1>6 DEF WatchInv

\* Dial: the connection is one that nobody else refers to.
LEMMA DialKeeps ==
  ASSUME WatchInv, TypeOK, NEW t \in Threads, DialSucceeds(t)
  PROVE  WatchInv'
<1>1. PICK c \in Conns : Fresh(c) /\ held' = [held EXCEPT ![t] = c] /\ open' = open \cup {c}
  BY DEF DialSucceeds
<1>2. /\ c \notin lost /\ c # conn /\ at[c] = "idle"
      /\ \A u \in Threads : held[u] # c
  BY <1>1, FreshIsUnused
<1>3. /\ at[t] = "dial" /\ at'[t] = "register" /\ held'[t] = c
      /\ \A u \in Threads : u # t => at'[u] = at[u] /\ held'[u] = held[u]
      /\ UNCHANGED <<conn, lost>>
  BY <1>1 DEF DialSucceeds, Goto, TypeOK
<1>4. Conns \subseteq Threads
  BY DEF Threads
<1>5. OpeningIsNew'
  <2>1. at'[c] = "idle"
    BY <1>2, <1>3, <1>4
  <2>2. ASSUME NEW u \in Threads, u # t, Opening(u)'
        PROVE  held'[u] \in Conns /\ at'[held'[u]] = "idle" /\ held'[u] # conn'
    <3>1. Opening(u) /\ held'[u] = held[u]
      BY <1>3, <2>2 DEF Opening
    <3>2. held[u] \in Conns /\ at[held[u]] = "idle" /\ held[u] # conn
      BY <3>1 DEF WatchInv, OpeningIsNew
    <3> QED
      BY <1>3, <1>4, <3>1, <3>2
  <2> QED
    BY <1>2, <1>3, <2>1, <2>2 DEF OpeningIsNew
<1>6. OpeningIsOwned'
  BY <1>2, <1>3 DEF WatchInv, OpeningIsOwned, Opening
<1>7. LostIsHeard'
  <2>1. ASSUME NEW d \in lost PROVE d \notin open' /\ Registered(d)'
    <3>1. d \in Threads /\ d \notin open /\ Registered(d)
      BY <2>1 DEF WatchInv, LostIsHeard, TypeOK, Threads
    <3>2. d \notin open'
      BY <1>1, <1>2, <2>1, <3>1
    <3>3. d = t => at[d] # "wait"
      BY <1>3
    <3>4. ~Opening(t)
      BY <1>3 DEF Opening
    <3> QED
      BY <1>3, <3>1, <3>2, <3>3, <3>4, OthersStillThere
  <2> QED
    BY <1>3, <2>1 DEF LostIsHeard
<1>8. ConnectionsWatched'
  <2>1. ASSUME NEW d \in open, d # c
        PROVE  at'[d] = "wait" \/ \E u \in Threads : Opening(u)' /\ held'[u] = d
    <3>1. d \in Threads
      BY <2>1 DEF TypeOK, Threads
    <3>2. at[d] = "wait" \/ \E u \in Threads : Opening(u) /\ held[u] = d
      BY <2>1 DEF WatchInv, ConnectionsWatched
    <3>3. (d = t => at[d] # "wait") /\ ~Opening(t)
      BY <1>3 DEF Opening
    <3> QED
      BY <1>3, <3>1, <3>2, <3>3, OthersStillThere
  <2>2. Opening(t)' /\ held'[t] = c
    BY <1>3 DEF Opening
  <2>3. ASSUME conn' \in open' PROVE at'[conn'] = "wait"
    <3>1. conn' = conn /\ conn \in open
      BY <1>1, <1>2, <1>3, <2>3
    <3>2. conn \in Threads /\ at[conn] = "wait"
      BY <3>1 DEF WatchInv, ConnectionsWatched, TypeOK, Threads
    <3>3. conn # t
      BY <1>3, <3>2
    <3> QED
      BY <1>3, <3>1, <3>2, <3>3
  <2> QED
    BY <1>1, <2>1, <2>2, <2>3 DEF ConnectionsWatched
<1> QED
  BY <1>5, <1>6, <1>7, <1>8 DEF WatchInv

\* NotifyClose.
LEMMA RegisterKeeps ==
  ASSUME WatchInv, TypeOK, NEW t \in Threads, Register(t)
  PROVE  WatchInv'
<1>1. /\ at[t] = "register" /\ at'[t] = "store"
      /\ \A u \in Threads : u # t => at'[u] = at[u]
      /\ UNCHANGED <<conn, held, open, lost>>
  BY DEF Register, Goto, network, locals, TypeOK
<1>2. \A u \in Threads : Opening(u)' <=> Opening(u)
  BY <1>1 DEF Opening
<1>3. \A c \in Conns : (at'[c] = "idle" <=> at[c] = "idle") /\ (at'[c] = "wait" <=> at[c] = "wait")
  BY <1>1 DEF Threads
<1>4. OpeningIsNew' /\ OpeningIsOwned'
  BY <1>1, <1>2, <1>3 DEF WatchInv, OpeningIsNew, OpeningIsOwned
<1>5. LostIsHeard'
  BY <1>1, <1>3 DEF WatchInv, LostIsHeard, Registered, TypeOK
<1>6. ConnectionsWatched'
  BY <1>1, <1>2, <1>3 DEF WatchInv, ConnectionsWatched, TypeOK
<1> QED
  BY <1>4, <1>5, <1>6 DEF WatchInv

\* The connection is stored, and its goroutine is started, which did not run yet.
LEMMA StoreKeeps ==
  ASSUME WatchInv, TypeOK, NEW t \in Threads, Store(t)
  PROVE  WatchInv'
<1> DEFINE c == held[t]
<1>1. at[t] = "store" /\ c \in Conns /\ at[c] = "idle" /\ c # conn /\ c # t
  BY DEF Store, WatchInv, OpeningIsNew, Opening
<1>2. c \in Threads
  BY <1>1 DEF Threads
<1>3. /\ at'[t] = "connected" /\ at'[c] = "wait" /\ conn' = c
      /\ \A u \in Threads : u # t => held'[u] = held[u]
      /\ \A u \in Threads : u # t /\ u # c => at'[u] = at[u]
      /\ UNCHANGED <<open, lost>>
  BY <1>1, <1>2 DEF Store, network, TypeOK
<1>4. \A u \in Threads : Opening(u) /\ u # t => held[u] # c
  BY <1>1 DEF WatchInv, OpeningIsOwned, Opening
<1>5. \A u \in Threads : /\ Opening(u)' => u # t /\ Opening(u)
                         /\ Opening(u) /\ u # t => Opening(u)'
  BY <1>1, <1>3 DEF Opening
<1> HIDE DEF c
<1>6. OpeningIsNew'
  <2>1. ASSUME NEW u \in Threads, Opening(u)'
        PROVE  held'[u] \in Conns /\ at'[held'[u]] = "idle" /\ held'[u] # conn'
    <3>1. u # t /\ held'[u] = held[u] /\ held[u] # c
      BY <1>3, <1>4, <1>5, <2>1
    <3>2. held[u] \in Conns /\ at[held[u]] = "idle"
      BY <1>5, <2>1 DEF WatchInv, OpeningIsNew
    <3>3. held[u] # t /\ held[u] \in Threads
      BY <1>1, <3>2 DEF Threads
    <3> QED
      BY <1>3, <3>1, <3>2, <3>3
  <2> QED
    BY <2>1 DEF OpeningIsNew
<1>7. OpeningIsOwned'
  BY <1>3, <1>5 DEF WatchInv, OpeningIsOwned
<1>8. LostIsHeard'
  <2>1. ASSUME NEW d \in lost PROVE Registered(d)'
    <3>1. d \in Threads /\ Registered(d)
      BY <2>1 DEF WatchInv, LostIsHeard, TypeOK, Threads
    <3>2. CASE at[d] = "wait"
      BY <1>1, <1>3, <3>1, <3>2 DEF Registered
    <3>3. ASSUME NEW u \in Threads, at[u] = "store", held[u] = d
          PROVE  Registered(d)'
      <4>1. CASE u = t
        BY <1>3, <3>3, <4>1 DEF Registered, c
      <4>2. CASE u # t
        <5>1. at'[u] = "store" /\ held'[u] = d
          BY <1>1, <1>3, <3>3, <4>2
        <5> QED
          BY <5>1 DEF Registered
      <4> QED
        BY <4>1, <4>2
    <3> QED
      BY <3>1, <3>2, <3>3 DEF Registered
  <2> QED
    BY <1>3, <2>1 DEF WatchInv, LostIsHeard
<1>9. ConnectionsWatched'
  <2>1. ASSUME NEW d \in open
        PROVE  at'[d] = "wait" \/ \E u \in Threads : Opening(u)' /\ held'[u] = d
    <3>1. d \in Threads
      BY <2>1 DEF TypeOK, Threads
    <3>2. CASE at[d] = "wait"
      BY <1>1, <1>3, <3>1, <3>2
    <3>3. ASSUME NEW u \in Threads, Opening(u), held[u] = d
          PROVE  at'[d] = "wait" \/ \E v \in Threads : Opening(v)' /\ held'[v] = d
      BY <1>3, <1>5, <3>3 DEF c
    <3> QED
      BY <2>1, <3>2, <3>3 DEF WatchInv, ConnectionsWatched
  <2> QED
    BY <1>3, <2>1 DEF ConnectionsWatched
<1> QED
  BY <1>6, <1>7, <1>8, <1>9 DEF WatchInv

\* A publisher that was closed meanwhile refuses the connection, which is closed.
LEMMA RefusalKeeps ==
  ASSUME WatchInv, TypeOK, NEW t \in Threads, StoreRefused(t)
  PROVE  WatchInv'
<1> DEFINE c == held[t]
<1>1. at[t] = "store" /\ AttemptFails(t) /\ conn' = conn
      /\ open' = open \ {c} /\ lost' = lost \ {c}
  BY DEF StoreRefused
<1>2. /\ at'[t] \in {"idle", "dial", "exited"}
      /\ \A u \in Threads : u # t => at'[u] = at[u] /\ held'[u] = held[u]
  BY <1>1, ReturnAlone
<1>3. \A u \in Threads : /\ Opening(u)' => u # t /\ Opening(u)
                         /\ Opening(u) /\ u # t => Opening(u)'
  BY <1>2 DEF Opening
<1> HIDE DEF c
<1>4. OpeningIsNew'
  <2>1. ASSUME NEW u \in Threads, Opening(u)'
        PROVE  held'[u] \in Conns /\ at'[held'[u]] = "idle" /\ held'[u] # conn'
    <3>1. held'[u] = held[u] /\ Opening(u)
      BY <1>2, <1>3, <2>1
    <3>2. held[u] \in Conns /\ at[held[u]] = "idle" /\ held[u] # conn
      BY <3>1 DEF WatchInv, OpeningIsNew
    <3>3. held[u] # t /\ held[u] \in Threads
      BY <1>1, <3>2 DEF Threads
    <3> QED
      BY <1>1, <1>2, <3>1, <3>2, <3>3
  <2> QED
    BY <2>1 DEF OpeningIsNew
<1>5. OpeningIsOwned'
  BY <1>2, <1>3 DEF WatchInv, OpeningIsOwned
<1>6. ASSUME NEW d \in Threads, d # c
      PROVE  /\ at[d] = "wait" => at'[d] = "wait"
             /\ Registered(d) => Registered(d)'
             /\ \A u \in Threads : Opening(u) /\ held[u] = d => Opening(u)' /\ held'[u] = d
  <2>1. at[d] = "wait" => at'[d] = "wait"
    BY <1>1, <1>2
  <2>2. \A u \in Threads : Opening(u) /\ held[u] = d => Opening(u)' /\ held'[u] = d
    BY <1>2, <1>3, <1>6 DEF c
  <2>3. \A u \in Threads : at[u] = "store" /\ held[u] = d => at'[u] = "store" /\ held'[u] = d
    BY <1>2, <1>6 DEF c
  <2> QED
    BY <2>1, <2>2, <2>3 DEF Registered
<1>7. LostIsHeard'
  <2>1. ASSUME NEW d \in lost' PROVE d \notin open' /\ Registered(d)'
    <3>1. d \in Threads /\ d # c /\ d \notin open /\ Registered(d)
      BY <1>1, <2>1 DEF WatchInv, LostIsHeard, TypeOK, Threads
    <3> QED
      BY <1>1, <1>6, <3>1
  <2> QED
    BY <2>1 DEF LostIsHeard
<1>8. ConnectionsWatched'
  <2>1. ASSUME NEW d \in open'
        PROVE  /\ at'[d] = "wait" \/ \E u \in Threads : Opening(u)' /\ held'[u] = d
               /\ d = conn' => at'[d] = "wait"
    <3>1. d \in Threads /\ d # c
      BY <1>1, <2>1 DEF TypeOK, Threads
    <3>2. /\ at[d] = "wait" \/ \E u \in Threads : Opening(u) /\ held[u] = d
          /\ d = conn => at[d] = "wait"
      BY <1>1, <2>1 DEF WatchInv, ConnectionsWatched
    <3> QED
      BY <1>1, <1>6, <3>1, <3>2
  <2> QED
    BY <2>1 DEF ConnectionsWatched
<1> QED
  BY <1>4, <1>5, <1>7, <1>8 DEF WatchInv

\* The other steps of the goroutines: none opens a connection or leaves one that
\* it waits for while it is open.
LEMMA GoroutineKeeps ==
  ASSUME WatchInv, TypeOK, NEW t \in Threads,
         Thread(t) \/ (t \in Callers /\ PublishBegin(t))
  PROVE  WatchInv'
<1>0. open \subseteq Conns /\ lost \subseteq Conns /\ Conns \subseteq Threads
      /\ Nil \notin Conns
  BY NilAssumption DEF TypeOK, Threads, NilAssumption
<1>1. CASE DialFails(t) \/ (t = "main" /\ MainConnected) \/ ReconnectGivesUp(t)
           \/ PublishReturns(t) \/ PublishGivesUp(t)
  <2>1. /\ Return(t) \/ AttemptFails(t)
        /\ at[t] \in {"dial", "connected", "reconnect", "send"}
        /\ UNCHANGED <<conn, open, lost>>
    BY <1>1 DEF DialFails, MainConnected, ReconnectGivesUp, PublishReturns,
                PublishGivesUp, network
  <2>2. at'[t] \in {"idle", "dial", "exited"}
        /\ \A u \in Threads : u # t => at'[u] = at[u] /\ held'[u] = held[u]
    BY <2>1, ReturnAlone
  <2> QED
    BY <1>0, <2>1, <2>2, OtherStepKeeps DEF Opening
<1>2. CASE ReconnectBegins(t)
  <2>1. /\ at[t] = "reconnect" /\ at'[t] = "dial" /\ conn' = Nil
        /\ \A u \in Threads : u # t => at'[u] = at[u]
        /\ held' = held /\ lost' = lost /\ open' \subseteq open
    BY <1>2 DEF ReconnectBegins, Goto, CloseConn, locals, TypeOK
  <2> QED
    BY <1>0, <2>1, OtherStepKeeps DEF Opening
<1>3. CASE PublishFails(t)
  <2>1. /\ at[t] = "send" /\ at'[t] = "reconnect"
        /\ \A u \in Threads : u # t => at'[u] = at[u] /\ held'[u] = held[u]
        /\ UNCHANGED <<conn, open, lost>>
    BY <1>3 DEF PublishFails, Goto, network, TypeOK
  <2> QED
    BY <1>0, <2>1, OtherStepKeeps DEF Opening
<1>4. CASE SecondAttempt(t) \/ TakeAgain(t) \/ (t \in Callers /\ PublishBegin(t))
  <2>1. /\ at[t] \in {"connected", "idle"}
        /\ at[t] = "idle" => t \in Callers
        /\ Take(t) /\ UNCHANGED <<conn, open, lost>>
    BY <1>4 DEF SecondAttempt, TakeAgain, PublishBegin, network
  <2>2. /\ at'[t] \in {"send", "reconnect"}
        /\ \A u \in Threads : u # t => at'[u] = at[u] /\ held'[u] = held[u]
    BY <2>1 DEF Take, TypeOK
  <2>3. at[t] # "idle" \/ t \notin Conns
    BY <2>1, ThreadsAssumption DEF ThreadsAssumption
  <2> QED
    BY <1>0, <2>1, <2>2, <2>3, OtherStepKeeps DEF Opening
<1>5. CASE HandlerHears(t)
  <2>1. /\ at[t] = "wait" /\ at'[t] = "reconnect" /\ t \in lost
        /\ \A u \in Threads : u # t => at'[u] = at[u]
        /\ UNCHANGED <<conn, open, held>> /\ lost' = lost \ {t}
    BY <1>5 DEF HandlerHears, Goto, locals, TypeOK
  <2>2. t \notin open
    BY <2>1 DEF WatchInv, LostIsHeard
  <2> QED
    BY <1>0, <2>1, <2>2, OtherStepKeeps DEF Opening
<1>6. CASE HandlerEnds(t)
  <2>1. /\ at[t] \in {"wait", "connected"}
        /\ at[t] = "wait" => t \notin open
        /\ Return(t) /\ UNCHANGED <<conn, open>> /\ lost' = lost \ {t}
    BY <1>6 DEF HandlerEnds
  <2>2. at'[t] \in {"idle", "dial", "exited"}
        /\ \A u \in Threads : u # t => at'[u] = at[u] /\ held'[u] = held[u]
    BY <2>1, ReturnAlone
  <2> QED
    BY <1>0, <2>1, <2>2, OtherStepKeeps DEF Opening
<1> QED
  BY <1>1, <1>2, <1>3, <1>4, <1>5, <1>6, DialKeeps, RegisterKeeps, StoreKeeps,
     RefusalKeeps
     DEF Thread, Connect, Reconnect, Publish, Handler

\* A connection that is closed or lost needs no goroutine; that of a lost one is
\* told only if it listens.
LEMMA ConnectionGone ==
  ASSUME WatchInv, UNCHANGED <<at, held>>, open' \subseteq open,
         conn' = conn \/ conn' \notin Conns, open \subseteq Conns,
         \A c \in lost' : c \notin open' /\ (c \in lost \/ Registered(c)),
         \A t \in Threads : Opening(t) => held[t] # conn'
  PROVE  WatchInv'
<1>1. \A t : Opening(t)' <=> Opening(t)
  BY DEF Opening
<1>2. \A c : Registered(c)' <=> Registered(c)
  BY DEF Registered
<1>3. OpeningIsNew' /\ OpeningIsOwned'
  BY <1>1 DEF WatchInv, OpeningIsNew, OpeningIsOwned
<1>4. LostIsHeard'
  BY <1>2 DEF WatchInv, LostIsHeard
<1>5. ConnectionsWatched'
  BY <1>1 DEF WatchInv, ConnectionsWatched
<1> QED
  BY <1>3, <1>4, <1>5 DEF WatchInv

\* Every open connection of the publisher is watched, however many goroutines
\* reconnect at the same time and replace what the others have stored: none is left
\* without the goroutine that hears its loss, and the stored one has it already
\* (amqp.go:77-91, 240-254).
THEOREM EveryConnectionIsWatched == Spec => []ConnectionsWatched
<1>1. Init => WatchInv
  <2> SUFFICES ASSUME Init PROVE WatchInv
    OBVIOUS
  <2>1. open = {} /\ lost = {} /\ \A t \in Threads : ~Opening(t)
    BY DEF Init, Opening
  <2> QED
    BY <2>1 DEF WatchInv, ConnectionsWatched, OpeningIsNew, OpeningIsOwned, LostIsHeard
<1>2. WatchInv /\ TypeOK /\ [Next]_vars => WatchInv'
  <2> SUFFICES ASSUME WatchInv, TypeOK, [Next]_vars PROVE WatchInv'
    OBVIOUS
  <2>0. open \subseteq Conns /\ Nil \notin Conns
    BY NilAssumption DEF TypeOK, NilAssumption
  <2>1. ASSUME NEW t \in Threads, Thread(t) PROVE WatchInv'
    BY <2>1, GoroutineKeeps
  <2>2. ASSUME NEW t \in Callers, PublishBegin(t) PROVE WatchInv'
    BY <2>2, GoroutineKeeps DEF Threads
  <2>3. CASE Close
    <3>1. /\ UNCHANGED <<at, held, lost>> /\ open' \subseteq open /\ conn' = Nil
      BY <2>3 DEF Close, CloseConn, locals
    <3>2. \A c \in lost' : c \notin open' /\ c \in lost
      BY <3>1 DEF WatchInv, LostIsHeard
    <3>3. \A t \in Threads : Opening(t) => held[t] # conn'
      BY <2>0, <3>1 DEF WatchInv, OpeningIsNew
    <3> QED
      BY <2>0, <3>1, <3>2, <3>3, ConnectionGone
  <2>4. ASSUME NEW c \in Conns, Lose(c) PROVE WatchInv'
    <3>1. /\ UNCHANGED <<at, held, conn>> /\ open' = open \ {c}
          /\ lost' \subseteq lost \cup {c}
          /\ c \in lost' => c \in lost \/ Registered(c)
      BY <2>4 DEF Lose, locals
    <3>2. \A d \in lost' : d \notin open' /\ (d \in lost \/ Registered(d))
      BY <3>1 DEF WatchInv, LostIsHeard
    <3>3. \A t \in Threads : Opening(t) => held[t] # conn'
      BY <3>1 DEF WatchInv, OpeningIsNew
    <3> QED
      BY <2>0, <3>1, <3>2, <3>3, ConnectionGone
  <2>5. CASE Cancel \/ BrokerChanges \/ UNCHANGED vars
    <3>1. UNCHANGED <<at, held, conn, open, lost>>
      BY <2>5 DEF Cancel, BrokerChanges, vars, network, locals
    <3>2. \A d \in lost' : d \notin open' /\ d \in lost
      BY <3>1 DEF WatchInv, LostIsHeard
    <3>3. \A t \in Threads : Opening(t) => held[t] # conn'
      BY <3>1 DEF WatchInv, OpeningIsNew
    <3> QED
      BY <2>0, <3>1, <3>2, <3>3, ConnectionGone
  <2> QED
    BY <2>1, <2>2, <2>3, <2>4, <2>5 DEF Next, Broker
<1>3. WatchInv => ConnectionsWatched
  BY DEF WatchInv
<1> QED
  BY <1>1, <1>2, <1>3, TypeCorrect, PTL DEF Spec
=============================================================================
