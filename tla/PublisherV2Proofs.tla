-------------------------- MODULE PublisherV2Proofs --------------------------
(***************************************************************************)
(* Proofs about PublisherV2, for every set of connections, every number of *)
(* goroutines that failed Publish calls start, and every retry limit.      *)
(***************************************************************************)
EXTENDS PublisherV2, TLAPS

USE NilAssumption, MaxRetriesAssumption, HelpersAssumption

\* The part of the type invariant that the flags and the places need.
PlacesOK == /\ at \in [Threads -> Places]
            /\ reconnecting \in BOOLEAN

\* No goroutine but the one of main runs at first.
LEMMA InitPlaces == Init => PlacesOK
<1> USE DEF Init, PlacesOK, Threads, Places, Inside, Loop
<1>1. ASSUME Init PROVE at \in [Threads -> Places]
  BY <1>1
<1>2. ASSUME Init PROVE reconnecting \in BOOLEAN
  BY <1>2, Zenon
<1> QED
  BY <1>1, <1>2

\* While NewPublisher has not returned, no other goroutine of the publisher
\* runs and no call to Publish is in progress.
Startup ==
  at["main"] # "idle" => /\ publish = "idle"
                         /\ \A t \in Reconnectors : at[t] = "idle"

ReconnectInv == PlacesOK /\ Startup /\ OneReconnect

\* A goroutine that neither enters nor leaves the part of reconnect that the
\* flag guards keeps the invariant.
LEMMA MoveKeeps ==
  ASSUME ReconnectInv, NEW t \in Threads, NEW from \in Places, NEW to \in Places,
         Goto(t, from, to), from # "idle",
         t = "main" => to # "idle",
         t # "main" => (from \in Inside <=> to \in Inside),
         reconnecting' = reconnecting, publish' = publish
  PROVE  ReconnectInv'
<1>1. PlacesOK'
  BY DEF ReconnectInv, PlacesOK, Goto
<1>2. \A u \in Threads : u # t => at'[u] = at[u]
  BY DEF ReconnectInv, PlacesOK, Goto
<1>3. at'[t] = to /\ at[t] = from
  BY DEF ReconnectInv, PlacesOK, Goto
<1>4. Startup'
  <2>1. CASE t = "main"
    BY <1>2, <1>3, <2>1 DEF Startup, ReconnectInv, Reconnectors
  <2>2. CASE t # "main"
    BY <1>2, <1>3, <2>2 DEF Startup, ReconnectInv, Reconnectors, Threads
  <2> QED
    BY <2>1, <2>2
<1>5. InReconnect' = InReconnect
  BY <1>2, <1>3 DEF InReconnect, Reconnectors
<1> QED
  BY <1>1, <1>4, <1>5 DEF ReconnectInv, OneReconnect

\* So do the steps of connect,
LEMMA ConnectKeeps ==
  ASSUME ReconnectInv, NEW t \in Threads, Connect(t) \/ MarkConnected(t)
  PROVE  ReconnectInv'
<1> USE DEF publishVars, flags, Places, Inside, Loop
<1>1. CASE DialSucceeds(t)
  BY <1>1, MoveKeeps DEF DialSucceeds
<1>2. CASE DialFails(t)
  BY <1>2, MoveKeeps DEF DialFails
<1>3. CASE ChannelSucceeds(t)
  BY <1>3, MoveKeeps DEF ChannelSucceeds
<1>4. CASE ChannelFails(t)
  BY <1>4, MoveKeeps DEF ChannelFails
<1>5. CASE SetupSucceeds(t)
  BY <1>5, MoveKeeps DEF SetupSucceeds
<1>6. CASE SetupFails(t)
  BY <1>6, MoveKeeps DEF SetupFails
<1>7. CASE Register(t)
  BY <1>7, MoveKeeps DEF Register
<1>8. CASE MarkConnected(t)
  BY <1>8, MoveKeeps DEF MarkConnected
<1> QED
  BY <1>1, <1>2, <1>3, <1>4, <1>5, <1>6, <1>7, <1>8 DEF Connect

\* the start of the monitor,
LEMMA StartKeeps == ASSUME ReconnectInv, Start PROVE ReconnectInv'
<1>1. CASE RetryStart
  <2> DEFINE to == IF retries + 1 < MaxRetries THEN "dial" ELSE "exited"
  <2>1. to \in Places /\ to # "idle" /\ "failed" \in Places /\ "main" \in Threads
    BY DEF Places, Inside, Loop, Threads
  <2>2. Goto("main", "failed", to) /\ reconnecting' = reconnecting /\ publish' = publish
    BY <1>1 DEF RetryStart, flags, publishVars
  <2> HIDE DEF to
  <2> QED
    BY <2>1, <2>2, MoveKeeps
<1>2. CASE StartMonitor
  <2> USE DEF StartMonitor, ReconnectInv
  <2>1. \A t \in Reconnectors : at[t] = "idle"
    BY <1>2 DEF Startup
  <2>2. PlacesOK'
    BY <1>2 DEF PlacesOK, flags, Places, Inside, Loop
  <2>3. at'["main"] = "idle"
    BY <1>2 DEF PlacesOK, Threads
  <2>4. \A t \in Reconnectors : at'[t] \in {"idle", "select"}
    BY <1>2, <2>1 DEF PlacesOK, Threads, Reconnectors
  <2>5. InReconnect = {} /\ InReconnect' = {}
    BY <2>1, <2>4 DEF InReconnect, Inside, Loop
  <2> QED
    BY <1>2, <2>2, <2>3, <2>5 DEF Startup, OneReconnect, flags
<1> QED
  BY <1>1, <1>2 DEF Start

\* the steps of reconnect, which set and clear the flag,
LEMMA ReconnectKeeps ==
  ASSUME ReconnectInv, NEW t \in Reconnectors, Reconnect(t)
  PROVE  ReconnectInv'
<1> USE DEF publishVars, flags, Places, Inside, Loop, Reconnectors, Return
<1>1. CASE Enter(t)
  <2> USE DEF Enter, ReconnectInv
  <2>1. PlacesOK' /\ reconnecting'
    BY <1>1 DEF PlacesOK, Goto
  <2>2. \A u \in Threads : u # t => at'[u] = at[u]
    BY <1>1 DEF PlacesOK, Goto
  <2>3. at'[t] = "loop" /\ at[t] = "enter"
    BY <1>1 DEF PlacesOK, Goto
  <2>4. InReconnect' = {t}
    BY <1>1, <2>2, <2>3 DEF OneReconnect, InReconnect
  <2>5. Startup'
    BY <1>1, <2>2, <2>3 DEF Startup, Threads
  <2> QED
    BY <2>1, <2>4, <2>5 DEF OneReconnect
<1>2. CASE EnterRefused(t)
  BY <1>2, MoveKeeps DEF EnterRefused
<1>3. CASE CloseOld(t)
  BY <1>3, MoveKeeps DEF CloseOld
<1>4. CASE GiveUp(t)
  BY <1>4, MoveKeeps DEF GiveUp
<1>5. CASE RetryReconnect(t)
  BY <1>5, MoveKeeps DEF RetryReconnect
<1>6. CASE Leave(t)
  <2> USE DEF Leave, ReconnectInv
  <2>1. PlacesOK' /\ ~reconnecting'
    BY <1>6 DEF PlacesOK, Goto
  <2>2. \A u \in Threads : u # t => at'[u] = at[u]
    BY <1>6 DEF PlacesOK, Goto
  <2>3. at'[t] \in {"idle", "select"} /\ at[t] = "leave"
    BY <1>6 DEF PlacesOK, Goto
  <2>4. InReconnect' = {}
    BY <2>2, <2>3 DEF OneReconnect, InReconnect
  <2>5. Startup'
    BY <1>6, <2>2, <2>3 DEF Startup, Threads
  <2> QED
    BY <2>1, <2>4, <2>5 DEF OneReconnect
<1> QED
  BY <1>1, <1>2, <1>3, <1>4, <1>5, <1>6 DEF Reconnect

\* the steps of the monitor,
LEMMA MonitorKeeps == ASSUME ReconnectInv, Monitor PROVE ReconnectInv'
<1> USE DEF publishVars, flags, Places, Inside, Loop, Threads
<1>1. CASE MonitorHears
  BY <1>1, MoveKeeps DEF MonitorHears
<1>2. CASE MonitorLooksAgain
  BY <1>2 DEF MonitorLooksAgain, ReconnectInv, PlacesOK, Startup, OneReconnect,
              InReconnect
<1>3. CASE MonitorDisconnects
  BY <1>3, MoveKeeps DEF MonitorDisconnects
<1>4. CASE MonitorExits
  BY <1>4, MoveKeeps DEF MonitorExits
<1> QED
  BY <1>1, <1>2, <1>3, <1>4 DEF Monitor

\* and those of Publish, which starts a goroutine.
LEMMA PublishKeeps == ASSUME ReconnectInv, Publish PROVE ReconnectInv'
<1> USE DEF publishVars, flags, ReconnectInv
<1>1. CASE PublishFails
  <2>1. PICK h \in Helpers : Goto(h, "idle", "enter")
    BY <1>1 DEF PublishFails
  <2>2. h \in Reconnectors
    BY DEF Reconnectors, Threads
  <2>3. PlacesOK'
    BY <1>1, <2>1 DEF PublishFails, PlacesOK, Goto, Places, Inside, Loop
  <2>4. at'["main"] = "idle"
    BY <1>1, <2>1, <2>2 DEF PublishFails, Startup, PlacesOK, Goto, Reconnectors, Threads
  <2>5. InReconnect' = InReconnect
    <3>1. \A u \in Threads : u # h => at'[u] = at[u]
      BY <2>1 DEF PlacesOK, Goto
    <3>2. at'[h] = "enter" /\ at[h] = "idle"
      BY <2>1, <2>2 DEF PlacesOK, Goto, Reconnectors
    <3> QED
      BY <3>1, <3>2 DEF InReconnect, Reconnectors, Inside, Loop
  <2> QED
    BY <1>1, <2>3, <2>4, <2>5 DEF PublishFails, Startup, OneReconnect
<1>2. CASE PublishBegin \/ PublishSucceeds \/ PublishPanics
  <2>1. /\ UNCHANGED <<at, reconnecting>>
        /\ publish' \in {publish, "idle"} \/ at["main"] = "idle"
    BY <1>2 DEF PublishBegin, PublishSucceeds, PublishPanics
  <2> QED
    BY <2>1 DEF PlacesOK, Startup, OneReconnect, InReconnect
<1> QED
  BY <1>1, <1>2 DEF Publish

\* Every step keeps the flag exact.
LEMMA ReconnectInvPreserved ==
  ASSUME ReconnectInv, [Next]_vars
  PROVE  ReconnectInv'
<1>1. ASSUME NEW t \in Threads, Thread(t) PROVE ReconnectInv'
  BY <1>1, ConnectKeeps, StartKeeps, ReconnectKeeps, MonitorKeeps
     DEF Thread, Reconnectors
<1>2. CASE Publish
  BY <1>2, PublishKeeps
<1>3. CASE UNCHANGED <<at, reconnecting, publish>>
  BY <1>3 DEF ReconnectInv, PlacesOK, Startup, OneReconnect, InReconnect
<1>4. CASE Close \/ Broker \/ UNCHANGED vars
  BY <1>3, <1>4 DEF Close, Broker, LoseConnection, LoseChannel, BrokerChanges, vars,
                    flags, publishVars
<1> QED
  BY <1>1, <1>2, <1>4 DEF Next

\* The invariant holds in every run.
LEMMA ReconnectInvCorrect == Spec => []ReconnectInv
<1>1. Init => ReconnectInv
  <2> SUFFICES ASSUME Init PROVE ReconnectInv
    OBVIOUS
  <2>1. \A t \in Reconnectors : at[t] = "idle"
    BY DEF Init, Reconnectors, Threads
  <2>2. InReconnect = {} /\ ~reconnecting /\ publish = "idle"
    BY <2>1 DEF Init, InReconnect, Inside, Loop
  <2> QED
    BY <2>1, <2>2, InitPlaces DEF ReconnectInv, Startup, OneReconnect
<1>2. ReconnectInv /\ [Next]_vars => ReconnectInv'
  BY ReconnectInvPreserved
<1> QED
  BY <1>1, <1>2, PTL DEF Spec

\* At most one goroutine replaces conn, channel and notifyClose at a time, and
\* reconnecting is set exactly while one does (publisher.go:213-225).
THEOREM ReconnectIsExclusive == Spec => []OneReconnect
<1>1. ReconnectInv => OneReconnect
  BY DEF ReconnectInv
<1> QED
  BY <1>1, ReconnectInvCorrect, PTL
-----------------------------------------------------------------------------
(* Types *)

Pointers == {conn, channel, notifyClose, watch, captured} \subseteq Conns \cup {Nil}

Network == /\ link \in [Conns -> {"closed", "open", "usable"}]
           /\ event \in [Conns -> {"none", "armed", "error", "ended"}]

\* The connections that the fields name exist.
LEMMA PointersPreserved == ASSUME Pointers, [Next]_vars PROVE Pointers'
<1> USE DEF Pointers, fields, publishVars
<1>1. ASSUME NEW t \in Threads, Connect(t) PROVE Pointers'
  <2>1. CASE DialSucceeds(t)
    <3>1. (CHOOSE c \in Conns : Fresh(c)) \in Conns
      BY <2>1 DEF DialSucceeds
    <3> QED
      BY <2>1, <3>1 DEF DialSucceeds
  <2>2. CASE DialFails(t) \/ ChannelFails(t)
    BY <2>2 DEF DialFails, ChannelFails
  <2>3. CASE ChannelSucceeds(t) \/ SetupSucceeds(t) \/ SetupFails(t) \/ Register(t)
    BY <2>3 DEF ChannelSucceeds, SetupSucceeds, SetupFails, Register
  <2> QED
    BY <1>1, <2>1, <2>2, <2>3 DEF Connect
<1>2. ASSUME NEW t \in Threads, MarkConnected(t) \/ Reconnect(t) PROVE Pointers'
  BY <1>2 DEF MarkConnected, Reconnect, Enter, EnterRefused, CloseOld, GiveUp,
              RetryReconnect, Leave, WatchAgain
<1>3. CASE Start \/ Monitor
  BY <1>3 DEF Start, RetryStart, StartMonitor, Monitor, MonitorHears,
              MonitorLooksAgain, MonitorDisconnects, MonitorExits
<1>4. CASE Publish
  BY <1>4 DEF Publish, PublishBegin, PublishSucceeds, PublishFails, PublishPanics
<1>5. CASE Close \/ Broker \/ UNCHANGED vars
  BY <1>5 DEF Close, Broker, LoseConnection, LoseChannel, BrokerChanges, vars
<1> QED
  BY <1>1, <1>2, <1>3, <1>4, <1>5 DEF Next, Thread

\* Closing a connection changes its state and what its listener finds.
LEMMA CloseConnTypes ==
  ASSUME Network, NEW c \in Conns \cup {Nil}, CloseConn(c)
  PROVE  Network'
<1>1. CASE c = Nil
  BY <1>1 DEF CloseConn, Network, network
<1>2. CASE c \in Conns
  BY <1>2 DEF CloseConn, Network
<1> QED
  BY <1>1, <1>2

\* Every step leaves each connection in a state that it can have.
LEMMA NetworkPreserved ==
  ASSUME Network, Pointers, [Next]_vars
  PROVE  Network'
<1>0. conn \in Conns \cup {Nil} /\ watch \in Conns \cup {Nil}
  BY DEF Pointers
<1>1. ASSUME NEW t \in Threads, Connect(t) PROVE Network'
  <2>1. CASE DialSucceeds(t)
    <3>1. conn' \in Conns
      BY <2>1 DEF DialSucceeds
    <3> QED
      BY <2>1, <3>1 DEF DialSucceeds, Network
  <2>2. CASE ChannelFails(t) \/ SetupFails(t)
    BY <1>0, <2>2, CloseConnTypes DEF ChannelFails, SetupFails
  <2>3. CASE ChannelSucceeds(t) \/ DialFails(t) \/ SetupSucceeds(t)
    BY <2>3 DEF ChannelSucceeds, DialFails, SetupSucceeds, Network, network
  <2>4. CASE Register(t)
    BY <2>4 DEF Register, Network
  <2> QED
    BY <1>1, <2>1, <2>2, <2>3, <2>4 DEF Connect
<1>2. ASSUME NEW t \in Threads, MarkConnected(t) \/ Reconnect(t) PROVE Network'
  <2>1. CASE CloseOld(t)
    BY <1>0, <2>1, CloseConnTypes DEF CloseOld
  <2>2. CASE UNCHANGED network
    BY <2>2 DEF network, Network
  <2> QED
    BY <1>2, <2>1, <2>2 DEF MarkConnected, Reconnect, Enter, EnterRefused, GiveUp,
                            RetryReconnect, Leave
<1>3. CASE Start \/ Monitor \/ Publish
  <2>1. CASE MonitorHears
    BY <2>1 DEF MonitorHears, Network
  <2>2. CASE UNCHANGED network
    BY <2>2 DEF network, Network
  <2> QED
    BY <1>3, <2>1, <2>2
       DEF Start, RetryStart, StartMonitor, Monitor, MonitorLooksAgain,
           MonitorDisconnects, MonitorExits, Publish, PublishBegin,
           PublishSucceeds, PublishFails, PublishPanics
<1>4. CASE Close
  BY <1>0, <1>4, CloseConnTypes DEF Close
<1>5. CASE Broker \/ UNCHANGED vars
  BY <1>5 DEF Broker, LoseConnection, LoseChannel, BrokerChanges, vars, network, Network
<1> QED
  BY <1>1, <1>2, <1>3, <1>4, <1>5 DEF Next, Thread

Rest == /\ connected \in BOOLEAN /\ done \in BOOLEAN /\ panicked \in BOOLEAN
        /\ brokerUp \in BOOLEAN
        /\ retries \in 0 .. MaxRetries
        /\ publish \in {"idle", "sending"}

\* The program has ended when the attempts are used up.
Attempts == retries = MaxRetries => at["main"] = "exited"

\* The flags, and the attempts of NewPublisher, which its limit bounds.
LEMMA RestPreserved ==
  ASSUME Rest, Attempts, PlacesOK, [Next]_vars
  PROVE  Rest' /\ Attempts'
<1> USE DEF Rest, flags, publishVars
<1>1. brokerUp' \in BOOLEAN
  <2>1. CASE BrokerChanges
    BY <2>1, Zenon DEF BrokerChanges
  <2>2. CASE ~BrokerChanges
    <3>1. brokerUp' = brokerUp
      BY <2>2 DEF Next, Thread, Connect, DialSucceeds, DialFails, ChannelSucceeds,
         ChannelFails, SetupSucceeds, SetupFails, Register, MarkConnected, Start,
         RetryStart, StartMonitor, Reconnect, Enter, EnterRefused, CloseOld, GiveUp,
         RetryReconnect, Leave, Monitor, MonitorHears, MonitorLooksAgain,
         MonitorDisconnects, MonitorExits, Publish, PublishBegin, PublishSucceeds,
         PublishFails, PublishPanics, Close, Broker, LoseConnection, LoseChannel, vars
    <3> QED
      BY <3>1
  <2> QED
    BY <2>1, <2>2
<1>2. retries' \in 0 .. MaxRetries /\ Attempts'
  <2>1. CASE RetryStart
    BY <2>1 DEF RetryStart, Goto, Attempts, PlacesOK, Threads
  <2>2. CASE ~RetryStart
    <3>1. retries' \in {retries, 0}
      BY <2>2 DEF Next, Thread, Connect, DialSucceeds, DialFails, ChannelSucceeds,
         ChannelFails, SetupSucceeds, SetupFails, Register, MarkConnected, Start,
         StartMonitor, Reconnect, Enter, EnterRefused, CloseOld, GiveUp,
         RetryReconnect, Leave, Monitor, MonitorHears, MonitorLooksAgain,
         MonitorDisconnects, MonitorExits, Publish, PublishBegin, PublishSucceeds,
         PublishFails, PublishPanics, Close, Broker, BrokerChanges, LoseConnection,
         LoseChannel, vars
    <3>2. Alive \/ UNCHANGED <<retries, at>>
      BY DEF Next, vars
    <3> QED
      BY <3>1, <3>2 DEF Attempts, Alive
  <2> QED
    BY <2>1, <2>2
<1>3. /\ connected' \in BOOLEAN /\ done' \in BOOLEAN /\ panicked' \in BOOLEAN
      /\ publish' \in {"idle", "sending"}
  <2>1. connected' \in {connected, TRUE, FALSE}
    BY DEF Next, Thread, Connect, DialSucceeds, DialFails, ChannelSucceeds,
         ChannelFails, SetupSucceeds, SetupFails, Register, MarkConnected, Start,
         RetryStart, StartMonitor, Reconnect, Enter, EnterRefused, CloseOld, GiveUp,
         RetryReconnect, Leave, Monitor, MonitorHears, MonitorLooksAgain,
         MonitorDisconnects, MonitorExits, Publish, PublishBegin, PublishSucceeds,
         PublishFails, PublishPanics, Close, Broker, BrokerChanges, LoseConnection,
         LoseChannel, vars
  <2>2. done' \in {done, TRUE} /\ panicked' \in {panicked, TRUE}
    BY DEF Next, Thread, Connect, DialSucceeds, DialFails, ChannelSucceeds,
         ChannelFails, SetupSucceeds, SetupFails, Register, MarkConnected, Start,
         RetryStart, StartMonitor, Reconnect, Enter, EnterRefused, CloseOld, GiveUp,
         RetryReconnect, Leave, Monitor, MonitorHears, MonitorLooksAgain,
         MonitorDisconnects, MonitorExits, Publish, PublishBegin, PublishSucceeds,
         PublishFails, PublishPanics, Close, Broker, BrokerChanges, LoseConnection,
         LoseChannel, vars
  <2>3. publish' \in {publish, "idle", "sending"}
    BY DEF Next, Thread, Connect, DialSucceeds, DialFails, ChannelSucceeds,
         ChannelFails, SetupSucceeds, SetupFails, Register, MarkConnected, Start,
         RetryStart, StartMonitor, Reconnect, Enter, EnterRefused, CloseOld, GiveUp,
         RetryReconnect, Leave, Monitor, MonitorHears, MonitorLooksAgain,
         MonitorDisconnects, MonitorExits, Publish, PublishBegin, PublishSucceeds,
         PublishFails, PublishPanics, Close, Broker, BrokerChanges, LoseConnection,
         LoseChannel, vars
  <2>4. done' \in BOOLEAN /\ panicked' \in BOOLEAN /\ connected' \in BOOLEAN
    BY <2>1, <2>2
  <2> QED
    BY <2>3, <2>4
<1> QED
  BY <1>1, <1>2, <1>3

\* Every variable keeps its type: conn, channel and notifyClose name connections
\* on every path of connect, and NewPublisher makes at most MaxRetries attempts
\* (publisher.go:62-85).
THEOREM TypeCorrect == Spec => []TypeOK
<1>1. Init => Pointers /\ Network /\ Rest /\ Attempts
  <2> SUFFICES ASSUME Init PROVE Pointers /\ Network /\ Rest /\ Attempts
    OBVIOUS
  <2>1. Pointers /\ Network /\ retries \in 0 .. MaxRetries /\ Attempts
    BY DEF Init, Pointers, Network, Attempts
  <2>2. /\ connected \in BOOLEAN /\ done \in BOOLEAN /\ panicked \in BOOLEAN
        /\ brokerUp \in BOOLEAN /\ publish \in {"idle", "sending"}
    BY Zenon DEF Init
  <2> QED
    BY <2>1, <2>2 DEF Rest
<1>2. /\ Pointers /\ Network /\ Rest /\ Attempts /\ ReconnectInv
      /\ [Next]_vars
      => (Pointers /\ Network /\ Rest /\ Attempts)'
  BY PointersPreserved, NetworkPreserved, RestPreserved DEF ReconnectInv
<1>3. Pointers /\ Network /\ Rest /\ ReconnectInv => TypeOK
  BY DEF Pointers, Network, Rest, ReconnectInv, PlacesOK, TypeOK
<1> QED
  BY <1>1, <1>2, <1>3, ReconnectInvCorrect, PTL DEF Spec
-----------------------------------------------------------------------------
(* No connection is left open *)

AllClosed == \A c \in Conns : link[c] = "closed"

\* Until Close only the field conn names an open connection, and none is open
\* where connect is about to dial, or has failed.
LeakInv == done \/ /\ \A c \in Conns : link[c] # "closed" => c = conn
                   /\ \A t \in Threads : at[t] \in {"dial", "failed"} => AllClosed

\* One goroutine is in connect: main, or the one that reconnects.
LEMMA OneDialer ==
  ASSUME ReconnectInv, NEW t \in Threads, NEW u \in Threads,
         at[t] \in Loop, at[u] \in Loop
  PROVE  t = u
<1>1. CASE t = "main" \/ u = "main"
  BY <1>1 DEF ReconnectInv, Startup, Reconnectors, Loop
<1>2. CASE t # "main" /\ u # "main"
  BY <1>2 DEF ReconnectInv, OneReconnect, InReconnect, Reconnectors, Inside
<1> QED
  BY <1>1, <1>2

\* A step of one goroutine leaves the others where they are.
LEMMA OthersStay ==
  ASSUME PlacesOK, NEW t \in Threads, NEW from, NEW to, Goto(t, from, to)
  PROVE  /\ at[t] = from /\ at'[t] = to
         /\ \A u \in Threads : u # t => at'[u] = at[u]
BY DEF PlacesOK, Goto

\* Closing conn closes the last open connection.
LEMMA CloseConnClosesAll ==
  ASSUME Network, Pointers, CloseConn(conn),
         \A c \in Conns : link[c] # "closed" => c = conn
  PROVE  AllClosed'
<1>1. CASE conn = Nil
  BY <1>1 DEF CloseConn, network, AllClosed
<1>2. CASE conn # Nil
  BY <1>2 DEF CloseConn, AllClosed, Network, Pointers
<1> QED
  BY <1>1, <1>2

\* A step that opens no connection and moves no goroutine to a dial.
LEMMA QuietKeeps ==
  ASSUME LeakInv, done' = done \/ done', conn' = conn,
         \A c \in Conns : link'[c] # "closed" => link[c] # "closed",
         \A t \in Threads : at'[t] \in {"dial", "failed"} => at[t] \in {"dial", "failed"}
  PROVE  LeakInv'
BY DEF LeakInv, AllClosed

\* The steps of connect: a failure closes what was opened.
LEMMA ConnectLeaksNothing ==
  ASSUME LeakInv, ReconnectInv, Network, Pointers,
         NEW t \in Threads, Connect(t)
  PROVE  LeakInv'
<1> USE DEF flags
<1>0. PlacesOK
  BY DEF ReconnectInv
<1>1. done' = done
  BY DEF Connect, DialSucceeds, DialFails, ChannelSucceeds, ChannelFails,
         SetupSucceeds, SetupFails, Register
<1>2. CASE done
  BY <1>1, <1>2 DEF LeakInv
<1>3. CASE ~done /\ DialSucceeds(t)
  <2>1. at[t] = "dial" /\ at'[t] = "channel" /\ \A u \in Threads : u # t => at'[u] = at[u]
    BY <1>0, <1>3, OthersStay DEF DialSucceeds
  <2>2. AllClosed
    BY <1>3, <2>1 DEF LeakInv
  <2>3. \A u \in Threads : at'[u] \notin {"dial", "failed"}
    BY <2>1, OneDialer DEF Loop
  <2>4. \A c \in Conns : link'[c] # "closed" => c = conn'
    BY <1>3, <2>2 DEF DialSucceeds, AllClosed, Network
  <2> QED
    BY <2>3, <2>4 DEF LeakInv
<1>4. CASE ~done /\ DialFails(t)
  <2>1. at[t] = "dial"
    BY <1>0, <1>4, OthersStay DEF DialFails
  <2>2. AllClosed
    BY <1>4, <2>1 DEF LeakInv
  <2> QED
    BY <1>4, <2>2 DEF DialFails, network, LeakInv, AllClosed
<1>5. CASE ~done /\ (ChannelFails(t) \/ SetupFails(t))
  <2>1. AllClosed'
    BY <1>5, CloseConnClosesAll DEF ChannelFails, SetupFails, LeakInv
  <2> QED
    BY <2>1 DEF LeakInv, AllClosed
<1>6. CASE ~done /\ (ChannelSucceeds(t) \/ SetupSucceeds(t) \/ Register(t))
  <2>1. \A u \in Threads : at'[u] \in {"dial", "failed"} => at[u] \in {"dial", "failed"}
    <3>1. CASE ChannelSucceeds(t)
      BY <1>0, <3>1, OthersStay DEF ChannelSucceeds
    <3>2. CASE SetupSucceeds(t)
      BY <1>0, <3>2, OthersStay DEF SetupSucceeds
    <3>3. CASE Register(t)
      BY <1>0, <3>3, OthersStay DEF Register
    <3> QED
      BY <1>6, <3>1, <3>2, <3>3
  <2>2. conn' = conn
    BY <1>6 DEF ChannelSucceeds, SetupSucceeds, Register, fields
  <2>3. \A c \in Conns : link'[c] # "closed" => link[c] # "closed"
    BY <1>6 DEF ChannelSucceeds, SetupSucceeds, Register, network, Network
  <2> QED
    BY <1>1, <2>1, <2>2, <2>3, QuietKeeps
<1> QED
  BY <1>2, <1>3, <1>4, <1>5, <1>6 DEF Connect

\* The steps of reconnect: what was open is closed before the dial.
LEMMA ReconnectLeaksNothing ==
  ASSUME LeakInv, ReconnectInv, Network, Pointers,
         NEW t \in Reconnectors, Reconnect(t)
  PROVE  LeakInv'
<1> USE DEF flags, fields, network
<1>0. PlacesOK /\ t \in Threads
  BY DEF ReconnectInv, Reconnectors
<1>1. CASE CloseOld(t)
  <2>1. AllClosed'
    BY <1>1, CloseConnClosesAll DEF CloseOld, LeakInv
  <2> QED
    BY <2>1 DEF LeakInv, AllClosed
<1>2. CASE ~CloseOld(t)
  <2>1. PICK from, to : Goto(t, from, to) /\ to \notin {"dial", "failed"}
    BY <1>2 DEF Reconnect, Enter, EnterRefused, GiveUp, RetryReconnect, Leave, Return
  <2>2. \A u \in Threads : at'[u] \in {"dial", "failed"} => at[u] \in {"dial", "failed"}
    BY <1>0, <2>1, OthersStay
  <2>3. UNCHANGED <<done, conn, link>>
    BY <1>2 DEF Reconnect, Enter, EnterRefused, GiveUp, RetryReconnect, Leave
  <2> QED
    BY <2>2, <2>3, QuietKeeps
<1> QED
  BY <1>1, <1>2

\* The other steps: those of NewPublisher, of the monitor and of Publish.
LEMMA OthersLeakNothing ==
  ASSUME LeakInv, ReconnectInv,
         \/ Start \/ Monitor \/ Publish
         \/ \E t \in Threads : MarkConnected(t)
  PROVE  LeakInv'
<1> USE DEF flags, fields, network
<1>0. PlacesOK
  BY DEF ReconnectInv
<1>1. UNCHANGED <<done, conn, link>>
  BY DEF Start, RetryStart, StartMonitor, Monitor, MonitorHears, MonitorLooksAgain,
         MonitorDisconnects, MonitorExits, Publish, PublishBegin, PublishSucceeds,
         PublishFails, PublishPanics, MarkConnected
<1>2. \A u \in Threads : at'[u] \in {"dial", "failed"} => at[u] \in {"dial", "failed"}
  <2>1. CASE RetryStart
    BY <1>0, <2>1, OthersStay DEF RetryStart, Threads
  <2>2. CASE StartMonitor
    BY <1>0, <2>2 DEF StartMonitor, PlacesOK
  <2>3. CASE MonitorHears \/ MonitorDisconnects \/ MonitorExits
    BY <1>0, <2>3, OthersStay DEF MonitorHears, MonitorDisconnects, MonitorExits, Threads
  <2>4. CASE MonitorLooksAgain \/ PublishBegin \/ PublishSucceeds \/ PublishPanics
    BY <2>4 DEF MonitorLooksAgain, PublishBegin, PublishSucceeds, PublishPanics
  <2>5. CASE PublishFails
    <3>1. PICK h \in Helpers : Goto(h, "idle", "enter")
      BY <2>5 DEF PublishFails
    <3>2. /\ h \in Threads /\ at'[h] = "enter"
          /\ \A u \in Threads : u # h => at'[u] = at[u]
      BY <1>0, <3>1 DEF Threads, Goto, PlacesOK
    <3> QED
      BY <3>2
  <2>6. ASSUME NEW t \in Threads, MarkConnected(t)
        PROVE  \A u \in Threads : at'[u] \in {"dial", "failed"} => at[u] \in {"dial", "failed"}
    BY <1>0, <2>6, OthersStay DEF MarkConnected
  <2> QED
    BY <2>1, <2>2, <2>3, <2>4, <2>5, <2>6 DEF Start, Monitor, Publish
<1> QED
  BY <1>1, <1>2, QuietKeeps

\* Every step keeps the invariant; Close ends what it says.
LEMMA LeakInvPreserved ==
  ASSUME LeakInv, ReconnectInv, Network, Pointers, [Next]_vars
  PROVE  LeakInv'
<1>1. ASSUME NEW t \in Threads, Thread(t) PROVE LeakInv'
  BY <1>1, ConnectLeaksNothing, ReconnectLeaksNothing, OthersLeakNothing
     DEF Thread, Reconnectors
<1>2. CASE Publish
  BY <1>2, OthersLeakNothing
<1>3. CASE Close
  BY <1>3 DEF Close, LeakInv
<1>4. CASE Broker \/ UNCHANGED vars
  <2>1. UNCHANGED <<done, conn, at>>
    BY <1>4 DEF Broker, LoseConnection, LoseChannel, BrokerChanges, vars, fields
  <2>2. \A c \in Conns : link'[c] # "closed" => link[c] # "closed"
    BY <1>4 DEF Broker, LoseConnection, LoseChannel, BrokerChanges, vars, network,
                Network, Usable
  <2> QED
    BY <2>1, <2>2, QuietKeeps
<1> QED
  BY <1>1, <1>2, <1>3, <1>4 DEF Next

\* Until Close no path of connect leaves a connection open behind a newer one,
\* for every number of connections and of callers (publisher.go:99-144, 238-244).
THEOREM NothingLeaks == Spec => []NoConnectionLeak
<1>1. Init => LeakInv
  BY DEF Init, LeakInv, AllClosed
<1>2. TypeOK => Pointers /\ Network
  BY DEF TypeOK, Pointers, Network
<1>3. LeakInv /\ ReconnectInv /\ Pointers /\ Network /\ [Next]_vars => LeakInv'
  BY LeakInvPreserved
<1>4. LeakInv => NoConnectionLeak
  BY DEF LeakInv, NoConnectionLeak
<1> QED
  BY <1>1, <1>2, <1>3, <1>4, ReconnectInvCorrect, TypeCorrect, PTL DEF Spec
-----------------------------------------------------------------------------
(* A nil channel is transient *)

Redialling == {"loop", "dial", "channel", "failed"}

\* Who opens a channel has a connection; while there is no channel somebody is
\* about to open one, until Close or the end of the program.
NilInv ==
  /\ \A t \in Threads : at[t] = "channel" => conn # Nil
  /\ channel = Nil => \/ done \/ at["main"] = "exited"
                      \/ \E t \in Threads : at[t] \in Redialling

\* A goroutine that takes neither the connection nor the channel away and does
\* not give up keeps the invariant.
LEMMA NilMoveKeeps ==
  ASSUME NilInv, PlacesOK, Alive,
         NEW t \in Threads, NEW from, NEW to, Goto(t, from, to),
         to # "channel", from \in Redialling => to \in Redialling,
         UNCHANGED <<conn, channel, done>>
  PROVE  NilInv'
<1>1. /\ at[t] = from /\ at'[t] = to
      /\ \A u \in Threads : u # t => at'[u] = at[u]
  BY OthersStay
<1>2. (\E u \in Threads : at[u] \in Redialling) => \E u \in Threads : at'[u] \in Redialling
  BY <1>1
<1> QED
  BY <1>1, <1>2 DEF NilInv, Alive

\* The steps of connect: Channel gives the connection that Dial has given, since
\* nobody else dials.
LEMMA ConnectHasChannel ==
  ASSUME NilInv, ReconnectInv, Alive, NEW t \in Threads, Connect(t)
  PROVE  NilInv'
<1>0. PlacesOK
  BY DEF ReconnectInv
<1>1. CASE DialSucceeds(t)
  <2>1. at[t] = "dial" /\ at'[t] = "channel" /\ \A u \in Threads : u # t => at'[u] = at[u]
    BY <1>0, <1>1, OthersStay DEF DialSucceeds
  <2>2. conn' # Nil
    BY <1>1 DEF DialSucceeds
  <2> QED
    BY <2>1, <2>2 DEF NilInv, Redialling
<1>2. CASE DialFails(t)
  <2>1. at[t] = "dial" /\ at'[t] = "failed" /\ \A u \in Threads : u # t => at'[u] = at[u]
    BY <1>0, <1>2, OthersStay DEF DialFails
  <2>2. \A u \in Threads : at'[u] # "channel"
    BY <2>1, OneDialer DEF Loop
  <2> QED
    BY <2>1, <2>2 DEF NilInv, Redialling
<1>3. CASE ChannelSucceeds(t)
  <2>1. at[t] = "channel" /\ at'[t] = "setup" /\ \A u \in Threads : u # t => at'[u] = at[u]
    BY <1>0, <1>3, OthersStay DEF ChannelSucceeds
  <2>2. channel' # Nil /\ conn' = conn
    BY <1>3, <2>1 DEF ChannelSucceeds, NilInv
  <2> QED
    BY <2>1, <2>2 DEF NilInv
<1>4. CASE ChannelFails(t)
  <2>1. at'[t] = "failed" /\ \A u \in Threads : u # t => at'[u] = at[u]
    BY <1>0, <1>4, OthersStay DEF ChannelFails
  <2>2. conn' = conn
    BY <1>4 DEF ChannelFails
  <2> QED
    BY <2>1, <2>2 DEF NilInv, Redialling
<1>5. CASE SetupSucceeds(t) \/ SetupFails(t)
  <2>1. PICK to \in {"register", "failed"} : Goto(t, "setup", to)
    BY <1>5 DEF SetupSucceeds, SetupFails
  <2>2. UNCHANGED <<conn, channel, done>>
    BY <1>5 DEF SetupSucceeds, SetupFails, fields
  <2> QED
    BY <1>0, <2>1, <2>2, NilMoveKeeps DEF Redialling
<1>6. CASE Register(t)
  BY <1>0, <1>6, NilMoveKeeps DEF Register, Redialling
<1> QED
  BY <1>1, <1>2, <1>3, <1>4, <1>5, <1>6 DEF Connect

\* The steps of reconnect: only Close lets it give up.
LEMMA ReconnectHasChannel ==
  ASSUME NilInv, PlacesOK, Alive, NEW t \in Reconnectors, Reconnect(t)
  PROVE  NilInv'
<1>0. t \in Threads
  BY DEF Reconnectors
<1>1. UNCHANGED <<conn, channel, done>>
  BY DEF Reconnect, Enter, EnterRefused, CloseOld, GiveUp, RetryReconnect, Leave, fields
<1>2. CASE GiveUp(t)
  <2>1. done /\ at'[t] = "leave" /\ \A u \in Threads : u # t => at'[u] = at[u]
    BY <1>0, <1>2, OthersStay DEF GiveUp
  <2> QED
    BY <1>1, <2>1 DEF NilInv
<1>3. CASE ~GiveUp(t)
  <2>1. PICK from, to : /\ Goto(t, from, to) /\ to # "channel"
                        /\ from \in Redialling => to \in Redialling
    <3>1. CASE Enter(t) \/ EnterRefused(t)
      BY <3>1 DEF Enter, EnterRefused, Return, Redialling
    <3>2. CASE CloseOld(t) \/ RetryReconnect(t)
      BY <3>2 DEF CloseOld, RetryReconnect, Redialling
    <3>3. CASE Leave(t)
      BY <3>3 DEF Leave, Return, Redialling
    <3> QED
      BY <1>3, <3>1, <3>2, <3>3 DEF Reconnect
  <2> QED
    BY <1>0, <1>1, <2>1, NilMoveKeeps
<1> QED
  BY <1>2, <1>3

\* The other steps of the goroutines: main may end the program instead of dialling
\* again.
LEMMA OthersHaveChannel ==
  ASSUME NilInv, ReconnectInv, Alive,
         \/ Start \/ Monitor \/ Publish
         \/ \E t \in Threads : MarkConnected(t)
  PROVE  NilInv'
<1> USE DEF fields, Redialling
<1>0. PlacesOK
  BY DEF ReconnectInv
<1>1. UNCHANGED <<conn, channel, done>>
  BY DEF Start, RetryStart, StartMonitor, Monitor, MonitorHears, MonitorLooksAgain,
         MonitorDisconnects, MonitorExits, Publish, PublishBegin, PublishSucceeds,
         PublishFails, PublishPanics, MarkConnected
<1>2. CASE RetryStart
  <2>1. /\ at'["main"] \in {"dial", "exited"}
        /\ \A u \in Threads : u # "main" => at'[u] = at[u]
    BY <1>0, <1>2, OthersStay DEF RetryStart, Threads
  <2>2. \A u \in Threads : at'[u] = "channel" => at[u] = "channel"
    BY <2>1
  <2>3. at'["main"] = "exited" \/ \E u \in Threads : at'[u] \in Redialling
    BY <2>1 DEF Threads
  <2> QED
    BY <1>1, <2>2, <2>3 DEF NilInv
<1>3. CASE StartMonitor
  <2>1. /\ at["main"] = "leave" /\ at'["main"] = "idle" /\ at'["monitor"] = "select"
        /\ \A u \in Threads \ {"main", "monitor"} : at'[u] = at[u]
    BY <1>0, <1>3 DEF StartMonitor, PlacesOK, Threads
  <2>2. at["monitor"] = "idle"
    BY <2>1 DEF ReconnectInv, Startup, Reconnectors, Threads
  <2> QED
    BY <1>1, <2>1, <2>2 DEF NilInv, Threads
<1>4. CASE MonitorHears \/ MonitorDisconnects \/ MonitorExits
  <2>1. PICK from \in {"select", "lost"}, to \in {"lost", "enter", "exited"} :
          Goto("monitor", from, to)
    BY <1>4 DEF MonitorHears, MonitorDisconnects, MonitorExits
  <2>2. "monitor" \in Threads
    BY DEF Threads
  <2> QED
    BY <1>0, <1>1, <2>1, <2>2, NilMoveKeeps
<1>5. CASE MonitorLooksAgain \/ PublishBegin \/ PublishSucceeds \/ PublishPanics
  <2>1. at' = at
    BY <1>5 DEF MonitorLooksAgain, PublishBegin, PublishSucceeds, PublishPanics
  <2> QED
    BY <1>1, <2>1 DEF NilInv
<1>6. CASE PublishFails
  <2>1. PICK h \in Helpers : Goto(h, "idle", "enter")
    BY <1>6 DEF PublishFails
  <2>2. h \in Threads
    BY DEF Threads
  <2> QED
    BY <1>0, <1>1, <2>1, <2>2, NilMoveKeeps
<1>7. ASSUME NEW t \in Threads, MarkConnected(t) PROVE NilInv'
  BY <1>0, <1>1, <1>7, NilMoveKeeps DEF MarkConnected
<1> QED
  BY <1>2, <1>3, <1>4, <1>5, <1>6, <1>7 DEF Start, Monitor, Publish

\* Every step keeps the invariant; Close ends what it says.
LEMMA NilInvPreserved ==
  ASSUME NilInv, ReconnectInv, [Next]_vars
  PROVE  NilInv'
<1>0. PlacesOK
  BY DEF ReconnectInv
<1>1. ASSUME NEW t \in Threads, Thread(t), Alive PROVE NilInv'
  BY <1>0, <1>1, ConnectHasChannel, ReconnectHasChannel, OthersHaveChannel
     DEF Thread, Reconnectors
<1>2. CASE Publish /\ Alive
  BY <1>2, OthersHaveChannel
<1>3. CASE Close
  BY <1>3 DEF Close, fields, NilInv
<1>4. CASE Broker \/ UNCHANGED vars
  <2>1. UNCHANGED <<conn, channel, done, at>>
    BY <1>4 DEF Broker, LoseConnection, LoseChannel, BrokerChanges, vars, fields
  <2> QED
    BY <2>1 DEF NilInv
<1> QED
  BY <1>1, <1>2, <1>3, <1>4 DEF Next

\* The publisher has no channel only while a goroutine reconnects it, for every
\* number of connections and of callers: a Publish that takes a nil channel does
\* so in that time (publisher.go:88-144, 308).
THEOREM NilChannelOnlyInReconnect == Spec => []NilChannelIsTransient
<1>1. Init => NilInv
  <2> SUFFICES ASSUME Init PROVE NilInv
    OBVIOUS
  <2>1. "main" \in Threads /\ at["main"] = "dial"
    BY DEF Init, Threads
  <2>2. \A t \in Threads : at[t] # "channel"
    BY DEF Init
  <2> QED
    BY <2>1, <2>2 DEF NilInv, Redialling
<1>2. NilInv /\ ReconnectInv /\ [Next]_vars => NilInv'
  BY NilInvPreserved
<1>3. NilInv /\ ReconnectInv => NilChannelIsTransient
  <2> SUFFICES ASSUME NilInv, ReconnectInv, channel = Nil, at["main"] = "idle", ~done
               PROVE  InReconnect # {}
    BY DEF NilChannelIsTransient
  <2>1. PICK t \in Threads : at[t] \in Redialling
    BY DEF NilInv
  <2>2. t \in Reconnectors /\ at[t] \in Inside
    BY <2>1 DEF Reconnectors, Redialling, Inside, Loop
  <2> QED
    BY <2>2 DEF InReconnect
<1> QED
  BY <1>1, <1>2, <1>3, ReconnectInvCorrect, PTL DEF Spec
=============================================================================
