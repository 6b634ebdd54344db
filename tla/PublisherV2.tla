---------------------------- MODULE PublisherV2 ----------------------------
(***************************************************************************)
(* v2/src/publisher.go: the publisher of one v2 camera and its connection  *)
(* to RabbitMQ.  NewPublisher connects with a bounded number of attempts;  *)
(* then the goroutine of monitorConnection and every failed Publish call   *)
(* reconnect, which connects again and again until it succeeds.            *)
(*                                                                         *)
(* The flags connected and reconnecting are read and written under the     *)
(* mutex; the fields conn, channel and notifyClose are not, and reconnect  *)
(* replaces them while the other goroutines run.                           *)
(*                                                                         *)
(* Connections are identifiers that are used again once nothing refers to  *)
(* them; each has one channel, named by the identifier of its connection.  *)
(* The counters, which are only reported, and the goroutine of             *)
(* handleConfirms, which only counts, are left out.                        *)
(***************************************************************************)
EXTENDS Naturals

CONSTANTS Conns,       \* the connections
          Nil,         \* a nil pointer
          Helpers,     \* bound: the goroutines that a failed Publish may have started
          MaxRetries   \* attempts of NewPublisher

ASSUME NilAssumption == Nil \notin Conns
ASSUME MaxRetriesAssumption == MaxRetries \in Nat \ {0}
ASSUME HelpersAssumption == Helpers \cap {"main", "monitor"} = {}

VARIABLES
  conn, channel, notifyClose,   \* fields of Publisher: connections, or Nil
  connected, reconnecting,      \* fields of Publisher
  done,          \* the channel done is closed
  link,          \* each connection: "closed", "open", or "usable" with an open channel
  event,         \* what a receive from each NotifyClose channel would find
  at,            \* where each goroutine stands
  retries,       \* failed attempts of NewPublisher
  watch,         \* the NotifyClose channel on which the monitor waits
  publish,       \* where the call to Publish that holds publishMu stands
  captured,      \* the channel that it captured
  panicked,      \* Publish has used a nil channel
  brokerUp       \* the broker serves the publisher without errors

fields == <<conn, channel, notifyClose>>
flags == <<connected, reconnecting>>
network == <<link, event>>
publishVars == <<publish, captured, panicked>>
vars == <<fields, flags, done, network, at, retries, watch, publishVars, brokerUp>>

Threads == {"main", "monitor"} \cup Helpers
Loop == {"loop", "dial", "channel", "setup", "register", "connected", "failed"}
Inside == Loop \cup {"leave"}
Places == Inside \cup {"idle", "select", "lost", "enter", "exited"}

Goto(t, from, to) == at[t] = from /\ at' = [at EXCEPT ![t] = to]

Usable(c) == c # Nil /\ link[c] = "usable"

\* NewPublisher makes its first attempt.
Init ==
  /\ conn = Nil /\ channel = Nil /\ notifyClose = Nil
  /\ connected = FALSE /\ reconnecting = FALSE /\ done = FALSE
  /\ link = [c \in Conns |-> "closed"]
  /\ event = [c \in Conns |-> "ended"]
  /\ at = [t \in Threads |-> IF t = "main" THEN "dial" ELSE "idle"]
  /\ retries = 0 /\ watch = Nil
  /\ publish = "idle" /\ captured = Nil /\ panicked = FALSE
  /\ brokerUp = TRUE

\* The client closes a connection: its listener finds its channel closed.
CloseConn(c) ==
  IF c = Nil THEN UNCHANGED network
  ELSE /\ link' = [link EXCEPT ![c] = "closed"]
       /\ event' = [event EXCEPT ![c] = IF @ = "error" THEN @ ELSE "ended"]
-----------------------------------------------------------------------------
(* connect: each call may fail when the broker does, and must when its     *)
(* connection is gone; a failure closes what was opened.                   *)

\* A connection to which nothing but the field that Dial assigns refers.
Fresh(c) == link[c] = "closed" /\ c \notin {channel, notifyClose, watch, captured}

DialSucceeds(t) ==
  /\ Goto(t, "dial", "channel") /\ brokerUp
  /\ \E c \in Conns : Fresh(c)
  /\ conn' = CHOOSE c \in Conns : Fresh(c)
  /\ link' = [link EXCEPT ![conn'] = "open"]
  /\ event' = [event EXCEPT ![conn'] = "none"]
  /\ UNCHANGED <<channel, notifyClose, flags, done, retries, watch, publishVars, brokerUp>>

\* Dial returns a nil connection with its error.
DialFails(t) ==
  /\ Goto(t, "dial", "failed") /\ ~brokerUp
  /\ conn' = Nil
  /\ UNCHANGED <<channel, notifyClose, flags, done, network, retries, watch,
                 publishVars, brokerUp>>

ChannelSucceeds(t) ==
  /\ Goto(t, "channel", "setup") /\ link[conn] = "open"
  /\ channel' = conn
  /\ link' = [link EXCEPT ![conn] = "usable"]
  /\ UNCHANGED <<conn, notifyClose, flags, done, event, retries, watch,
                 publishVars, brokerUp>>

\* So does Channel.
ChannelFails(t) ==
  /\ Goto(t, "channel", "failed") /\ (~brokerUp \/ link[conn] # "open")
  /\ channel' = Nil
  /\ CloseConn(conn)
  /\ UNCHANGED <<conn, notifyClose, flags, done, retries, watch, publishVars, brokerUp>>

\* ExchangeDeclare, Qos and Confirm.
SetupSucceeds(t) ==
  /\ Goto(t, "setup", "register") /\ Usable(conn)
  /\ UNCHANGED <<fields, flags, done, network, retries, watch, publishVars, brokerUp>>

SetupFails(t) ==
  /\ Goto(t, "setup", "failed") /\ (~brokerUp \/ ~Usable(conn))
  /\ CloseConn(conn)
  /\ UNCHANGED <<fields, flags, done, retries, watch, publishVars, brokerUp>>

\* NotifyClose on a connection that is gone closes its channel at once.
Register(t) ==
  /\ Goto(t, "register", "connected")
  /\ notifyClose' = conn
  /\ event' = [event EXCEPT ![conn] = IF link[conn] = "closed" THEN "ended" ELSE "armed"]
  /\ UNCHANGED <<conn, channel, flags, done, link, retries, watch, publishVars, brokerUp>>

Connect(t) == \/ DialSucceeds(t) \/ DialFails(t)
              \/ ChannelSucceeds(t) \/ ChannelFails(t)
              \/ SetupSucceeds(t) \/ SetupFails(t) \/ Register(t)

MarkConnected(t) ==
  /\ Goto(t, "connected", "leave")
  /\ connected' = TRUE
  /\ UNCHANGED <<fields, reconnecting, done, network, retries, watch, publishVars, brokerUp>>
-----------------------------------------------------------------------------
(* NewPublisher: connectWithRetry, then the monitor is started *)

\* After its last attempt the program ends.
RetryStart ==
  /\ Goto("main", "failed", IF retries + 1 < MaxRetries THEN "dial" ELSE "exited")
  /\ retries' = retries + 1
  /\ UNCHANGED <<fields, flags, done, network, watch, publishVars, brokerUp>>

StartMonitor ==
  /\ at["main"] = "leave"
  /\ at' = [at EXCEPT !["main"] = "idle", !["monitor"] = "select"]
  /\ watch' = notifyClose /\ retries' = 0
  /\ UNCHANGED <<fields, flags, done, network, publishVars, brokerUp>>

Start == RetryStart \/ StartMonitor
-----------------------------------------------------------------------------
(* reconnect, by the monitor or by the goroutine of a failed Publish *)

Reconnectors == Threads \ {"main"}

\* The monitor goes back to its select, where it reads notifyClose again.
Return(t) == IF t = "monitor" THEN "select" ELSE "idle"
WatchAgain(t) == watch' = IF t = "monitor" THEN notifyClose ELSE watch

\* Fault for Enter: two goroutines may reconnect at the same time.
EnterAlways(t) ==
  /\ Goto(t, "enter", "loop")
  /\ reconnecting' = TRUE
  /\ UNCHANGED <<fields, connected, done, network, retries, watch, publishVars, brokerUp>>

Enter(t) ==
  /\ ~reconnecting
  /\ Goto(t, "enter", "loop")
  /\ reconnecting' = TRUE
  /\ UNCHANGED <<fields, connected, done, network, retries, watch, publishVars, brokerUp>>

\* Another goroutine is already reconnecting.
EnterRefused(t) ==
  /\ reconnecting
  /\ Goto(t, "enter", Return(t))
  /\ WatchAgain(t)
  /\ UNCHANGED <<fields, flags, done, network, retries, publishVars, brokerUp>>

\* Fault for CloseOld: only the old channel is closed.
CloseOldChannel(t) ==
  /\ ~done
  /\ Goto(t, "loop", "dial")
  /\ link' = [c \in Conns |-> IF c = channel /\ Usable(c) THEN "open" ELSE link[c]]
  /\ UNCHANGED <<fields, flags, done, event, retries, watch, publishVars, brokerUp>>

\* The old channel and connection are closed, if there are any.
CloseOld(t) ==
  /\ ~done
  /\ Goto(t, "loop", "dial")
  /\ CloseConn(conn)
  /\ UNCHANGED <<fields, flags, done, retries, watch, publishVars, brokerUp>>

GiveUp(t) ==
  /\ done
  /\ Goto(t, "loop", "leave")
  /\ UNCHANGED <<fields, flags, done, network, retries, watch, publishVars, brokerUp>>

\* Fault for RetryReconnect: a failed attempt returns and leaves the flag set.
ReturnReconnecting(t) ==
  /\ Goto(t, "failed", Return(t))
  /\ WatchAgain(t)
  /\ UNCHANGED <<fields, flags, done, network, retries, publishVars, brokerUp>>

RetryReconnect(t) ==
  /\ Goto(t, "failed", "loop")
  /\ UNCHANGED <<fields, flags, done, network, retries, watch, publishVars, brokerUp>>

\* The deferred function.
Leave(t) ==
  /\ Goto(t, "leave", Return(t))
  /\ reconnecting' = FALSE
  /\ WatchAgain(t)
  /\ UNCHANGED <<fields, connected, done, network, retries, publishVars, brokerUp>>

Reconnect(t) == \/ Enter(t) \/ EnterRefused(t) \/ CloseOld(t) \/ GiveUp(t)
                \/ RetryReconnect(t) \/ Leave(t)
-----------------------------------------------------------------------------
(* monitorConnection *)

\* The select receives the error of a lost connection; the library then closes
\* the channel.
MonitorHears ==
  /\ watch # Nil /\ event[watch] = "error"
  /\ Goto("monitor", "select", "lost")
  /\ event' = [event EXCEPT ![watch] = "ended"]
  /\ watch' = Nil
  /\ UNCHANGED <<fields, flags, done, link, retries, publishVars, brokerUp>>

\* A closed channel yields nil: the monitor loops and reads notifyClose again.
MonitorLooksAgain ==
  /\ at["monitor"] = "select" /\ event[watch] = "ended" /\ watch # notifyClose
  /\ watch' = notifyClose
  /\ UNCHANGED <<fields, flags, done, network, at, retries, publishVars, brokerUp>>

MonitorDisconnects ==
  /\ Goto("monitor", "lost", "enter")
  /\ connected' = FALSE
  /\ UNCHANGED <<fields, reconnecting, done, network, retries, watch, publishVars, brokerUp>>

MonitorExits ==
  /\ done
  /\ Goto("monitor", "select", "exited")
  /\ watch' = Nil
  /\ UNCHANGED <<fields, flags, done, network, retries, publishVars, brokerUp>>

Monitor == MonitorHears \/ MonitorLooksAgain \/ MonitorDisconnects \/ MonitorExits
-----------------------------------------------------------------------------
(* Publish, one call at a time under publishMu.  A call that finds the     *)
(* publisher disconnected returns an error and changes nothing here.       *)

PublishBegin ==
  /\ publish = "idle" /\ connected /\ at["main"] = "idle"
  /\ publish' = "sending" /\ captured' = channel
  /\ UNCHANGED <<fields, flags, done, network, at, retries, watch, panicked, brokerUp>>

PublishSucceeds ==
  /\ publish = "sending" /\ Usable(captured)
  /\ publish' = "idle" /\ captured' = Nil
  /\ UNCHANGED <<fields, flags, done, network, at, retries, watch, panicked, brokerUp>>

\* The failure disconnects the publisher and starts a goroutine in reconnect.
PublishFails ==
  /\ publish = "sending" /\ captured # Nil /\ ~Usable(captured)
  /\ publish' = "idle" /\ captured' = Nil
  /\ connected' = FALSE
  /\ \E h \in Helpers : Goto(h, "idle", "enter")
  /\ UNCHANGED <<fields, reconnecting, done, network, retries, watch, panicked, brokerUp>>

\* The captured channel is nil, which ends the program.
PublishPanics ==
  /\ publish = "sending" /\ captured = Nil
  /\ panicked' = TRUE
  /\ UNCHANGED <<fields, flags, done, network, at, retries, watch, publish,
                 captured, brokerUp>>

Publish == PublishBegin \/ PublishSucceeds \/ PublishFails \/ PublishPanics
-----------------------------------------------------------------------------
(* Close, and the broker *)

Close ==
  /\ at["main"] = "idle" /\ ~done
  /\ done' = TRUE
  /\ CloseConn(conn)
  /\ UNCHANGED <<fields, flags, at, retries, watch, publishVars, brokerUp>>

LoseConnection(c) ==
  /\ link[c] # "closed" /\ ~brokerUp
  /\ link' = [link EXCEPT ![c] = "closed"]
  /\ event' = [event EXCEPT ![c] = IF @ = "armed" THEN "error" ELSE "ended"]
  /\ UNCHANGED <<fields, flags, done, at, retries, watch, publishVars, brokerUp>>

\* A channel exception closes the channel and leaves the connection open.
LoseChannel(c) ==
  /\ Usable(c) /\ ~brokerUp
  /\ link' = [link EXCEPT ![c] = "open"]
  /\ UNCHANGED <<fields, flags, done, event, at, retries, watch, publishVars, brokerUp>>

BrokerChanges ==
  /\ brokerUp' = ~brokerUp
  /\ UNCHANGED <<fields, flags, done, network, at, retries, watch, publishVars>>

Broker == BrokerChanges \/ \E c \in Conns : LoseConnection(c) \/ LoseChannel(c)

Alive == ~panicked /\ at["main"] # "exited"

Thread(t) == \/ Connect(t) \/ MarkConnected(t)
             \/ (t = "main" /\ Start)
             \/ (t # "main" /\ Reconnect(t))
             \/ (t = "monitor" /\ Monitor)

Next == /\ Alive
        /\ \/ \E t \in Threads : Thread(t)
           \/ Publish \/ Close \/ Broker

Spec == Init /\ [][Next]_vars

\* Every goroutine is scheduled and every call to the broker returns.
Fairness == /\ \A t \in Threads : WF_vars(Alive /\ Thread(t))
            /\ WF_vars(Alive /\ (PublishSucceeds \/ PublishFails))

FairSpec == Spec /\ Fairness
-----------------------------------------------------------------------------
(* Properties *)

TypeOK ==
  /\ {conn, channel, notifyClose, watch, captured} \subseteq Conns \cup {Nil}
  /\ connected \in BOOLEAN /\ reconnecting \in BOOLEAN
  /\ done \in BOOLEAN /\ panicked \in BOOLEAN /\ brokerUp \in BOOLEAN
  /\ link \in [Conns -> {"closed", "open", "usable"}]
  /\ event \in [Conns -> {"none", "armed", "error", "ended"}]
  /\ at \in [Threads -> Places]
  /\ retries \in 0 .. MaxRetries
  /\ publish \in {"idle", "sending"}

InReconnect == {t \in Reconnectors : at[t] \in Inside}

\* However many goroutines call reconnect, at most one replaces conn, channel
\* and notifyClose, and the flag is set exactly while one does
\* (publisher.go:213-225).
OneReconnect ==
  /\ \A t, u \in InReconnect : t = u
  /\ reconnecting <=> InReconnect # {}

\* Until Close no connection is left open behind a newer one, on no failure
\* path of connect (publisher.go:99-144, 238-244).
NoConnectionLeak == ~done => {c \in Conns : link[c] # "closed"} \subseteq {conn}

\* A publisher that was started and not closed has no channel only while a
\* goroutine reconnects it, whichever call of connect failed: a Publish that takes
\* a nil channel does so in that time, and not for ever (publisher.go:88-144, 308).
NilChannelIsTransient ==
  channel = Nil => at["main"] # "idle" \/ done \/ InReconnect # {}

\* A reconnection that has begun ends when the broker serves again
\* (publisher.go:211): none gives up, and the flag does not stay set.
ReconnectEnds == <>[]brokerUp => []<>(~reconnecting \/ ~Alive)

\* Nobody is about to reconnect.
Quiet == /\ at["main"] = "idle" /\ ~done /\ ~panicked
         /\ at["monitor"] = "select" /\ \A h \in Helpers : at[h] = "idle"
         /\ publish = "idle" /\ \A c \in Conns : event[c] # "error"

\* "Loga erros mas continua tentando" (v2/README.md:326): a publisher that is
\* not connected has somebody who reconnects it.
KeepsTrying == Quiet => connected
=============================================================================
