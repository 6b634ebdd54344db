--------------------------- MODULE AMQPPublisher ---------------------------
(***************************************************************************)
(* pkg/mq/amqp.go: the publisher that all the workers of the v1 program    *)
(* share.  NewAMQPPublisher connects with a bounded number of attempts.    *)
(* Afterwards each call to Publish that fails reconnects and tries once    *)
(* more, and so does, for every connection, the goroutine that waits for   *)
(* the channel of that connection to close.  Nothing keeps two of them     *)
(* from reconnecting at the same time: each closes the connection that it  *)
(* finds and stores one of its own.                                        *)
(*                                                                         *)
(* The fields conn and channel are always set together; a connection is an *)
(* identifier, used again when nothing refers to it, that also names its   *)
(* channel and the goroutine that waits for it.  The broker serves at most *)
(* Conns connections (a bound of the model).                               *)
(***************************************************************************)
EXTENDS Naturals

CONSTANTS Conns,       \* the connections
          Nil,         \* a nil pointer
          Callers,     \* the workers that call Publish
          MaxRetries,  \* attempts of NewAMQPPublisher
          Backoffs     \* attempts of reconnect

ASSUME NilAssumption == Nil \notin Conns
ASSUME ThreadsAssumption ==
  /\ Callers \cap Conns = {} /\ "main" \notin Callers \cup Conns
ASSUME AttemptsAssumption == MaxRetries \in Nat \ {0} /\ Backoffs \in Nat \ {0}

VARIABLES
  conn, closed,   \* fields of AMQPPublisher
  open,           \* the connections whose channel is open
  lost,           \* those whose listener finds the error with which they were lost
  at,             \* where each goroutine stands
  held,           \* the connection that a goroutine opens or publishes on
  tries,          \* failed attempts of the connecting goroutine
  second,         \* the call to Publish is in its second attempt
  resend,         \* it reconnects because a send has failed
  ctxDone,        \* the context of the program is done
  brokerUp        \* the broker serves the program without errors

network == <<open, lost>>
locals == <<held, tries, second, resend>>
vars == <<conn, closed, network, at, locals, ctxDone, brokerUp>>

Threads == {"main"} \cup Callers \cup Conns
Places == {"idle", "send", "reconnect", "dial", "register", "store",
           "connected", "wait", "exited"}

Goto(t, from, to) == at[t] = from /\ at' = [at EXCEPT ![t] = to]

\* The program closes a connection, if there is one, without an error.
CloseConn(c) == open' = open \ {c} /\ UNCHANGED lost

\* NewAMQPPublisher makes its first attempt.
Init ==
  /\ conn = Nil /\ closed = FALSE
  /\ open = {} /\ lost = {}
  /\ at = [t \in Threads |-> IF t = "main" THEN "dial" ELSE "idle"]
  /\ held = [t \in Threads |-> Nil]
  /\ tries = [t \in Threads |-> 0]
  /\ second = [t \in Threads |-> FALSE] /\ resend = [t \in Threads |-> FALSE]
  /\ ctxDone = FALSE /\ brokerUp = TRUE
-----------------------------------------------------------------------------
(* connect.  A failure closes what was opened, so that Dial, Channel and   *)
(* ExchangeDeclare either all succeed or leave nothing.                    *)

Fresh(c) == /\ c \notin open /\ at[c] = "idle" /\ c # conn
            /\ \A t \in Threads : held[t] # c

\* A goroutine that is not in a call any more.
Return(t) ==
  /\ at' = [at EXCEPT ![t] = "idle"]
  /\ held' = [held EXCEPT ![t] = Nil]
  /\ tries' = [tries EXCEPT ![t] = 0]
  /\ second' = [second EXCEPT ![t] = FALSE]
  /\ resend' = [resend EXCEPT ![t] = FALSE]

Limit(t) == IF t = "main" THEN MaxRetries ELSE Backoffs

\* NewAMQPPublisher and reconnect try again after a failure, a limited number
\* of times; then the program ends, and a call to Publish or a handler returns.
AttemptFails(t) ==
  IF tries[t] + 1 < Limit(t)
  THEN /\ at' = [at EXCEPT ![t] = "dial"]
       /\ held' = [held EXCEPT ![t] = Nil]
       /\ tries' = [tries EXCEPT ![t] = @ + 1]
       /\ UNCHANGED <<second, resend>>
  ELSE IF t = "main"
  THEN at' = [at EXCEPT ![t] = "exited"] /\ UNCHANGED locals
  ELSE Return(t)

DialSucceeds(t) ==
  /\ Goto(t, "dial", "register") /\ brokerUp
  /\ \E c \in Conns : Fresh(c)
  /\ LET c == CHOOSE c \in Conns : Fresh(c)
     IN /\ held' = [held EXCEPT ![t] = c]
        /\ open' = open \cup {c}
  /\ UNCHANGED <<conn, closed, lost, tries, second, resend, ctxDone, brokerUp>>

DialFails(t) ==
  /\ at[t] = "dial" /\ (~brokerUp \/ ~\E c \in Conns : Fresh(c))
  /\ AttemptFails(t)
  /\ UNCHANGED <<conn, closed, network, ctxDone, brokerUp>>

\* NotifyClose: from here on an error is delivered, an earlier one is not.
Register(t) ==
  /\ Goto(t, "register", "store")
  /\ UNCHANGED <<conn, closed, network, locals, ctxDone, brokerUp>>

Registered(c) == at[c] = "wait" \/ \E t \in Threads : at[t] = "store" /\ held[t] = c

\* Fault for Store: closed was read before the connection was made.
StoreAnyway(t) ==
  /\ at[t] = "store"
  /\ conn' = held[t]
  /\ at' = [at EXCEPT ![t] = "connected", ![held[t]] = "wait"]
  /\ held' = [held EXCEPT ![t] = Nil] /\ tries' = [tries EXCEPT ![t] = 0]
  /\ UNCHANGED <<closed, network, second, resend, ctxDone, brokerUp>>

\* The connection replaces whatever is stored; a goroutine waits for its end.
Store(t) ==
  /\ at[t] = "store" /\ ~closed
  /\ conn' = held[t]
  /\ at' = [at EXCEPT ![t] = "connected", ![held[t]] = "wait"]
  /\ held' = [held EXCEPT ![t] = Nil] /\ tries' = [tries EXCEPT ![t] = 0]
  /\ UNCHANGED <<closed, network, second, resend, ctxDone, brokerUp>>

StoreRefused(t) ==
  /\ at[t] = "store" /\ closed
  /\ open' = open \ {held[t]} /\ lost' = lost \ {held[t]}
  /\ AttemptFails(t)
  /\ UNCHANGED <<conn, closed, ctxDone, brokerUp>>

Connect(t) == \/ DialSucceeds(t) \/ DialFails(t) \/ Register(t)
              \/ Store(t) \/ StoreRefused(t)

MainConnected ==
  /\ at["main"] = "connected"
  /\ Return("main")
  /\ UNCHANGED <<conn, closed, network, ctxDone, brokerUp>>
-----------------------------------------------------------------------------
(* reconnect, by a caller or by the goroutine of a connection *)

\* closeCurrent takes the stored connection out and closes it.
ReconnectBegins(t) ==
  /\ ~closed
  /\ Goto(t, "reconnect", "dial")
  /\ conn' = Nil
  /\ CloseConn(conn)
  /\ UNCHANGED <<closed, locals, ctxDone, brokerUp>>

ReconnectGivesUp(t) ==
  /\ at[t] = "reconnect" /\ closed
  /\ Return(t)
  /\ UNCHANGED <<conn, closed, network, ctxDone, brokerUp>>

Reconnect(t) == ReconnectBegins(t) \/ ReconnectGivesUp(t)
-----------------------------------------------------------------------------
(* Publish *)

\* Fault for Take: without a channel the call fails.
TakeOrFail(t) ==
  /\ at' = [at EXCEPT ![t] = IF conn # Nil THEN "send" ELSE "idle"]
  /\ held' = [held EXCEPT ![t] = conn]
  /\ resend' = [resend EXCEPT ![t] = FALSE]

\* An attempt takes the channel; without one it reconnects.
Take(t) ==
  /\ at' = [at EXCEPT ![t] = IF conn # Nil THEN "send" ELSE "reconnect"]
  /\ held' = [held EXCEPT ![t] = conn]
  /\ resend' = [resend EXCEPT ![t] = FALSE]

PublishBegin(t) ==
  /\ at["main"] = "idle" /\ at[t] = "idle"
  /\ Take(t)
  /\ UNCHANGED <<conn, closed, network, tries, second, ctxDone, brokerUp>>

\* The message is sent, the context is done, or the error is of another kind.
PublishReturns(t) ==
  /\ at[t] = "send" /\ (held[t] \in open \/ ctxDone)
  /\ Return(t)
  /\ UNCHANGED <<conn, closed, network, ctxDone, brokerUp>>

\* The channel is closed: the call reconnects, after its last attempt too.
PublishFails(t) ==
  /\ held[t] \notin open /\ ~ctxDone
  /\ Goto(t, "send", "reconnect")
  /\ held' = [held EXCEPT ![t] = Nil]
  /\ resend' = [resend EXCEPT ![t] = TRUE]
  /\ UNCHANGED <<conn, closed, network, tries, second, ctxDone, brokerUp>>

\* Fault for SecondAttempt: every failed send is followed by another attempt.
AnotherAttempt(t) ==
  /\ at[t] = "connected" /\ resend[t]
  /\ Take(t)
  /\ UNCHANGED <<conn, closed, network, tries, second, ctxDone, brokerUp>>

SecondAttempt(t) ==
  /\ at[t] = "connected" /\ resend[t] /\ ~second[t]
  /\ second' = [second EXCEPT ![t] = TRUE]
  /\ Take(t)
  /\ UNCHANGED <<conn, closed, network, tries, ctxDone, brokerUp>>

\* The attempt that found no channel goes on if there is one now.
TakeAgain(t) ==
  /\ at[t] = "connected" /\ ~resend[t] /\ conn # Nil
  /\ Take(t)
  /\ UNCHANGED <<conn, closed, network, tries, second, ctxDone, brokerUp>>

PublishGivesUp(t) ==
  /\ at[t] = "connected"
  /\ IF resend[t] THEN second[t] ELSE conn = Nil
  /\ Return(t)
  /\ UNCHANGED <<conn, closed, network, ctxDone, brokerUp>>

Publish(t) == \/ PublishReturns(t) \/ PublishFails(t) \/ SecondAttempt(t)
              \/ TakeAgain(t) \/ PublishGivesUp(t)
-----------------------------------------------------------------------------
(* handleConnectionClose, of the connection c *)

HandlerHears(c) ==
  /\ c \in lost /\ ~closed
  /\ Goto(c, "wait", "reconnect")
  /\ lost' = lost \ {c}
  /\ UNCHANGED <<conn, closed, open, locals, ctxDone, brokerUp>>

\* Fault for HandlerEnds: so does one whose connection is not the stored one.
HandlerEndsWhenReplaced(c) ==
  /\ \/ at[c] = "wait" /\ c # conn /\ (c \in lost => closed)
     \/ at[c] = "connected"
  /\ Return(c)
  /\ lost' = lost \ {c}
  /\ UNCHANGED <<conn, closed, open, ctxDone, brokerUp>>

\* The connection was closed without an error, or the publisher is closed, or
\* the reconnection has succeeded.
HandlerEnds(c) ==
  /\ \/ at[c] = "wait" /\ c \notin open /\ (c \in lost => closed)
     \/ at[c] = "connected"
  /\ Return(c)
  /\ lost' = lost \ {c}
  /\ UNCHANGED <<conn, closed, open, ctxDone, brokerUp>>

Handler(c) == HandlerHears(c) \/ HandlerEnds(c)
-----------------------------------------------------------------------------
(* Close, and the broker *)

Cancel ==
  /\ at["main"] = "idle" /\ ~ctxDone
  /\ ctxDone' = TRUE
  /\ UNCHANGED <<conn, closed, network, at, locals, brokerUp>>

\* main closes the publisher after it has cancelled the context.
Close ==
  /\ ctxDone /\ ~closed
  /\ closed' = TRUE /\ conn' = Nil
  /\ CloseConn(conn)
  /\ UNCHANGED <<at, locals, ctxDone, brokerUp>>

\* A connection, or its channel, is lost.
Lose(c) ==
  /\ c \in open /\ ~brokerUp
  /\ open' = open \ {c}
  /\ lost' = IF Registered(c) THEN lost \cup {c} ELSE lost
  /\ UNCHANGED <<conn, closed, at, locals, ctxDone, brokerUp>>

BrokerChanges ==
  /\ brokerUp' = ~brokerUp
  /\ UNCHANGED <<conn, closed, network, at, locals, ctxDone>>

Broker == BrokerChanges \/ \E c \in Conns : Lose(c)

Thread(t) == \/ Connect(t)
             \/ (t = "main" /\ MainConnected)
             \/ (t # "main" /\ Reconnect(t))
             \/ (t \in Callers /\ Publish(t))
             \/ (t \in Conns /\ Handler(t))

Next == \/ \E t \in Threads : Thread(t)
        \/ \E t \in Callers : PublishBegin(t)
        \/ Cancel \/ Close \/ Broker

Spec == Init /\ [][Next]_vars

\* Every goroutine is scheduled, every call to the broker returns, and the
\* cameras deliver frames to publish.
Fairness == /\ \A t \in Threads : WF_vars(Thread(t))
            /\ \A t \in Callers : WF_vars(PublishBegin(t))

FairSpec == Spec /\ Fairness
-----------------------------------------------------------------------------
(* Properties *)

TypeOK ==
  /\ conn \in Conns \cup {Nil}
  /\ closed \in BOOLEAN /\ ctxDone \in BOOLEAN /\ brokerUp \in BOOLEAN
  /\ open \subseteq Conns /\ lost \subseteq Conns
  /\ at \in [Threads -> Places]
  /\ held \in [Threads -> Conns \cup {Nil}]
  /\ tries \in [Threads -> Nat] /\ \A t \in Threads : tries[t] < Limit(t)
  /\ second \in [Threads -> BOOLEAN] /\ resend \in [Threads -> BOOLEAN]

\* However a reconnection races Close, the publisher has no connection once it
\* is closed (amqp.go:79-85, 149-157).
ClosedForGood == closed => conn = Nil

Opening(t) == at[t] \in {"register", "store"}

\* Every open connection, also one that a concurrent reconnection has replaced
\* in the fields without closing it, has the goroutine that waits for its end or
\* somebody who is opening it; the stored one has its goroutine already
\* (amqp.go:77-91, 240-254).
ConnectionsWatched ==
  /\ \A c \in open : at[c] = "wait" \/ \E t \in Threads : Opening(t) /\ held[t] = c
  /\ conn \in open => at[conn] = "wait"

\* Every call to Publish returns, also while the broker is away and while
\* others close the connection that the call has just made (amqp.go:100).
PublishEnds == \A t \in Callers : (at[t] # "idle") ~> (at[t] = "idle")

\* When the broker serves again, for good, the publisher has a working
\* connection again and again, although every goroutine that could have made
\* it may have given up during the outage (amqp.go:102-103, 212-220).
Recovers == <>[](brokerUp /\ ~ctxDone)
            => []<>(conn \in open \/ at["main"] = "exited")
=============================================================================
