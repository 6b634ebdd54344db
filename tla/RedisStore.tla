----------------------------- MODULE RedisStore -----------------------------
(***************************************************************************)
(* internal/storage: RedisStore.SaveFrame with the client that all its     *)
(* callers share, reconnect, which replaces it, and the KeyGenerator of    *)
(* the strategy "sequence".  Redis goes away and comes back at any time.   *)
(*                                                                         *)
(* A caller reads the client under the read lock and uses it after the     *)
(* unlock, so that another caller may close it in between.  The write lock *)
(* is held from the replacement of the client to the answer of Ping: its   *)
(* holder is the caller that is at "ping".                                 *)
(*                                                                         *)
(* A key stands for its sequence number and the frame it was made for,     *)
(* which gives its other parts (vhost, prefix, camera and time).           *)
(***************************************************************************)
EXTENDS Naturals, Sequences, FiniteSets

CONSTANTS Callers,      \* the goroutines that call SaveFrame
          Clients,      \* identities of clients; one out of use is used again
          NoClient,     \* what a caller outside Set holds
          MaxSequence   \* the last sequence number, 99999

ASSUME ClientsAssumption == Clients # {}
ASSUME MaxSequenceAssumption == MaxSequence \in Nat \ {0}

VARIABLES
  redisUp,      \* Redis answers
  client,       \* the client of the RedisStore
  openClients,  \* the clients that nobody has closed
  save,         \* where each call to SaveFrame stands
  frame,        \* the frame that each caller is working on
  key,          \* the key of each call to SaveFrame
  held,         \* the client of each call to SaveFrame
  retried,      \* whether the call is at its second attempt
  sequence,     \* of the KeyGenerator
  numbers,      \* history: the sequence numbers given out, in their order
  stored        \* history: the frames that Redis has stored, with their keys

keyVars == <<sequence, numbers>>
clientVars == <<client, openClients>>
callVars == <<key, held, retried>>
storeVars == <<redisUp, clientVars, save, frame, callVars, keyVars, stored>>

SavePCs == {"idle", "key", "client", "set", "lock", "ping"}

StoreInit ==
  /\ redisUp = TRUE
  /\ client = (CHOOSE c \in Clients : TRUE) /\ openClients = {client}
  /\ save = [w \in Callers |-> "idle"]
  /\ frame = [w \in Callers |-> 0]
  /\ key = [w \in Callers |-> 0]
  /\ held = [w \in Callers |-> NoClient]
  /\ retried = [w \in Callers |-> FALSE]
  /\ sequence = 0 /\ numbers = <<>> /\ stored = {}

Locked == \E w \in Callers : save[w] = "ping"

Go(w, from, to) == save[w] = from /\ save' = [save EXCEPT ![w] = to]
-----------------------------------------------------------------------------
(* The KeyGenerator *)

\* Fault for NextSequence: the numbers start again one too early.
NextSequenceEarly == IF sequence + 1 >= MaxSequence THEN 1 ELSE sequence + 1

\* getNextSequence
NextSequence == IF sequence + 1 > MaxSequence THEN 1 ELSE sequence + 1

\* GenerateKey; a key is known by its place in numbers.
GenerateKey(w) ==
  /\ Go(w, "key", "client")
  /\ sequence' = NextSequence
  /\ numbers' = Append(numbers, NextSequence)
  /\ key' = [key EXCEPT ![w] = Len(numbers) + 1]
  /\ UNCHANGED <<redisUp, clientVars, frame, held, retried, stored>>
-----------------------------------------------------------------------------
(* SaveFrame *)

SaveBegins(w) ==
  /\ Go(w, "idle", "key")
  /\ UNCHANGED <<redisUp, clientVars, frame, callVars, keyVars, stored>>

GetClient(w) ==
  /\ ~Locked
  /\ Go(w, "client", "set")
  /\ held' = [held EXCEPT ![w] = client]
  /\ UNCHANGED <<redisUp, clientVars, frame, key, retried, keyVars, stored>>

Stores(w) == stored' = stored \cup {[frame |-> frame[w], key |-> key[w]]}

\* Set returns, and SaveFrame goes on with the next attempt or returns.
SetReturns(w, to) == Go(w, "set", to) /\ held' = [held EXCEPT ![w] = NoClient]
SaveReturns(w) == retried' = [retried EXCEPT ![w] = FALSE]

SetSucceeds(w) ==
  /\ redisUp /\ held[w] \in openClients
  /\ Stores(w)
  /\ SetReturns(w, "idle") /\ SaveReturns(w)
  /\ UNCHANGED <<redisUp, clientVars, keyVars>>

\* Redis is away, or somebody closed the client.
SetInterrupted(w) == ~redisUp \/ held[w] \notin openClients

\* shouldRetry(err) is false: the connection is refused or ends, the client was
\* closed before the call, the context of the call is done.  Redis has executed
\* the command or has not.
SetFails(w, done) ==
  /\ SetInterrupted(w) \/ done
  /\ Stores(w) \/ UNCHANGED stored
  /\ SetReturns(w, "idle") /\ SaveReturns(w)
  /\ UNCHANGED <<redisUp, clientVars, keyVars>>

\* shouldRetry(err) is true: the connection timed out, was reset or was closed
\* during the call.
SetFailsRetryably(w) ==
  /\ SetInterrupted(w)
  /\ Stores(w) \/ UNCHANGED stored
  /\ SetReturns(w, "lock")
  /\ UNCHANGED <<redisUp, clientVars, frame, key, retried, keyVars>>

InUse == {client} \cup openClients \cup {held[w] : w \in Callers}
NewClient == CHOOSE c \in Clients : c \notin InUse

\* Fault for Reconnect: the client is replaced without being closed.
ReconnectNoClose(w) ==
  /\ ~Locked
  /\ Go(w, "lock", "ping")
  /\ Clients \ InUse # {} /\ client' = NewClient
  /\ openClients' = openClients \cup {client'}
  /\ UNCHANGED <<redisUp, frame, callVars, keyVars, stored>>

\* reconnect up to Ping, under the write lock.  The client may be one that
\* another caller has just opened: it is closed and replaced too.
Reconnect(w) ==
  /\ ~Locked
  /\ Go(w, "lock", "ping")
  /\ Clients \ InUse # {} /\ client' = NewClient
  /\ openClients' = (openClients \ {client}) \cup {client'}
  /\ UNCHANGED <<redisUp, frame, callVars, keyVars, stored>>

\* Fault for PingSucceeds: the second attempt generates a key of its own.
PingSucceedsNewKey(w) ==
  /\ redisUp /\ ~retried[w]
  /\ Go(w, "ping", "key")
  /\ retried' = [retried EXCEPT ![w] = TRUE]
  /\ UNCHANGED <<redisUp, clientVars, frame, key, held, keyVars, stored>>

\* The answer of Ping, the unlock and the second attempt.
PingSucceeds(w) ==
  /\ redisUp /\ ~retried[w]
  /\ Go(w, "ping", "client")
  /\ retried' = [retried EXCEPT ![w] = TRUE]
  /\ UNCHANGED <<redisUp, clientVars, frame, key, held, keyVars, stored>>

\* Fault for PingFails: without an answer the lock is kept.
PingFailsLocked(w) ==
  /\ redisUp /\ retried[w]
  /\ Go(w, "ping", "idle") /\ SaveReturns(w)
  /\ UNCHANGED <<redisUp, clientVars, held, keyVars, stored>>

\* No answer within two seconds, or the second attempt had failed and nothing
\* is left to try; the unlock.
PingFails(w) ==
  /\ ~redisUp \/ retried[w]
  /\ Go(w, "ping", "idle") /\ SaveReturns(w)
  /\ UNCHANGED <<redisUp, clientVars, held, keyVars, stored>>

\* The steps inside SaveFrame, and those with which it returns an error; done:
\* the context of the call is done.
SaveGoesOn(w) == \/ GenerateKey(w) \/ GetClient(w) \/ SetFailsRetryably(w)
                 \/ Reconnect(w) \/ PingSucceeds(w)
SaveFails(w, done) == SetFails(w, done) \/ PingFails(w)

RedisTurns ==
  /\ redisUp' = ~redisUp
  /\ UNCHANGED <<clientVars, save, frame, callVars, keyVars, stored>>
-----------------------------------------------------------------------------
(* Properties *)

\* However many callers reconnect, one after the other, over the same failure:
\* the client of the store is open, and every client that it replaced is
\* closed (redis_store.go:162-176).
OneClient == openClients = {client}

\* Keys of one camera and one time differ, unless MaxSequence keys were made
\* between them: there the sequence number starts again
\* (key_generator.go:161-172).
KeysDistinct ==
  \A i, k \in DOMAIN numbers :
    i < k /\ k - i < MaxSequence => numbers[i] # numbers[k]
=============================================================================
