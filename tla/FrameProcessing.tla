-------------------------- MODULE FrameProcessing --------------------------
(***************************************************************************)
(* FrameProcessJob.Process (pkg/camera/camera.go) as the workers and the   *)
(* dispatchers execute it: each publishes a frame, saves it in the         *)
(* RedisStore that all of them share and publishes its metadata.  A frame  *)
(* is given to one of them, in the order of the frames.                    *)
(*                                                                         *)
(* The publisher reconnects by itself.  The metadata publisher was given   *)
(* the channel of the publisher's first connection when the program began, *)
(* and keeps it (cmd/edge-video/main.go:196).                              *)
(***************************************************************************)
EXTENDS RedisStore

CONSTANT MaxFrames   \* bound: the frames that are processed

ASSUME MaxFramesAssumption == MaxFrames \in Nat

VARIABLES
  stage,       \* where each Process stands
  frames,      \* how many frames were given to a Process
  connection,  \* the publisher's: the "first" one, "lost", or a "later" one
  ctxDone      \* the context of Process is done

processVars == <<stage, frames, connection, ctxDone>>
vars == <<storeVars, processVars>>

Stages == {"none", "publish", "save", "metadata"}

Init ==
  /\ StoreInit
  /\ stage = [w \in Callers |-> "none"]
  /\ frames = 0
  /\ connection = "first" /\ ctxDone = FALSE

Enter(w, from, to) == stage[w] = from /\ stage' = [stage EXCEPT ![w] = to]
-----------------------------------------------------------------------------
ProcessBegins(w) ==
  /\ frames < MaxFrames
  /\ Enter(w, "none", "publish")
  /\ frames' = frames + 1
  /\ frame' = [frame EXCEPT ![w] = frames + 1]
  /\ UNCHANGED <<redisUp, clientVars, save, callVars, keyVars, stored,
                 connection, ctxDone>>

\* Process returns to its caller.
Return(w, from) ==
  /\ Enter(w, from, "none")
  /\ frame' = [frame EXCEPT ![w] = 0]
  /\ key' = [key EXCEPT ![w] = 0]
  /\ UNCHANGED <<frames, connection, ctxDone>>

PublishFails(w) ==
  /\ connection = "lost" \/ ctxDone
  /\ Return(w, "publish")
  /\ UNCHANGED <<redisUp, clientVars, save, held, retried, keyVars, stored>>

PublishSucceeds(w) ==
  /\ connection # "lost" /\ ~ctxDone
  /\ Enter(w, "publish", "save")
  /\ SaveBegins(w)
  /\ UNCHANGED <<frames, connection, ctxDone>>

FrameIsSaved(w) == SaveGoesOn(w) /\ UNCHANGED processVars

FrameIsNotSaved(w) == SaveFails(w, ctxDone) /\ Return(w, "save")

\* SaveFrame returns the key.
ProcessGoesOn(w) ==
  /\ SetSucceeds(w)
  /\ Enter(w, "save", "metadata")
  /\ UNCHANGED <<frame, key, frames, connection, ctxDone>>

MetadataSucceeds(w) ==
  /\ connection = "first"
  /\ Return(w, "metadata")
  /\ UNCHANGED <<redisUp, clientVars, save, held, retried, keyVars, stored>>

\* The channel of the first connection is closed.
MetadataFails(w) ==
  /\ connection # "first"
  /\ Return(w, "metadata")
  /\ UNCHANGED <<redisUp, clientVars, save, held, retried, keyVars, stored>>

Process(w) ==
  \/ PublishFails(w) \/ PublishSucceeds(w)
  \/ FrameIsSaved(w) \/ FrameIsNotSaved(w) \/ ProcessGoesOn(w)
  \/ MetadataSucceeds(w) \/ MetadataFails(w)

ConnectionTurns ==
  /\ connection' = IF connection = "lost" THEN "later" ELSE "lost"
  /\ UNCHANGED <<storeVars, stage, frames, ctxDone>>

Cancel ==
  /\ ~ctxDone /\ ctxDone' = TRUE
  /\ UNCHANGED <<storeVars, stage, frames, connection>>

RedisOutage == RedisTurns /\ UNCHANGED processVars

Next ==
  \/ \E w \in Callers : ProcessBegins(w) \/ Process(w)
  \/ ConnectionTurns \/ Cancel \/ RedisOutage

Spec == Init /\ [][Next]_vars

\* Every caller is a goroutine of its own, every call it makes has a timeout,
\* and waiting goroutines get the lock in turn.  Redis and the connection need
\* not come back.
Fairness == \A w \in Callers : WF_vars(Process(w))

FairSpec == Spec /\ Fairness
-----------------------------------------------------------------------------
(* Properties *)

TypeOK ==
  /\ redisUp \in BOOLEAN
  /\ client \in Clients /\ openClients \subseteq Clients
  /\ save \in [Callers -> SavePCs]
  /\ frame \in [Callers -> 0 .. MaxFrames]
  /\ key \in [Callers -> Nat]
  /\ held \in [Callers -> Clients \cup {NoClient}]
  /\ retried \in [Callers -> BOOLEAN]
  /\ sequence \in 0 .. MaxSequence
  /\ numbers \in Seq(1 .. MaxSequence)
  /\ stored \subseteq [frame : 1 .. MaxFrames, key : Nat]
  /\ stage \in [Callers -> Stages]
  /\ frames \in 0 .. MaxFrames
  /\ connection \in {"first", "lost", "later"}
  /\ ctxDone \in BOOLEAN

\* When an answer of Redis is lost the frame is stored once more, under the
\* same key: Redis never has a frame twice, nor two frames under one key, and
\* the key that the metadata announce is the one it has the frame under
\* (redis_store.go:81-106, camera.go:471-489).
OneCopy ==
  /\ \A s, t \in stored : s.frame = t.frame <=> s.key = t.key
  /\ \A w \in Callers : stage[w] = "metadata" =>
       [frame |-> frame[w], key |-> key[w]] \in stored

\* Every Process comes back to its caller, whoever holds the lock of the store
\* and whether or not Redis and the connection ever come back.
ProcessEnds == \A w \in Callers : stage[w] # "none" ~> stage[w] = "none"
=============================================================================
