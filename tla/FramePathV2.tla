----------------------------- MODULE FramePathV2 -----------------------------
(***************************************************************************)
(* The frames of one v2 camera, beside the goroutines of CameraStreamV2:   *)
(* readFrames sends the frames that ffmpeg delivers to frameChan,          *)
(* publishLoop takes the newest of them at each interval, and a goroutine  *)
(* of its own publishes each frame taken, one at a time under publishMu.   *)
(*                                                                         *)
(* Frames are numbered in the order in which they are received.            *)
(***************************************************************************)
EXTENDS CameraStreamV2, Sequences, FiniteSets

CONSTANTS ChannelSize,   \* the capacity of frameChan, 5
          MaxReceived    \* bound: the frames that ffmpeg delivers

ASSUME ChannelSizeAssumption == ChannelSize \in Nat \ {0}
ASSUME MaxReceivedAssumption == MaxReceived \in Nat

VARIABLES
  frameChan,                      \* the channel
  framesReceived, framesDropped, frameCount,   \* fields of CameraStream
  loop,                           \* where publishLoop stands
  newest,                         \* the frame that publishLoop holds
  flushed,                        \* history: frames given up to newer ones
  waiting,                        \* the frames whose goroutines want publishMu
  sending,                        \* the frame whose goroutine holds it, or 0
  connected, publishCount, publishErrors       \* fields of Publisher

channelVars == <<frameChan, framesReceived, framesDropped>>
loopVars == <<loop, newest, flushed, frameCount>>
publisherVars == <<connected, publishCount, publishErrors>>
frameVars == <<channelVars, loopVars, waiting, sending, publisherVars>>
pathVars == <<vars, frameVars>>

PathInit ==
  /\ Init
  /\ frameChan = <<>> /\ framesReceived = 0 /\ framesDropped = 0
  /\ loop = "check" /\ newest = 0 /\ flushed = 0 /\ frameCount = 0
  /\ waiting = {} /\ sending = 0
  /\ connected = TRUE /\ publishCount = 0 /\ publishErrors = 0
-----------------------------------------------------------------------------
(* readFrames *)

\* Fault for FrameArrives: the frame takes the place of the oldest one, which
\* nobody counts.
FrameArrivesReplacing ==
  /\ at["read"] > 0 /\ framesReceived < MaxReceived
  /\ framesReceived' = framesReceived + 1
  /\ frameChan' = IF Len(frameChan) < ChannelSize
                  THEN Append(frameChan, framesReceived')
                  ELSE Append(Tail(frameChan), framesReceived')
  /\ UNCHANGED <<vars, framesDropped, loopVars, waiting, sending, publisherVars>>

\* A full channel costs the frame that arrives.
FrameArrives ==
  /\ at["read"] > 0 /\ framesReceived < MaxReceived
  /\ framesReceived' = framesReceived + 1
  /\ IF Len(frameChan) < ChannelSize
     THEN frameChan' = Append(frameChan, framesReceived') /\ UNCHANGED framesDropped
     ELSE framesDropped' = framesDropped + 1 /\ UNCHANGED frameChan
  /\ UNCHANGED <<vars, loopVars, waiting, sending, publisherVars>>
-----------------------------------------------------------------------------
(* publishLoop *)

LoopGoto(from, to) == at["publish"] > 0 /\ loop = from /\ loop' = to

\* The context is not done; the rest of the interval passes.
LoopSleeps ==
  /\ ~ctxDone
  /\ LoopGoto("check", "take")
  /\ UNCHANGED <<vars, channelVars, newest, flushed, frameCount, waiting,
                 sending, publisherVars>>

\* Nothing to publish: the loop goes round at once.
LoopFindsNothing ==
  /\ frameChan = <<>>
  /\ LoopGoto("take", "check")
  /\ UNCHANGED <<vars, channelVars, newest, flushed, frameCount, waiting,
                 sending, publisherVars>>

LoopTakes ==
  /\ frameChan # <<>>
  /\ LoopGoto("take", "flush")
  /\ newest' = Head(frameChan) /\ frameChan' = Tail(frameChan)
  /\ UNCHANGED <<vars, framesReceived, framesDropped, flushed, frameCount,
                 waiting, sending, publisherVars>>

\* len(frameChan) > 0, and a receive.
LoopFlushes ==
  /\ frameChan # <<>>
  /\ LoopGoto("flush", "flush")
  /\ newest' = Head(frameChan) /\ frameChan' = Tail(frameChan)
  /\ flushed' = flushed + 1
  /\ UNCHANGED <<vars, framesReceived, framesDropped, frameCount, waiting,
                 sending, publisherVars>>

\* The frame is counted, and a goroutine is started to publish it.
LoopPublishes ==
  /\ frameChan = <<>>
  /\ LoopGoto("flush", "check")
  /\ frameCount' = frameCount + 1
  /\ waiting' = waiting \cup {newest} /\ newest' = 0
  /\ UNCHANGED <<vars, channelVars, flushed, sending, publisherVars>>

PublishLoop == \/ LoopSleeps \/ LoopFindsNothing \/ LoopTakes \/ LoopFlushes
               \/ LoopPublishes
-----------------------------------------------------------------------------
(* Publisher.Publish *)

\* Whichever goroutine gets the lock: frames may overtake each other.
PublishLocks(f) ==
  /\ f \in waiting /\ sending = 0
  /\ waiting' = waiting \ {f} /\ sending' = f
  /\ UNCHANGED <<vars, channelVars, loopVars, publisherVars>>

PublishSucceeds ==
  /\ sending # 0 /\ connected
  /\ publishCount' = publishCount + 1 /\ sending' = 0
  /\ UNCHANGED <<vars, channelVars, loopVars, waiting, connected, publishErrors>>

\* The publisher is not connected, or the channel returns an error.
PublishFails ==
  /\ sending # 0 /\ sending' = 0
  /\ publishErrors' = publishErrors + 1
  /\ connected' = FALSE
  /\ UNCHANGED <<vars, channelVars, loopVars, waiting, publishCount>>

Publishing == (\E f \in waiting : PublishLocks(f)) \/ PublishSucceeds \/ PublishFails

\* The publisher reconnects or loses its connection.
ConnectionTurns ==
  /\ connected' = ~connected
  /\ UNCHANGED <<vars, channelVars, loopVars, waiting, sending, publishCount,
                 publishErrors>>
-----------------------------------------------------------------------------
\* publishLoop ends where it looks at the context.
StreamSteps == /\ Next
               /\ PublishLoopEnds => loop = "check"
               /\ UNCHANGED frameVars

PathNext == StreamSteps \/ FrameArrives \/ PublishLoop \/ Publishing \/ ConnectionTurns

PathSpec == PathInit /\ [][PathNext]_pathVars

\* The goroutines are scheduled and time passes.
PathFairness ==
  /\ WF_pathVars(PublishLoopEnds /\ loop = "check" /\ UNCHANGED frameVars)
  /\ WF_pathVars(Stream /\ UNCHANGED frameVars)
  /\ WF_pathVars(Retry /\ UNCHANGED frameVars)
  /\ WF_pathVars(BackoffPasses /\ UNCHANGED frameVars)
  /\ WF_pathVars(StatsReturns /\ UNCHANGED frameVars)
  /\ WF_pathVars(PublishLoop)

FairPathSpec == PathSpec /\ PathFairness
-----------------------------------------------------------------------------
(* Properties *)

\* What the final report adds up is there: every frame received is dropped,
\* flushed, on its way or taken, and every frame taken is published, failed or
\* still with its goroutine, across the counters of the camera and of its
\* publisher (camera_stream.go:282, 293, 345, publisher.go:281, 328, 338).
FramesCounted ==
  /\ framesReceived = framesDropped + flushed + frameCount + Len(frameChan)
                      + (IF loop = "flush" THEN 1 ELSE 0)
  /\ frameCount = publishCount + publishErrors + Cardinality(waiting)
                  + (IF sending # 0 THEN 1 ELSE 0)
=============================================================================
