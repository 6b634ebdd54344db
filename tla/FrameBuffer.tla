---------------------------- MODULE FrameBuffer ----------------------------
(***************************************************************************)
(* pkg/buffer/frame_buffer.go: the buffer between the capture loop of one  *)
(* camera (the only goroutine that calls Push) and its bufferDispatcher    *)
(* (which calls PopBlocking).                                              *)
(*                                                                         *)
(* Push is not atomic: its two selects, its blocking send and its counters *)
(* are separate steps, and the dispatcher may run between any two of them. *)
(* Frames are numbered in the order of the calls to Push, so the frame     *)
(* being pushed is number totalFrames.                                     *)
(***************************************************************************)
EXTENDS Naturals, Sequences, SequencesExt

CONSTANTS Capacity,    \* the capacity of the channel
          MaxFrames    \* bound: the calls to Push a behaviour may contain

ASSUME CapacityAssumption == Capacity \in Nat \ {0}
ASSUME MaxFramesAssumption == MaxFrames \in Nat

VARIABLES
  buffer,          \* the channel: the numbers of the frames it holds
  closed,          \* the channel was closed
  totalFrames,     \* FrameBuffer.totalFrames
  droppedFrames,   \* FrameBuffer.droppedFrames
  pc,              \* where the capture loop stands in Push
  consumer,        \* "ready", or "stopped" once PopBlocking returned false
  cancelled,       \* the dispatcher's context is done
  out,             \* history: the frames that left the channel, in order
  stats            \* where a call to Stats stands, and what it has loaded

pushVars  == <<totalFrames, droppedFrames, pc>>
popVars   == <<consumer, cancelled>>
vars == <<buffer, closed, pushVars, popVars, out, stats>>

Fates == {"delivered", "released"}
PCs == {"idle", "try", "full", "send", "count"}
StatsPCs == {"none", "loading", "done"}

\* A frame leaves the channel: every receive takes the oldest one.
Receive(fate) == /\ buffer # <<>>
                 /\ buffer' = Tail(buffer)
                 /\ out' = Append(out, [frame |-> Head(buffer), fate |-> fate])

Init ==
  /\ buffer = <<>> /\ closed = FALSE
  /\ totalFrames = 0 /\ droppedFrames = 0 /\ pc = "idle"
  /\ consumer = "ready" /\ cancelled = FALSE
  /\ out = <<>>
  /\ stats = [pc |-> "none", dropped |-> 0, total |-> 0]
-----------------------------------------------------------------------------
(* Push *)

\* Push counts the call first.  The owner of the buffer does not push after
\* Close: a send on the closed channel would panic.
PushBegin ==
  /\ pc = "idle" /\ ~closed /\ totalFrames < MaxFrames
  /\ totalFrames' = totalFrames + 1
  /\ pc' = "try"
  /\ UNCHANGED <<buffer, closed, droppedFrames, popVars, out, stats>>

\* The first select finds room.
PushTrySend ==
  /\ pc = "try" /\ Len(buffer) < Capacity
  /\ buffer' = Append(buffer, totalFrames)
  /\ pc' = "idle"
  /\ UNCHANGED <<closed, totalFrames, droppedFrames, popVars, out, stats>>

\* The first select takes its default branch: the channel is full.
PushFindsFull ==
  /\ pc = "try" /\ Len(buffer) = Capacity
  /\ pc' = "full"
  /\ UNCHANGED <<buffer, closed, totalFrames, droppedFrames, popVars, out, stats>>

\* Faults for PushDropOldest: nothing is received, or the newest frame is.
KeepOldest ==
  /\ pc = "full"
  /\ pc' = "send"
  /\ UNCHANGED <<buffer, closed, totalFrames, droppedFrames, popVars, out, stats>>
DropNewest ==
  /\ pc = "full" /\ buffer # <<>>
  /\ buffer' = Front(buffer)
  /\ out' = Append(out, [frame |-> Last(buffer), fate |-> "released"])
  /\ pc' = "send"
  /\ UNCHANGED <<closed, totalFrames, droppedFrames, popVars, stats>>

\* The inner select receives the oldest frame and releases it, even when the
\* dispatcher has made room since the channel was found full.
PushDropOldest ==
  /\ pc = "full"
  /\ Receive("released")
  /\ pc' = "send"
  /\ UNCHANGED <<closed, totalFrames, droppedFrames, popVars, stats>>

\* The inner select takes its default branch: the dispatcher has emptied the
\* channel meanwhile.
PushFindsDrained ==
  /\ pc = "full" /\ buffer = <<>>
  /\ pc' = "send"
  /\ UNCHANGED <<buffer, closed, totalFrames, droppedFrames, popVars, out, stats>>

\* The send outside any select: it would wait for ever in a full channel.
PushSend ==
  /\ pc = "send" /\ Len(buffer) < Capacity
  /\ buffer' = Append(buffer, totalFrames)
  /\ pc' = "count"
  /\ UNCHANGED <<closed, totalFrames, droppedFrames, popVars, out, stats>>

\* Fault for PushCount: the replacement is not counted.
ReturnUncounted ==
  /\ pc = "count"
  /\ pc' = "idle"
  /\ UNCHANGED <<buffer, closed, totalFrames, droppedFrames, popVars, out, stats>>

\* The replacement is counted whether or not a frame was dropped.
PushCount ==
  /\ pc = "count"
  /\ droppedFrames' = droppedFrames + 1
  /\ pc' = "idle"
  /\ UNCHANGED <<buffer, closed, totalFrames, popVars, out, stats>>

PushStep == \/ PushTrySend \/ PushFindsFull \/ PushDropOldest
            \/ PushFindsDrained \/ PushSend \/ PushCount
-----------------------------------------------------------------------------
(* Pop, PopBlocking, Close, Stats *)

\* A Pop of an empty channel, open or closed, takes nothing; neither changes
\* anything here.
Pop == /\ Receive("delivered")
       /\ UNCHANGED <<closed, pushVars, popVars, stats>>

\* Fault for PopBlockingFrame: the last buffered frame is left behind.
PopBlockingAllButOne ==
  /\ consumer = "ready" /\ Len(buffer) > 1
  /\ Receive("delivered")
  /\ UNCHANGED <<closed, pushVars, popVars, stats>>

\* The select of PopBlocking: a buffered frame and a done context are equally
\* eligible when both are there.
PopBlockingFrame ==
  /\ consumer = "ready"
  /\ Receive("delivered")
  /\ UNCHANGED <<closed, pushVars, popVars, stats>>

PopBlockingEnds ==
  /\ consumer = "ready"
  /\ cancelled \/ (closed /\ buffer = <<>>)
  /\ consumer' = "stopped"
  /\ UNCHANGED <<buffer, closed, pushVars, cancelled, out, stats>>

Cancel ==
  /\ ~cancelled
  /\ cancelled' = TRUE
  /\ UNCHANGED <<buffer, closed, pushVars, consumer, out, stats>>

\* The owner closes between two calls to Push.
Close ==
  /\ pc = "idle" /\ ~closed
  /\ closed' = TRUE
  /\ UNCHANGED <<buffer, pushVars, popVars, out, stats>>

\* The loads of StatsSwapped, a fault for Stats: they are made in the other
\* order.
LoadTotalFirst ==
  /\ stats.pc = "none"
  /\ stats' = [stats EXCEPT !.pc = "loading", !.total = totalFrames]
  /\ UNCHANGED <<buffer, closed, pushVars, popVars, out>>
LoadDroppedLast ==
  /\ stats.pc = "loading"
  /\ stats' = [stats EXCEPT !.pc = "done", !.dropped = droppedFrames]
  /\ UNCHANGED <<buffer, closed, pushVars, popVars, out>>

\* Stats loads droppedFrames, then totalFrames; Push may run in between.
StatsLoadDropped ==
  /\ stats.pc = "none"
  /\ stats' = [stats EXCEPT !.pc = "loading", !.dropped = droppedFrames]
  /\ UNCHANGED <<buffer, closed, pushVars, popVars, out>>

StatsLoadTotal ==
  /\ stats.pc = "loading"
  /\ stats' = [stats EXCEPT !.pc = "done", !.total = totalFrames]
  /\ UNCHANGED <<buffer, closed, pushVars, popVars, out>>

\* The caller has read the snapshot and may call Stats again.
StatsReturn ==
  /\ stats.pc = "done"
  /\ stats' = [pc |-> "none", dropped |-> 0, total |-> 0]
  /\ UNCHANGED <<buffer, closed, pushVars, popVars, out>>

StatsSwapped == LoadTotalFirst \/ LoadDroppedLast \/ StatsReturn

Stats == StatsLoadDropped \/ StatsLoadTotal \/ StatsReturn

PopBlocking == PopBlockingFrame \/ PopBlockingEnds

Next == PushBegin \/ PushStep \/ Pop \/ PopBlocking \/ Cancel \/ Close \/ Stats

Spec == Init /\ [][Next]_vars

\* A goroutine inside Push or PopBlocking that can move is scheduled.
Fairness == WF_vars(PushStep) /\ WF_vars(PopBlocking)

FairSpec == Spec /\ Fairness
-----------------------------------------------------------------------------
(* Properties *)

TypeOK ==
  /\ buffer \in Seq(Nat) /\ Len(buffer) <= Capacity
  /\ closed \in BOOLEAN
  /\ totalFrames \in Nat /\ droppedFrames \in Nat
  /\ pc \in PCs
  /\ consumer \in {"ready", "stopped"} /\ cancelled \in BOOLEAN
  /\ out \in Seq([frame : Nat, fate : Fates])
  /\ stats \in [pc : StatsPCs, dropped : Nat, total : Nat]

\* The frame that Push holds and that is in no other place.
InHand == IF pc \in {"try", "full", "send"} THEN 1 ELSE 0

\* Whatever the dispatcher does, the send that Push makes outside its selects
\* (frame_buffer.go:47) always finds room: a slow or stopped consumer never
\* blocks the capture loop.
PushNeverBlocks == pc = "send" => Len(buffer) < Capacity

\* Every frame given to Push is in exactly one place: in the caller's hands,
\* in the channel, or gone; and frames go in the order in which they came.  A
\* frame is thus never delivered twice, delivered after its buffer was
\* released, or overtaken by an older one.
FramesConserved ==
  /\ totalFrames = Len(out) + Len(buffer) + InHand
  /\ \A i \in 1 .. Len(out) : out[i].frame = i
  /\ \A i \in 1 .. Len(buffer) : buffer[i] = Len(out) + i

ReleasedBy(n) == {i \in 1 .. n : out[i].fate = "released"}
Released == Cardinality(ReleasedBy(Len(out)))

\* Every frame that Push gave up is in droppedFrames, at the latest when that
\* Push returns (frame_buffer.go:41-48).
ReleasesAreCounted ==
  Released <= droppedFrames + (IF pc \in {"send", "count"} THEN 1 ELSE 0)

\* A snapshot taken by Stats while Push runs never shows more frames dropped
\* than pushed, a DropRate above 100% (frame_buffer.go:80-86 loads the
\* numerator first).
StatsConsistent == stats.pc = "done" => stats.dropped <= stats.total

\* The buffer implements the abstract queue.  The frame a replacing Push still
\* holds counts as added from the moment the oldest one is given up.
Queue == INSTANCE LossyQueue WITH
           queue <- IF pc = "send" THEN Append(buffer, totalFrames) ELSE buffer
ImplementsLossyQueue == Queue!Spec

\* A pushed frame does not stay: it reaches the dispatcher or is given up to a
\* newer one, unless the dispatcher is told to stop.  Close leaves the buffered
\* frames to be received.
FramesLeave ==
  \A n \in 1 .. MaxFrames : totalFrames >= n ~> (Len(out) >= n \/ cancelled)
=============================================================================
