----------------------------- MODULE LossyQueue -----------------------------
(***************************************************************************)
(* What a camera's frame buffer promises to the capture loop and to the    *)
(* dispatcher, whatever their interleaving: a bounded FIFO queue to which  *)
(* a frame can always be added.  Adding may cost the oldest frame, never   *)
(* the newest, and a frame leaves the queue once, in order.                *)
(*                                                                         *)
(* Frames are numbered 1, 2, ... in the order in which they are added.     *)
(***************************************************************************)
EXTENDS Naturals, Sequences

CONSTANT Capacity      \* the most frames the queue holds

VARIABLES queue,       \* the frames held, oldest first
          out          \* the frames that left, in order, with their fate

vars == <<queue, out>>

\* A frame is taken by the dispatcher or given up to make room.
Fates == {"delivered", "released"}

Leave(fate) == Append(out, [frame |-> Head(queue), fate |-> fate])

NewFrame == Len(out) + Len(queue) + 1

Init == queue = <<>> /\ out = <<>>

\* A frame is added and none is lost.
Put == /\ Len(queue) < Capacity
       /\ queue' = Append(queue, NewFrame)
       /\ UNCHANGED out

\* A frame is added in the place of the oldest one.
PutReplacing == /\ queue # <<>>
                /\ queue' = Append(Tail(queue), NewFrame)
                /\ out' = Leave("released")

\* The oldest frame is taken.
Get == /\ queue # <<>>
       /\ queue' = Tail(queue)
       /\ out' = Leave("delivered")

Next == Put \/ PutReplacing \/ Get

Spec == Init /\ [][Next]_vars
=============================================================================
