------------------------- MODULE MCCameraStreamV2 -------------------------
(* FramePathV2 with a breaker that opens on the second failure, a channel of *)
(* one frame and three frames: one can be with its goroutine, one in the     *)
(* channel while the next one arrives.                                       *)
EXTENDS FramePathV2

MCEnabled == TRUE
MCMaxFailures == 2
MCChannelSize == 1
MCMaxReceived == 3
=============================================================================
