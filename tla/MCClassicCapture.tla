-------------------------- MODULE MCClassicCapture --------------------------
(* ClassicCapture with one measurement for each answer, and a tick of a few *)
(* seconds: the backoff goes 1, 2, 3.                                      *)
EXTENDS ClassicCapture

CONSTANTS cam, other   \* the capture loop and one more caller of its breaker

MCCallers == {cam, other}
MCCamera == cam
MCMaxFailures == 2
MCHalfOpenSuccesses == 3
MCResetTimeout == 2
MCMinBackoff == 1
MCMaxBackoff == 3
MCMaxOpens == 3
=============================================================================
