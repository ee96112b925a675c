--------------------------- MODULE MCCaptureQueue ---------------------------
(* CaptureQueue on one upload; the requests of the thread pool are          *)
(* interchangeable.                                                         *)
EXTENDS CaptureQueue, TLC

RequestSymmetry == Permutations(Handlers)
=============================================================================
