---------------------------- MODULE MCSseStream ----------------------------
(* Model-checking instance of SseStream. *)
EXTENDS SseStream, TLC
=============================================================================
