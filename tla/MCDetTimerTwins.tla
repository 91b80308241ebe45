-------------------------- MODULE MCDetTimerTwins --------------------------
(* A small instance of DetTimerTwins for TLC.                              *)
EXTENDS DetTimerTwins
=============================================================================
