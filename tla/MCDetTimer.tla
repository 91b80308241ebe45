----------------------------- MODULE MCDetTimer -----------------------------
(* Small instances of DetTimer for TLC.  DWord is a few times the longest  *)
(* frame and StartTicks lies just below it, so that the tick counter wraps *)
(* around within the bounded number of frames.                             *)
EXTENDS DetTimer
=============================================================================
