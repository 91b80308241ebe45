------------------------------ MODULE MCTimers ------------------------------
(* Multimedia timers and SetTimer timers of up to two windows.             *)
EXTENDS Timers
=============================================================================
