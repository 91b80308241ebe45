------------------------------ MODULE MCSound ------------------------------
(* A small instance of Sound for TLC: two notification positions.          *)
EXTENDS Sound
MCPositions == <<0, 3>>
=============================================================================
