------------------------------ MODULE MCThreads ------------------------------
(* A small instance of Threads for TLC.                                    *)
EXTENDS Threads
=============================================================================
