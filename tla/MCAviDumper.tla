----------------------------- MODULE MCAviDumper -----------------------------
(* Small instances of AviDumper for TLC.                                   *)
EXTENDS AviDumper
==============================================================================
