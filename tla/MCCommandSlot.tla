---------------------------- MODULE MCCommandSlot ----------------------------
(* Few frames and savestate slots.                                         *)
EXTENDS CommandSlot
==============================================================================
