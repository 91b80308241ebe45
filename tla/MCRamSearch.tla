---------------------------- MODULE MCRamSearch ----------------------------
(* Three areas of memory, the first two of them with nothing between them; *)
(* in the arrays of the search every area adjoins the one before it.       *)
EXTENDS RamSearch

MCAreas ==
  <<[base |-> 0, size |-> 4], [base |-> 4, size |-> 2], [base |-> 8, size |-> 2]>>
MCWriteSets == {{1, 2, 3, 4}}
=============================================================================
