----------------------------- MODULE RamRegions -----------------------------
(***************************************************************************)
(* The regions of memory a RAM search has not eliminated yet               *)
(* (application/ramsearch.cpp), and how a range of addresses is taken out  *)
(* of one of them.                                                         *)
(***************************************************************************)
EXTENDS Integers, Sequences

(* MemoryRegion: size bytes from hardwareAddress on; their values are kept *)
(* from virtualIndex on in the arrays of the search.                       *)
Region == [hardwareAddress : Nat, size : Nat \ {0}, virtualIndex : Nat]

RegionEnd(r) == r.hardwareAddress + r.size
BytesOf(r) == r.hardwareAddress .. RegionEnd(r) - 1

EraseEnd(r, address) == [r EXCEPT !.size = address - r.hardwareAddress]
EraseStartOnly(r, count) ==
  [r EXCEPT !.hardwareAddress = @ + count, !.size = @ - count]
EraseStart(r, count) ==
  [hardwareAddress |-> r.hardwareAddress + count, size |-> r.size - count,
   virtualIndex |-> r.virtualIndex + count]

(* DeactivateRegion(region, iter, address, size): what is left of the      *)
(* region, and the value returned.                                         *)
DeactivateRegion(r, address, size) ==
  LET upTo == address + size
      inside == address > r.hardwareAddress
      within == upTo < RegionEnd(r)
  IN CASE upTo <= r.hardwareAddress \/ address >= RegionEnd(r) ->
            [left |-> <<r>>, result |-> 0]
       [] OTHER ->
            CASE inside /\ ~within -> [left |-> <<EraseEnd(r, address)>>, result |-> 1]
              [] ~inside /\ within ->
                   [left |-> <<EraseStart(r, upTo - r.hardwareAddress)>>, result |-> 1]
              [] ~inside /\ ~within -> [left |-> <<>>, result |-> 2]
              [] inside /\ within ->
                   [left |-> <<EraseEnd(r, address), EraseStart(r, upTo - r.hardwareAddress)>>,
                    result |-> 2]

(* The list with what is left of a region in the place of the region.      *)
Replaced(list, at, left) == SubSeq(list, 1, at - 1) \o left \o SubSeq(list, at + 1, Len(list))

(* Items are aligned to the step; a region that starts between two items   *)
(* has some bytes to skip.                                                 *)
StartSkipSize(r, step) == (step - r.hardwareAddress) % step
=============================================================================
