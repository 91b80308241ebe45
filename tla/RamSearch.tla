------------------------------ MODULE RamSearch ------------------------------
(***************************************************************************)
(* RAM search (application/ramsearch.cpp): the addresses of the game that  *)
(* satisfied every search so far, with their values at the last frame and  *)
(* at the last search and how often they changed.  The dialog runs on the  *)
(* UI thread; the debugger thread calls Update_RAM_Search at every frame   *)
(* and searches by itself when autosearch is on.  The list of regions has  *)
(* a lock, which searches, updates and counts take, undo takes and Elimi-  *)
(* nate does not; the flags and counts around it have none.                *)
(*                                                                         *)
(* The game maps the same areas throughout a run, so an address keeps its  *)
(* virtual index.  Values are sequences of bytes and compared for equality *)
(* only.                                                                   *)
(***************************************************************************)
EXTENDS RamRegions, FiniteSets, SequencesExt

CONSTANTS
  Areas,          \* readable and writable memory of the game: a sequence of [base, size]
  Values,         \* of a byte; 0 is one of them
  Sizes,          \* sizes of items in bytes, powers of two
  Criteria,       \* searches the user makes, see Matches
  AddressLimit,   \* the address of the search "address"
  CountModulus,   \* number of values of an unsigned short
  TooManyRegions, \* tooManyRegionsForUndo
  WriteSets,      \* bound: sets of addresses the game writes to in a frame
  MaxSelected,    \* bound: items selected at once
  MaxFrames,      \* bound
  MaxOps,         \* bound: operations of the user
  UserActions     \* names of the operations the user makes

ASSUME RamSearchAssumption ==
  /\ Areas \in Seq([base : Nat, size : Nat \ {0}])
  /\ \A i, j \in 1 .. Len(Areas) : i < j => Areas[i].base + Areas[i].size <= Areas[j].base
  /\ 0 \in Values /\ Sizes \subseteq {1, 2, 4, 8} /\ CountModulus \in Nat \ {0}
  /\ Criteria \subseteq {"equal", "different", "zero", "address", "unchanged"}
  /\ \A i \in 1 .. Len(Areas), s \in Sizes : Areas[i].base % s = 0 /\ Areas[i].size % s = 0

VARIABLES
  memory,      \* of the game
  regions,     \* s_activeMemoryRegions
  backup,      \* s_activeMemoryRegionsBackup
  undoType,    \* s_undoType
  cur,         \* s_curValues
  prev,        \* s_prevValues
  num,         \* s_numChanges
  needPrev,    \* s_prevValuesNeedUpdate
  typeSize,    \* rs_type_size, in bytes
  noMisalign,
  resultCount, \* ResultCount, and last_rs_possible
  isOpen,      \* RamSearchHWnd
  autoSearch,  \* AutoSearch: the criterion, or "off"
  ui,          \* what the UI thread is doing
  dbg,         \* what the debugger thread is doing
  ops,         \* operations of the user so far
  frames,      \* frames so far
  past         \* history, see Init

vars == <<memory, regions, backup, undoType, cur, prev, num, needPrev, typeSize, noMisalign,
          resultCount, isOpen, autoSearch, ui, dbg, ops, frames, past>>
lists   == <<regions, backup, undoType>>
arrays  == <<cur, prev, num>>
dialog  == <<typeSize, noMisalign, isOpen>>

AreaBytes(i) == Areas[i].base .. Areas[i].base + Areas[i].size - 1
Addresses == UNION {AreaBytes(i) : i \in 1 .. Len(Areas)}
AreaStart(i) ==
  LET start[j \in 0 .. Len(Areas)] == IF j = 0 THEN 0 ELSE start[j - 1] + Areas[j].size
  IN start[i - 1]
MAX_RAM_SIZE == AreaStart(Len(Areas) + 1)
Indices == 0 .. MAX_RAM_SIZE + 8 - 1

Idle == [at |-> "idle", criterion |-> "none"]

Step == IF noMisalign THEN typeSize ELSE 1
Bytes(list) == UNION {BytesOf(list[i]) : i \in 1 .. Len(list)}
ItemsIn(list, step) == {a \in Bytes(list) : a % step = 0}
Items == ItemsIn(regions, Step)
VirtualIndex ==
  [a \in Addresses |->
     LET i == CHOOSE j \in 1 .. Len(Areas) : a \in AreaBytes(j) IN AreaStart(i) + a - Areas[i].base]

-----------------------------------------------------------------------------
(* ResetMemoryRegions, without the arrays, which do not move here.         *)
AllRegions ==
  [i \in 1 .. Len(Areas) |-> [hardwareAddress |-> Areas[i].base, size |-> Areas[i].size,
                              virtualIndex |-> AreaStart(i)]]

(* CountRegionItemsT.                                                      *)
WholeItemsOf(r, step) == (r.size - StartSkipSize(r, step)) \div step
ItemsOf(r, step) == (r.size - StartSkipSize(r, step) + step - 1) \div step
CountRegionItems(list, step) ==
  LET count[n \in 0 .. Len(list)] == IF n = 0 THEN 0 ELSE count[n - 1] + ItemsOf(list[n], step)
  IN count[Len(list)]

(* UpdateRegionT, for a region and the one after it in the list, if any.   *)
(* The bytes after the region are read at once, all or none of them, and   *)
(* what cannot be read leaves junk in the buffer.                          *)
TailBytes(r) == RegionEnd(r) .. RegionEnd(r) + typeSize - 2
Buffer(mem, r, i, junk) ==
  LET a == r.hardwareAddress + i - r.virtualIndex
  IN IF a \in BytesOf(r) \/ TailBytes(r) \subseteq Addresses THEN mem[a] ELSE junk

PrevCopiedItems(r, from, to) ==
  [i \in Indices |-> IF r.virtualIndex <= i /\ i < r.virtualIndex + r.size THEN from[i] ELSE to[i]]
PrevCopied(r, from, to) ==
  [i \in Indices |->
    IF r.virtualIndex <= i /\ i < r.virtualIndex + r.size + typeSize - Step THEN from[i] ELSE to[i]]

LastIndexOfRegion(r) == r.virtualIndex + r.size
LastIndexToRead(r) ==
  r.virtualIndex + r.size + ((StartSkipSize(r, Step) - r.size) % Step) + typeSize - Step

LastIndexToCopy(lastIndexToRead, next) ==
  IF next = <<>> THEN lastIndexToRead
  ELSE LET nextIndexStart == next[1].virtualIndex + StartSkipSize(next[1], Step)
       IN IF lastIndexToRead > nextIndexStart THEN nextIndexStart ELSE lastIndexToRead

(* One byte changed: every item that contains it counts a change, unless   *)
(* it has already counted one of its other bytes.                          *)
AnyChange(nextValid, entry, i) == TRUE
ValidChange(nextValid, entry, i) == nextValid[entry] <= i
CountChange(st, i, indexStart, indexEnd) ==
  LET entry(k) == ((i - indexStart) - k + typeSize) % typeSize
      counts   == {k \in 0 .. typeSize - 1 : i < indexEnd + k /\ ValidChange(st.nextValid, entry(k), i)}
  IN [st EXCEPT
        !.num = [e \in Indices |-> IF i - e \in counts THEN (@[e] + 1) % CountModulus ELSE @[e]],
        !.nextValid = [m \in DOMAIN @ |->
           IF \E k \in counts : entry(k) = m
           THEN i - (CHOOSE k \in counts : entry(k) = m) + typeSize ELSE @[m]]]

UpdateRegion(st, mem, r, next, copyPrev, junk) ==
  LET skip       == StartSkipSize(r, Step)
      indexStart == r.virtualIndex + skip
      indexEnd   == r.virtualIndex + r.size
      lastRead   == LastIndexToRead(r)
      lastCopy   == LastIndexToCopy(lastRead, next)
      bytes      == IF lastRead > indexStart THEN lastRead - indexStart ELSE 0
      OneByte(s, i) ==
        LET byte == Buffer(mem, r, i, junk)
        IN IF s.cur[i] = byte THEN s
           ELSE CountChange([s EXCEPT !.cur[i] = IF i < lastCopy THEN byte ELSE @],
                            i, indexStart, indexEnd)
      updated[n \in 0 .. bytes] ==
        IF n = 0 THEN [st EXCEPT !.prev = IF copyPrev THEN PrevCopied(r, st.cur, st.prev) ELSE @,
                                 !.nextValid = [m \in 0 .. typeSize - 1 |-> indexStart + m]]
        ELSE OneByte(updated[n - 1], indexStart + n - 1)
  IN updated[bytes]

(* UpdateRegionsT, as signal_new_frame calls it.                           *)
UpdateRegions(st, mem, list, copyPrev, junk) ==
  LET updated[n \in 0 .. Len(list)] ==
        IF n = 0 THEN st
        ELSE UpdateRegion(updated[n - 1], mem, list[n],
                          IF n < Len(list) THEN <<list[n + 1]>> ELSE <<>>, copyPrev, junk)
  IN updated[Len(list)]

Arrays == [cur |-> cur, prev |-> prev, num |-> num, nextValid |-> <<>>]
NoChanges == [i \in Indices |-> 0]

-----------------------------------------------------------------------------
(* prune: the comparison functions, and SearchRelative, SearchSpecific,    *)
(* SearchAddress and SearchChanges.  The loop walks the indices of a       *)
(* region and, next to them, addresses from its start on.                  *)
Matches(criterion, i, hwaddr) ==
  LET curValue  == [k \in 0 .. typeSize - 1 |-> cur[i + k]]
      prevValue == [k \in 0 .. typeSize - 1 |-> prev[i + k]]
  IN CASE criterion = "equal"     -> curValue = prevValue
       [] criterion = "different" -> curValue # prevValue
       [] criterion = "zero"      -> \A k \in DOMAIN curValue : curValue[k] = 0
       [] criterion = "address"   -> hwaddr < AddressLimit
       [] criterion = "unchanged" -> num[i] = 0

(* The iterator is at a region; the index and the address of the next item *)
(* are those of its loop.  One turn looks at one item or goes on to the    *)
(* next region.                                                            *)
BeginRegion(list, at) ==
  IF at > Len(list) THEN [list |-> list, at |-> at, i |-> 0, hwaddr |-> 0, end |-> 0]
  ELSE [list |-> list, at |-> at, i |-> list[at].virtualIndex + StartSkipSize(list[at], Step),
        hwaddr |-> list[at].hardwareAddress, end |-> list[at].virtualIndex + list[at].size]
(* DeactivateRegion moves the iterator: behind what it erases, and to the  *)
(* second part of what it splits.                                          *)
AfterAlways(at, left) == at + 1
After(at, left) == IF left = <<>> THEN at ELSE at + 1
NextItem(st, list) == [st EXCEPT !.list = list, !.i = @ + Step, !.hwaddr = @ + Step]
SearchTurn(criterion, st) ==
  LET erased == DeactivateRegion(st.list[st.at], st.hwaddr, Step)
      list   == Replaced(st.list, st.at, erased.left)
  IN CASE st.at > Len(st.list) -> st
       [] st.at <= Len(st.list) /\ st.i >= st.end -> BeginRegion(st.list, st.at + 1)
       [] OTHER ->
            CASE Matches(criterion, st.i, st.hwaddr) -> NextItem(st, st.list)
              [] ~Matches(criterion, st.i, st.hwaddr) /\ erased.result = 2 ->
                   BeginRegion(list, After(st.at, erased.left))
              [] OTHER -> NextItem(st, list)

(* A turn comes to an address once as an item and once as the end of a     *)
(* region at most.                                                         *)
Search(criterion, list) ==
  LET turns == IF list = <<>> THEN 0 ELSE 2 * RegionEnd(Last(list))
      state[n \in 0 .. turns] ==
        IF n = 0 THEN BeginRegion(list, 1) ELSE SearchTurn(criterion, state[n - 1])
  IN state[turns].list

(* IDC_C_ELIMINATE: the selected items as ranges of addresses, in order,   *)
(* and one walk over the regions for all of them.                          *)
WithItemAcrossGaps(ranges, a) ==
  IF ranges # <<>> THEN [ranges EXCEPT ![Len(ranges)].size = a + Step - Last(ranges).addr]
  ELSE Append(ranges, [addr |-> a, size |-> Step])
WithItem(ranges, a) ==
  IF ranges # <<>> /\ a = Last(ranges).addr + Last(ranges).size
  THEN [ranges EXCEPT ![Len(ranges)].size = @ + Step]
  ELSE Append(ranges, [addr |-> a, size |-> Step])
MemoryEnd == IF Areas = <<>> THEN 0 ELSE Last(Areas).base + Last(Areas).size
Ranges(selected) ==
  LET below[n \in 0 .. MemoryEnd] ==
        IF n = 0 THEN <<>>
        ELSE IF n - 1 \in selected THEN WithItem(below[n - 1], n - 1) ELSE below[n - 1]
  IN below[MemoryEnd]

(* A turn of its inner loop: the iterator is at a region, the outer loop   *)
(* at a range, and affected tells whether the range has met a region.      *)
EliminateTurn(ranges, st) ==
  LET erased == DeactivateRegion(st.list[st.at], ranges[st.range].addr, ranges[st.range].size)
      list   == Replaced(st.list, st.at, erased.left)
  IN CASE st.at > Len(st.list) \/ st.range > Len(ranges) -> st
       [] OTHER ->
            CASE erased.result = 0 /\ st.affected ->
                   [st EXCEPT !.range = @ + 1, !.affected = FALSE]
              [] erased.result = 0 /\ ~st.affected -> [st EXCEPT !.at = @ + 1]
              [] OTHER -> [st EXCEPT !.list = list, !.affected = TRUE,
                                     !.at = IF erased.left = <<>> THEN @ ELSE @ + 1]

(* A range turns once for each region it meets, for the part it splits off *)
(* and for the region that ends it.                                        *)
EliminateRanges(list, ranges) ==
  LET turns == Len(list) + 2 * Len(ranges)
      state[n \in 0 .. turns] ==
        IF n = 0 THEN [list |-> list, at |-> 1, range |-> 1, affected |-> FALSE]
        ELSE EliminateTurn(ranges, state[n - 1])
  IN state[turns].list

-----------------------------------------------------------------------------
(* The bytes of items, as pairs of item and offset, whose previous values  *)
(* a copy reaches: memcpy goes to the end of the region, and for items     *)
(* that are not aligned to the last byte of the last one.                  *)
Copied(list) ==
  {b \in ItemsIn(list, Step) \X (0 .. typeSize - 1) :
     \E i \in 1 .. Len(list) :
       b[1] \in BytesOf(list[i]) /\ b[1] + b[2] < RegionEnd(list[i]) + typeSize - Step}
(* Items whose value can be read: they lie in one area, and so does what   *)
(* is read after the regions with items in them.  An item can reach into   *)
(* several regions; one whose rest cannot be read puts junk over the last  *)
(* bytes of an item of the region before it, which could be read itself.   *)
Readable(list) ==
  {a \in ItemsIn(list, Step) :
     /\ \E j \in 1 .. Len(Areas) : a .. a + typeSize - 1 \subseteq AreaBytes(j)
     /\ \A i \in 1 .. Len(list) :
          ItemsIn(<<list[i]>>, Step) \cap a .. a + typeSize - 1 # {} =>
            a + typeSize <= RegionEnd(list[i]) \/ TailBytes(list[i]) \subseteq Addresses}
Counted(read, list) ==
  [a \in Addresses |->
     IF a \in Readable(list) /\ past.seen[a] >= 0
     THEN past.seen[a] + (IF \E k \in 0 .. typeSize - 1 : past.read[a + k] # read[a + k] THEN 1 ELSE 0)
     ELSE -1]

InitArray == [i \in Indices |->
  IF \E a \in Addresses : VirtualIndex[a] = i
  THEN memory[CHOOSE a \in Addresses : VirtualIndex[a] = i] ELSE 0]

(* The dialog has just been opened for the first time.                     *)
Init ==
  /\ memory \in [Addresses -> {0}]
  /\ typeSize \in Sizes /\ noMisalign \in BOOLEAN
  /\ regions = AllRegions /\ backup = <<>> /\ undoType = 0
  /\ cur = InitArray /\ prev = InitArray /\ num = NoChanges
  /\ needPrev = FALSE
  /\ resultCount = CountRegionItems(AllRegions, Step)
  /\ isOpen = TRUE /\ autoSearch = "off"
  /\ ui = Idle /\ dbg = Idle
  /\ ops = 0 /\ frames = 0
  /\ past = [read  |-> memory,                      \* memory at the last update
             good  |-> Readable(AllRegions),         \* items read at the last update
             ref   |-> cur,                          \* values when prev became due
             known |-> Copied(AllRegions),           \* bytes of items copied to prev since
             seen  |-> [a \in Addresses |-> IF a \in Readable(AllRegions) THEN 0 ELSE -1]]
                                                     \* changes of an item, -1 if not followed

Does(action) == action \in UserActions /\ isOpen /\ ui.at = "idle" /\ ops < MaxOps /\ ops' = ops + 1

(* RamSearchSaveUndoStateIfNotTooBig.                                      *)
SaveUndoState ==
  IF Len(regions) < TooManyRegions
  THEN backup' = regions /\ undoType' = 1
  ELSE backup' = backup /\ undoType' = 0

(* soft_reset_address_info, from the regions on: two updates, the second   *)
(* of which makes the previous values those of the first.                  *)
ResetAddressInfo(st, mem) ==
  \E junk \in Values :
    LET first  == UpdateRegions(st, mem, AllRegions, FALSE, junk)
        second == UpdateRegions(first, mem, AllRegions, TRUE, junk)
    IN /\ regions' = AllRegions
       /\ cur' = second.cur /\ prev' = second.prev
       /\ num' = [i \in Indices |-> IF i < MAX_RAM_SIZE THEN 0 ELSE second.num[i]]
       /\ needPrev' = FALSE
       /\ resultCount' = CountRegionItems(AllRegions, Step)
       /\ past' = [read |-> mem, good |-> Readable(AllRegions), ref |-> first.cur,
                   known |-> Copied(AllRegions),
                   seen |-> [a \in Addresses |-> IF a \in Readable(AllRegions) THEN 0 ELSE -1]]

(* IDC_C_RESET.                                                            *)
Reset ==
  /\ Does("Reset")
  /\ ResetAddressInfo(Arrays, memory)
  /\ IF Len(regions) < TooManyRegions
     THEN backup' = regions /\ undoType' = IF resultCount' = resultCount THEN 0 ELSE 1
     ELSE backup' = backup /\ undoType' = 0
  /\ UNCHANGED <<memory, dialog, autoSearch, ui, dbg, frames>>

(* IDC_C_RESET_CHANGES.                                                    *)
ResetChanges ==
  /\ Does("ResetChanges")
  /\ num' = [i \in Indices |-> IF i < MAX_RAM_SIZE THEN 0 ELSE num[i]]
  /\ past' = [past EXCEPT !.seen = [a \in Addresses |-> IF a \in past.good THEN 0 ELSE -1]]
  /\ UNCHANGED <<memory, lists, cur, prev, needPrev, resultCount, dialog, autoSearch, ui, dbg, frames>>

(* IDC_C_UNDO.                                                             *)
UndoAlways ==
  /\ Does("Undo")
  /\ regions' = backup
  /\ IF Len(regions) < TooManyRegions
     THEN backup' = regions /\ undoType' = 3 - undoType
     ELSE backup' = backup /\ undoType' = -1
  /\ resultCount' = CountRegionItems(backup, Step)
  /\ UNCHANGED <<memory, arrays, needPrev, dialog, autoSearch, ui, dbg, frames, past>>
Undo ==
  /\ Does("Undo") /\ undoType > 0
  /\ regions' = backup
  /\ IF Len(regions) < TooManyRegions
     THEN backup' = regions /\ undoType' = 3 - undoType
     ELSE backup' = backup /\ undoType' = -1
  /\ resultCount' = CountRegionItems(backup, Step)
  /\ UNCHANGED <<memory, arrays, needPrev, dialog, autoSearch, ui, dbg, frames, past>>

(* The buttons for the size and for misaligned items: signal_new_size.     *)
SetType(size, align) ==
  /\ Does("SetType")
  /\ typeSize' = size /\ noMisalign' = align
  /\ resultCount' = CountRegionItems(regions, IF align THEN size ELSE 1)
  /\ past' = [past EXCEPT !.good = {}, !.known = {}, !.seen = [a \in Addresses |-> -1]]
  /\ UNCHANGED <<memory, lists, arrays, needPrev, isOpen, autoSearch, ui, dbg, frames>>

(* IDC_C_SEARCH, and IDC_C_AUTOSEARCH, which goes on to the search.        *)
BeginSearch(criterion, auto) ==
  /\ Does(IF auto THEN "AutoSearch" ELSE "Search")
  /\ autoSearch' = IF auto THEN criterion ELSE autoSearch
  /\ IF resultCount = 0
     THEN ui' = [Idle EXCEPT !.at = "outOfResults"] /\ UNCHANGED <<regions, backup, undoType>>
     ELSE /\ SaveUndoState
          /\ regions' = Search(criterion, regions)
          /\ ui' = [Idle EXCEPT !.at = "pruned", !.criterion = criterion]
  /\ UNCHANGED <<memory, arrays, needPrev, resultCount, dialog, dbg, frames, past>>

StopAutoSearch ==
  /\ Does("AutoSearch") /\ autoSearch # "off"
  /\ autoSearch' = "off"
  /\ UNCHANGED <<memory, lists, arrays, needPrev, resultCount, dialog, ui, dbg, frames, past>>

(* The rest of prune, after the lock has been released.  The results are   *)
(* counted under the lock and the number is stored after it (1155), here   *)
(* in one step: that a search of the other thread comes between, whose     *)
(* number the older one then replaces, is left out.                        *)
FinishPrune ==
  /\ needPrev' = TRUE
  /\ resultCount' = CountRegionItems(regions, Step)
  /\ undoType' = IF resultCount' = resultCount THEN 0 ELSE undoType
  /\ past' = [past EXCEPT !.ref = cur]

FinishSearch ==
  /\ ui.at = "pruned"
  /\ FinishPrune
  /\ ui' = IF resultCount' = 0 THEN [Idle EXCEPT !.at = "outOfResults"] ELSE Idle
  /\ UNCHANGED <<memory, regions, backup, arrays, dialog, autoSearch, dbg, ops, frames>>

(* "Out of results": the user closes the message box.                      *)
ResetSearch ==
  /\ ui.at = "outOfResults"
  /\ ResetAddressInfo(Arrays, memory)
  /\ ui' = Idle
  /\ UNCHANGED <<memory, backup, undoType, dialog, autoSearch, dbg, ops, frames>>

(* IDC_C_ELIMINATE, with some items selected.  Its walk over the list has  *)
(* no lock (2112-2132); what the other thread makes of a list that is cut  *)
(* under it depends on the allocator, and the walk is one step here.       *)
Eliminate(selected) ==
  /\ Does("Eliminate")
  /\ SaveUndoState
  /\ regions' = EliminateRanges(regions, Ranges(selected))
  /\ resultCount' = CountRegionItems(regions', Step)
  /\ UNCHANGED <<memory, arrays, needPrev, dialog, autoSearch, ui, dbg, frames, past>>

CloseDialog ==
  /\ Does("CloseDialog")
  /\ isOpen' = FALSE
  /\ UNCHANGED <<memory, lists, arrays, needPrev, resultCount, typeSize, noMisalign, autoSearch, ui,
                 dbg, frames, past>>

(* WM_INITDIALOG: nothing was updated while the dialog was closed.         *)
OpenDialog ==
  /\ ~isOpen /\ ui.at = "idle"
  /\ isOpen' = TRUE
  /\ IF resultCount = 0
     THEN ResetAddressInfo([Arrays EXCEPT !.prev = cur], memory) /\ backup' = <<>> /\ undoType' = 0
     ELSE \E junk \in Values :
            LET st == UpdateRegions(Arrays, memory, regions, TRUE, junk)
            IN /\ cur' = st.cur /\ prev' = st.prev /\ num' = st.num
               /\ needPrev' = FALSE
               /\ resultCount' = CountRegionItems(regions, Step)
               /\ past' = [read |-> memory, good |-> Readable(regions), ref |-> cur,
                           known |-> Copied(regions), seen |-> Counted(memory, regions)]
               /\ UNCHANGED lists
  /\ UNCHANGED <<memory, typeSize, noMisalign, autoSearch, ui, dbg, ops, frames>>

-----------------------------------------------------------------------------
(* Update_RAM_Search, at a frame boundary after the game has written to    *)
(* some addresses: new values, then the automatic search.                  *)
UpdateValues(mem) ==
  \E junk \in Values :
    LET st == UpdateRegions(Arrays, mem, regions, needPrev, junk)
    IN /\ cur' = st.cur /\ prev' = st.prev /\ num' = st.num
       /\ needPrev' = FALSE
       /\ past' = [past EXCEPT !.read = mem, !.good = Readable(regions),
                               !.known = IF needPrev THEN Copied(regions) ELSE @,
                               !.seen = Counted(mem, regions)]

Frame(written, value) ==
  /\ dbg.at = "idle" /\ frames < MaxFrames
  /\ frames' = frames + 1
  /\ memory' = [a \in Addresses |-> IF a \in written THEN value ELSE memory[a]]
  /\ ~(autoSearch # "off" /\ resultCount = 0)
  /\ IF isOpen THEN UpdateValues(memory') ELSE UNCHANGED <<arrays, needPrev, past>>
  /\ dbg' = IF autoSearch # "off" THEN [at |-> "search", criterion |-> autoSearch] ELSE dbg
  /\ UNCHANGED <<lists, resultCount, dialog, autoSearch, ui, ops>>

(* Autosearch has no results left: reset_address_info.                     *)
FrameOutOfResults(written, value, abort) ==
  /\ dbg.at = "idle" /\ frames < MaxFrames
  /\ frames' = frames + 1
  /\ memory' = [a \in Addresses |-> IF a \in written THEN value ELSE memory[a]]
  /\ autoSearch # "off" /\ resultCount = 0
  /\ autoSearch' = IF abort THEN "off" ELSE autoSearch
  /\ backup' = <<>> /\ undoType' = 0
  /\ IF isOpen THEN ResetAddressInfo([Arrays EXCEPT !.prev = cur], memory')
     ELSE /\ regions' = <<>> /\ prev' = cur /\ num' = NoChanges /\ cur' = cur
          /\ needPrev' = FALSE /\ resultCount' = 0
          /\ past' = [past EXCEPT !.good = {}, !.known = {}, !.seen = [a \in Addresses |-> -1]]
  /\ UNCHANGED <<dialog, ui, dbg, ops>>

AutoSearch ==
  /\ dbg.at = "search"
  /\ IF resultCount = 0 THEN dbg' = Idle /\ regions' = regions
     ELSE /\ regions' = Search(dbg.criterion, regions)
          /\ dbg' = [dbg EXCEPT !.at = "pruned"]
  /\ UNCHANGED <<memory, backup, undoType, arrays, needPrev, resultCount, dialog, autoSearch, ui, ops,
                 frames, past>>
FinishAutoSearch ==
  /\ dbg.at = "pruned"
  /\ FinishPrune
  /\ dbg' = Idle
  /\ UNCHANGED <<memory, regions, backup, arrays, dialog, autoSearch, ui, ops, frames>>

Selections == {S \in SUBSET Items : Cardinality(S) \in 1 .. MaxSelected}

Next ==
  \/ Reset \/ ResetChanges \/ Undo
  \/ \E size \in Sizes, align \in BOOLEAN : SetType(size, align)
  \/ \E criterion \in Criteria, auto \in BOOLEAN : BeginSearch(criterion, auto)
  \/ StopAutoSearch \/ FinishSearch \/ ResetSearch
  \/ \E selected \in Selections : Eliminate(selected)
  \/ CloseDialog \/ OpenDialog
  \/ \E W \in WriteSets, v \in Values : Frame(W, v)
  \/ \E W \in WriteSets, v \in Values, abort \in BOOLEAN : FrameOutOfResults(W, v, abort)
  \/ AutoSearch \/ FinishAutoSearch

Spec == Init /\ [][Next]_vars

-----------------------------------------------------------------------------
TypeOK ==
  /\ memory \in [Addresses -> Values]
  /\ undoType \in {-1, 0, 1, 2}
  /\ cur \in [Indices -> Values] /\ prev \in [Indices -> Values]
  /\ num \in [Indices -> 0 .. CountModulus - 1]
  /\ needPrev \in BOOLEAN /\ noMisalign \in BOOLEAN /\ isOpen \in BOOLEAN
  /\ typeSize \in Sizes
  /\ resultCount \in 0 .. Cardinality(Addresses)
  /\ autoSearch \in Criteria \cup {"off"}

(* The regions, and those an undo brings back, stay in order and apart,    *)
(* none is empty, and each points at the values of its own addresses:      *)
(* DeactivateRegion splits and shortens them in the middle of a loop.      *)
Sound(list) ==
  /\ \A i \in 1 .. Len(list) :
       /\ list[i].size > 0
       /\ \E j \in 1 .. Len(Areas) : BytesOf(list[i]) \subseteq AreaBytes(j)
       /\ list[i].virtualIndex = VirtualIndex[list[i].hardwareAddress]
  /\ \A i \in 1 .. Len(list) - 1 : RegionEnd(list[i]) <= list[i + 1].hardwareAddress
RegionsSound == Sound(regions) /\ Sound(backup)

(* A search leaves exactly the items that match, also in regions that do   *)
(* not start at an item; the address is compared in regions that do.       *)
Aligned(list) == \A i \in 1 .. Len(list) : StartSkipSize(list[i], Step) = 0
Searched(criterion) ==
  (criterion = "address" => Aligned(regions)) =>
    Items' = {a \in Items : Matches(criterion, VirtualIndex[a], a)}
SearchExact ==
  [][/\ ui.at = "idle" /\ ui'.at = "pruned" => Searched(ui'.criterion)
     /\ dbg.at = "search" /\ dbg'.at = "pruned" => Searched(dbg.criterion)]_vars

(* The value of an item is the one the game had at the last update, in     *)
(* all its bytes, those beyond the end of the region as well.              *)
ValuesAreOfLastFrame ==
  \A a \in Items \cap past.good, k \in 0 .. typeSize - 1 :
    cur[VirtualIndex[a] + k] = past.read[a + k]

(* The previous value of an item is its value at the last search or reset, *)
(* in every byte that is copied.  The bytes of an aligned item that lie    *)
(* beyond the end of its region are not: the copy (511) lacks the          *)
(* endSkipSize of the loop below it (549).                                 *)
PreviousIsOfLastSearch ==
  ~needPrev =>
    \A b \in past.known : b[1] \in Items =>
      prev[VirtualIndex[b[1]] + b[2]] = past.ref[VirtualIndex[b[1]] + b[2]]

(* "values at last search or reset" (133) is true of every byte of every   *)
(* item that was listed at the copy; it fails for an aligned item across   *)
(* the end of a region that was cut in the middle of it, at another size.  *)
PreviousOfEveryByte ==
  ~needPrev =>
    \A a \in Items, k \in 0 .. typeSize - 1 : <<a, 0>> \in past.known =>
      prev[VirtualIndex[a] + k] = past.ref[VirtualIndex[a] + k]

(* An item counts a change once per frame, however many bytes changed.     *)
ChangesCounted ==
  \A a \in Items : past.seen[a] >= 0 =>
    num[VirtualIndex[a]] = past.seen[a] % CountModulus

(* The number of results is that of the items when nobody is searching, if *)
(* the stores of two searches do not cross, see FinishPrune.               *)
CountIsRight ==
  ui.at # "pruned" /\ dbg.at # "pruned" => resultCount = Cardinality(Items)

(* The list of regions and the number shown for it fit the game's memory;  *)
(* the arrays fit the history of that memory.                              *)
ResultsSound == TypeOK /\ RegionsSound /\ CountIsRight
ArraysSound  == ValuesAreOfLastFrame /\ PreviousIsOfLastSearch /\ ChangesCounted

(* Eliminating items takes nothing else away: the walk erases ranges that  *)
(* cross the ends of regions.                                              *)
EliminatesNothingElse ==
  [][\A selected \in Selections :
       Eliminate(selected) => Items \ selected \subseteq Items']_vars

(* "eliminate all selected items" (ramsearch.cpp:2083).                    *)
EliminatesAllSelected ==
  [][\A selected \in Selections :
       Eliminate(selected) => selected \cap Items' = {}]_vars
=============================================================================
