------------------------- MODULE RamSearch_proofs --------------------------
(***************************************************************************)
(* Proofs about RamSearch for every layout of the memory of the game, every*)
(* choice of sizes and criteria, and any number of frames and operations:  *)
(* what an elimination and a search take out of the list of regions, that  *)
(* the list and the number of results shown stay sound, and that the value *)
(* kept of every byte is one the memory held when it was last read.        *)
(***************************************************************************)
EXTENDS RamSearch, FiniteSetTheorems, FunctionTheorems, SequenceTheorems, WellFoundedInduction,
        TLAPS

-----------------------------------------------------------------------------
(* Numbers: a set of them has a least one.                                 *)
Below == {ss \in Nat \X Nat : ss[1] < ss[2]}

LEMMA BelowWellFounded == IsWellFoundedOn(Below, Nat)
  BY NatLessThanWellFounded, Zenon DEF OpToRel, Below

LEMMA LeastNumber ==
  ASSUME NEW T \in SUBSET Nat, T # {}
  PROVE  \E m \in T : \A n \in T : m <= n
<1>1. PICK m \in T : \A n \in T : ~(<<n, m>> \in Below)
  BY BelowWellFounded, WFMin
<1>2. \A n \in T : ~(n < m)
  BY <1>1 DEF Below
<1>3. \A n \in T : n \in Nat /\ m \in Nat
  OBVIOUS
<1> QED
  BY <1>2, <1>3

(* What holds at the start of a loop and is preserved by its turns.        *)
LEMMA Induction ==
  ASSUME NEW T \in Nat, NEW G, 0 \in G,
         \A n \in 1 .. T : n - 1 \in G => n \in G
  PROVE  \A n \in 0 .. T : n \in G
<1> DEFINE B == {n \in 0 .. T : n \notin G}
<1>1. SUFFICES ASSUME B # {} PROVE FALSE
  OBVIOUS
<1>2. B \in SUBSET Nat
  OBVIOUS
<1>3. PICK m \in B : \A n \in B : m <= n
  BY <1>1, <1>2, LeastNumber
<1>4. m \in 1 .. T /\ m - 1 \in 0 .. T /\ m - 1 \notin B
  BY <1>3
<1> QED
  BY <1>3, <1>4

(* A function defined along the numbers up to T from a state and a turn.   *)
Iterates(T, s, Turn, g) ==
  g = [n \in 0 .. T |-> IF n = 0 THEN s ELSE Turn[n][g[n - 1]]]

LEMMA IterateExtends ==
  ASSUME NEW S, NEW n \in Nat, NEW s \in S, NEW Turn \in [1 .. n + 1 -> [S -> S]],
         NEW g \in [0 .. n -> S], Iterates(n, s, Turn, g)
  PROVE  \E h \in [0 .. n + 1 -> S] : Iterates(n + 1, s, Turn, h)
<1> DEFINE h == [m \in 0 .. n + 1 |-> IF m = n + 1 THEN Turn[n + 1][g[n]] ELSE g[m]]
<1>1. Turn[n + 1][g[n]] \in S
  OBVIOUS
<1>2. h \in [0 .. n + 1 -> S]
  BY <1>1
<1>3. \A m \in 0 .. n : g[m] = IF m = 0 THEN s ELSE Turn[m][g[m - 1]]
  BY DEF Iterates
<1>4. ASSUME NEW m \in 0 .. n + 1
      PROVE  h[m] = IF m = 0 THEN s ELSE Turn[m][h[m - 1]]
  <2>1. m # 0 => m - 1 \in 0 .. n + 1 /\ m - 1 # n + 1
    OBVIOUS
  <2>2. m # 0 => h[m - 1] = g[m - 1]
    BY <2>1
  <2>3. CASE m = n + 1
    <3>1. h[m] = Turn[n + 1][g[n]] /\ m # 0 /\ m - 1 = n
      BY <2>3
    <3> HIDE DEF h
    <3> QED
      BY <2>2, <2>3, <3>1
  <2>4. CASE m # n + 1
    <3>1. h[m] = g[m] /\ m \in 0 .. n
      BY <2>4
    <3> HIDE DEF h
    <3> QED
      BY <1>3, <2>2, <3>1
  <2> QED BY <2>3, <2>4
<1> HIDE DEF h
<1>5. h = [m \in 0 .. n + 1 |-> h[m]]
  BY <1>2
<1>6. Iterates(n + 1, s, Turn, h)
  BY <1>4, <1>5 DEF Iterates
<1> QED
  BY <1>2, <1>6

LEMMA IterateExists ==
  ASSUME NEW S, NEW T \in Nat, NEW s \in S, NEW Turn \in [1 .. T -> [S -> S]]
  PROVE  \E g \in [0 .. T -> S] : Iterates(T, s, Turn, g)
<1> DEFINE Good(n) == \E g \in [0 .. n -> S] : Iterates(n, s, Turn, g)
           G == {n \in 0 .. T : Good(n)}
<1>1. 0 \in G
  <2> DEFINE g == [n \in 0 .. 0 |-> s]
  <2>1. g \in [0 .. 0 -> S] /\ Iterates(0, s, Turn, g)
    BY DEF Iterates
  <2> QED BY <2>1
<1>2. ASSUME NEW n \in 1 .. T, n - 1 \in G PROVE n \in G
  <2>1. PICK p \in Nat : n = p + 1
    BY <1>2
  <2>2. PICK g \in [0 .. p -> S] : Iterates(p, s, Turn, g)
    BY <1>2, <2>1
  <2> DEFINE Short == [m \in 1 .. p + 1 |-> Turn[m]]
  <2>3. Short \in [1 .. p + 1 -> [S -> S]]
    BY <2>1
  <2>4. \A m \in 1 .. p + 1, x \in S : Short[m][x] = Turn[m][x]
    OBVIOUS
  <2> HIDE DEF Short
  <2>5. ASSUME NEW k \in 0 .. p + 1, NEW h \in [0 .. k -> S]
        PROVE  Iterates(k, s, Turn, h) <=> Iterates(k, s, Short, h)
    <3>1. \A m \in 0 .. k : m # 0 => m \in 1 .. p + 1 /\ h[m - 1] \in S
      BY <2>1
    <3>2. \A m \in 0 .. k : m # 0 => Short[m][h[m - 1]] = Turn[m][h[m - 1]]
      BY <2>4, <3>1
    <3> QED
      BY <3>2 DEF Iterates
  <2>6. Iterates(p, s, Short, g)
    BY <2>1, <2>2, <2>5
  <2>7. \E h \in [0 .. p + 1 -> S] : Iterates(p + 1, s, Short, h)
    BY <2>1, <2>3, <2>6, IterateExtends
  <2>8. Good(p + 1)
    BY <2>5, <2>7
  <2> QED BY <2>1, <2>8
<1> HIDE DEF Good
<1>3. \A n \in 0 .. T : n \in G
  <2> HIDE DEF G
  <2> QED BY <1>1, <1>2, Induction
<1> QED
  BY <1>3 DEF Good

-----------------------------------------------------------------------------
(* RamRegions.                                                             *)

(* The part of a region between two addresses.                             *)
Part(r, from, to) ==
  [hardwareAddress |-> from, size |-> to - from,
   virtualIndex |-> r.virtualIndex + (from - r.hardwareAddress)]

LEMMA PartOf ==
  ASSUME NEW r \in Region, NEW from \in Nat, NEW to \in Nat,
         r.hardwareAddress <= from, from < to, to <= RegionEnd(r)
  PROVE  /\ Part(r, from, to) \in Region
         /\ BytesOf(Part(r, from, to)) = from .. to - 1
         /\ BytesOf(Part(r, from, to)) \subseteq BytesOf(r)
         /\ Part(r, from, to).hardwareAddress = from
         /\ RegionEnd(Part(r, from, to)) = to
         /\ Part(r, from, to).virtualIndex - from = r.virtualIndex - r.hardwareAddress
         /\ Part(r, from, to).virtualIndex + Part(r, from, to).size
              = to + (r.virtualIndex - r.hardwareAddress)
<1>1. /\ r.hardwareAddress \in Nat /\ r.size \in Nat /\ r.virtualIndex \in Nat
  BY DEF Region
<1> QED
  BY <1>1 DEF Part, Region, BytesOf, RegionEnd

(* The five ways in which a range lies over a region.                      *)
Apart(r, address, upTo, e) ==
  e.left = <<r>> /\ e.result = 0 /\ (upTo <= r.hardwareAddress \/ RegionEnd(r) <= address)
OverEnd(r, address, upTo, e) ==
  /\ e.left = <<Part(r, r.hardwareAddress, address)>> /\ e.result = 1
  /\ r.hardwareAddress < address /\ address < RegionEnd(r) /\ RegionEnd(r) <= upTo
OverStart(r, address, upTo, e) ==
  /\ e.left = <<Part(r, upTo, RegionEnd(r))>> /\ e.result = 1
  /\ address <= r.hardwareAddress /\ r.hardwareAddress < upTo /\ upTo < RegionEnd(r)
OverAll(r, address, upTo, e) ==
  e.left = <<>> /\ e.result = 2 /\ address <= r.hardwareAddress /\ RegionEnd(r) <= upTo
OverMiddle(r, address, upTo, e) ==
  /\ e.left = <<Part(r, r.hardwareAddress, address), Part(r, upTo, RegionEnd(r))>> /\ e.result = 2
  /\ r.hardwareAddress < address /\ upTo < RegionEnd(r)

LEMMA DeactivateCases ==
  ASSUME NEW r \in Region, NEW address \in Nat, NEW size \in Nat \ {0},
         NEW e, e = DeactivateRegion(r, address, size)
  PROVE  LET upTo == address + size
         IN \/ Apart(r, address, upTo, e) \/ OverEnd(r, address, upTo, e)
            \/ OverStart(r, address, upTo, e) \/ OverAll(r, address, upTo, e)
            \/ OverMiddle(r, address, upTo, e)
<1> DEFINE from == r.hardwareAddress
           end  == RegionEnd(r)
           upTo == address + size
<1>1. /\ from \in Nat /\ r.size \in Nat \ {0} /\ r.virtualIndex \in Nat /\ end = from + r.size
      /\ r = [hardwareAddress |-> from, size |-> r.size, virtualIndex |-> r.virtualIndex]
  BY DEF Region, RegionEnd
<1>2. CASE upTo <= from \/ address >= end
  <2>1. e = [left |-> <<r>>, result |-> 0]
    BY <1>2 DEF DeactivateRegion
  <2> QED
    BY <1>1, <1>2, <2>1 DEF Apart
<1>3. CASE ~(upTo <= from \/ address >= end) /\ address > from /\ ~(upTo < end)
  <2>1. e = [left |-> <<EraseEnd(r, address)>>, result |-> 1]
    BY <1>3 DEF DeactivateRegion
  <2>2. EraseEnd(r, address) = Part(r, from, address)
    BY <1>1 DEF EraseEnd, Part
  <2> QED
    BY <1>1, <1>3, <2>1, <2>2 DEF OverEnd
<1>4. CASE ~(upTo <= from \/ address >= end) /\ ~(address > from) /\ upTo < end
  <2>1. e = [left |-> <<EraseStart(r, upTo - from)>>, result |-> 1]
    BY <1>4 DEF DeactivateRegion
  <2>2. EraseStart(r, upTo - from) = Part(r, upTo, end)
    BY <1>1 DEF EraseStart, Part
  <2> QED
    BY <1>1, <1>4, <2>1, <2>2 DEF OverStart
<1>5. CASE ~(upTo <= from \/ address >= end) /\ ~(address > from) /\ ~(upTo < end)
  <2>1. e = [left |-> <<>>, result |-> 2]
    BY <1>5 DEF DeactivateRegion
  <2> QED
    BY <1>1, <1>5, <2>1 DEF OverAll
<1>6. CASE ~(upTo <= from \/ address >= end) /\ address > from /\ upTo < end
  <2>1. e = [left |-> <<EraseEnd(r, address), EraseStart(r, upTo - from)>>, result |-> 2]
    BY <1>6 DEF DeactivateRegion
  <2>2. /\ EraseEnd(r, address) = Part(r, from, address)
        /\ EraseStart(r, upTo - from) = Part(r, upTo, end)
    BY <1>1 DEF EraseEnd, EraseStart, Part
  <2> QED
    BY <1>1, <1>6, <2>1, <2>2 DEF OverMiddle
<1> QED
  BY <1>2, <1>3, <1>4, <1>5, <1>6

-----------------------------------------------------------------------------
(* Lists of regions.                                                       *)
InOrder(list) ==
  \A i, j \in 1 .. Len(list) : i < j => RegionEnd(list[i]) <= list[j].hardwareAddress
Placed(r) ==
  /\ r \in Region
  /\ \E j \in 1 .. Len(Areas) : BytesOf(r) \subseteq AreaBytes(j)
  /\ r.virtualIndex = VirtualIndex[r.hardwareAddress]
GoodList(list) ==
  list \in Seq(Region) /\ (\A i \in 1 .. Len(list) : Placed(list[i])) /\ InOrder(list)

LEMMA InBytes ==
  ASSUME NEW list, NEW a
  PROVE  a \in Bytes(list) <=> \E i \in 1 .. Len(list) : a \in BytesOf(list[i])
  BY DEF Bytes

LEMMA ReplacedPointwise ==
  ASSUME NEW S, NEW list \in Seq(S), NEW at \in 1 .. Len(list), NEW left \in Seq(S),
         NEW new, new = Replaced(list, at, left)
  PROVE  /\ new \in Seq(S) /\ Len(new) = Len(list) - 1 + Len(left)
         /\ \A n \in 1 .. Len(new) :
              /\ n < at => new[n] = list[n]
              /\ at <= n /\ n < at + Len(left) => new[n] = left[n + 1 - at]
              /\ at + Len(left) <= n => new[n] = list[n + 1 - Len(left)]
<1> DEFINE before == SubSeq(list, 1, at - 1)
           after  == SubSeq(list, at + 1, Len(list))
           m == Len(list)
           k == Len(left)
<1>0. m \in Nat /\ k \in Nat /\ at \in Nat /\ 1 <= at /\ at <= m
  OBVIOUS
<1>1. /\ before \in Seq(S) /\ Len(before) = at - 1
      /\ \A n \in 1 .. at - 1 : before[n] = list[n]
  <2> DEFINE to == at - 1
  <2>1. to \in Int /\ to <= m /\ to >= 0 /\ \A i \in 1 .. to : list[i] \in S
    OBVIOUS
  <2>2. before = SubSeq(list, 1, to)
    OBVIOUS
  <2> HIDE DEF to, before, m
  <2>3. /\ before \in Seq(S) /\ Len(before) = IF 1 <= to THEN to - 1 + 1 ELSE 0
        /\ \A i \in 1 .. to - 1 + 1 : before[i] = list[1 + i - 1]
    BY <2>1, <2>2, SubSeqProperties
  <2>4. \A i \in 1 .. to : i \in 1 .. to - 1 + 1 /\ 1 + i - 1 = i
    BY <2>1
  <2>5. Len(before) = to /\ \A i \in 1 .. to : before[i] = list[i]
    BY <2>1, <2>3, <2>4
  <2> QED
    BY <2>3, <2>5 DEF to
<1>2. /\ after \in Seq(S) /\ Len(after) = m - at
      /\ \A n \in 1 .. m - at : after[n] = list[at + n]
  <2> DEFINE from == at + 1
  <2>1. from \in Int /\ from >= 1 /\ from <= m + 1 /\ m \in Int
        /\ \A i \in from .. m : list[i] \in S
    OBVIOUS
  <2>2. after = SubSeq(list, from, m) /\ from = at + 1
    OBVIOUS
  <2> HIDE DEF from, after, m
  <2>3. /\ after \in Seq(S) /\ Len(after) = IF from <= m THEN m - from + 1 ELSE 0
        /\ \A i \in 1 .. m - from + 1 : after[i] = list[from + i - 1]
    BY <2>1, <2>2, SubSeqProperties
  <2>4. \A i \in 1 .. m - at : i \in 1 .. m - from + 1 /\ from + i - 1 = at + i
    BY <1>0, <2>2
  <2>5. Len(after) = m - at
    BY <1>0, <2>1, <2>2, <2>3
  <2>6. \A i \in 1 .. m - at : after[i] = list[at + i]
    BY <2>3, <2>4
  <2> QED
    BY <2>3, <2>5, <2>6
<1> DEFINE both == before \o left
<1>3. new = both \o after
  BY DEF Replaced
<1> HIDE DEF before, after, m, k
<1>4. /\ both \in Seq(S) /\ Len(both) = at - 1 + k
      /\ \A n \in 1 .. at - 1 + k : both[n] = IF n <= at - 1 THEN list[n] ELSE left[n - (at - 1)]
  <2>1. /\ both \in Seq(S) /\ Len(both) = Len(before) + Len(left)
        /\ \A n \in 1 .. Len(before) + Len(left) :
             both[n] = IF n <= Len(before) THEN before[n] ELSE left[n - Len(before)]
    BY <1>1, ConcatProperties
  <2>2. \A n \in 1 .. at - 1 + k : n <= at - 1 => n \in 1 .. at - 1
    BY <1>0
  <2> HIDE DEF both
  <2>3. Len(before) = at - 1 /\ Len(left) = k
    BY <1>1 DEF k
  <2> QED
    BY <1>1, <2>1, <2>2, <2>3
<1> HIDE DEF both
<1>5. /\ new \in Seq(S) /\ Len(new) = at - 1 + k + (m - at)
      /\ \A n \in 1 .. at - 1 + k + (m - at) :
           new[n] = IF n <= at - 1 + k THEN both[n] ELSE after[n - (at - 1 + k)]
  <2>1. /\ new \in Seq(S) /\ Len(new) = Len(both) + Len(after)
        /\ \A n \in 1 .. Len(both) + Len(after) :
             new[n] = IF n <= Len(both) THEN both[n] ELSE after[n - Len(both)]
    <3>1. both \in Seq(S) /\ after \in Seq(S)
      BY <1>2, <1>4
    <3> QED
      BY <1>3, <3>1, ConcatProperties
  <2>2. Len(both) = at - 1 + k /\ Len(after) = m - at
    BY <1>2, <1>4
  <2> QED
    BY <2>1, <2>2
<1>6. at - 1 + k + (m - at) = m - 1 + k
  BY <1>0
<1>7. ASSUME NEW n \in 1 .. m - 1 + k
      PROVE  /\ n < at => new[n] = list[n]
             /\ at <= n /\ n < at + k => new[n] = left[n + 1 - at]
             /\ at + k <= n => new[n] = list[n + 1 - k]
  <2>1. n < at => new[n] = list[n]
    <3>1. n < at => n \in 1 .. at - 1 + k /\ n <= at - 1 + k /\ n <= at - 1
      BY <1>0
    <3> QED
      BY <1>4, <1>5, <1>6, <3>1
  <2>2. at <= n /\ n < at + k => new[n] = left[n + 1 - at]
    <3>1. at <= n /\ n < at + k => n \in 1 .. at - 1 + k /\ n <= at - 1 + k /\ ~(n <= at - 1)
                                    /\ n - (at - 1) = n + 1 - at
      BY <1>0
    <3> QED
      BY <1>4, <1>5, <1>6, <3>1
  <2>3. at + k <= n => new[n] = list[n + 1 - k]
    <3> DEFINE i == n - (at - 1 + k)
    <3>1. at + k <= n => i \in 1 .. m - at /\ ~(n <= at - 1 + k) /\ at + i = n + 1 - k
      BY <1>0
    <3>2. at + k <= n => new[n] = after[i]
      BY <1>5, <1>6, <3>1
    <3> HIDE DEF i
    <3> QED
      BY <1>2, <3>1, <3>2
  <2> QED
    BY <2>1, <2>2, <2>3
<1> QED
  BY <1>5, <1>6, <1>7 DEF m, k

(* What is left of a region lies in it, in order, its bytes at their place *)
(* in the arrays.                                                          *)
PartsOf(left, r) ==
  /\ left \in Seq(Region) /\ InOrder(left)
  /\ \A i \in 1 .. Len(left) :
       /\ BytesOf(left[i]) \subseteq BytesOf(r)
       /\ left[i].virtualIndex - left[i].hardwareAddress = r.virtualIndex - r.hardwareAddress

LEMMA RegionEnds ==
  ASSUME NEW r \in Region
  PROVE  /\ r.hardwareAddress \in Nat /\ r.size \in Nat \ {0} /\ r.virtualIndex \in Nat
         /\ RegionEnd(r) \in Nat /\ RegionEnd(r) = r.hardwareAddress + r.size
         /\ r.hardwareAddress < RegionEnd(r)
         /\ \A a : a \in BytesOf(r) <=> a \in Nat /\ r.hardwareAddress <= a /\ a < RegionEnd(r)
  BY DEF Region, RegionEnd, BytesOf

LEMMA InsideRegion ==
  ASSUME NEW p \in Region, NEW r \in Region, BytesOf(p) \subseteq BytesOf(r)
  PROVE  r.hardwareAddress <= p.hardwareAddress /\ RegionEnd(p) <= RegionEnd(r)
<1>1. p.hardwareAddress \in BytesOf(p)
  BY RegionEnds
<1>2. RegionEnd(p) - 1 \in BytesOf(p)
  <2>1. RegionEnd(p) \in Nat /\ p.hardwareAddress \in Nat /\ p.hardwareAddress < RegionEnd(p)
    BY RegionEnds
  <2>2. RegionEnd(p) - 1 \in Nat /\ p.hardwareAddress <= RegionEnd(p) - 1
        /\ RegionEnd(p) - 1 < RegionEnd(p)
    BY <2>1
  <2> QED
    BY <2>2, RegionEnds
<1>3. p.hardwareAddress \in BytesOf(r) /\ RegionEnd(p) - 1 \in BytesOf(r)
  BY <1>1, <1>2
<1>4. RegionEnd(p) \in Nat /\ RegionEnd(r) \in Nat
  BY RegionEnds
<1> QED
  BY <1>3, <1>4, RegionEnds

PartIn(p, r) ==
  /\ p \in Region /\ BytesOf(p) \subseteq BytesOf(r)
  /\ p.virtualIndex - p.hardwareAddress = r.virtualIndex - r.hardwareAddress

LEMMA OnePart ==
  ASSUME NEW r, NEW p, PartIn(p, r)
  PROVE  PartsOf(<<p>>, r) /\ Bytes(<<p>>) = BytesOf(p)
<1>1. InOrder(<<p>>) /\ Bytes(<<p>>) = BytesOf(p)
  BY DEF InOrder, Bytes
<1> QED
  BY <1>1 DEF PartsOf, PartIn

LEMMA TwoParts ==
  ASSUME NEW r, NEW p, NEW q, PartIn(p, r), PartIn(q, r), RegionEnd(p) <= q.hardwareAddress
  PROVE  PartsOf(<<p, q>>, r) /\ Bytes(<<p, q>>) = BytesOf(p) \cup BytesOf(q)
<1>1. InOrder(<<p, q>>) /\ Bytes(<<p, q>>) = BytesOf(p) \cup BytesOf(q)
  BY DEF InOrder, Bytes
<1>2. \A i \in 1 .. 2 : PartIn(<<p, q>>[i], r)
  OBVIOUS
<1>3. <<p, q>> \in Seq(Region) /\ Len(<<p, q>>) = 2
  BY DEF PartIn
<1> QED
  BY <1>1, <1>2, <1>3, Zenon DEF PartsOf, PartIn

LEMMA DeactivateParts ==
  ASSUME NEW r \in Region, NEW address \in Nat, NEW size \in Nat \ {0},
         NEW e, e = DeactivateRegion(r, address, size)
  PROVE  /\ PartsOf(e.left, r) /\ e.result \in {0, 1, 2}
         /\ Bytes(e.left) = BytesOf(r) \ (address .. address + size - 1)
<1> DEFINE from == r.hardwareAddress
           end  == RegionEnd(r)
           upTo == address + size
<1>1. /\ from \in Nat /\ end \in Nat /\ from < end /\ upTo \in Nat /\ address < upTo
      /\ BytesOf(r) = from .. end - 1 /\ from <= from /\ end <= RegionEnd(r)
      /\ r.hardwareAddress <= from
  BY RegionEnds DEF BytesOf
<1> DEFINE first == Part(r, from, address)
           rest  == Part(r, upTo, end)
<1>2. from < address /\ address < end =>
        /\ PartIn(first, r) /\ BytesOf(first) = from .. address - 1
        /\ RegionEnd(first) = address
  <2>1. SUFFICES ASSUME from < address, address < end
                 PROVE  /\ PartIn(first, r) /\ BytesOf(first) = from .. address - 1
                        /\ RegionEnd(first) = address
    OBVIOUS
  <2>2. from \in Nat /\ address <= RegionEnd(r)
    BY <1>1, <2>1
  <2> HIDE DEF end
  <2> QED
    BY <1>1, <2>1, <2>2, PartOf DEF PartIn
<1>3. from < upTo /\ upTo < end =>
        /\ PartIn(rest, r) /\ BytesOf(rest) = upTo .. end - 1
        /\ rest.hardwareAddress = upTo
  <2>1. SUFFICES ASSUME from < upTo, upTo < end
                 PROVE  /\ PartIn(rest, r) /\ BytesOf(rest) = upTo .. end - 1
                        /\ rest.hardwareAddress = upTo
    OBVIOUS
  <2>2. r.hardwareAddress <= upTo /\ end = RegionEnd(r)
    BY <1>1, <2>1
  <2> HIDE DEF end, upTo
  <2> QED
    BY <1>1, <2>1, <2>2, PartOf DEF PartIn
<1> HIDE DEF first, rest
<1>4. CASE Apart(r, address, upTo, e)
  <2>1. e.left = <<r>> /\ e.result = 0 /\ (upTo <= from \/ end <= address)
    BY <1>4 DEF Apart
  <2>2. PartsOf(<<r>>, r) /\ Bytes(<<r>>) = BytesOf(r)
    BY OnePart DEF PartIn
  <2>4. BytesOf(r) = BytesOf(r) \ (address .. address + size - 1)
    BY <1>1, <2>1
  <2> QED BY <2>1, <2>2, <2>4
<1>5. CASE OverEnd(r, address, upTo, e)
  <2>1. e.left = <<first>> /\ e.result = 1 /\ from < address /\ address < end /\ end <= upTo
    BY <1>5 DEF OverEnd, first
  <2>2. PartsOf(<<first>>, r) /\ Bytes(<<first>>) = BytesOf(first)
    BY <1>2, <2>1, OnePart
  <2>4. BytesOf(first) = BytesOf(r) \ (address .. address + size - 1)
    BY <1>1, <1>2, <2>1
  <2> QED BY <2>1, <2>2, <2>4
<1>6. CASE OverStart(r, address, upTo, e)
  <2>1. e.left = <<rest>> /\ e.result = 1 /\ address <= from /\ from < upTo /\ upTo < end
    BY <1>6 DEF OverStart, rest
  <2>2. PartsOf(<<rest>>, r) /\ Bytes(<<rest>>) = BytesOf(rest)
    BY <1>3, <2>1, OnePart
  <2>4. BytesOf(rest) = BytesOf(r) \ (address .. address + size - 1)
    BY <1>1, <1>3, <2>1
  <2> QED BY <2>1, <2>2, <2>4
<1>7. CASE OverAll(r, address, upTo, e)
  <2>1. e.left = <<>> /\ e.result = 2 /\ address <= from /\ end <= upTo
    BY <1>7 DEF OverAll
  <2>2. PartsOf(<<>>, r) /\ Bytes(<<>>) = {}
    BY DEF PartsOf, InOrder, Bytes
  <2>3. BytesOf(r) \ (address .. address + size - 1) = {}
    BY <1>1, <2>1
  <2> QED BY <2>1, <2>2, <2>3
<1>8. CASE OverMiddle(r, address, upTo, e)
  <2>1. e.left = <<first, rest>> /\ e.result = 2 /\ from < address /\ upTo < end
    BY <1>8 DEF OverMiddle, first, rest
  <2>2. from < upTo /\ address < end
    BY <1>1, <2>1
  <2>3. PartsOf(<<first, rest>>, r)
        /\ Bytes(<<first, rest>>) = BytesOf(first) \cup BytesOf(rest)
    <3>1. RegionEnd(first) <= rest.hardwareAddress
      BY <1>1, <1>2, <1>3, <2>1, <2>2
    <3> QED
      BY <1>2, <1>3, <2>1, <2>2, <3>1, TwoParts
  <2>4. BytesOf(first) \cup BytesOf(rest) = BytesOf(r) \ (address .. address + size - 1)
    BY <1>1, <1>2, <1>3, <2>1, <2>2
  <2> QED BY <2>1, <2>3, <2>4
<1> QED
  BY <1>4, <1>5, <1>6, <1>7, <1>8, DeactivateCases

(* A region loses the bytes of the range and no others, however the range  *)
(* overlaps it; nothing empty is left behind, the parts are in order, and  *)
(* every byte keeps its place in the arrays of the search.                 *)
THEOREM DeactivateExact ==
  ASSUME NEW r \in Region, NEW address \in Nat, NEW size \in Nat \ {0},
         NEW left, left = DeactivateRegion(r, address, size).left
  PROVE  /\ left \in Seq(Region)
         /\ UNION {BytesOf(left[i]) : i \in 1 .. Len(left)}
              = BytesOf(r) \ (address .. address + size - 1)
         /\ \A i \in 1 .. Len(left) :
              left[i].virtualIndex - left[i].hardwareAddress = r.virtualIndex - r.hardwareAddress
         /\ Len(left) = 2 => RegionEnd(left[1]) <= left[2].hardwareAddress
<1> DEFINE e == DeactivateRegion(r, address, size)
<1>1. PartsOf(e.left, r) /\ Bytes(e.left) = BytesOf(r) \ (address .. address + size - 1)
  BY DeactivateParts
<1> HIDE DEF e
<1>2. left = e.left
  BY DEF e
<1>3. PartsOf(left, r)
  BY <1>1, <1>2
<1>4. UNION {BytesOf(left[i]) : i \in 1 .. Len(left)}
        = BytesOf(r) \ (address .. address + size - 1)
  BY <1>1, <1>2 DEF Bytes
<1>5. Len(left) = 2 => RegionEnd(left[1]) <= left[2].hardwareAddress
  BY <1>3 DEF PartsOf, InOrder
<1> QED
  BY <1>3, <1>4, <1>5 DEF PartsOf

-----------------------------------------------------------------------------
(* The areas of the game's memory and their place in the arrays.           *)
Starts(g) == g = [j \in 0 .. Len(Areas) |-> IF j = 0 THEN 0 ELSE g[j - 1] + Areas[j].size]

LEMMA AreaFacts ==
  /\ Len(Areas) \in Nat
  /\ \A i \in 1 .. Len(Areas) :
       Areas[i].base \in Nat /\ Areas[i].size \in Nat \ {0} /\ Areas[i].base + Areas[i].size \in Nat
  /\ \A i, j \in 1 .. Len(Areas) : i < j => Areas[i].base + Areas[i].size <= Areas[j].base
<1>1. /\ Areas \in Seq([base : Nat, size : Nat \ {0}])
      /\ \A i, j \in 1 .. Len(Areas) : i < j => Areas[i].base + Areas[i].size <= Areas[j].base
  BY RamSearchAssumption, Zenon
<1> DEFINE A == [base : Nat, size : Nat \ {0}]
<1>2. Len(Areas) \in Nat /\ \A i \in 1 .. Len(Areas) : Areas[i] \in A
  <2>1. Areas \in Seq(A)
    BY <1>1
  <2> HIDE DEF A
  <2> QED BY <2>1
<1>3. \A i \in 1 .. Len(Areas) :
        Areas[i].base \in Nat /\ Areas[i].size \in Nat \ {0}
  BY <1>2
<1> QED
  BY <1>1, <1>2, <1>3

LEMMA AreaStarts ==
  /\ AreaStart(1) = 0
  /\ \A i \in 1 .. Len(Areas) + 1 : AreaStart(i) \in Nat
  /\ \A i \in 1 .. Len(Areas) : AreaStart(i + 1) = AreaStart(i) + Areas[i].size
<1> DEFINE T == Len(Areas)
           Turn == [j \in 1 .. T |-> [x \in Nat |-> x + Areas[j].size]]
           f == CHOOSE g : Starts(g)
<1>1. T \in Nat /\ 0 \in Nat /\ Turn \in [1 .. T -> [Nat -> Nat]]
  BY AreaFacts
<1>2. PICK g \in [0 .. T -> Nat] : Iterates(T, 0, Turn, g)
  <2> HIDE DEF T, Turn
  <2> QED BY <1>1, IterateExists
<1>3. \A j \in 0 .. T : j # 0 => j \in 1 .. T /\ g[j - 1] \in Nat
  BY <1>1
<1>4. \A j \in 0 .. T : j # 0 => Turn[j][g[j - 1]] = g[j - 1] + Areas[j].size
  BY <1>3
<1>5. Starts(g)
  <2> HIDE DEF Turn
  <2> QED
    BY <1>2, <1>4 DEF Starts, Iterates
<1>6. Starts(f)
  BY <1>5
<1> HIDE DEF f
<1>7. /\ f[0] = 0 /\ \A j \in 1 .. T : f[j] = f[j - 1] + Areas[j].size
  <2>1. \A j \in 0 .. T : f[j] = IF j = 0 THEN 0 ELSE f[j - 1] + Areas[j].size
    BY <1>6 DEF Starts
  <2> QED
    BY <1>1, <2>1
<1>8. \A j \in 0 .. T : f[j] \in Nat
  <2> DEFINE G == {j \in 0 .. T : f[j] \in Nat}
  <2>1. 0 \in G
    BY <1>1, <1>7
  <2>2. ASSUME NEW j \in 1 .. T, j - 1 \in G PROVE j \in G
    <3>1. f[j] = f[j - 1] + Areas[j].size /\ f[j - 1] \in Nat /\ j \in 0 .. T
      BY <1>1, <1>7, <2>2
    <3>2. Areas[j].size \in Nat
      BY AreaFacts
    <3>3. f[j] \in Nat
      BY <3>1, <3>2
    <3> QED BY <3>1, <3>3
  <2>3. \A j \in 0 .. T : j \in G
    <3> HIDE DEF G, T
    <3> QED BY <1>1, <2>1, <2>2, Induction
  <2> QED BY <2>3
<1>9. \A i : AreaStart(i) = f[i - 1]
  BY DEF AreaStart, f, Starts
<1>10. \A i \in 1 .. T + 1 : i - 1 \in 0 .. T
  BY <1>1
<1>11. \A i \in 1 .. T : i + 1 - 1 = i
  BY <1>1
<1>12. AreaStart(1) = 0
  <2>1. 1 - 1 = 0
    OBVIOUS
  <2> QED
    BY <1>7, <1>9, <2>1
<1>13. \A i \in 1 .. T + 1 : AreaStart(i) \in Nat
  BY <1>8, <1>9, <1>10
<1>14. \A i \in 1 .. T : AreaStart(i + 1) = AreaStart(i) + Areas[i].size
  <2> SUFFICES ASSUME NEW i \in 1 .. T PROVE AreaStart(i + 1) = AreaStart(i) + Areas[i].size
    OBVIOUS
  <2>1. f[i] = f[i - 1] + Areas[i].size
    BY <1>7
  <2>2. AreaStart(i) = f[i - 1]
    BY <1>9
  <2>3. AreaStart(i + 1) = f[i + 1 - 1]
    BY <1>9
  <2>4. AreaStart(i + 1) = f[i]
    BY <1>11, <2>3
  <2> QED BY <2>1, <2>2, <2>4
<1> QED
  BY <1>12, <1>13, <1>14

LEMMA AreasApart ==
  ASSUME NEW i \in 1 .. Len(Areas), NEW j \in 1 .. Len(Areas), NEW a,
         a \in AreaBytes(i), a \in AreaBytes(j)
  PROVE  i = j
<1>1. ASSUME NEW m \in 1 .. Len(Areas), NEW n \in 1 .. Len(Areas),
             a \in AreaBytes(m), a \in AreaBytes(n), m < n
      PROVE  FALSE
  <2>1. /\ Areas[m].base \in Nat /\ Areas[m].size \in Nat /\ Areas[n].base \in Nat
        /\ Areas[n].size \in Nat /\ Areas[m].base + Areas[m].size <= Areas[n].base
    BY <1>1, AreaFacts
  <2> DEFINE b == Areas[m].base
             z == Areas[m].size
             c == Areas[n].base
  <2>2. a \in b .. b + z - 1 /\ a \in c .. c + Areas[n].size - 1
    BY <1>1 DEF AreaBytes
  <2>3. b \in Nat /\ z \in Nat /\ c \in Nat /\ b + z <= c /\ Areas[n].size \in Nat
    BY <2>1
  <2>4. a \in Int /\ a <= b + z - 1 /\ c <= a
    BY <2>2, <2>3
  <2> HIDE DEF b, z, c
  <2> QED BY <2>3, <2>4
<1> QED
  BY <1>1, AreaFacts

LEMMA IndexOf ==
  ASSUME NEW j \in 1 .. Len(Areas), NEW a \in AreaBytes(j)
  PROVE  /\ a \in Addresses /\ a \in Nat
         /\ VirtualIndex[a] = AreaStart(j) + (a - Areas[j].base)
         /\ VirtualIndex[a] \in Nat
<1>1. a \in Addresses
  BY DEF Addresses
<1> DEFINE i == CHOOSE k \in 1 .. Len(Areas) : a \in AreaBytes(k)
<1>2. i = j
  BY AreasApart
<1>3. VirtualIndex[a] = AreaStart(i) + a - Areas[i].base
  BY <1>1 DEF VirtualIndex
<1>4. /\ Areas[j].base \in Nat /\ Areas[j].size \in Nat /\ AreaStart(j) \in Nat
  <2>1. j \in 1 .. Len(Areas) + 1
    BY AreaFacts
  <2> QED
    BY <2>1, AreaFacts, AreaStarts
<1>5. a \in Nat /\ a >= Areas[j].base
  BY <1>4 DEF AreaBytes
<1> HIDE DEF i
<1> QED
  BY <1>1, <1>2, <1>3, <1>4, <1>5

(* The bytes of a region lie in the arrays as they lie in memory.          *)
LEMMA PlacedIndex ==
  ASSUME NEW r, Placed(r), NEW a \in BytesOf(r)
  PROVE  /\ a \in Addresses
         /\ VirtualIndex[a] = r.virtualIndex + (a - r.hardwareAddress)
<1>1. PICK j \in 1 .. Len(Areas) : BytesOf(r) \subseteq AreaBytes(j)
  BY DEF Placed
<1>2. r \in Region /\ r.virtualIndex = VirtualIndex[r.hardwareAddress]
  BY DEF Placed
<1>3. r.hardwareAddress \in BytesOf(r) /\ r.hardwareAddress \in Nat /\ a \in Nat
  BY <1>2, RegionEnds
<1>4. r.hardwareAddress \in AreaBytes(j) /\ a \in AreaBytes(j)
  BY <1>1, <1>3
<1>5. /\ VirtualIndex[a] = AreaStart(j) + (a - Areas[j].base)
      /\ r.virtualIndex = AreaStart(j) + (r.hardwareAddress - Areas[j].base)
      /\ a \in Addresses
  BY <1>2, <1>4, IndexOf
<1>6. AreaStart(j) \in Int /\ Areas[j].base \in Int
  <2>1. j \in 1 .. Len(Areas) + 1
    BY AreaFacts
  <2> QED
    BY <2>1, AreaFacts, AreaStarts
<1> QED
  BY <1>3, <1>5, <1>6

LEMMA PartPlaced ==
  ASSUME NEW r, Placed(r), NEW p, PartIn(p, r)
  PROVE  Placed(p)
<1>1. r \in Region /\ p \in Region /\ BytesOf(p) \subseteq BytesOf(r)
      /\ p.virtualIndex - p.hardwareAddress = r.virtualIndex - r.hardwareAddress
  BY DEF Placed, PartIn
<1>2. PICK j \in 1 .. Len(Areas) : BytesOf(r) \subseteq AreaBytes(j)
  BY DEF Placed
<1>3. p.hardwareAddress \in BytesOf(r)
  BY <1>1, RegionEnds
<1>4. VirtualIndex[p.hardwareAddress] = r.virtualIndex + (p.hardwareAddress - r.hardwareAddress)
  BY <1>3, PlacedIndex
<1>5. p.virtualIndex \in Int /\ p.hardwareAddress \in Int /\ r.virtualIndex \in Int
      /\ r.hardwareAddress \in Int
  BY <1>1, RegionEnds
<1>6. p.virtualIndex = VirtualIndex[p.hardwareAddress]
  BY <1>1, <1>4, <1>5
<1> QED
  BY <1>1, <1>2, <1>6 DEF Placed

(* What is left of a region takes its place in a good list.                *)
LEMMA ReplacedGood ==
  ASSUME NEW list, GoodList(list), NEW at \in 1 .. Len(list), NEW left, PartsOf(left, list[at]),
         NEW new, new = Replaced(list, at, left)
  PROVE  /\ GoodList(new) /\ Len(new) = Len(list) - 1 + Len(left)
         /\ Bytes(new) = (Bytes(list) \ BytesOf(list[at])) \cup Bytes(left)
<1> DEFINE k == Len(left)
           m == Len(list)
           r == list[at]
<1>1. /\ list \in Seq(Region) /\ left \in Seq(Region) /\ InOrder(list) /\ InOrder(left)
      /\ \A i \in 1 .. m : Placed(list[i])
      /\ \A i \in 1 .. k : PartIn(left[i], r)
      /\ k \in Nat /\ m \in Nat /\ at \in Nat /\ 1 <= at /\ at <= m /\ r \in Region
  <2>1. left \in Seq(Region) /\ list \in Seq(Region)
    BY DEF GoodList, PartsOf
  <2>2. \A i \in 1 .. k : left[i] \in Region
    BY <2>1
  <2> QED
    BY <2>1, <2>2 DEF GoodList, PartsOf, PartIn
<1>2. /\ new \in Seq(Region) /\ Len(new) = m - 1 + k
      /\ \A n \in 1 .. Len(new) :
           /\ n < at => new[n] = list[n]
           /\ at <= n /\ n < at + k => new[n] = left[n + 1 - at]
           /\ at + k <= n => new[n] = list[n + 1 - k]
  BY <1>1, ReplacedPointwise
<1> HIDE DEF k, m, r
<1> DEFINE Here(n) == at <= n /\ n < at + k
           old(n) == IF n < at THEN n ELSE IF n < at + k THEN at ELSE n + 1 - k
<1>3. ASSUME NEW n \in 1 .. Len(new)
      PROVE  /\ Here(n) => n + 1 - at \in 1 .. k /\ new[n] = left[n + 1 - at]
             /\ ~Here(n) => new[n] = list[old(n)] /\ old(n) # at
             /\ old(n) \in 1 .. m /\ n \in Nat
  BY <1>1, <1>2
<1>4. ASSUME NEW n \in 1 .. Len(new) PROVE Placed(new[n])
  <2>1. CASE Here(n)
    BY <1>1, <1>3, <2>1, PartPlaced DEF r, m
  <2>2. CASE ~Here(n)
    <3> HIDE DEF Here, old
    <3> QED BY <1>1, <1>3, <2>2
  <2> QED BY <2>1, <2>2
<1>5. ASSUME NEW n \in 1 .. Len(new)
      PROVE  /\ list[old(n)] \in Region /\ new[n] \in Region
             /\ list[old(n)].hardwareAddress <= new[n].hardwareAddress
             /\ RegionEnd(new[n]) <= RegionEnd(list[old(n)])
  <2> HIDE DEF old
  <2>1. list[old(n)] \in Region /\ new[n] \in Region
    BY <1>3, <1>1, <1>4 DEF Placed
  <2>2. CASE ~Here(n)
    <3>1. new[n] = list[old(n)]
      BY <1>3, <2>2
    <3>2. new[n].hardwareAddress \in Nat /\ RegionEnd(new[n]) \in Nat
      BY <2>1, RegionEnds
    <3> QED
      BY <2>1, <3>1, <3>2
  <2>3. CASE Here(n)
    <3>1. PartIn(new[n], r)
      BY <1>1, <1>3, <2>3
    <3>2. old(n) = at
      BY <2>3 DEF old
    <3>3. list[old(n)] = r
      BY <3>2 DEF r
    <3>4. BytesOf(new[n]) \subseteq BytesOf(r)
      BY <3>1 DEF PartIn
    <3> QED
      BY <1>1, <2>1, <3>3, <3>4, InsideRegion
  <2> QED BY <2>2, <2>3
<1>6. ASSUME NEW n \in 1 .. Len(new), NEW p \in 1 .. Len(new), n < p
      PROVE  RegionEnd(new[n]) <= new[p].hardwareAddress
  <2>1. CASE Here(n) /\ Here(p)
    <3> DEFINE x == n + 1 - at
               y == p + 1 - at
    <3>1. x \in 1 .. k /\ y \in 1 .. k /\ x < y /\ new[n] = left[x] /\ new[p] = left[y]
      BY <1>1, <1>3, <1>6, <2>1
    <3> HIDE DEF x, y
    <3> QED
      BY <1>1, <3>1 DEF InOrder, k
  <2>2. CASE ~(Here(n) /\ Here(p))
    <3>1. old(n) < old(p) /\ old(n) \in 1 .. m /\ old(p) \in 1 .. m
      BY <1>1, <1>3, <1>6, <2>2
    <3> HIDE DEF old
    <3>2. RegionEnd(list[old(n)]) <= list[old(p)].hardwareAddress
      BY <1>1, <3>1 DEF InOrder, m
    <3>3. /\ RegionEnd(list[old(n)]) \in Nat /\ list[old(p)].hardwareAddress \in Nat
          /\ RegionEnd(new[n]) \in Nat /\ new[p].hardwareAddress \in Nat
      BY <1>5, RegionEnds
    <3> QED
      BY <1>5, <3>2, <3>3
  <2> QED BY <2>1, <2>2
<1>7. GoodList(new)
  BY <1>2, <1>4, <1>6 DEF GoodList, InOrder
<1>8. ASSUME NEW a \in Bytes(new)
      PROVE  a \in (Bytes(list) \ BytesOf(r)) \cup Bytes(left)
  <2>1. PICK n \in 1 .. Len(new) : a \in BytesOf(new[n])
    BY InBytes
  <2>2. CASE Here(n)
    <3>1. n + 1 - at \in 1 .. k /\ new[n] = left[n + 1 - at]
      BY <1>3, <2>2
    <3> QED
      BY <2>1, <3>1, InBytes DEF k
  <2>3. CASE ~Here(n)
    <3>1. new[n] = list[old(n)] /\ old(n) # at /\ old(n) \in 1 .. m
      BY <1>3, <2>3
    <3> HIDE DEF old
    <3>2. a \in Bytes(list)
      BY <2>1, <3>1, InBytes DEF m
    <3>3. a \notin BytesOf(r)
      <4>1. list[old(n)] \in Region
        BY <1>5
      <4>2. old(n) < at \/ at < old(n)
        BY <1>1, <3>1
      <4>3. RegionEnd(list[old(n)]) <= r.hardwareAddress \/ RegionEnd(r) <= list[old(n)].hardwareAddress
        BY <1>1, <3>1, <4>2 DEF InOrder, m, r
      <4>4. a \in Nat /\ list[old(n)].hardwareAddress <= a /\ a < RegionEnd(list[old(n)])
            /\ list[old(n)].hardwareAddress \in Nat /\ RegionEnd(list[old(n)]) \in Nat
        BY <2>1, <3>1, <4>1, RegionEnds
      <4>5. r.hardwareAddress \in Nat /\ RegionEnd(r) \in Nat
            /\ (a \in BytesOf(r) => r.hardwareAddress <= a /\ a < RegionEnd(r))
        BY <1>1, RegionEnds
      <4> QED
        BY <4>3, <4>4, <4>5
    <3> QED BY <3>2, <3>3
  <2> QED BY <2>2, <2>3
<1>9. ASSUME NEW a \in Bytes(left) PROVE a \in Bytes(new)
  <2>1. PICK i \in 1 .. k : a \in BytesOf(left[i])
    BY InBytes DEF k
  <2> DEFINE n == at + i - 1
  <2>2. n \in 1 .. Len(new) /\ at <= n /\ n < at + k /\ n + 1 - at = i
    BY <1>1, <1>2
  <2> HIDE DEF n
  <2>3. new[n] = left[i]
    BY <1>2, <2>2
  <2> QED
    BY <2>1, <2>2, <2>3, InBytes
<1>10. ASSUME NEW a \in Bytes(list), a \notin BytesOf(r) PROVE a \in Bytes(new)
  <2>1. PICK i \in 1 .. m : a \in BytesOf(list[i])
    BY InBytes DEF m
  <2>2. i # at
    BY <1>10, <2>1 DEF r
  <2> DEFINE n == IF i < at THEN i ELSE i - 1 + k
  <2>3. n \in 1 .. Len(new) /\ (i < at => n = i) /\ (~(i < at) => n + 1 - k = i /\ at + k <= n)
    BY <1>1, <1>2, <2>2
  <2> HIDE DEF n
  <2>4. new[n] = list[i]
    BY <1>2, <2>3
  <2> QED
    BY <2>1, <2>3, <2>4, InBytes
<1>11. Bytes(new) = (Bytes(list) \ BytesOf(r)) \cup Bytes(left)
  BY <1>8, <1>9, <1>10
<1> QED
  BY <1>2, <1>7, <1>11 DEF k, m, r

-----------------------------------------------------------------------------
(* Elimination.                                                            *)
Range1 == [addr : Nat, size : Nat \ {0}]
BytesOfRange(range) == range.addr .. range.addr + range.size - 1
BytesOfRanges(ranges) == UNION {BytesOfRange(ranges[i]) : i \in 1 .. Len(ranges)}

(* The states of the walk: the regions are in order and no byte outside of *)
(* the ranges has been lost.                                               *)
EliminateStates(list, ranges) ==
  {st \in [list : Seq(Region), at : Nat \ {0}, range : Nat \ {0}, affected : BOOLEAN] :
     /\ GoodList(st.list)
     /\ Bytes(st.list) \subseteq Bytes(list)
     /\ Bytes(list) \ BytesOfRanges(ranges) \subseteq Bytes(st.list)}

LEMMA EliminateTurnKeeps ==
  ASSUME NEW list, NEW ranges \in Seq(Range1), NEW st \in EliminateStates(list, ranges)
  PROVE  EliminateTurn(ranges, st) \in EliminateStates(list, ranges)
<1> DEFINE r == st.list[st.at]
           range == ranges[st.range]
           e == DeactivateRegion(r, range.addr, range.size)
           new == Replaced(st.list, st.at, e.left)
<1>0. /\ st \in [list : Seq(Region), at : Nat \ {0}, range : Nat \ {0}, affected : BOOLEAN]
      /\ GoodList(st.list) /\ Bytes(st.list) \subseteq Bytes(list)
      /\ Bytes(list) \ BytesOfRanges(ranges) \subseteq Bytes(st.list)
  BY DEF EliminateStates
<1>1. CASE st.at > Len(st.list) \/ st.range > Len(ranges)
  BY <1>1 DEF EliminateTurn
<1>2. CASE ~(st.at > Len(st.list) \/ st.range > Len(ranges))
  <2>1. st.at \in 1 .. Len(st.list) /\ st.range \in 1 .. Len(ranges)
    BY <1>0, <1>2
  <2>2. r \in Region /\ range \in Range1
    BY <1>0, <2>1
  <2>3. range.addr \in Nat /\ range.size \in Nat \ {0}
    BY <2>2 DEF Range1
  <2>4. PartsOf(e.left, r) /\ Bytes(e.left) = BytesOf(r) \ BytesOfRange(range)
    <3> HIDE DEF r, range
    <3>1. Bytes(e.left) = BytesOf(r) \ (range.addr .. range.addr + range.size - 1)
          /\ PartsOf(e.left, r)
      BY <2>2, <2>3, DeactivateParts
    <3> QED BY <3>1 DEF BytesOfRange
  <2>5. /\ GoodList(new)
        /\ Bytes(new) = (Bytes(st.list) \ BytesOf(r)) \cup Bytes(e.left)
    <3> HIDE DEF e
    <3> QED BY <1>0, <2>1, <2>4, ReplacedGood
  <2>6. BytesOfRange(range) \subseteq BytesOfRanges(ranges)
    BY <2>1 DEF BytesOfRanges
  <2>7. BytesOf(r) \subseteq Bytes(st.list)
    BY <2>1 DEF Bytes
  <2>8. new \in Seq(Region) /\ Bytes(new) \subseteq Bytes(list)
        /\ Bytes(list) \ BytesOfRanges(ranges) \subseteq Bytes(new)
    BY <1>0, <2>4, <2>5, <2>6, <2>7 DEF GoodList
  <2>9. \/ EliminateTurn(ranges, st) = [st EXCEPT !.range = @ + 1, !.affected = FALSE]
        \/ EliminateTurn(ranges, st) = [st EXCEPT !.at = @ + 1]
        \/ EliminateTurn(ranges, st)
             = [st EXCEPT !.list = new, !.affected = TRUE,
                          !.at = IF e.left = <<>> THEN @ ELSE @ + 1]
    <3> DEFINE turn == CASE e.result = 0 /\ st.affected ->
                   [st EXCEPT !.range = @ + 1, !.affected = FALSE]
              [] e.result = 0 /\ ~st.affected -> [st EXCEPT !.at = @ + 1]
              [] OTHER -> [st EXCEPT !.list = new, !.affected = TRUE,
                                     !.at = IF e.left = <<>> THEN @ ELSE @ + 1]
    <3>1. EliminateTurn(ranges, st) = turn
      BY <1>2 DEF EliminateTurn
    <3> HIDE DEF e, new
    <3>2. \/ turn = [st EXCEPT !.range = @ + 1, !.affected = FALSE]
          \/ turn = [st EXCEPT !.at = @ + 1]
          \/ turn = [st EXCEPT !.list = new, !.affected = TRUE,
                          !.at = IF e.left = <<>> THEN @ ELSE @ + 1]
      OBVIOUS
    <3> QED BY <3>1, <3>2
  <2> HIDE DEF e, new
  <2> DEFINE at == IF e.left = <<>> THEN st.at ELSE st.at + 1
  <2>10. at \in Nat \ {0} /\ st.at + 1 \in Nat \ {0} /\ st.range + 1 \in Nat \ {0}
    BY <1>0
  <2>11. CASE EliminateTurn(ranges, st) = [st EXCEPT !.range = @ + 1, !.affected = FALSE]
    BY <1>0, <2>10, <2>11 DEF EliminateStates
  <2>12. CASE EliminateTurn(ranges, st) = [st EXCEPT !.at = @ + 1]
    BY <1>0, <2>10, <2>12 DEF EliminateStates
  <2>13. CASE EliminateTurn(ranges, st)
                = [st EXCEPT !.list = new, !.affected = TRUE,
                             !.at = IF e.left = <<>> THEN @ ELSE @ + 1]
    <3>1. EliminateTurn(ranges, st) = [st EXCEPT !.list = new, !.affected = TRUE, !.at = at]
      BY <2>13
    <3> HIDE DEF at
    <3> QED
      BY <1>0, <2>5, <2>8, <2>10, <3>1 DEF EliminateStates
  <2> QED
    BY <2>9, <2>11, <2>12, <2>13
<1> QED BY <1>1, <1>2

EliminateSteps(list, ranges, T, g) ==
  g = [n \in 0 .. T |->
        IF n = 0 THEN [list |-> list, at |-> 1, range |-> 1, affected |-> FALSE]
        ELSE EliminateTurn(ranges, g[n - 1])]

LEMMA EliminateKeeps ==
  ASSUME NEW list, GoodList(list), NEW ranges \in Seq(Range1),
         NEW new, new = EliminateRanges(list, ranges)
  PROVE  /\ GoodList(new) /\ Bytes(new) \subseteq Bytes(list)
         /\ Bytes(list) \ BytesOfRanges(ranges) \subseteq Bytes(new)
<1> DEFINE T == Len(list) + 2 * Len(ranges)
           S == EliminateStates(list, ranges)
           s == [list |-> list, at |-> 1, range |-> 1, affected |-> FALSE]
           Turn == [n \in 1 .. T |-> [st \in S |-> EliminateTurn(ranges, st)]]
           f == CHOOSE g : EliminateSteps(list, ranges, T, g)
<1>1. T \in Nat /\ s \in S
  BY DEF GoodList, EliminateStates
<1>2. \A st \in S : EliminateTurn(ranges, st) \in S
  BY EliminateTurnKeeps
<1>3. Turn \in [1 .. T -> [S -> S]]
  <2> HIDE DEF T, S
  <2> QED BY <1>2
<1>4. PICK g \in [0 .. T -> S] : Iterates(T, s, Turn, g)
  <2> HIDE DEF T, S, s, Turn
  <2> QED BY <1>1, <1>3, IterateExists
<1> HIDE DEF S, s
<1>5. \A n \in 0 .. T : n # 0 => n \in 1 .. T /\ n - 1 \in 0 .. T
  <2> HIDE DEF T
  <2> QED BY <1>1
<1>6. \A n \in 0 .. T : n # 0 => Turn[n][g[n - 1]] = EliminateTurn(ranges, g[n - 1])
  <2> HIDE DEF T
  <2> QED BY <1>5
<1>7. EliminateSteps(list, ranges, T, g)
  <2> HIDE DEF T, Turn
  <2> QED BY <1>4, <1>6 DEF EliminateSteps, Iterates, s
<1>8. EliminateSteps(list, ranges, T, f)
  BY <1>7
<1>9. new = f[T].list
  BY DEF EliminateRanges, EliminateSteps
<1> HIDE DEF f, T, Turn
<1>10. /\ f[0] = s /\ \A n \in 1 .. T : f[n] = EliminateTurn(ranges, f[n - 1])
  <2>1. \A n \in 0 .. T : f[n] = IF n = 0 THEN s ELSE EliminateTurn(ranges, f[n - 1])
    BY <1>8 DEF EliminateSteps, s
  <2> QED BY <1>1, <2>1
<1> DEFINE G == {n \in 0 .. T : f[n] \in S}
<1>11. 0 \in G /\ \A n \in 1 .. T : n - 1 \in G => n \in G
  BY <1>1, <1>2, <1>10
<1>12. \A n \in 0 .. T : n \in G
  <2> HIDE DEF G
  <2> QED BY <1>1, <1>11, Induction
<1>13. f[T] \in S
  BY <1>1, <1>12
<1> QED
  BY <1>9, <1>13 DEF S, EliminateStates

(* The ranges hold only bytes of selected items.                           *)
BytesOfItems(selected) == {b \in Nat : \E a \in selected : a <= b /\ b < a + Step}
RangeLists(selected) ==
  {ranges \in Seq(Range1) :
     \A i \in 1 .. Len(ranges) : BytesOfRange(ranges[i]) \subseteq BytesOfItems(selected)}

LEMMA WithItemIn ==
  ASSUME Step \in Nat \ {0}, NEW selected, NEW ranges \in RangeLists(selected),
         NEW a \in Nat, a \in selected
  PROVE  WithItem(ranges, a) \in RangeLists(selected)
<1> DEFINE n == Len(ranges)
           last == ranges[n]
           one == [addr |-> a, size |-> Step]
           grown == [last EXCEPT !.size = @ + Step]
<1>1. /\ ranges \in Seq(Range1) /\ n \in Nat
      /\ \A i \in 1 .. n : BytesOfRange(ranges[i]) \subseteq BytesOfItems(selected)
  BY DEF RangeLists
<1>2. a .. a + Step - 1 \subseteq BytesOfItems(selected)
  BY DEF BytesOfItems
<1>3. CASE ranges # <<>> /\ a = last.addr + last.size
  <2>1. n \in 1 .. n /\ n >= 1
    BY <1>1, <1>3
  <2>2. last \in Range1
    BY <1>1, <2>1
  <2>3. /\ grown \in Range1 /\ grown.addr = last.addr /\ grown.size = last.size + Step
        /\ last.addr \in Nat /\ last.size \in Nat
    BY <2>2 DEF Range1
  <2>4. BytesOfRange(last) \subseteq BytesOfItems(selected)
    BY <1>1, <2>1
  <2>5. BytesOfRange(grown) \subseteq BytesOfRange(last) \cup (a .. a + Step - 1)
    <3> HIDE DEF grown, last
    <3> QED BY <1>3, <2>3 DEF BytesOfRange
  <2>6. WithItem(ranges, a) = [ranges EXCEPT ![n] = grown]
    <3>1. WithItem(ranges, a) = [ranges EXCEPT ![n].size = @ + Step]
      BY <1>3 DEF WithItem, Last
    <3> QED BY <3>1, <2>1, <1>1
  <2> HIDE DEF grown, last
  <2>7. [ranges EXCEPT ![n] = grown] \in Seq(Range1)
        /\ Len([ranges EXCEPT ![n] = grown]) = n
        /\ \A i \in 1 .. n : [ranges EXCEPT ![n] = grown][i] = IF i = n THEN grown ELSE ranges[i]
    BY <1>1, <2>1, <2>3
  <2> QED
    BY <1>1, <1>2, <2>4, <2>5, <2>6, <2>7 DEF RangeLists
<1>4. CASE ~(ranges # <<>> /\ a = last.addr + last.size)
  <2>1. WithItem(ranges, a) = Append(ranges, one)
    BY <1>4 DEF WithItem, Last
  <2>2. one \in Range1 /\ BytesOfRange(one) = a .. a + Step - 1
    BY DEF Range1, BytesOfRange
  <2> HIDE DEF one
  <2>3. /\ Append(ranges, one) \in Seq(Range1) /\ Len(Append(ranges, one)) = n + 1
        /\ \A i \in 1 .. n + 1 : Append(ranges, one)[i] = IF i = n + 1 THEN one ELSE ranges[i]
    BY <1>1, <2>2
  <2>4. \A i \in 1 .. n + 1 : i # n + 1 => i \in 1 .. n
    BY <1>1
  <2> QED
    BY <1>1, <1>2, <2>1, <2>2, <2>3, <2>4 DEF RangeLists
<1> QED BY <1>3, <1>4

LEMMA MemoryEndType == MemoryEnd \in Nat
<1>1. CASE Areas = <<>>
  BY <1>1 DEF MemoryEnd
<1>2. CASE Areas # <<>>
  <2>1. Len(Areas) \in 1 .. Len(Areas)
    <3>1. Areas \in Seq([base : Nat, size : Nat \ {0}])
      BY RamSearchAssumption, Zenon
    <3> DEFINE A == [base : Nat, size : Nat \ {0}]
    <3>2. Areas \in Seq(A)
      BY <3>1
    <3> HIDE DEF A
    <3> QED BY <1>2, <3>2
  <2>2. Areas[Len(Areas)].base + Areas[Len(Areas)].size \in Nat
    BY <2>1, AreaFacts
  <2> QED
    BY <1>2, <2>2 DEF MemoryEnd, Last
<1> QED BY <1>1, <1>2

RangeSteps(selected, g) ==
  g = [n \in 0 .. MemoryEnd |->
        IF n = 0 THEN <<>>
        ELSE IF n - 1 \in selected THEN WithItem(g[n - 1], n - 1) ELSE g[n - 1]]

LEMMA RangesSelected ==
  ASSUME Step \in Nat \ {0}, NEW selected
  PROVE  Ranges(selected) \in RangeLists(selected)
<1> DEFINE T == MemoryEnd
           S == RangeLists(selected)
           F(n, x) == IF n - 1 \in selected THEN WithItem(x, n - 1) ELSE x
           Turn == [n \in 1 .. T |-> [x \in S |-> F(n, x)]]
           f == CHOOSE g : RangeSteps(selected, g)
<1>1. T \in Nat /\ <<>> \in S
  BY MemoryEndType DEF RangeLists
<1> HIDE DEF T, S
<1>2. ASSUME NEW n \in 1 .. T, NEW x \in S PROVE F(n, x) \in S
  <2>1. n - 1 \in Nat
    BY <1>1
  <2> QED BY <2>1, WithItemIn DEF S
<1>3. Turn \in [1 .. T -> [S -> S]]
  <2> HIDE DEF F
  <2> QED BY <1>2
<1>4. PICK g \in [0 .. T -> S] : Iterates(T, <<>>, Turn, g)
  <2> HIDE DEF Turn
  <2> QED BY <1>1, <1>3, IterateExists
<1>5. \A n \in 0 .. T : n # 0 => n \in 1 .. T /\ n - 1 \in 0 .. T
  BY <1>1
<1>6. \A n \in 0 .. T : n # 0 => Turn[n][g[n - 1]] = F(n, g[n - 1])
  <2> HIDE DEF F
  <2> QED BY <1>5
<1>7. RangeSteps(selected, g)
  <2> HIDE DEF Turn
  <2> QED BY <1>4, <1>6 DEF RangeSteps, Iterates, T
<1>8. RangeSteps(selected, f)
  BY <1>7
<1>9. Ranges(selected) = f[T]
  BY DEF Ranges, RangeSteps, T
<1> HIDE DEF f, Turn
<1>10. /\ f[0] = <<>> /\ \A n \in 1 .. T : f[n] = F(n, f[n - 1])
  <2>1. \A n \in 0 .. T : f[n] = IF n = 0 THEN <<>> ELSE F(n, f[n - 1])
    BY <1>8 DEF RangeSteps, T
  <2> HIDE DEF F
  <2> QED BY <1>1, <2>1
<1> DEFINE G == {n \in 0 .. T : f[n] \in S}
<1> HIDE DEF F
<1>11. 0 \in G /\ \A n \in 1 .. T : n - 1 \in G => n \in G
  BY <1>1, <1>2, <1>10
<1>12. \A n \in 0 .. T : n \in G
  <2> HIDE DEF G
  <2> QED BY <1>1, <1>11, Induction
<1> QED
  BY <1>1, <1>9, <1>12 DEF S

(* Multiples of the step.                                                  *)
LEMMA StepType ==
  ASSUME typeSize \in Sizes
  PROVE  typeSize \in {1, 2, 4, 8} /\ Step \in {1, 2, 4, 8} /\ Step \in Nat \ {0}
<1>1. Sizes \subseteq {1, 2, 4, 8}
  BY RamSearchAssumption, Zenon
<1> QED
  BY <1>1 DEF Step

LEMMA SameItem ==
  ASSUME NEW step \in {1, 2, 4, 8}, NEW a \in Nat, NEW b \in Nat,
         a % step = 0, b % step = 0, a <= b, b < a + step
  PROVE  a = b
<1>1. CASE step = 1
  BY <1>1
<1>2. CASE step = 2
  BY <1>2
<1>3. CASE step = 4
  BY <1>3
<1>4. CASE step = 8
  BY <1>4
<1> QED BY <1>1, <1>2, <1>3, <1>4

LEMMA BytesType ==
  ASSUME NEW list, GoodList(list)
  PROVE  Bytes(list) \subseteq Nat
<1> SUFFICES ASSUME NEW a \in Bytes(list) PROVE a \in Nat
  OBVIOUS
<1>1. PICK i \in 1 .. Len(list) : a \in BytesOf(list[i])
  BY InBytes
<1>2. list[i] \in Region
  BY DEF GoodList, Placed
<1> QED BY <1>1, <1>2, RegionEnds

LEMMA EliminateOnly ==
  ASSUME GoodList(regions), typeSize \in Sizes, NEW selected \in SUBSET Items,
         NEW new, new = EliminateRanges(regions, Ranges(selected))
  PROVE  GoodList(new) /\ Items \ selected \subseteq ItemsIn(new, Step)
<1>1. Step \in {1, 2, 4, 8} /\ Step \in Nat \ {0}
  BY StepType
<1>2. Ranges(selected) \in RangeLists(selected)
  BY <1>1, RangesSelected
<1>3. Ranges(selected) \in Seq(Range1)
      /\ BytesOfRanges(Ranges(selected)) \subseteq BytesOfItems(selected)
  BY <1>2 DEF RangeLists, BytesOfRanges
<1>4. GoodList(new) /\ Bytes(regions) \ BytesOfRanges(Ranges(selected)) \subseteq Bytes(new)
  BY <1>3, EliminateKeeps
<1>5. ASSUME NEW a \in Items, a \notin selected PROVE a \in ItemsIn(new, Step)
  <2>1. a \in Bytes(regions) /\ a \in Nat /\ a % Step = 0
    BY BytesType DEF Items, ItemsIn
  <2>2. a \notin BytesOfItems(selected)
    <3>1. SUFFICES ASSUME NEW b \in selected, b <= a, a < b + Step PROVE FALSE
      BY DEF BytesOfItems
    <3>2. b \in Nat /\ b % Step = 0
      BY BytesType DEF Items, ItemsIn
    <3>3. a = b
      BY <1>1, <2>1, <3>1, <3>2, SameItem
    <3> QED BY <1>5, <3>1, <3>3
  <2> QED
    BY <1>3, <1>4, <2>1, <2>2 DEF ItemsIn
<1> QED BY <1>4, <1>5

-----------------------------------------------------------------------------
(* Search.  Multiples of the step, and the bytes before the first one.     *)
LEMMA MultipleFacts ==
  ASSUME NEW step \in {1, 2, 4, 8}, NEW a \in Nat, NEW b \in Nat
  PROVE  /\ a % step = 0 => (a + step) % step = 0
         /\ a % step = 0 /\ b % step = 0 /\ a < b => a + step <= b
         /\ (a - b) % step = 0 => (a + step - b) % step = 0
         /\ (b - b) % step = 0
<1>1. CASE step = 1
  BY <1>1
<1>2. CASE step = 2
  BY <1>2
<1>3. CASE step = 4
  BY <1>3
<1>4. CASE step = 8
  BY <1>4
<1> QED BY <1>1, <1>2, <1>3, <1>4

LEMMA NextMultiple ==
  ASSUME Step \in {1, 2, 4, 8}, NEW a \in Nat, NEW b \in Nat, (a - b) % Step = 0,
         NEW c, c = a + Step
  PROVE  (c - b) % Step = 0 /\ (b - b) % Step = 0
<1>1. CASE Step = 1
  BY <1>1
<1>2. CASE Step = 2
  BY <1>2
<1>3. CASE Step = 4
  BY <1>3
<1>4. CASE Step = 8
  BY <1>4
<1> QED BY <1>1, <1>2, <1>3, <1>4

LEMMA SkipFacts ==
  ASSUME NEW step \in {1, 2, 4, 8}, NEW r \in Region, NEW skip, skip = StartSkipSize(r, step)
  PROVE  /\ skip \in 0 .. step - 1
         /\ (r.hardwareAddress + skip) % step = 0
         /\ \A a \in Nat : a % step = 0 /\ r.hardwareAddress <= a => r.hardwareAddress + skip <= a
         /\ \A a \in Nat : (a - r.hardwareAddress) % step = 0 => (a + skip) % step = 0
<1>1. r.hardwareAddress \in Nat /\ skip = (step - r.hardwareAddress) % step
  BY RegionEnds DEF StartSkipSize
<1> DEFINE h == r.hardwareAddress
<1> HIDE DEF h
<1>2. h \in Nat /\ skip = (step - h) % step
  BY <1>1 DEF h
<1>3. CASE step = 1
  BY <1>2, <1>3 DEF h
<1>4. CASE step = 2
  BY <1>2, <1>4 DEF h
<1>5. CASE step = 4
  BY <1>2, <1>5 DEF h
<1>6. CASE step = 8
  BY <1>2, <1>6 DEF h
<1> QED BY <1>3, <1>4, <1>5, <1>6

LEMMA SameSkip ==
  ASSUME NEW step \in {1, 2, 4, 8}, NEW r \in Region, NEW p \in Region,
         (p.hardwareAddress - r.hardwareAddress) % step = 0
  PROVE  StartSkipSize(p, step) = StartSkipSize(r, step)
<1> DEFINE h == r.hardwareAddress
           k == p.hardwareAddress
<1>1. h \in Nat /\ k \in Nat
  BY RegionEnds
<1>2. StartSkipSize(p, step) = (step - k) % step /\ StartSkipSize(r, step) = (step - h) % step
  BY DEF StartSkipSize
<1>3. (k - h) % step = 0
  OBVIOUS
<1> HIDE DEF h, k
<1>4. CASE step = 1
  BY <1>1, <1>2, <1>3, <1>4
<1>5. CASE step = 2
  BY <1>1, <1>2, <1>3, <1>5
<1>6. CASE step = 4
  BY <1>1, <1>2, <1>3, <1>6
<1>7. CASE step = 8
  BY <1>1, <1>2, <1>3, <1>7
<1> QED BY <1>4, <1>5, <1>6, <1>7

(* Only the search for an address compares the address of the loop.        *)
Match(criterion, a) == Matches(criterion, VirtualIndex[a], a)
Comparable(criterion, list) == criterion = "address" => Aligned(list)

LEMMA MatchesSame ==
  ASSUME NEW criterion \in Criteria, NEW i, NEW h, NEW k, criterion = "address" => h = k
  PROVE  Matches(criterion, i, h) <=> Matches(criterion, i, k)
<1>1. criterion \in {"equal", "different", "zero", "address", "unchanged"}
  <2>1. Criteria \subseteq {"equal", "different", "zero", "address", "unchanged"}
    BY RamSearchAssumption, Zenon
  <2> QED BY <2>1
<1>2. CASE criterion = "address"
  BY <1>2
<1>3. CASE criterion = "equal"
  BY <1>3 DEF Matches
<1>4. CASE criterion = "different"
  BY <1>4 DEF Matches
<1>5. CASE criterion = "zero"
  BY <1>5 DEF Matches
<1>6. CASE criterion = "unchanged"
  BY <1>6 DEF Matches
<1> QED BY <1>1, <1>2, <1>3, <1>4, <1>5, <1>6

(* The states of the loops.  The cursor is at an item of its region or     *)
(* past its end; the end is that of the region before anything was erased  *)
(* from it.  Items that do not match are gone or lie ahead.                *)
EndAddress(st) ==
  st.list[st.at].hardwareAddress + (st.end - st.list[st.at].virtualIndex)
NextAddress(st) == st.hwaddr + StartSkipSize(st.list[st.at], Step)
Cursor(st) ==
  LET r == st.list[st.at]
  IN /\ r.hardwareAddress <= st.hwaddr /\ (st.hwaddr - r.hardwareAddress) % Step = 0
     /\ st.i = r.virtualIndex + (st.hwaddr - r.hardwareAddress) + StartSkipSize(r, Step)
     /\ r.virtualIndex + r.size <= st.end
     /\ st.i < st.end => st.end = r.virtualIndex + r.size
     /\ \A j \in st.at + 1 .. Len(st.list) : EndAddress(st) <= st.list[j].hardwareAddress
Kept(list, criterion, new) ==
  \A a \in ItemsIn(list, Step) : a \in ItemsIn(new, Step) \/ ~Match(criterion, a)
Ahead(criterion, st) ==
  \A a \in ItemsIn(st.list, Step) :
    Match(criterion, a) \/ (st.at <= Len(st.list) /\ NextAddress(st) <= a)
SearchStates(list, criterion) ==
  {st \in [list : Seq(Region), at : Nat \ {0}, i : Nat, hwaddr : Nat, end : Nat] :
     /\ GoodList(st.list) /\ Bytes(st.list) \subseteq Bytes(list)
     /\ st.at <= Len(st.list) => Cursor(st)
     /\ Comparable(criterion, list) => /\ Comparable(criterion, st.list)
                                       /\ Kept(list, criterion, st.list)
                                       /\ Ahead(criterion, st)}

LEMMA BeginIn ==
  ASSUME Step \in {1, 2, 4, 8}, NEW list, NEW criterion, NEW new, NEW at \in Nat \ {0},
         GoodList(new), Bytes(new) \subseteq Bytes(list),
         Comparable(criterion, list) =>
           /\ Comparable(criterion, new) /\ Kept(list, criterion, new)
           /\ \A a \in ItemsIn(new, Step) :
                Match(criterion, a) \/ \E j \in at .. Len(new) : a \in BytesOf(new[j])
  PROVE  BeginRegion(new, at) \in SearchStates(list, criterion)
<1> DEFINE st == BeginRegion(new, at)
           r == new[at]
           skip == StartSkipSize(r, Step)
<1>0. new \in Seq(Region) /\ Len(new) \in Nat
  BY DEF GoodList
<1>1. CASE at > Len(new)
  <2>1. st = [list |-> new, at |-> at, i |-> 0, hwaddr |-> 0, end |-> 0]
    BY <1>1 DEF BeginRegion
  <2> HIDE DEF st
  <2>2. /\ st \in [list : Seq(Region), at : Nat \ {0}, i : Nat, hwaddr : Nat, end : Nat]
        /\ st.list = new /\ st.at = at
    BY <1>0, <2>1
  <2>3. ~(st.at <= Len(st.list)) /\ at .. Len(new) = {}
    BY <1>0, <1>1, <2>2
  <2>4. Comparable(criterion, list) => Ahead(criterion, st)
    BY <2>2, <2>3 DEF Ahead
  <2> QED
    BY <2>2, <2>3, <2>4 DEF SearchStates, st
<1>2. CASE ~(at > Len(new))
  <2>1. at \in 1 .. Len(new) /\ r \in Region /\ at <= Len(new)
    BY <1>0, <1>2
  <2>2. /\ r.hardwareAddress \in Nat /\ r.virtualIndex \in Nat /\ r.size \in Nat \ {0}
        /\ skip \in 0 .. Step - 1 /\ skip \in Nat /\ RegionEnd(r) = r.hardwareAddress + r.size
    <3> HIDE DEF r, skip
    <3>1. skip \in 0 .. Step - 1
      BY <2>1, SkipFacts DEF skip
    <3>2. skip \in Nat
      BY <3>1
    <3> QED BY <2>1, <3>1, <3>2, RegionEnds
  <2>3. st = [list |-> new, at |-> at, i |-> r.virtualIndex + skip,
              hwaddr |-> r.hardwareAddress, end |-> r.virtualIndex + r.size]
    BY <1>2 DEF BeginRegion
  <2> HIDE DEF st, skip
  <2>4. /\ st \in [list : Seq(Region), at : Nat \ {0}, i : Nat, hwaddr : Nat, end : Nat]
        /\ st.list = new /\ st.at = at /\ st.list[st.at] = r
        /\ st.i = r.virtualIndex + skip /\ st.hwaddr = r.hardwareAddress
        /\ st.end = r.virtualIndex + r.size
    <3> DEFINE i == r.virtualIndex + skip
               hwaddr == r.hardwareAddress
               end == r.virtualIndex + r.size
    <3>1. i \in Nat /\ hwaddr \in Nat /\ end \in Nat /\ new \in Seq(Region) /\ at \in Nat \ {0}
      <4> DEFINE v == r.virtualIndex
                 z == r.size
      <4>1. v \in Nat /\ z \in Nat /\ skip \in Nat /\ hwaddr \in Nat
        BY <2>2
      <4> HIDE DEF v, z, hwaddr
      <4>2. v + skip \in Nat /\ v + z \in Nat
        BY <4>1
      <4> QED BY <1>0, <4>1, <4>2 DEF v, z
    <3>2. st = [list |-> new, at |-> at, i |-> i, hwaddr |-> hwaddr, end |-> end] /\ new[at] = r
      BY <2>3
    <3> HIDE DEF i, hwaddr, end, r
    <3>3. /\ st \in [list : Seq(Region), at : Nat \ {0}, i : Nat, hwaddr : Nat, end : Nat]
          /\ st.list = new /\ st.at = at /\ st.list[st.at] = r
          /\ st.i = i /\ st.hwaddr = hwaddr /\ st.end = end
      BY <3>1, <3>2
    <3> QED BY <3>3 DEF i, hwaddr, end, r
  <2>5. EndAddress(st) = RegionEnd(r)
    <3> DEFINE k == r.hardwareAddress
               v == r.virtualIndex
               z == r.size
               end == st.end
    <3>1. k \in Nat /\ v \in Nat /\ z \in Nat /\ RegionEnd(r) = k + z /\ end = v + z
      BY <2>2, <2>4
    <3>2. EndAddress(st) = st.list[st.at].hardwareAddress + (st.end - st.list[st.at].virtualIndex)
      BY DEF EndAddress
    <3>3. EndAddress(st) = k + (end - v)
      BY <2>4, <3>2
    <3> HIDE DEF k, v, z, end
    <3>4. k + (end - v) = k + z
      BY <3>1
    <3> QED BY <3>1, <3>3, <3>4
  <2>6. (r.hardwareAddress - r.hardwareAddress) % Step = 0
    BY <2>2, MultipleFacts
  <2>7. \A j \in at + 1 .. Len(new) : RegionEnd(r) <= new[j].hardwareAddress
    <3> SUFFICES ASSUME NEW j \in at + 1 .. Len(new)
                 PROVE  RegionEnd(r) <= new[j].hardwareAddress
      OBVIOUS
    <3>1. j \in 1 .. Len(new) /\ at < j
      BY <1>0, <2>1
    <3> QED BY <2>1, <3>1 DEF GoodList, InOrder
  <2> HIDE DEF r
  <2>8. Cursor(st)
    <3>1. r.hardwareAddress <= st.hwaddr /\ (st.hwaddr - r.hardwareAddress) % Step = 0
      BY <2>2, <2>4, <2>6
    <3>2. st.i = r.virtualIndex + (st.hwaddr - r.hardwareAddress) + StartSkipSize(r, Step)
      BY <2>2, <2>4 DEF skip
    <3>3. r.virtualIndex + r.size <= st.end /\ st.end = r.virtualIndex + r.size
      BY <2>2, <2>4
    <3> QED
      BY <2>4, <2>5, <2>7, <3>1, <3>2, <3>3 DEF Cursor
  <2>9. ASSUME Comparable(criterion, list) PROVE Ahead(criterion, st)
    <3> SUFFICES ASSUME NEW a \in ItemsIn(new, Step), ~Match(criterion, a)
                 PROVE  NextAddress(st) <= a
      BY <2>1, <2>4 DEF Ahead
    <3>1. PICK j \in at .. Len(new) : a \in BytesOf(new[j])
      BY <2>9
    <3>2. j \in 1 .. Len(new) /\ (j = at \/ j \in at + 1 .. Len(new))
      BY <1>0, <2>1
    <3>3. new[j] \in Region
      BY <1>0, <3>2
    <3>4. a \in Nat /\ new[j].hardwareAddress <= a /\ new[j].hardwareAddress \in Nat
      BY <3>1, <3>3, RegionEnds
    <3>5. r.hardwareAddress <= new[j].hardwareAddress
      <4>1. CASE j = at
        BY <2>2, <4>1 DEF r
      <4>2. CASE j \in at + 1 .. Len(new)
        <5>1. r.hardwareAddress + r.size <= new[j].hardwareAddress
          BY <2>2, <2>7, <4>2
        <5> QED BY <2>2, <3>4, <5>1
      <4> QED BY <3>2, <4>1, <4>2
    <3>6. r.hardwareAddress <= a /\ a % Step = 0
      BY <2>2, <3>4, <3>5 DEF ItemsIn
    <3>7. r.hardwareAddress + skip <= a
      BY <2>1, <3>4, <3>6, SkipFacts DEF skip, r
    <3>8. NextAddress(st) = r.hardwareAddress + skip
      BY <2>4 DEF NextAddress, skip
    <3> QED BY <3>7, <3>8
  <2> QED
    BY <2>4, <2>8, <2>9 DEF SearchStates, st
<1> QED BY <1>0, <1>1, <1>2

(* The item at the cursor.                                                 *)
LEMMA AtCursor ==
  ASSUME Step \in {1, 2, 4, 8}, NEW list, NEW criterion, NEW st \in SearchStates(list, criterion),
         st.at <= Len(st.list), st.i < st.end,
         NEW r, r = st.list[st.at], NEW q, q = NextAddress(st)
  PROVE  /\ st.at \in 1 .. Len(st.list) /\ r \in Region /\ Placed(r)
         /\ r.hardwareAddress <= st.hwaddr /\ st.hwaddr \in Nat
         /\ (st.hwaddr - r.hardwareAddress) % Step = 0
         /\ q \in Nat /\ q % Step = 0 /\ q \in BytesOf(r) /\ st.hwaddr <= q /\ q < st.hwaddr + Step
         /\ st.end = r.virtualIndex + r.size /\ EndAddress(st) = RegionEnd(r)
         /\ st.i = VirtualIndex[q]
         /\ q = st.hwaddr + StartSkipSize(r, Step)
<1>1. /\ st \in [list : Seq(Region), at : Nat \ {0}, i : Nat, hwaddr : Nat, end : Nat]
      /\ GoodList(st.list) /\ Cursor(st)
  BY DEF SearchStates
<1>2. st.at \in 1 .. Len(st.list)
  BY <1>1 DEF GoodList
<1>3. r \in Region /\ Placed(r)
  BY <1>1, <1>2 DEF GoodList
<1> DEFINE skip == StartSkipSize(r, Step)
           h == r.hardwareAddress
           w == st.hwaddr
<1>4. /\ h \in Nat /\ r.size \in Nat /\ r.virtualIndex \in Nat /\ RegionEnd(r) = h + r.size
      /\ w \in Nat /\ st.i \in Nat /\ st.end \in Nat
  BY <1>1, <1>3, RegionEnds
<1>5. /\ skip \in 0 .. Step - 1
      /\ \A a \in Nat : (a - r.hardwareAddress) % Step = 0 => (a + skip) % Step = 0
  BY <1>3, SkipFacts
<1>6. /\ h <= w /\ (w - h) % Step = 0 /\ st.i = r.virtualIndex + (w - h) + skip
      /\ st.end = r.virtualIndex + r.size
  BY <1>1 DEF Cursor
<1>7. q = w + skip
  BY DEF NextAddress
<1>8. EndAddress(st) = h + (st.end - r.virtualIndex)
  BY DEF EndAddress
<1> HIDE DEF skip
<1>9. q % Step = 0
  BY <1>4, <1>5, <1>6, <1>7
<1>10. /\ q \in Nat /\ h <= q /\ q < RegionEnd(r) /\ w <= q /\ q < w + Step
       /\ EndAddress(st) = RegionEnd(r) /\ st.i = r.virtualIndex + (q - h)
  <2> DEFINE v == r.virtualIndex
             z == r.size
             i == st.i
             end == st.end
  <2>1. /\ h \in Nat /\ w \in Nat /\ v \in Nat /\ z \in Nat /\ i \in Nat /\ skip \in Nat
        /\ skip < Step /\ Step \in Nat /\ h <= w /\ i = v + (w - h) + skip /\ i < v + z
    BY <1>4, <1>5, <1>6
  <2>2. RegionEnd(r) = h + z /\ EndAddress(st) = h + (end - v) /\ end = v + z
    BY <1>4, <1>6, <1>8
  <2> HIDE DEF h, w, v, z, i, end
  <2>3. q = w + skip
    BY <1>7 DEF w
  <2>4. q \in Nat
    BY <2>1, <2>3
  <2>5. h <= q /\ w <= q
    BY <2>1, <2>3
  <2>6. q < w + Step
    BY <2>1, <2>3
  <2>7. q < h + z
    BY <2>1, <2>3
  <2>8. h + (end - v) = h + z
    BY <2>1, <2>2
  <2>9. i = v + (q - h)
    BY <2>1, <2>3
  <2> QED BY <2>2, <2>4, <2>5, <2>6, <2>7, <2>8, <2>9 DEF i, v, w
<1> HIDE DEF h, w
<1>11. q \in BytesOf(r)
  BY <1>3, <1>10, RegionEnds DEF h
<1>12. VirtualIndex[q] = r.virtualIndex + (q - h)
  BY <1>3, <1>11, PlacedIndex DEF h
<1> QED
  BY <1>2, <1>3, <1>4, <1>6, <1>7, <1>9, <1>10, <1>11, <1>12 DEF h, w, skip

(* Items from a region on lie in that region or a later one.               *)
LEMMA LaterRegions ==
  ASSUME NEW list, GoodList(list), NEW at \in 1 .. Len(list), NEW a \in Bytes(list),
         list[at].hardwareAddress <= a
  PROVE  \E j \in at .. Len(list) : a \in BytesOf(list[j])
<1>1. PICK j \in 1 .. Len(list) : a \in BytesOf(list[j])
  BY InBytes
<1>2. list[j] \in Region /\ list[at] \in Region
  BY DEF GoodList, Placed
<1>3. a \in Nat /\ a < RegionEnd(list[j]) /\ RegionEnd(list[j]) \in Nat
      /\ list[at].hardwareAddress \in Nat
  BY <1>1, <1>2, RegionEnds
<1>4. j < at => RegionEnd(list[j]) <= list[at].hardwareAddress
  BY DEF GoodList, InOrder
<1>5. j >= at
  BY <1>3, <1>4
<1>6. j \in at .. Len(list)
  BY <1>5
<1> QED BY <1>1, <1>6

(* The loop goes on to the next item of its region, or of what is left of  *)
(* that region.                                                            *)
LeftAt(st, p) ==
  LET r == st.list[st.at]
  IN /\ p \in Region /\ p.hardwareAddress <= st.hwaddr + Step
     /\ (p.hardwareAddress - r.hardwareAddress) % Step = 0
     /\ p.virtualIndex - p.hardwareAddress = r.virtualIndex - r.hardwareAddress
     /\ RegionEnd(p) <= RegionEnd(r)
     /\ RegionEnd(p) # RegionEnd(r) => RegionEnd(r) <= st.hwaddr + Step

LEMMA NextItemIn ==
  ASSUME Step \in {1, 2, 4, 8}, NEW list, NEW criterion, NEW st \in SearchStates(list, criterion),
         st.at <= Len(st.list), st.i < st.end, NEW q, q = NextAddress(st),
         NEW new, GoodList(new), Bytes(new) \subseteq Bytes(st.list), Len(new) = Len(st.list),
         \A j \in st.at + 1 .. Len(new) : new[j] = st.list[j],
         LeftAt(st, new[st.at]),
         Comparable(criterion, list) =>
           /\ Comparable(criterion, new) /\ Kept(list, criterion, new)
           /\ q \in ItemsIn(new, Step) => Match(criterion, q)
  PROVE  /\ NextItem(st, new) \in SearchStates(list, criterion)
         /\ NextItem(st, new).list = new /\ NextItem(st, new).at = st.at
         /\ NextItem(st, new).hwaddr = st.hwaddr + Step
         /\ EndAddress(NextItem(st, new)) = EndAddress(st)
<1> DEFINE r == st.list[st.at]
           p == new[st.at]
           to == NextItem(st, new)
           skip == StartSkipSize(r, Step)
<1>1. /\ st \in [list : Seq(Region), at : Nat \ {0}, i : Nat, hwaddr : Nat, end : Nat]
      /\ GoodList(st.list) /\ Cursor(st) /\ Bytes(st.list) \subseteq Bytes(list)
      /\ Comparable(criterion, list) => Ahead(criterion, st)
  BY DEF SearchStates
<1>2. /\ st.at \in 1 .. Len(st.list) /\ r \in Region /\ r.hardwareAddress <= st.hwaddr
      /\ (st.hwaddr - r.hardwareAddress) % Step = 0
      /\ q \in Nat /\ q % Step = 0 /\ st.hwaddr <= q /\ q < st.hwaddr + Step
      /\ st.end = r.virtualIndex + r.size /\ EndAddress(st) = RegionEnd(r)
      /\ q = st.hwaddr + StartSkipSize(r, Step)
  BY AtCursor
<1>3. /\ p \in Region /\ p.hardwareAddress <= st.hwaddr + Step
      /\ (p.hardwareAddress - r.hardwareAddress) % Step = 0
      /\ p.virtualIndex - p.hardwareAddress = r.virtualIndex - r.hardwareAddress
      /\ RegionEnd(p) <= RegionEnd(r)
      /\ RegionEnd(p) # RegionEnd(r) => RegionEnd(r) <= st.hwaddr + Step
  BY DEF LeftAt
<1>4. /\ to \in [list : Seq(Region), at : Nat \ {0}, i : Nat, hwaddr : Nat, end : Nat]
      /\ to.list = new /\ to.at = st.at /\ to.i = st.i + Step /\ to.hwaddr = st.hwaddr + Step
      /\ to.end = st.end
  <2>1. st.i + Step \in Nat /\ st.hwaddr + Step \in Nat /\ new \in Seq(Region)
    BY <1>1 DEF GoodList
  <2> QED BY <1>1, <2>1 DEF NextItem
<1>5. StartSkipSize(p, Step) = skip /\ skip \in 0 .. Step - 1
  <2> HIDE DEF p, r
  <2> QED BY <1>2, <1>3, SameSkip, SkipFacts
<1>6. /\ r.hardwareAddress \in Nat /\ r.size \in Nat /\ r.virtualIndex \in Nat
      /\ RegionEnd(r) = r.hardwareAddress + r.size
      /\ p.hardwareAddress \in Nat /\ p.size \in Nat /\ p.virtualIndex \in Nat
      /\ RegionEnd(p) = p.hardwareAddress + p.size
  <2> HIDE DEF p, r
  <2> QED BY <1>2, <1>3, RegionEnds
<1>7. st.i = r.virtualIndex + (st.hwaddr - r.hardwareAddress) + skip
  BY <1>1 DEF Cursor
<1>8. \A j \in st.at + 1 .. Len(st.list) : EndAddress(st) <= st.list[j].hardwareAddress
  BY <1>1 DEF Cursor
<1>9. to.list[to.at] = p
  BY <1>4
<1>10. EndAddress(to) = p.hardwareAddress + (st.end - p.virtualIndex)
  BY <1>4, <1>9 DEF EndAddress
<1>11. NextAddress(to) = st.hwaddr + Step + skip
  BY <1>4, <1>5, <1>9 DEF NextAddress
<1>12. st.hwaddr \in Nat /\ st.i \in Nat /\ st.end \in Nat
  BY <1>1
<1> DEFINE h == r.hardwareAddress
           z == r.size
           v == r.virtualIndex
           k == p.hardwareAddress
           y == p.size
           u == p.virtualIndex
           w == st.hwaddr
<1>20. /\ h \in Nat /\ z \in Nat /\ v \in Nat /\ k \in Nat /\ y \in Nat /\ u \in Nat /\ w \in Nat
       /\ h <= w /\ (w - h) % Step = 0 /\ k <= w + Step /\ (k - h) % Step = 0
       /\ u - k = v - h /\ k + y <= h + z /\ (k + y # h + z => h + z <= w + Step)
  BY <1>2, <1>3, <1>6, <1>12
<1>23. h \in Nat /\ z \in Nat /\ v \in Nat /\ k \in Nat /\ y \in Nat /\ u \in Nat /\ w \in Nat
       /\ st.end \in Nat /\ Step \in Nat /\ skip \in Nat
  BY <1>5, <1>12, <1>20
<1>21. /\ EndAddress(to) = k + (v + z - u) /\ EndAddress(st) = h + (v + z - v)
       /\ to.hwaddr = w + Step /\ to.i = v + (w - h) + skip + Step /\ to.end = v + z
  <2>1. st.end = v + z
    BY <1>2
  <2>2. EndAddress(to) = k + (v + z - u)
    <3>1. EndAddress(to) = k + (st.end - u)
      BY <1>10
    <3> HIDE DEF k, u, v, z
    <3> QED BY <1>23, <2>1, <3>1
  <2>3. EndAddress(st) = h + (v + z - v)
    <3>1. EndAddress(st) = h + (st.end - v)
      BY DEF EndAddress, r
    <3> HIDE DEF h, v, z
    <3> QED BY <1>23, <2>1, <3>1
  <2>4. to.hwaddr = w + Step /\ to.end = v + z
    BY <1>4, <2>1
  <2>5. to.i = v + (w - h) + skip + Step
    BY <1>4, <1>5, <1>7, <1>12, <1>20
  <2> QED BY <2>2, <2>3, <2>4, <2>5
<1> HIDE DEF p, r, to, skip
<1>22. /\ k + (v + z - u) = h + (v + z - v)
       /\ (w + Step - k) % Step = 0
       /\ v + (w - h) + skip + Step = u + (w + Step - k) + skip
       /\ u + y <= v + z
       /\ u + (w + Step - k) + skip < v + z => v + z = u + y
  <2> HIDE DEF h, z, v, k, y, u, w
  <2>1. (w + Step - k) % Step = 0
    <3>1. CASE Step = 1
      BY <1>20, <3>1
    <3>2. CASE Step = 2
      BY <1>20, <3>2
    <3>3. CASE Step = 4
      BY <1>20, <3>3
    <3>4. CASE Step = 8
      BY <1>20, <3>4
    <3> QED BY <3>1, <3>2, <3>3, <3>4
  <2>2. Step \in Nat /\ skip \in Nat /\ skip < Step
    BY <1>5
  <2>3. k + (v + z - u) = h + (v + z - v)
    BY <1>20, <2>2
  <2>4. v + (w - h) + skip + Step = u + (w + Step - k) + skip
    BY <1>20, <2>2
  <2>5. u + y <= v + z
    BY <1>20, <2>2
  <2>6. u + (w + Step - k) + skip < v + z => v + z = u + y
    BY <1>20, <2>2
  <2> QED BY <2>1, <2>3, <2>4, <2>5, <2>6
<1>13. EndAddress(to) = EndAddress(st)
  BY <1>21, <1>22
<1>14. NextAddress(to) = q + Step
  BY <1>2, <1>5, <1>11, <1>12 DEF skip
<1>15. Cursor(to)
  <2>1. p.hardwareAddress <= to.hwaddr
    BY <1>3, <1>4
  <2>2. (to.hwaddr - p.hardwareAddress) % Step = 0
    <3>1. to.hwaddr = w + Step /\ (w + Step - k) % Step = 0 /\ p.hardwareAddress = k
      BY <1>21, <1>22
    <3> HIDE DEF w, k
    <3> QED BY <1>23, <3>1
  <2>3. to.i = p.virtualIndex + (to.hwaddr - p.hardwareAddress) + StartSkipSize(p, Step)
    <3>1. to.i = u + (w + Step - k) + skip
      BY <1>21, <1>22
    <3>2. to.hwaddr = w + Step /\ StartSkipSize(p, Step) = skip
      BY <1>5, <1>21
    <3>3. p.virtualIndex = u /\ p.hardwareAddress = k
      OBVIOUS
    <3> HIDE DEF w, u, k
    <3> QED BY <1>23, <3>1, <3>2, <3>3
  <2>4. p.virtualIndex + p.size <= to.end
    BY <1>21, <1>22
  <2>5. to.i < to.end => to.end = p.virtualIndex + p.size
    <3>1. to.i = u + (w + Step - k) + skip /\ to.end = v + z
      BY <1>21, <1>22
    <3>2. p.virtualIndex + p.size = u + y
      OBVIOUS
    <3> HIDE DEF h, z, v, k, w, u, y
    <3> QED BY <1>22, <1>23, <3>1, <3>2
  <2>6. \A j \in to.at + 1 .. Len(to.list) : EndAddress(to) <= to.list[j].hardwareAddress
    BY <1>4, <1>8, <1>13
  <2> QED BY <1>9, <2>1, <2>2, <2>3, <2>4, <2>5, <2>6 DEF Cursor
<1>16. ASSUME Comparable(criterion, list) PROVE Ahead(criterion, to)
  <2> SUFFICES ASSUME NEW a \in ItemsIn(new, Step), ~Match(criterion, a)
               PROVE  NextAddress(to) <= a
    BY <1>4 DEF Ahead
  <2>1. a \in Nat /\ a % Step = 0 /\ a \in ItemsIn(st.list, Step)
    BY BytesType DEF ItemsIn
  <2>2. NextAddress(st) <= a
    BY <1>1, <1>16, <2>1 DEF Ahead
  <2>3. a # q
    BY <1>16
  <2>4. q < a
    BY <1>2, <2>1, <2>2, <2>3
  <2> QED BY <1>2, <1>14, <2>1, <2>4, MultipleFacts
<1>17. GoodList(to.list) /\ Bytes(to.list) \subseteq Bytes(list)
  BY <1>1, <1>4
<1>18. to \in SearchStates(list, criterion)
  BY <1>4, <1>15, <1>16, <1>17 DEF SearchStates
<1> QED
  BY <1>4, <1>13, <1>18 DEF to

(* An item that does not match is erased, and no other item with it.       *)
LEMMA EraseItem ==
  ASSUME Step \in {1, 2, 4, 8}, NEW list, NEW criterion, NEW st \in SearchStates(list, criterion),
         st.at <= Len(st.list), st.i < st.end,
         NEW r, r = st.list[st.at], NEW q, q = NextAddress(st),
         NEW e, e = DeactivateRegion(r, st.hwaddr, Step),
         NEW new, new = Replaced(st.list, st.at, e.left)
  PROVE  /\ GoodList(new)
         /\ Bytes(new) \subseteq Bytes(st.list)
         /\ \A a : a \in ItemsIn(new, Step) <=> a \in ItemsIn(st.list, Step) /\ a # q
<1>1. /\ st.at \in 1 .. Len(st.list) /\ r \in Region /\ st.hwaddr \in Nat
      /\ q \in Nat /\ q % Step = 0 /\ q \in BytesOf(r) /\ st.hwaddr <= q /\ q < st.hwaddr + Step
      /\ Step \in Nat \ {0}
  BY AtCursor
<1>2. GoodList(st.list)
  BY DEF SearchStates
<1>3. PartsOf(e.left, r) /\ Bytes(e.left) = BytesOf(r) \ (st.hwaddr .. st.hwaddr + Step - 1)
  BY <1>1, DeactivateParts
<1>4. /\ GoodList(new)
      /\ Bytes(new) = (Bytes(st.list) \ BytesOf(r)) \cup Bytes(e.left)
  <2> DEFINE left == e.left
             list1 == st.list
             at == st.at
  <2>1. GoodList(list1) /\ at \in 1 .. Len(list1) /\ PartsOf(left, list1[at])
        /\ new = Replaced(list1, at, left) /\ r = list1[at]
    BY <1>1, <1>2, <1>3
  <2> HIDE DEF left, list1, at
  <2>2. /\ GoodList(new)
        /\ Bytes(new) = (Bytes(list1) \ BytesOf(list1[at])) \cup Bytes(left)
    BY <2>1, ReplacedGood
  <2> QED BY <2>1, <2>2 DEF left, list1
<1>5. BytesOf(r) \subseteq Bytes(st.list)
  BY <1>1 DEF Bytes
<1>6. Bytes(new) = Bytes(st.list) \ (BytesOf(r) \cap (st.hwaddr .. st.hwaddr + Step - 1))
  BY <1>3, <1>4, <1>5
<1>7. q \in BytesOf(r) \cap (st.hwaddr .. st.hwaddr + Step - 1)
  BY <1>1
<1>8. ASSUME NEW a \in Bytes(st.list), a % Step = 0,
             a \in st.hwaddr .. st.hwaddr + Step - 1
      PROVE  a = q
  <2>1. a \in Nat /\ st.hwaddr <= a /\ a < st.hwaddr + Step
    BY <1>1, <1>2, <1>8, BytesType
  <2>2. a <= q \/ q <= a
    BY <1>1, <2>1
  <2>3. CASE a <= q
    <3>1. q < a + Step
      BY <1>1, <2>1
    <3> QED BY <1>1, <1>8, <2>1, <2>3, <3>1, SameItem
  <2>4. CASE q <= a
    <3>1. a < q + Step
      BY <1>1, <2>1
    <3> QED BY <1>1, <1>8, <2>1, <2>4, <3>1, SameItem
  <2> QED BY <2>2, <2>3, <2>4
<1>9. ItemsIn(new, Step) = ItemsIn(st.list, Step) \ {q}
  BY <1>6, <1>7, <1>8 DEF ItemsIn
<1> QED BY <1>4, <1>6, <1>9

(* Searches for an address stay comparable: what is left of a region      *)
(* starts where it did or after whole steps.                              *)
LEMMA ReplacedAligned ==
  ASSUME Step \in {1, 2, 4, 8}, NEW list, GoodList(list), Aligned(list), NEW at \in 1 .. Len(list),
         NEW left, left \in Seq(Region),
         \A i \in 1 .. Len(left) :
           (left[i].hardwareAddress - list[at].hardwareAddress) % Step = 0,
         NEW new, new = Replaced(list, at, left)
  PROVE  Aligned(new)
<1>1. /\ list \in Seq(Region) /\ Len(list) \in Nat /\ Len(left) \in Nat /\ list[at] \in Region
      /\ at \in Nat /\ at <= Len(list)
  BY DEF GoodList
<1>2. /\ Len(new) = Len(list) - 1 + Len(left)
      /\ \A n \in 1 .. Len(new) :
           /\ n < at => new[n] = list[n]
           /\ at <= n /\ n < at + Len(left) => new[n] = left[n + 1 - at]
           /\ at + Len(left) <= n => new[n] = list[n + 1 - Len(left)]
  BY <1>1, ReplacedPointwise
<1>3. SUFFICES ASSUME NEW n \in 1 .. Len(new)
               PROVE  StartSkipSize(new[n], Step) = 0
  BY DEF Aligned
<1>4. n \in Nat /\ n <= Len(list) - 1 + Len(left) /\ 1 <= n
  BY <1>1, <1>2
<1>5. \A i \in 1 .. Len(list) : StartSkipSize(list[i], Step) = 0
  BY DEF Aligned
<1>6. CASE n < at
  <2>1. n \in 1 .. Len(list) /\ new[n] = list[n]
    BY <1>1, <1>2, <1>4, <1>6
  <2> QED BY <1>5, <2>1
<1>7. CASE at <= n /\ n < at + Len(left)
  <2> DEFINE i == n + 1 - at
  <2>1. i \in 1 .. Len(left) /\ new[n] = left[i]
    BY <1>1, <1>2, <1>4, <1>7
  <2> HIDE DEF i
  <2>2. left[i] \in Region /\ (left[i].hardwareAddress - list[at].hardwareAddress) % Step = 0
    BY <2>1
  <2> QED BY <1>1, <1>5, <2>1, <2>2, SameSkip
<1>8. CASE at + Len(left) <= n
  <2> DEFINE i == n + 1 - Len(left)
  <2>1. i \in 1 .. Len(list) /\ new[n] = list[i]
    BY <1>1, <1>2, <1>4, <1>8
  <2> HIDE DEF i
  <2> QED BY <1>5, <2>1
<1> QED BY <1>1, <1>4, <1>6, <1>7, <1>8

(* The comparison of the loop is that of the item at the cursor.           *)
LEMMA CursorMatch ==
  ASSUME Step \in {1, 2, 4, 8}, NEW list, NEW criterion \in Criteria,
         NEW st \in SearchStates(list, criterion),
         st.at <= Len(st.list), st.i < st.end, NEW q, q = NextAddress(st),
         Comparable(criterion, st.list)
  PROVE  Matches(criterion, st.i, st.hwaddr) <=> Match(criterion, q)
<1> DEFINE r == st.list[st.at]
<1>1. /\ st.at \in 1 .. Len(st.list) /\ st.i = VirtualIndex[q] /\ st.hwaddr \in Nat
      /\ q = st.hwaddr + StartSkipSize(r, Step)
  BY AtCursor
<1>2. criterion = "address" => StartSkipSize(r, Step) = 0
  BY <1>1 DEF Comparable, Aligned
<1>3. criterion = "address" => st.hwaddr = q
  BY <1>1, <1>2
<1> QED BY <1>1, <1>3, MatchesSame DEF Match

(* How far the loops have come after some turns; last is the end of the   *)
(* last region at first.  An address takes two turns at most, since a      *)
(* region may begin where the one before it ends.                          *)
Passed(last, n, st) ==
  st.at <= Len(st.list) =>
    n <= 2 * st.hwaddr /\ n < 2 * EndAddress(st) /\ EndAddress(st) <= last

LEMMA BeginPassed ==
  ASSUME NEW new, GoodList(new), NEW at \in Nat \ {0}, NEW n \in Nat, NEW last \in Nat,
         \A a \in Bytes(new) : a < last,
         at <= Len(new) => n <= 2 * new[at].hardwareAddress
  PROVE  Passed(last, n, BeginRegion(new, at))
<1> DEFINE st == BeginRegion(new, at)
           r == new[at]
<1>1. CASE at > Len(new)
  <2>1. st.list = new /\ st.at = at
    BY <1>1 DEF BeginRegion
  <2>2. Len(new) \in Nat
    BY DEF GoodList
  <2> QED BY <1>1, <2>1, <2>2 DEF Passed
<1>2. CASE ~(at > Len(new))
  <2>1. at \in 1 .. Len(new)
    BY <1>2 DEF GoodList
  <2>2. r \in Region
    BY <2>1 DEF GoodList, Placed
  <2>3. st.list = new /\ st.at = at /\ st.hwaddr = r.hardwareAddress
        /\ st.end = r.virtualIndex + r.size
    BY <1>2 DEF BeginRegion
  <2>4. /\ r.hardwareAddress \in Nat /\ r.size \in Nat \ {0} /\ r.virtualIndex \in Nat
        /\ RegionEnd(r) = r.hardwareAddress + r.size
    BY <2>2, RegionEnds
  <2>5. EndAddress(st) = RegionEnd(r)
    BY <2>3, <2>4 DEF EndAddress
  <2> DEFINE a == RegionEnd(r) - 1
  <2>6. a \in BytesOf(r)
    BY <2>2, <2>4, RegionEnds
  <2>7. a \in Bytes(new)
    BY <2>1, <2>6, InBytes
  <2>8. a < last
    BY <2>7
  <2>9. RegionEnd(r) <= last
    BY <2>4, <2>8
  <2>10. n <= 2 * r.hardwareAddress
    BY <2>1
  <2>11. n < 2 * RegionEnd(r)
    BY <2>4, <2>10
  <2> QED
    BY <2>3, <2>5, <2>9, <2>10, <2>11 DEF Passed
<1> QED
  <2>1. Len(new) \in Nat
    BY DEF GoodList
  <2> QED BY <1>1, <1>2

(* A turn that goes on to the next region.                                 *)
LEMMA TurnToNextRegion ==
  ASSUME Step \in {1, 2, 4, 8}, NEW list, NEW criterion, NEW st \in SearchStates(list, criterion),
         st.at <= Len(st.list), ~(st.i < st.end),
         NEW last \in Nat, NEW n \in Nat, \A a \in Bytes(list) : a < last, Passed(last, n, st),
         NEW to, to = BeginRegion(st.list, st.at + 1)
  PROVE  to \in SearchStates(list, criterion) /\ Passed(last, n + 1, to)
<1> DEFINE r == st.list[st.at]
           q == NextAddress(st)
           skip == StartSkipSize(r, Step)
<1>1. /\ st \in [list : Seq(Region), at : Nat \ {0}, i : Nat, hwaddr : Nat, end : Nat]
      /\ GoodList(st.list) /\ Cursor(st) /\ Bytes(st.list) \subseteq Bytes(list)
      /\ Comparable(criterion, list) => /\ Comparable(criterion, st.list)
                                        /\ Kept(list, criterion, st.list)
                                        /\ Ahead(criterion, st)
  BY DEF SearchStates
<1>2. st.at \in 1 .. Len(st.list) /\ r \in Region
  BY <1>1 DEF GoodList
<1>3. /\ r.hardwareAddress \in Nat /\ r.size \in Nat /\ r.virtualIndex \in Nat
      /\ RegionEnd(r) = r.hardwareAddress + r.size /\ skip \in 0 .. Step - 1
      /\ st.hwaddr \in Nat /\ st.i \in Nat /\ st.end \in Nat
  <2> HIDE DEF r
  <2> QED BY <1>1, <1>2, RegionEnds, SkipFacts
<1>4. /\ r.hardwareAddress <= st.hwaddr
      /\ st.i = r.virtualIndex + (st.hwaddr - r.hardwareAddress) + skip
      /\ r.virtualIndex + r.size <= st.end
      /\ EndAddress(st) = r.hardwareAddress + (st.end - r.virtualIndex)
      /\ q = st.hwaddr + skip
      /\ \A j \in st.at + 1 .. Len(st.list) : EndAddress(st) <= st.list[j].hardwareAddress
  BY <1>1 DEF Cursor, EndAddress, NextAddress
<1> HIDE DEF skip, q
<1>5. RegionEnd(r) <= q /\ r.hardwareAddress <= q /\ q \in Nat /\ EndAddress(st) \in Int
  <2> DEFINE h == r.hardwareAddress
             z == r.size
             v == r.virtualIndex
             w == st.hwaddr
             i == st.i
             end == st.end
  <2>1. /\ h \in Nat /\ z \in Nat /\ v \in Nat /\ w \in Nat /\ i \in Nat /\ end \in Nat /\ h <= w
        /\ i = v + (w - h) + skip /\ v + z <= end /\ ~(i < end) /\ q = w + skip /\ skip \in Nat
    BY <1>3, <1>4
  <2>2. RegionEnd(r) = h + z /\ EndAddress(st) = h + (end - v)
    BY <1>3, <1>4
  <2> HIDE DEF h, z, v, w, i, end
  <2>3. h + z <= q /\ h <= q /\ q \in Nat /\ h + (end - v) \in Int
    BY <2>1
  <2> QED BY <2>2, <2>3 DEF h
<1>6. ASSUME Comparable(criterion, list), NEW a \in ItemsIn(st.list, Step)
      PROVE  Match(criterion, a) \/ \E j \in st.at + 1 .. Len(st.list) : a \in BytesOf(st.list[j])
  <2>1. CASE Match(criterion, a)
    BY <2>1
  <2>2. CASE q <= a
    <3>1. a \in Bytes(st.list) /\ a \in Nat
      BY <1>1, BytesType DEF ItemsIn
    <3>2. r.hardwareAddress <= a /\ ~(a < RegionEnd(r))
      <4>1. /\ r.hardwareAddress \in Nat /\ RegionEnd(r) \in Nat
            /\ r.hardwareAddress <= q /\ RegionEnd(r) <= q /\ q \in Nat
        BY <1>2, <1>5, RegionEnds
      <4> HIDE DEF r
      <4> QED BY <2>2, <3>1, <4>1
    <3>3. PICK j \in st.at .. Len(st.list) : a \in BytesOf(st.list[j])
      BY <1>1, <1>2, <3>1, <3>2, LaterRegions
    <3>4. a \notin BytesOf(r)
      BY <1>2, <3>2, RegionEnds
    <3>5. j # st.at
      BY <3>3, <3>4
    <3>6. j \in st.at + 1 .. Len(st.list)
      BY <1>2, <3>5
    <3> QED BY <3>3, <3>6
  <2> QED BY <1>1, <1>6, <2>1, <2>2 DEF Ahead, q
<1>7. st.at + 1 \in Nat \ {0}
  BY <1>2
<1>8. to \in SearchStates(list, criterion)
  BY <1>1, <1>6, <1>7, BeginIn
<1>9. st.at + 1 <= Len(st.list) => n + 1 <= 2 * st.list[st.at + 1].hardwareAddress
  <2>1. SUFFICES ASSUME st.at + 1 <= Len(st.list)
                 PROVE  n + 1 <= 2 * st.list[st.at + 1].hardwareAddress
    OBVIOUS
  <2>2. st.at + 1 \in st.at + 1 .. Len(st.list) /\ st.at + 1 \in 1 .. Len(st.list)
    BY <1>1, <1>2, <2>1 DEF GoodList
  <2>3. EndAddress(st) <= st.list[st.at + 1].hardwareAddress
    BY <1>4, <2>2
  <2>4. n < 2 * EndAddress(st)
    BY DEF Passed
  <2>5. st.list[st.at + 1].hardwareAddress \in Nat
    BY <1>1, <2>2, RegionEnds
  <2> DEFINE x == st.list[st.at + 1].hardwareAddress
             z == EndAddress(st)
  <2>6. x \in Nat /\ z \in Int /\ z <= x /\ n < 2 * z
    BY <1>5, <2>3, <2>4, <2>5
  <2> HIDE DEF x, z
  <2>7. n + 1 <= 2 * x
    BY <2>6
  <2> QED BY <2>7 DEF x
<1>10. \A a \in Bytes(st.list) : a < last
  BY <1>1
<1>11. Passed(last, n + 1, to)
  BY <1>1, <1>7, <1>9, <1>10, BeginPassed
<1> QED BY <1>8, <1>11

(* A turn that stays in its region.                                        *)
LEMMA NextPassed ==
  ASSUME Step \in {1, 2, 4, 8}, NEW list, NEW criterion, NEW st \in SearchStates(list, criterion),
         st.at <= Len(st.list), st.i < st.end,
         NEW last \in Nat, NEW n \in Nat, Passed(last, n, st),
         NEW to, to.hwaddr = st.hwaddr + Step, EndAddress(to) = EndAddress(st)
  PROVE  Passed(last, n + 1, to)
<1> DEFINE r == st.list[st.at]
           q == NextAddress(st)
<1>1. /\ r \in Region /\ q \in BytesOf(r) /\ st.hwaddr \in Nat /\ st.hwaddr <= q
      /\ EndAddress(st) = RegionEnd(r)
  BY AtCursor
<1>2. q \in Nat /\ q < RegionEnd(r) /\ RegionEnd(r) \in Nat
  <2> HIDE DEF r, q
  <2> QED BY <1>1, RegionEnds
<1>3. n <= 2 * st.hwaddr /\ EndAddress(st) <= last
  BY DEF Passed
<1>4. n + 1 <= 2 * (st.hwaddr + Step) /\ n + 1 < 2 * EndAddress(st)
  <2> DEFINE w == st.hwaddr
             z == RegionEnd(r)
  <2>1. w \in Nat /\ z \in Nat /\ q \in Nat /\ w <= q /\ q < z /\ n <= 2 * w /\ EndAddress(st) = z
    BY <1>1, <1>2, <1>3
  <2> HIDE DEF w, z, q
  <2>2. n + 1 <= 2 * (w + Step) /\ n + 1 < 2 * z
    BY <2>1
  <2> QED BY <2>1, <2>2 DEF w
<1> QED BY <1>3, <1>4 DEF Passed

(* The item at the cursor matches.                                         *)
LEMMA TurnPastItem ==
  ASSUME Step \in {1, 2, 4, 8}, NEW list, NEW criterion \in Criteria,
         NEW st \in SearchStates(list, criterion),
         st.at <= Len(st.list), st.i < st.end,
         NEW last \in Nat, NEW n \in Nat, Passed(last, n, st),
         Matches(criterion, st.i, st.hwaddr),
         NEW to, to = NextItem(st, st.list)
  PROVE  to \in SearchStates(list, criterion) /\ Passed(last, n + 1, to)
<1> DEFINE r == st.list[st.at]
           q == NextAddress(st)
           new == st.list
<1>1. /\ GoodList(new) /\ Bytes(new) \subseteq Bytes(list)
      /\ Comparable(criterion, list) => Comparable(criterion, new) /\ Kept(list, criterion, new)
  BY DEF SearchStates
<1>2. r \in Region /\ r.hardwareAddress <= st.hwaddr /\ st.hwaddr \in Nat
  BY AtCursor
<1>3. r.hardwareAddress \in Nat /\ RegionEnd(r) \in Nat
  BY <1>2, RegionEnds
<1>4. (r.hardwareAddress - r.hardwareAddress) % Step = 0
      /\ r.hardwareAddress <= st.hwaddr + Step
  BY <1>2, <1>3, MultipleFacts
<1>5. Comparable(criterion, list) => Match(criterion, q)
  BY <1>1, CursorMatch
<1>6. /\ to \in SearchStates(list, criterion) /\ to.hwaddr = st.hwaddr + Step
      /\ EndAddress(to) = EndAddress(st)
  <2>1. q = NextAddress(st) /\ to = NextItem(st, new) /\ LeftAt(st, new[st.at])
    BY <1>2, <1>3, <1>4 DEF LeftAt
  <2>2. /\ GoodList(new) /\ Bytes(new) \subseteq Bytes(st.list) /\ Len(new) = Len(st.list)
        /\ \A j \in st.at + 1 .. Len(new) : new[j] = st.list[j]
    BY <1>1
  <2>3. Comparable(criterion, list) =>
          /\ Comparable(criterion, new) /\ Kept(list, criterion, new)
          /\ q \in ItemsIn(new, Step) => Match(criterion, q)
    BY <1>1, <1>5
  <2> HIDE DEF q, new
  <2> QED
    BY <2>1, <2>2, <2>3, NextItemIn
<1> QED BY <1>6, NextPassed

(* What is left of a region takes its place: the bytes that come later are *)
(* in the part that is left or behind it.                                  *)
Inserted(list, at, left, new) ==
  /\ Len(new) = Len(list) - 1 + Len(left)
  /\ \A m \in 1 .. Len(new) :
       /\ m < at => new[m] = list[m]
       /\ at <= m /\ m < at + Len(left) => new[m] = left[m + 1 - at]
       /\ at + Len(left) <= m => new[m] = list[m + 1 - Len(left)]

LEMMA InsertedLater ==
  ASSUME NEW list, GoodList(list), NEW at \in 1 .. Len(list), NEW left \in Seq(Region), NEW new,
         GoodList(new), Inserted(list, at, left, new), NEW a \in Bytes(new), a \in Nat,
         list[at].hardwareAddress <= a
  PROVE  \E j \in at .. Len(new) : a \in BytesOf(new[j])
<1>1. PICK j \in 1 .. Len(new) : a \in BytesOf(new[j])
  BY InBytes
<1>2. Len(list) \in Nat /\ Len(new) \in Nat
  BY DEF GoodList
<1>3. ASSUME j < at PROVE FALSE
  <2>1. j \in 1 .. Len(list) /\ new[j] = list[j]
    BY <1>2, <1>3 DEF Inserted
  <2>2. RegionEnd(list[j]) <= list[at].hardwareAddress
    BY <1>3, <2>1 DEF GoodList, InOrder
  <2>3. list[j] \in Region /\ list[at] \in Region
    BY <2>1 DEF GoodList
  <2>4. a < RegionEnd(list[j]) /\ RegionEnd(list[j]) \in Nat /\ list[at].hardwareAddress \in Nat
    BY <1>1, <2>1, <2>3, RegionEnds
  <2> QED BY <2>2, <2>4
<1>4. j \in at .. Len(new)
  BY <1>2, <1>3
<1> QED BY <1>1, <1>4

(* The item at the cursor does not match: what its erasure leaves.         *)
LEMMA ErasedItem ==
  ASSUME Step \in {1, 2, 4, 8}, NEW list, NEW criterion \in Criteria,
         NEW st \in SearchStates(list, criterion),
         st.at <= Len(st.list), st.i < st.end, ~Matches(criterion, st.i, st.hwaddr),
         NEW r, r = st.list[st.at], NEW q, q = NextAddress(st),
         NEW e, e = DeactivateRegion(r, st.hwaddr, Step),
         NEW new, new = Replaced(st.list, st.at, e.left)
  PROVE  /\ GoodList(new) /\ Bytes(new) \subseteq Bytes(st.list) /\ q \notin ItemsIn(new, Step)
         /\ Bytes(new) \subseteq Bytes(list)
         /\ Comparable(criterion, list) => Kept(list, criterion, new)
         /\ Comparable(criterion, list) =>
              \A a \in ItemsIn(new, Step) : Match(criterion, a) \/ (q < a /\ a \in Nat)
         /\ Inserted(st.list, st.at, e.left, new)
<1>1. /\ GoodList(new) /\ Bytes(new) \subseteq Bytes(st.list)
      /\ \A a : a \in ItemsIn(new, Step) <=> a \in ItemsIn(st.list, Step) /\ a # q
  BY EraseItem
<1>2. /\ GoodList(st.list) /\ Bytes(st.list) \subseteq Bytes(list)
      /\ Comparable(criterion, list) => /\ Comparable(criterion, st.list)
                                        /\ Kept(list, criterion, st.list)
                                        /\ Ahead(criterion, st)
  BY DEF SearchStates
<1>3. Comparable(criterion, list) => ~Match(criterion, q)
  BY <1>2, CursorMatch
<1>4. Comparable(criterion, list) => Kept(list, criterion, new)
  BY <1>1, <1>2, <1>3 DEF Kept
<1>5. q \in Nat /\ st.at \in 1 .. Len(st.list) /\ r \in Region /\ st.hwaddr \in Nat
  BY AtCursor
<1>6. ASSUME Comparable(criterion, list), NEW a \in ItemsIn(new, Step), ~Match(criterion, a)
      PROVE  q < a /\ a \in Nat
  <2>1. a \in ItemsIn(st.list, Step) /\ a # q
    BY <1>1
  <2>2. a \in Nat
    BY <1>2, <2>1, BytesType DEF ItemsIn
  <2>3. q <= a
    BY <1>2, <1>6, <2>1 DEF Ahead
  <2> QED BY <1>5, <2>1, <2>2, <2>3
<1>7. e.left \in Seq(Region)
  <2>1. Step \in Nat \ {0}
    OBVIOUS
  <2> QED BY <1>5, <2>1, DeactivateParts DEF PartsOf
<1>8. Inserted(st.list, st.at, e.left, new)
  <2> DEFINE left == e.left
             list1 == st.list
             at == st.at
  <2>1. list1 \in Seq(Region) /\ at \in 1 .. Len(list1) /\ left \in Seq(Region)
        /\ new = Replaced(list1, at, left)
    BY <1>2, <1>5, <1>7 DEF GoodList
  <2> HIDE DEF left, list1, at
  <2>2. Len(new) = Len(list1) - 1 + Len(left)
    BY <2>1, ReplacedPointwise
  <2>3. \A m \in 1 .. Len(new) :
          /\ m < at => new[m] = list1[m]
          /\ at <= m /\ m < at + Len(left) => new[m] = left[m + 1 - at]
          /\ at + Len(left) <= m => new[m] = list1[m + 1 - Len(left)]
    BY <2>1, ReplacedPointwise
  <2> QED BY <2>2, <2>3 DEF left, list1, at, Inserted
<1> QED BY <1>1, <1>2, <1>4, <1>6, <1>8

(* The erasure leaves one part of the region: the loop stays in it.        *)
LEMMA TurnShortens ==
  ASSUME Step \in {1, 2, 4, 8}, NEW list, NEW criterion \in Criteria,
         NEW st \in SearchStates(list, criterion),
         st.at <= Len(st.list), st.i < st.end,
         NEW last \in Nat, NEW n \in Nat, Passed(last, n, st),
         ~Matches(criterion, st.i, st.hwaddr),
         NEW e, e = DeactivateRegion(st.list[st.at], st.hwaddr, Step), e.result # 2,
         NEW to, to = NextItem(st, Replaced(st.list, st.at, e.left))
  PROVE  to \in SearchStates(list, criterion) /\ Passed(last, n + 1, to)
<1> DEFINE r == st.list[st.at]
           q == NextAddress(st)
           new == Replaced(st.list, st.at, e.left)
           h == r.hardwareAddress
           w == st.hwaddr
           p == new[st.at]
<1>1. /\ st.at \in 1 .. Len(st.list) /\ r \in Region /\ h <= w /\ w \in Nat
      /\ (w - h) % Step = 0 /\ q \in Nat /\ q \in BytesOf(r) /\ w <= q /\ q < w + Step
  BY AtCursor
<1>0. /\ GoodList(new) /\ Bytes(new) \subseteq Bytes(st.list) /\ q \notin ItemsIn(new, Step)
      /\ Comparable(criterion, list) => Kept(list, criterion, new)
      /\ Bytes(new) \subseteq Bytes(list)
      /\ Comparable(criterion, list) =>
           \A a \in ItemsIn(new, Step) : Match(criterion, a) \/ (q < a /\ a \in Nat)
      /\ Inserted(st.list, st.at, e.left, new)
  <2> HIDE DEF r, q, new
  <2>1. r = st.list[st.at] /\ q = NextAddress(st) /\ new = Replaced(st.list, st.at, e.left)
    BY DEF r, q, new
  <2> QED BY <2>1, ErasedItem
<1>2. /\ GoodList(new) /\ Bytes(new) \subseteq Bytes(st.list) /\ q \notin ItemsIn(new, Step)
      /\ Comparable(criterion, list) => Kept(list, criterion, new)
      /\ Len(new) = Len(st.list) - 1 + Len(e.left)
      /\ \A m \in 1 .. Len(new) :
           /\ m < st.at => new[m] = st.list[m]
           /\ st.at <= m /\ m < st.at + Len(e.left) => new[m] = e.left[m + 1 - st.at]
           /\ st.at + Len(e.left) <= m => new[m] = st.list[m + 1 - Len(e.left)]
  BY <1>0 DEF Inserted
<1>3. /\ GoodList(st.list) /\ Len(st.list) \in Nat
      /\ Comparable(criterion, list) => Comparable(criterion, st.list)
  BY DEF SearchStates, GoodList
<1>4. /\ h \in Nat /\ RegionEnd(r) \in Nat /\ h < RegionEnd(r) /\ q < RegionEnd(r) /\ h <= q
      /\ Step \in Nat \ {0}
  <2> HIDE DEF r, q
  <2> QED BY <1>1, RegionEnds DEF h
<1>5. \/ Apart(r, w, w + Step, e) \/ OverEnd(r, w, w + Step, e) \/ OverStart(r, w, w + Step, e)
      \/ OverAll(r, w, w + Step, e) \/ OverMiddle(r, w, w + Step, e)
  <2> HIDE DEF h
  <2>1. r \in Region /\ w \in Nat /\ Step \in Nat \ {0} /\ e = DeactivateRegion(r, w, Step)
    BY <1>1, <1>4
  <2> HIDE DEF r, w
  <2> QED BY <2>1, DeactivateCases
<1>6. OverEnd(r, w, w + Step, e) \/ OverStart(r, w, w + Step, e)
  <2>1. ~Apart(r, w, w + Step, e)
    <3>1. h < w + Step /\ w < RegionEnd(r)
      <4> HIDE DEF h, w, r, q
      <4> QED BY <1>1, <1>4
    <3>2. ~(w + Step <= h) /\ ~(RegionEnd(r) <= w)
      <4> HIDE DEF h, w, r, q
      <4> QED BY <1>1, <1>4, <3>1
    <3> QED BY <3>2 DEF Apart
  <2>2. ~OverAll(r, w, w + Step, e) /\ ~OverMiddle(r, w, w + Step, e)
    BY DEF OverAll, OverMiddle
  <2> QED BY <1>5, <2>1, <2>2
<1>7. \E x : /\ e.left = <<x>> /\ x \in Region /\ x.hardwareAddress <= w + Step
             /\ (x.hardwareAddress - h) % Step = 0
             /\ x.virtualIndex - x.hardwareAddress = r.virtualIndex - h
             /\ RegionEnd(x) <= RegionEnd(r)
             /\ RegionEnd(x) # RegionEnd(r) => RegionEnd(r) <= w + Step
  <2>1. CASE OverEnd(r, w, w + Step, e)
    <3> DEFINE x == Part(r, h, w)
    <3>1. e.left = <<x>> /\ h < w /\ w < RegionEnd(r) /\ RegionEnd(r) <= w + Step
      BY <2>1 DEF OverEnd
    <3>2. h <= h /\ w <= RegionEnd(r)
      BY <1>1, <1>4, <3>1
    <3>3. /\ x \in Region /\ x.hardwareAddress = h /\ RegionEnd(x) = w
          /\ x.virtualIndex - h = r.virtualIndex - r.hardwareAddress
      <4>1. r \in Region /\ h \in Nat /\ w \in Nat /\ r.hardwareAddress <= h /\ h < w
        BY <1>1, <1>4, <3>1, <3>2
      <4> HIDE DEF r, h, w
      <4> QED BY <3>2, <4>1, PartOf
    <3>4. (h - h) % Step = 0 /\ h <= w + Step
      <4> HIDE DEF h, w, r, q
      <4> QED BY <1>1, <1>4, MultipleFacts
    <3> HIDE DEF x
    <3>5. /\ x.hardwareAddress <= w + Step /\ (x.hardwareAddress - h) % Step = 0
          /\ x.virtualIndex - x.hardwareAddress = r.virtualIndex - h
          /\ RegionEnd(x) <= RegionEnd(r)
      BY <3>2, <3>3, <3>4
    <3> QED BY <3>1, <3>2, <3>3, <3>5
  <2>2. CASE OverStart(r, w, w + Step, e)
    <3> DEFINE x == Part(r, w + Step, RegionEnd(r))
    <3>1. e.left = <<x>> /\ h < w + Step /\ w + Step < RegionEnd(r)
      BY <2>2 DEF OverStart
    <3>2. h <= w + Step /\ RegionEnd(r) <= RegionEnd(r) /\ w + Step \in Nat
      <4> DEFINE z == RegionEnd(r)
      <4>1. h \in Nat /\ w \in Nat /\ Step \in Nat /\ z \in Nat /\ h <= w
        BY <1>1, <1>4
      <4> HIDE DEF h, w, z
      <4>2. h <= w + Step /\ z <= z /\ w + Step \in Nat
        BY <4>1
      <4> QED BY <4>2 DEF z
    <3>3. /\ x \in Region /\ x.hardwareAddress = w + Step /\ RegionEnd(x) = RegionEnd(r)
          /\ x.virtualIndex - (w + Step) = r.virtualIndex - r.hardwareAddress
      <4> DEFINE from == w + Step
                 end == RegionEnd(r)
      <4>1. r \in Region /\ from \in Nat /\ end \in Nat /\ r.hardwareAddress <= from /\ from < end
            /\ end <= RegionEnd(r)
        BY <1>1, <1>4, <3>1, <3>2
      <4> HIDE DEF r, from, end
      <4>2. LET y == Part(r, from, end)
            IN /\ y \in Region /\ y.hardwareAddress = from /\ RegionEnd(y) = end
               /\ y.virtualIndex - from = r.virtualIndex - r.hardwareAddress
        BY <4>1, PartOf
      <4> QED BY <4>2 DEF from, end
    <3>4. w \in Nat /\ h \in Nat /\ (w - h) % Step = 0
      BY <1>1, <1>4
    <3> HIDE DEF x
    <3>5. x.hardwareAddress <= w + Step /\ (x.hardwareAddress - h) % Step = 0
      <4> HIDE DEF h, w, r
      <4> DEFINE k == x.hardwareAddress
      <4>1. k = w + Step
        BY <3>3
      <4> HIDE DEF k
      <4>2. (k - h) % Step = 0
        BY <3>4, <4>1, NextMultiple
      <4> QED BY <3>2, <4>1, <4>2 DEF k
    <3>6. x.virtualIndex - x.hardwareAddress = r.virtualIndex - h
      <4>1. x.virtualIndex - (w + Step) = r.virtualIndex - h
        BY <3>3
      <4> HIDE DEF h, w
      <4> QED BY <3>3, <4>1
    <3>7. RegionEnd(x) <= RegionEnd(r)
      BY <3>2, <3>3
    <3> QED BY <3>1, <3>2, <3>3, <3>5, <3>6, <3>7
  <2> QED BY <1>6, <2>1, <2>2
<1>8. PICK x : /\ e.left = <<x>> /\ x \in Region /\ x.hardwareAddress <= w + Step
               /\ (x.hardwareAddress - h) % Step = 0
               /\ x.virtualIndex - x.hardwareAddress = r.virtualIndex - h
               /\ RegionEnd(x) <= RegionEnd(r)
               /\ RegionEnd(x) # RegionEnd(r) => RegionEnd(r) <= w + Step
  BY <1>7
<1>9. Len(e.left) = 1 /\ e.left[1] = x /\ e.left \in Seq(Region)
  BY <1>8
<1>10. /\ Len(new) = Len(st.list) /\ p = x
       /\ \A j \in st.at + 1 .. Len(new) : new[j] = st.list[j]
  <2>1. Len(new) = Len(st.list)
    BY <1>2, <1>3, <1>9
  <2>2. p = x
    <3> DEFINE at == st.at
               m == Len(new)
    <3>0. at \in 1 .. m /\ Len(e.left) = 1 /\ m \in Nat
      BY <1>1, <1>3, <1>9, <2>1
    <3>1. st.at \in 1 .. Len(new) /\ st.at <= st.at /\ st.at < st.at + Len(e.left)
          /\ st.at + 1 - st.at = 1
      <4>1. at \in 1 .. m /\ at <= at /\ at < at + Len(e.left) /\ at + 1 - at = 1
        <5> HIDE DEF at, m
        <5> QED BY <3>0
      <4> QED BY <4>1
    <3> HIDE DEF new
    <3>2. new[st.at] = e.left[1]
      BY <1>2, <3>1
    <3> QED BY <1>9, <3>2 DEF p
  <2>3. ASSUME NEW j \in st.at + 1 .. Len(new) PROVE new[j] = st.list[j]
    <3>1. j \in 1 .. Len(new) /\ st.at + Len(e.left) <= j /\ j + 1 - Len(e.left) = j
      BY <1>1, <1>3, <1>9, <2>1
    <3> HIDE DEF new
    <3> QED BY <1>2, <3>1
  <2> QED BY <2>1, <2>2, <2>3
<1>11. Comparable(criterion, list) => Comparable(criterion, new)
  <2> SUFFICES ASSUME Comparable(criterion, list), criterion = "address" PROVE Aligned(new)
    BY DEF Comparable
  <2>1. Aligned(st.list)
    BY <1>3 DEF Comparable
  <2>2. \A i \in 1 .. Len(e.left) : (e.left[i].hardwareAddress - h) % Step = 0
    BY <1>8, <1>9
  <2> HIDE DEF new
  <2>3. new = Replaced(st.list, st.at, e.left)
    BY DEF new
  <2> DEFINE left == e.left
             list1 == st.list
             at == st.at
  <2>4. GoodList(list1) /\ at \in 1 .. Len(list1) /\ left \in Seq(Region) /\ Aligned(list1)
        /\ new = Replaced(list1, at, left)
        /\ \A i \in 1 .. Len(left) : (left[i].hardwareAddress - list1[at].hardwareAddress) % Step = 0
    BY <1>1, <1>3, <1>9, <2>1, <2>2, <2>3
  <2> HIDE DEF left, list1, at
  <2> QED BY <2>4, ReplacedAligned
<1>12. /\ to \in SearchStates(list, criterion) /\ to.hwaddr = st.hwaddr + Step
       /\ EndAddress(to) = EndAddress(st)
  <2>1. q = NextAddress(st) /\ to = NextItem(st, new)
    BY DEF q, new
  <2>2. LeftAt(st, new[st.at])
    <3>1. LeftAt(st, x)
      BY <1>8 DEF LeftAt
    <3> HIDE DEF new
    <3> QED BY <1>10, <3>1 DEF p
  <2>3. Comparable(criterion, list) =>
          /\ Comparable(criterion, new) /\ Kept(list, criterion, new)
          /\ q \in ItemsIn(new, Step) => Match(criterion, q)
    BY <1>2, <1>11
  <2>4. /\ GoodList(new) /\ Bytes(new) \subseteq Bytes(st.list) /\ Len(new) = Len(st.list)
        /\ \A j \in st.at + 1 .. Len(new) : new[j] = st.list[j]
    BY <1>2, <1>10
  <2> HIDE DEF q, new
  <2> QED
    BY <2>1, <2>2, <2>3, <2>4, NextItemIn
<1> QED BY <1>12, NextPassed

(* The loop begins the region after the erasure, if there is one.          *)
LEMMA RemovedBegins ==
  ASSUME Step \in {1, 2, 4, 8}, NEW list, NEW criterion, NEW new, NEW at \in Nat \ {0},
         GoodList(new), Bytes(new) \subseteq Bytes(list),
         Comparable(criterion, list) =>
           /\ Comparable(criterion, new) /\ Kept(list, criterion, new)
           /\ \A a \in ItemsIn(new, Step) :
                Match(criterion, a) \/ \E j \in at .. Len(new) : a \in BytesOf(new[j]),
         NEW last \in Nat, NEW k \in Nat, \A a \in Bytes(new) : a < last,
         at <= Len(new) => k <= 2 * new[at].hardwareAddress,
         NEW to, to = BeginRegion(new, at)
  PROVE  to \in SearchStates(list, criterion) /\ Passed(last, k, to)
<1>1. to \in SearchStates(list, criterion)
  BY BeginIn
<1>2. Passed(last, k, to)
  BY BeginPassed
<1> QED BY <1>1, <1>2

(* The erasure removes or splits the region: the loop begins the next one. *)
LEMMA TurnRemoves ==
  ASSUME Step \in {1, 2, 4, 8}, NEW list, NEW criterion \in Criteria,
         NEW st \in SearchStates(list, criterion),
         st.at <= Len(st.list), st.i < st.end,
         NEW last \in Nat, NEW n \in Nat, \A a \in Bytes(list) : a < last, Passed(last, n, st),
         ~Matches(criterion, st.i, st.hwaddr),
         NEW e, e = DeactivateRegion(st.list[st.at], st.hwaddr, Step), e.result = 2,
         NEW to, to = BeginRegion(Replaced(st.list, st.at, e.left),
                                  IF e.left = <<>> THEN st.at ELSE st.at + 1)
  PROVE  to \in SearchStates(list, criterion) /\ Passed(last, n + 1, to)
<1> DEFINE r == st.list[st.at]
           q == NextAddress(st)
           new == Replaced(st.list, st.at, e.left)
           at == st.at
           next == IF e.left = <<>> THEN at ELSE at + 1
           h == r.hardwareAddress
           w == st.hwaddr
           x == Part(r, h, w)
           y == Part(r, w + Step, RegionEnd(r))
<1>1. /\ at \in 1 .. Len(st.list) /\ r \in Region /\ h <= w /\ w \in Nat
      /\ (w - h) % Step = 0 /\ q \in Nat /\ q \in BytesOf(r) /\ w <= q /\ q < w + Step
      /\ EndAddress(st) = RegionEnd(r)
  BY AtCursor
<1>0. /\ GoodList(new) /\ Bytes(new) \subseteq Bytes(st.list) /\ q \notin ItemsIn(new, Step)
      /\ Comparable(criterion, list) => Kept(list, criterion, new)
      /\ Bytes(new) \subseteq Bytes(list)
      /\ Comparable(criterion, list) =>
           \A a \in ItemsIn(new, Step) : Match(criterion, a) \/ (q < a /\ a \in Nat)
      /\ Inserted(st.list, st.at, e.left, new)
  <2> HIDE DEF r, q, new
  <2>1. r = st.list[st.at] /\ q = NextAddress(st) /\ new = Replaced(st.list, st.at, e.left)
    BY DEF r, q, new
  <2> QED BY <2>1, ErasedItem
<1>2. /\ GoodList(new) /\ Bytes(new) \subseteq Bytes(st.list) /\ q \notin ItemsIn(new, Step)
      /\ Comparable(criterion, list) => Kept(list, criterion, new)
      /\ Bytes(new) \subseteq Bytes(list)
      /\ Comparable(criterion, list) =>
           \A a \in ItemsIn(new, Step) : Match(criterion, a) \/ (q < a /\ a \in Nat)
      /\ Len(new) = Len(st.list) - 1 + Len(e.left)
      /\ \A m \in 1 .. Len(new) :
           /\ m < at => new[m] = st.list[m]
           /\ at <= m /\ m < at + Len(e.left) => new[m] = e.left[m + 1 - at]
           /\ at + Len(e.left) <= m => new[m] = st.list[m + 1 - Len(e.left)]
  BY <1>0 DEF Inserted
<1>3. /\ GoodList(st.list) /\ Len(st.list) \in Nat /\ Cursor(st)
      /\ Comparable(criterion, list) => Comparable(criterion, st.list)
  BY DEF SearchStates, GoodList
<1>4. /\ h \in Nat /\ RegionEnd(r) \in Nat /\ h < RegionEnd(r) /\ q < RegionEnd(r) /\ h <= q
      /\ Step \in Nat \ {0}
  <2> HIDE DEF r, q
  <2> QED BY <1>1, RegionEnds DEF h
<1>5. \/ Apart(r, w, w + Step, e) \/ OverEnd(r, w, w + Step, e) \/ OverStart(r, w, w + Step, e)
      \/ OverAll(r, w, w + Step, e) \/ OverMiddle(r, w, w + Step, e)
  <2> HIDE DEF h
  <2>1. r \in Region /\ w \in Nat /\ Step \in Nat \ {0} /\ e = DeactivateRegion(r, w, Step)
    BY <1>1, <1>4
  <2> HIDE DEF r, w
  <2> QED BY <2>1, DeactivateCases
<1>6. OverAll(r, w, w + Step, e) \/ OverMiddle(r, w, w + Step, e)
  BY <1>5 DEF Apart, OverEnd, OverStart
<1>7. /\ n <= 2 * w /\ n < 2 * RegionEnd(r)
      /\ \A j \in at + 1 .. Len(st.list) : RegionEnd(r) <= st.list[j].hardwareAddress
  BY <1>1, <1>3 DEF Passed, Cursor
<1>8. CASE OverAll(r, w, w + Step, e)
  <2>1. e.left = <<>> /\ Len(e.left) = 0 /\ next = at /\ e.left \in Seq(Region)
    BY <1>8 DEF OverAll
  <2>2. Len(new) = Len(st.list) - 1 /\ new \in Seq(Region)
    BY <1>2, <1>3, <2>1 DEF GoodList
  <2> HIDE DEF new
  <2>3. ASSUME at <= Len(new) PROVE n + 1 <= 2 * new[at].hardwareAddress
    <3>1. at \in 1 .. Len(new) /\ at + 0 <= at /\ at + 1 - 0 = at + 1 /\ at + 1 \in at + 1 .. Len(st.list)
      BY <1>1, <1>3, <2>2, <2>3
    <3>2. new[at] = st.list[at + 1]
      BY <1>2, <2>1, <3>1
    <3>3. RegionEnd(r) <= st.list[at + 1].hardwareAddress
      BY <1>7, <3>1
    <3>4. new[at].hardwareAddress \in Nat
      BY <2>2, <3>1, RegionEnds
    <3> DEFINE z == RegionEnd(r)
               u == new[at].hardwareAddress
    <3>5. u \in Nat /\ z \in Nat /\ z <= u /\ n < 2 * z
      BY <1>4, <1>7, <3>2, <3>3, <3>4
    <3> HIDE DEF z, u
    <3>6. n + 1 <= 2 * u
      BY <3>5
    <3> QED BY <3>6 DEF u
  <2>4. ASSUME Comparable(criterion, list), NEW a \in ItemsIn(new, Step)
        PROVE  Match(criterion, a) \/ \E j \in at .. Len(new) : a \in BytesOf(new[j])
    <3> SUFFICES ASSUME q < a, a \in Nat PROVE \E j \in at .. Len(new) : a \in BytesOf(new[j])
      BY <1>2, <2>4
    <3>1. h <= a
      <4> HIDE DEF h, q
      <4> QED BY <1>1, <1>4
    <3>2. a \in Bytes(new)
      BY DEF ItemsIn
    <3> QED BY <1>0, <1>1, <1>2, <1>3, <2>1, <3>1, <3>2, InsertedLater
  <2>5. Comparable(criterion, list) => Comparable(criterion, new)
    <3> SUFFICES ASSUME Comparable(criterion, list), criterion = "address" PROVE Aligned(new)
      BY DEF Comparable
    <3>1. Aligned(st.list)
      BY <1>3 DEF Comparable
    <3> DEFINE left == e.left
               list1 == st.list
    <3>2. GoodList(list1) /\ at \in 1 .. Len(list1) /\ left \in Seq(Region) /\ Aligned(list1)
          /\ new = Replaced(list1, at, left)
          /\ \A i \in 1 .. Len(left) : (left[i].hardwareAddress - list1[at].hardwareAddress) % Step = 0
      BY <1>1, <1>3, <2>1, <3>1 DEF new
    <3> HIDE DEF left, list1, at
    <3> QED BY <3>2, ReplacedAligned
  <2>6. to = BeginRegion(new, at) /\ at \in Nat \ {0}
    BY <1>1, <2>1 DEF new
  <2>7. \A a \in Bytes(new) : a < last
    BY <1>2
  <2>8. Comparable(criterion, list) =>
          /\ Comparable(criterion, new) /\ Kept(list, criterion, new)
          /\ \A a \in ItemsIn(new, Step) :
               Match(criterion, a) \/ \E j \in at .. Len(new) : a \in BytesOf(new[j])
    BY <1>2, <2>4, <2>5
  <2> DEFINE k == n + 1
  <2>9. k \in Nat /\ (at <= Len(new) => k <= 2 * new[at].hardwareAddress)
    BY <2>3
  <2> HIDE DEF k, at
  <2>10. to \in SearchStates(list, criterion) /\ Passed(last, k, to)
    <3>1. GoodList(new) /\ Bytes(new) \subseteq Bytes(list)
      BY <1>2
    <3> QED BY <2>6, <2>7, <2>8, <2>9, <3>1, RemovedBegins
  <2> QED BY <2>10 DEF k
<1>9. CASE OverMiddle(r, w, w + Step, e)
  <2>1. /\ e.left = <<x, y>> /\ Len(e.left) = 2 /\ next = at + 1 /\ e.left[1] = x /\ e.left[2] = y
        /\ h < w /\ w + Step < RegionEnd(r)
    BY <1>9 DEF OverMiddle
  <2>2. Len(new) = Len(st.list) + 1 /\ new \in Seq(Region)
    <3>1. Len(e.left) = 2 /\ Len(new) = Len(st.list) - 1 + Len(e.left) /\ Len(st.list) \in Nat
      BY <1>2, <1>3, <2>1
    <3>2. new \in Seq(Region)
      BY <1>2 DEF GoodList
    <3> HIDE DEF new
    <3> QED BY <3>1, <3>2
  <2>3. /\ x \in Region /\ x.hardwareAddress = h /\ RegionEnd(x) = w
    <3>1. h <= h /\ w <= RegionEnd(r)
      <4> HIDE DEF h, w, r
      <4> QED BY <1>1, <1>4, <2>1
    <3>2. r \in Region /\ h \in Nat /\ w \in Nat /\ r.hardwareAddress <= h /\ h < w
      BY <1>1, <1>4, <2>1, <3>1
    <3> HIDE DEF r, h, w
    <3> QED BY <3>1, <3>2, PartOf
  <2>4. y \in Region /\ y.hardwareAddress = w + Step
    <3> DEFINE from == w + Step
               end == RegionEnd(r)
    <3>1. h <= w + Step /\ RegionEnd(r) <= RegionEnd(r) /\ w + Step \in Nat
      <4> HIDE DEF h, w, r
      <4> QED BY <1>1, <1>4, <2>1
    <3>2. r \in Region /\ from \in Nat /\ end \in Nat /\ r.hardwareAddress <= from /\ from < end
          /\ end <= RegionEnd(r)
      BY <1>1, <1>4, <2>1, <3>1
    <3> HIDE DEF r, from, end
    <3>3. LET z == Part(r, from, end)
          IN z \in Region /\ z.hardwareAddress = from
      BY <3>2, PartOf
    <3> QED BY <3>3 DEF from, end
  <2> HIDE DEF new, x, y
  <2>5. e.left \in Seq(Region)
    BY <2>1, <2>3, <2>4
  <2>6. at \in 1 .. Len(new) /\ at + 1 \in 1 .. Len(new) /\ new[at] = x /\ new[at + 1] = y
    <3> DEFINE m == Len(st.list)
    <3>0. at \in 1 .. m /\ m \in Nat /\ Len(new) = m + 1
      BY <1>1, <1>3, <2>2
    <3> HIDE DEF at, m
    <3>1. /\ at \in 1 .. Len(new) /\ at + 1 \in 1 .. Len(new) /\ at <= at /\ at < at + 2
          /\ at <= at + 1 /\ at + 1 < at + 2 /\ at + 1 - at = 1 /\ at + 1 + 1 - at = 2
      BY <3>0
    <3>2. new[at] = e.left[at + 1 - at] /\ new[at + 1] = e.left[at + 1 + 1 - at]
      BY <1>2, <2>1, <3>1
    <3> QED BY <2>1, <3>1, <3>2
  <2>7. n + 1 <= 2 * new[at + 1].hardwareAddress
    <3>1. n + 1 <= 2 * (w + Step)
      <4> HIDE DEF w
      <4> QED BY <1>1, <1>4, <1>7
    <3> QED BY <2>4, <2>6, <3>1
  <2>8. ASSUME Comparable(criterion, list), NEW a \in ItemsIn(new, Step)
        PROVE  Match(criterion, a) \/ \E j \in at + 1 .. Len(new) : a \in BytesOf(new[j])
    <3> SUFFICES ASSUME q < a, a \in Nat PROVE \E j \in at + 1 .. Len(new) : a \in BytesOf(new[j])
      BY <1>2, <2>8
    <3>1. h <= a
      <4> HIDE DEF h, q
      <4> QED BY <1>1, <1>4
    <3>0. a \in Bytes(new)
      BY DEF ItemsIn
    <3>2. PICK j \in at .. Len(new) : a \in BytesOf(new[j])
      BY <1>0, <1>1, <1>2, <1>3, <2>5, <3>0, <3>1, InsertedLater
    <3>3. j # at
      <4>1. SUFFICES ASSUME j = at PROVE FALSE
        OBVIOUS
      <4>2. a \in BytesOf(x)
        BY <2>6, <3>2, <4>1
      <4>3. a < w
        BY <2>3, <4>2, RegionEnds
      <4> HIDE DEF w, q
      <4> QED BY <1>1, <4>3
    <3>4. j \in at + 1 .. Len(new)
      BY <1>1, <2>2, <3>3
    <3> QED BY <3>2, <3>4
  <2>9. Comparable(criterion, list) => Comparable(criterion, new)
    <3> SUFFICES ASSUME Comparable(criterion, list), criterion = "address" PROVE Aligned(new)
      BY DEF Comparable
    <3>1. Aligned(st.list)
      BY <1>3 DEF Comparable
    <3> DEFINE left == e.left
               list1 == st.list
    <3>2. w \in Nat /\ h \in Nat /\ (w - h) % Step = 0
      BY <1>1, <1>4
    <3>3. \A i \in 1 .. Len(e.left) : (e.left[i].hardwareAddress - h) % Step = 0
      <4> DEFINE Whole(p) == (p.hardwareAddress - h) % Step = 0
      <4> DEFINE k == y.hardwareAddress
                 m == x.hardwareAddress
      <4>0. k = w + Step /\ m = h
        BY <2>3, <2>4
      <4>1. Whole(x) /\ Whole(y)
        <5>1. (k - h) % Step = 0 /\ (m - h) % Step = 0
          <6> HIDE DEF k, m, h, w
          <6> QED BY <3>2, <4>0, NextMultiple
        <5> QED BY <5>1
      <4> HIDE DEF Whole
      <4>2. \A i \in 1 .. Len(e.left) : Whole(e.left[i])
        BY <2>1, <4>1
      <4> QED BY <4>2 DEF Whole
    <3>4. GoodList(list1) /\ at \in 1 .. Len(list1) /\ left \in Seq(Region) /\ Aligned(list1)
          /\ new = Replaced(list1, at, left)
          /\ \A i \in 1 .. Len(left) : (left[i].hardwareAddress - list1[at].hardwareAddress) % Step = 0
      BY <1>1, <1>3, <2>5, <3>1, <3>3 DEF new
    <3> HIDE DEF left, list1, at
    <3> QED BY <3>4, ReplacedAligned
  <2> DEFINE next1 == at + 1
  <2>10. to = BeginRegion(new, next1) /\ next1 \in Nat \ {0}
    BY <1>1, <2>1 DEF new
  <2>11. \A a \in Bytes(new) : a < last
    BY <1>2
  <2>12. Comparable(criterion, list) => \A a \in ItemsIn(new, Step) :
            Match(criterion, a) \/ \E j \in next1 .. Len(new) : a \in BytesOf(new[j])
    BY <2>8
  <2>13. n + 1 <= 2 * new[next1].hardwareAddress
    BY <2>7
  <2> HIDE DEF next1
  <2>14. Comparable(criterion, list) =>
          /\ Comparable(criterion, new) /\ Kept(list, criterion, new)
          /\ \A a \in ItemsIn(new, Step) :
               Match(criterion, a) \/ \E j \in next1 .. Len(new) : a \in BytesOf(new[j])
    BY <1>2, <2>9, <2>12
  <2> DEFINE k == n + 1
  <2>15. k \in Nat /\ (next1 <= Len(new) => k <= 2 * new[next1].hardwareAddress)
    BY <2>13
  <2> HIDE DEF k
  <2>16. to \in SearchStates(list, criterion) /\ Passed(last, k, to)
    <3>1. GoodList(new) /\ Bytes(new) \subseteq Bytes(list)
      BY <1>2
    <3> QED BY <2>10, <2>11, <2>14, <2>15, <3>1, RemovedBegins
  <2> QED BY <2>16 DEF k
<1> QED BY <1>6, <1>8, <1>9

(* Every turn keeps the state of the loop good and comes further.          *)
LEMMA SearchTurnKeeps ==
  ASSUME Step \in {1, 2, 4, 8}, NEW list, NEW criterion \in Criteria,
         NEW st \in SearchStates(list, criterion),
         NEW last \in Nat, NEW n \in Nat, \A a \in Bytes(list) : a < last, Passed(last, n, st),
         NEW to, to = SearchTurn(criterion, st)
  PROVE  to \in SearchStates(list, criterion) /\ Passed(last, n + 1, to)
<1> DEFINE e == DeactivateRegion(st.list[st.at], st.hwaddr, Step)
           new == Replaced(st.list, st.at, e.left)
<1>1. st.at \in Nat /\ Len(st.list) \in Nat /\ st.i \in Nat /\ st.end \in Nat
  BY DEF SearchStates, GoodList
<1>2. CASE st.at > Len(st.list)
  <2>1. ~(st.at <= Len(st.list))
    BY <1>1, <1>2
  <2>2. to = st
    BY <1>2, <2>1 DEF SearchTurn
  <2> QED BY <2>1, <2>2 DEF Passed
<1>3. CASE st.at <= Len(st.list) /\ st.i >= st.end
  <2>1. to = BeginRegion(st.list, st.at + 1)
    BY <1>1, <1>3 DEF SearchTurn
  <2>2. ~(st.i < st.end)
    BY <1>1, <1>3
  <2> QED BY <1>3, <2>1, <2>2, TurnToNextRegion
<1>4. CASE st.at <= Len(st.list) /\ st.i < st.end
  <2>1. ~(st.at > Len(st.list)) /\ ~(st.i >= st.end)
    BY <1>1, <1>4
  <2>2. to = CASE Matches(criterion, st.i, st.hwaddr) -> NextItem(st, st.list)
               [] ~Matches(criterion, st.i, st.hwaddr) /\ e.result = 2 ->
                    BeginRegion(new, IF e.left = <<>> THEN st.at ELSE st.at + 1)
               [] OTHER -> NextItem(st, new)
    BY <2>1 DEF SearchTurn, After
  <2>3. CASE Matches(criterion, st.i, st.hwaddr)
    <3>1. to = NextItem(st, st.list)
      BY <2>2, <2>3
    <3> QED BY <1>4, <2>3, <3>1, TurnPastItem
  <2>4. CASE ~Matches(criterion, st.i, st.hwaddr) /\ e.result = 2
    <3>1. to = BeginRegion(new, IF e.left = <<>> THEN st.at ELSE st.at + 1)
      BY <2>2, <2>4
    <3>2. e = DeactivateRegion(st.list[st.at], st.hwaddr, Step)
      OBVIOUS
    <3> HIDE DEF e
    <3> QED BY <1>4, <2>4, <3>1, <3>2, TurnRemoves
  <2>5. CASE ~Matches(criterion, st.i, st.hwaddr) /\ e.result # 2
    <3>1. to = NextItem(st, new)
      BY <2>2, <2>5
    <3>2. e = DeactivateRegion(st.list[st.at], st.hwaddr, Step)
      OBVIOUS
    <3> HIDE DEF e
    <3> QED BY <1>4, <2>5, <3>1, <3>2, TurnShortens
  <2> QED BY <2>3, <2>4, <2>5
<1> QED BY <1>1, <1>2, <1>3, <1>4

(* The end of the last region is above all bytes.                          *)
LEMMA BytesBelow ==
  ASSUME NEW list, GoodList(list), list # <<>>, NEW last, last = RegionEnd(Last(list))
  PROVE  last \in Nat /\ \A a \in Bytes(list) : a < last
<1>1. Len(list) \in 1 .. Len(list) /\ Len(list) \in Nat
  BY DEF GoodList
<1>2. list[Len(list)] \in Region /\ last = RegionEnd(list[Len(list)])
  BY <1>1 DEF GoodList, Last
<1>3. last \in Nat
  BY <1>2, RegionEnds
<1>4. ASSUME NEW a \in Bytes(list) PROVE a < last
  <2>1. PICK i \in 1 .. Len(list) : a \in BytesOf(list[i])
    BY InBytes
  <2>2. list[i] \in Region
    BY DEF GoodList
  <2>3. a \in Nat /\ a < RegionEnd(list[i]) /\ RegionEnd(list[i]) \in Nat
    BY <2>1, <2>2, RegionEnds
  <2>4. CASE i = Len(list)
    BY <1>2, <2>3, <2>4
  <2>5. CASE i < Len(list)
    <3>1. RegionEnd(list[i]) <= list[Len(list)].hardwareAddress
      BY <1>1, <2>5 DEF GoodList, InOrder
    <3>2. list[Len(list)].hardwareAddress < last /\ list[Len(list)].hardwareAddress \in Nat
      BY <1>2, RegionEnds
    <3> QED BY <1>3, <2>3, <3>1, <3>2
  <2> QED BY <1>1, <2>4, <2>5
<1> QED BY <1>3, <1>4

SearchSteps(criterion, list, T, g) ==
  g = [n \in 0 .. T |->
        IF n = 0 THEN BeginRegion(list, 1) ELSE SearchTurn(criterion, g[n - 1])]

(* What a search leaves.                                                   *)
LEMMA SearchKeeps ==
  ASSUME typeSize \in Sizes, NEW criterion \in Criteria, NEW list, GoodList(list),
         NEW new, new = Search(criterion, list)
  PROVE  /\ GoodList(new) /\ Bytes(new) \subseteq Bytes(list)
         /\ Comparable(criterion, list) =>
              ItemsIn(new, Step) = {a \in ItemsIn(list, Step) : Match(criterion, a)}
<1> DEFINE last == IF list = <<>> THEN 0 ELSE RegionEnd(Last(list))
           T == IF list = <<>> THEN 0 ELSE 2 * RegionEnd(Last(list))
           s == BeginRegion(list, 1)
           S == SearchStates(list, criterion)
           Turn == [n \in 1 .. T |-> [st \in S |->
                     IF Passed(last, n - 1, st) THEN SearchTurn(criterion, st) ELSE st]]
           f == CHOOSE g : SearchSteps(criterion, list, T, g)
<1>1. Step \in {1, 2, 4, 8}
  BY StepType
<1>2. T \in Nat /\ last \in Nat /\ (list # <<>> => T = 2 * last) /\ (list = <<>> => T = 0)
      /\ \A a \in Bytes(list) : a < last
  <2>1. CASE list = <<>>
    <3>1. Bytes(list) = {}
      BY <2>1 DEF Bytes
    <3> QED BY <2>1, <3>1
  <2>2. CASE list # <<>>
    BY <2>2, BytesBelow
  <2> QED BY <2>1, <2>2
<1> HIDE DEF last
<1>3. s \in SearchStates(list, criterion) /\ Passed(last, 0, s)
  <2> DEFINE one == 1
  <2>1. one \in Nat \ {0} /\ Len(list) \in Nat
    BY DEF GoodList
  <2>2. \A a \in ItemsIn(list, Step) :
          Match(criterion, a) \/ \E j \in one .. Len(list) : a \in BytesOf(list[j])
    BY InBytes DEF ItemsIn
  <2>3. Kept(list, criterion, list)
    BY DEF Kept
  <2>4. one <= Len(list) => 0 <= 2 * list[one].hardwareAddress
    BY <2>1, RegionEnds DEF GoodList
  <2>5. s = BeginRegion(list, one)
    OBVIOUS
  <2> HIDE DEF one, s
  <2>6. s \in SearchStates(list, criterion)
    BY <1>1, <2>1, <2>2, <2>3, <2>5, BeginIn
  <2>7. Passed(last, 0, s)
    BY <1>2, <2>1, <2>4, <2>5, BeginPassed
  <2> QED BY <2>6, <2>7
<1> HIDE DEF T
<1>4. ASSUME NEW n \in 1 .. T, NEW st \in S, Passed(last, n - 1, st)
      PROVE  SearchTurn(criterion, st) \in S /\ Passed(last, n, SearchTurn(criterion, st))
  <2> DEFINE k == n - 1
             to == SearchTurn(criterion, st)
  <2>1. k \in Nat /\ n = k + 1 /\ Passed(last, k, st)
    BY <1>2, <1>4
  <2>2. to = SearchTurn(criterion, st)
    OBVIOUS
  <2> HIDE DEF k, to
  <2>3. to \in SearchStates(list, criterion) /\ Passed(last, k + 1, to)
    BY <1>1, <1>2, <2>1, <2>2, SearchTurnKeeps
  <2> QED BY <2>1, <2>2, <2>3
<1> HIDE DEF S, s
<1>5. Turn \in [1 .. T -> [S -> S]]
  BY <1>4
<1>6. s \in S
  BY <1>3 DEF S
<1>7. PICK g \in [0 .. T -> S] : Iterates(T, s, Turn, g)
  <2> HIDE DEF Turn
  <2> QED BY <1>2, <1>5, <1>6, IterateExists
<1>8. \A n \in 1 .. T : n - 1 \in 0 .. T /\ n \in 0 .. T /\ n # 0
  BY <1>2
<1>9. /\ g[0] = s
      /\ \A n \in 1 .. T : g[n] = Turn[n][g[n - 1]]
  <2> HIDE DEF Turn
  <2> QED BY <1>2, <1>7, <1>8 DEF Iterates
<1>10. \A n \in 1 .. T : Passed(last, n - 1, g[n - 1]) => g[n] = SearchTurn(criterion, g[n - 1])
  BY <1>8, <1>9
<1> HIDE DEF Turn
<1>11. \A n \in 0 .. T : Passed(last, n, g[n])
  <2> DEFINE G == {n \in 0 .. T : Passed(last, n, g[n])}
  <2>1. 0 \in G
    BY <1>2, <1>3, <1>9
  <2>2. ASSUME NEW n \in 1 .. T, n - 1 \in G PROVE n \in G
    <3>1. g[n] = SearchTurn(criterion, g[n - 1]) /\ Passed(last, n - 1, g[n - 1])
          /\ g[n - 1] \in S
      BY <1>7, <1>8, <1>10, <2>2
    <3> QED BY <1>4, <1>8, <3>1
  <2>3. \A n \in 0 .. T : n \in G
    <3> HIDE DEF G
    <3> QED BY <1>2, <2>1, <2>2, Induction
  <2> QED BY <2>3
<1>12. SearchSteps(criterion, list, T, g)
  <2>1. \A n \in 0 .. T : g[n] = IF n = 0 THEN s ELSE SearchTurn(criterion, g[n - 1])
    <3> SUFFICES ASSUME NEW n \in 0 .. T, n # 0 PROVE g[n] = SearchTurn(criterion, g[n - 1])
      BY <1>9
    <3>1. n \in 1 .. T /\ n - 1 \in 0 .. T
      BY <1>2
    <3> QED BY <1>10, <1>11, <3>1
  <2>2. g = [n \in 0 .. T |-> g[n]]
    BY <1>7
  <2> QED BY <2>1, <2>2 DEF SearchSteps, s
<1>13. SearchSteps(criterion, list, T, f)
  BY <1>12
<1>14. new = f[T].list
  BY DEF Search, SearchSteps, T
<1> HIDE DEF f
<1>15. /\ f[0] = s /\ \A n \in 1 .. T : f[n] = SearchTurn(criterion, f[n - 1])
  <2>1. \A n \in 0 .. T : f[n] = IF n = 0 THEN s ELSE SearchTurn(criterion, f[n - 1])
    BY <1>13 DEF SearchSteps, s
  <2> QED BY <1>2, <1>8, <2>1
<1>16. f[T] \in S /\ Passed(last, T, f[T])
  <2> DEFINE G == {n \in 0 .. T : f[n] \in S /\ Passed(last, n, f[n])}
  <2>1. 0 \in G
    BY <1>2, <1>3, <1>6, <1>15
  <2>2. ASSUME NEW n \in 1 .. T, n - 1 \in G PROVE n \in G
    <3>1. f[n - 1] \in S /\ Passed(last, n - 1, f[n - 1]) /\ f[n] = SearchTurn(criterion, f[n - 1])
      BY <1>15, <2>2
    <3> QED BY <1>4, <1>8, <3>1
  <2>3. \A n \in 0 .. T : n \in G
    <3> HIDE DEF G
    <3> QED BY <1>2, <2>1, <2>2, Induction
  <2>4. T \in 0 .. T
    BY <1>2
  <2> QED BY <2>3, <2>4
<1> DEFINE z == f[T]
<1> HIDE DEF z
<1>17. z \in SearchStates(list, criterion) /\ Passed(last, T, z) /\ new = z.list
  BY <1>14, <1>16 DEF S, z
<1>18. /\ GoodList(new) /\ Bytes(new) \subseteq Bytes(list) /\ z.at \in Nat \ {0}
       /\ z.at <= Len(new) => Cursor(z)
       /\ Comparable(criterion, list) => Kept(list, criterion, new) /\ Ahead(criterion, z)
  BY <1>17 DEF SearchStates
<1>19. ~(z.at <= Len(new))
  <2>1. CASE list = <<>>
    <3>0. Bytes(list) = {}
      BY <2>1 DEF Bytes
    <3>1. Bytes(new) = {}
      BY <1>18, <3>0
    <3>2. Len(new) = 0
      <4>1. SUFFICES ASSUME Len(new) # 0 PROVE FALSE
        OBVIOUS
      <4>2. 1 \in 1 .. Len(new) /\ new[1] \in Region
        BY <1>18, <4>1 DEF GoodList
      <4>3. new[1].hardwareAddress \in BytesOf(new[1])
        BY <4>2, RegionEnds
      <4> QED BY <3>1, <4>2, <4>3, InBytes
    <3> QED BY <1>18, <3>2
  <2>2. CASE list # <<>>
    <3>1. SUFFICES ASSUME z.at <= Len(new) PROVE FALSE
      OBVIOUS
    <3>2. T < 2 * EndAddress(z) /\ EndAddress(z) <= last
      BY <1>17, <3>1 DEF Passed
    <3>3. EndAddress(z) \in Int
      <4>1. z.at \in 1 .. Len(new)
        BY <1>18, <3>1 DEF GoodList
      <4>2. z.list[z.at] \in Region
        BY <1>17, <1>18, <4>1 DEF GoodList
      <4>3. z.end \in Nat
        BY <1>17 DEF SearchStates
      <4>4. z.list[z.at].hardwareAddress \in Nat /\ z.list[z.at].virtualIndex \in Nat
        BY <4>2, RegionEnds
      <4> QED BY <4>3, <4>4 DEF EndAddress
    <3> QED BY <1>2, <2>2, <3>2, <3>3
  <2> QED BY <2>1, <2>2
<1>20. ASSUME Comparable(criterion, list)
       PROVE  ItemsIn(new, Step) = {a \in ItemsIn(list, Step) : Match(criterion, a)}
  <2>1. \A a \in ItemsIn(new, Step) : Match(criterion, a)
    BY <1>17, <1>18, <1>19, <1>20 DEF Ahead
  <2>2. ItemsIn(new, Step) \subseteq ItemsIn(list, Step)
    BY <1>18 DEF ItemsIn
  <2>3. \A a \in ItemsIn(list, Step) : Match(criterion, a) => a \in ItemsIn(new, Step)
    BY <1>18, <1>20 DEF Kept
  <2> QED BY <2>1, <2>2, <2>3
<1> QED BY <1>18, <1>20

-----------------------------------------------------------------------------
(* The lists of the dialog, and the criteria the threads search with.      *)
ListsInv ==
  /\ GoodList(regions) /\ GoodList(backup) /\ typeSize \in Sizes
  /\ autoSearch \in Criteria \cup {"off"}
  /\ dbg.at = "search" => dbg.criterion \in Criteria

LEMMA AllRegionsGood == GoodList(AllRegions)
<1> DEFINE r(i) == [hardwareAddress |-> Areas[i].base, size |-> Areas[i].size,
                    virtualIndex |-> AreaStart(i)]
<1>1. /\ Len(Areas) \in Nat
      /\ \A i \in 1 .. Len(Areas) : Areas[i].base \in Nat /\ Areas[i].size \in Nat \ {0}
      /\ \A i, j \in 1 .. Len(Areas) : i < j => Areas[i].base + Areas[i].size <= Areas[j].base
  BY AreaFacts
<1>2. \A i \in 1 .. Len(Areas) : AreaStart(i) \in Nat
  BY <1>1, AreaStarts
<1>3. AllRegions = [i \in 1 .. Len(Areas) |-> r(i)]
  BY DEF AllRegions
<1>4. \A i \in 1 .. Len(Areas) : r(i) \in Region /\ RegionEnd(r(i)) = Areas[i].base + Areas[i].size
  BY <1>1, <1>2 DEF Region, RegionEnd
<1>5. ASSUME NEW i \in 1 .. Len(Areas) PROVE Placed(r(i))
  <2>1. BytesOf(r(i)) = AreaBytes(i)
    <3>1. r(i).hardwareAddress = Areas[i].base
      OBVIOUS
    <3>2. RegionEnd(r(i)) = Areas[i].base + Areas[i].size
      BY <1>4
    <3> DEFINE h == r(i).hardwareAddress
               end == RegionEnd(r(i))
               b == Areas[i].base
               z == Areas[i].size
    <3>3. h = b /\ end = b + z /\ b \in Nat /\ z \in Nat
      BY <1>1, <3>1, <3>2
    <3>4. BytesOf(r(i)) = h .. end - 1 /\ AreaBytes(i) = b .. b + z - 1
      BY DEF BytesOf, AreaBytes
    <3> HIDE DEF h, end, b, z
    <3> QED BY <3>3, <3>4
  <2>2. Areas[i].base \in AreaBytes(i)
    BY <1>1 DEF AreaBytes
  <2>3. VirtualIndex[Areas[i].base] = AreaStart(i) + (Areas[i].base - Areas[i].base)
    BY <2>2, IndexOf
  <2>4. VirtualIndex[Areas[i].base] = AreaStart(i)
    BY <1>1, <1>2, <2>3
  <2> QED BY <1>4, <2>1, <2>4 DEF Placed
<1>6. AllRegions \in Seq(Region) /\ Len(AllRegions) = Len(Areas)
      /\ \A i \in 1 .. Len(Areas) : AllRegions[i] = r(i)
  <2> HIDE DEF r
  <2> QED BY <1>1, <1>3, <1>4
<1>7. InOrder(AllRegions)
  <2> SUFFICES ASSUME NEW i \in 1 .. Len(Areas), NEW j \in 1 .. Len(Areas), i < j
               PROVE  RegionEnd(AllRegions[i]) <= AllRegions[j].hardwareAddress
    BY <1>6 DEF InOrder
  <2>1. RegionEnd(r(i)) = Areas[i].base + Areas[i].size /\ r(j).hardwareAddress = Areas[j].base
    BY <1>4
  <2> HIDE DEF r
  <2> QED BY <1>1, <1>6, <2>1
<1> HIDE DEF r
<1> QED BY <1>5, <1>6, <1>7 DEF GoodList

LEMMA EmptyGood == GoodList(<<>>)
  BY DEF GoodList, InOrder

LEMMA ListsInit ==
  ASSUME Init
  PROVE  ListsInv
  BY AllRegionsGood, EmptyGood DEF Init, ListsInv, Idle

(* One operation of the dialog or of the debugger thread.                  *)
LEMMA ListsNext ==
  ASSUME ListsInv, [Next]_vars
  PROVE  ListsInv'
<1> USE DEF ListsInv
<1>1. CASE Reset
  BY <1>1, AllRegionsGood DEF Reset, ResetAddressInfo, dialog
<1>2. CASE ResetChanges
  BY <1>2 DEF ResetChanges, lists, dialog
<1>3. CASE Undo
  BY <1>3 DEF Undo, dialog
<1>4. ASSUME NEW size \in Sizes, NEW align \in BOOLEAN, SetType(size, align)
      PROVE  ListsInv'
  BY <1>4 DEF SetType, lists
<1>5. ASSUME NEW criterion \in Criteria, NEW auto \in BOOLEAN, BeginSearch(criterion, auto)
      PROVE  ListsInv'
  <2>1. UNCHANGED <<typeSize, dbg>>
    BY <1>5 DEF BeginSearch, dialog
  <2>2. autoSearch' \in {criterion, autoSearch}
    BY <1>5 DEF BeginSearch
  <2>3. regions' = regions \/ regions' = Search(criterion, regions)
    BY <1>5 DEF BeginSearch
  <2>4. backup' \in {backup, regions}
    BY <1>5 DEF BeginSearch, SaveUndoState
  <2>5. GoodList(regions')
    BY <2>3, SearchKeeps
  <2> QED BY <2>1, <2>2, <2>4, <2>5
<1>6. CASE StopAutoSearch
  BY <1>6 DEF StopAutoSearch, lists, dialog
<1>7. CASE FinishSearch
  BY <1>7 DEF FinishSearch, dialog
<1>8. CASE ResetSearch
  BY <1>8, AllRegionsGood DEF ResetSearch, ResetAddressInfo, dialog
<1>9. ASSUME NEW selected \in Selections, Eliminate(selected)
      PROVE  ListsInv'
  <2>1. UNCHANGED <<typeSize, dbg, autoSearch>> /\ regions' = EliminateRanges(regions, Ranges(selected))
    BY <1>9 DEF Eliminate, dialog
  <2>2. selected \in SUBSET Items
    BY DEF Selections
  <2>3. GoodList(regions')
    BY <2>1, <2>2, EliminateOnly
  <2>4. backup' \in {backup, regions}
    BY <1>9 DEF Eliminate, SaveUndoState
  <2> QED BY <2>1, <2>3, <2>4
<1>10. CASE CloseDialog
  BY <1>10 DEF CloseDialog, lists
<1>11. CASE OpenDialog
  <2>1. UNCHANGED <<typeSize, dbg, autoSearch>>
    BY <1>11 DEF OpenDialog
  <2>2. CASE resultCount = 0
    BY <1>11, <2>1, <2>2, AllRegionsGood, EmptyGood DEF OpenDialog, ResetAddressInfo
  <2>3. CASE resultCount # 0
    <3>1. UNCHANGED lists
      BY <1>11, <2>3 DEF OpenDialog
    <3> QED BY <2>1, <3>1 DEF lists
  <2> QED BY <2>2, <2>3
<1>12. ASSUME NEW W \in WriteSets, NEW v \in Values, Frame(W, v)
       PROVE  ListsInv'
  <2>1. UNCHANGED <<lists, dialog, autoSearch>>
        /\ dbg' = IF autoSearch # "off" THEN [at |-> "search", criterion |-> autoSearch] ELSE dbg
    BY <1>12 DEF Frame
  <2>2. UNCHANGED <<regions, backup, typeSize, autoSearch>>
    BY <2>1 DEF lists, dialog
  <2> QED BY <2>1, <2>2
<1>13. ASSUME NEW W \in WriteSets, NEW v \in Values, NEW abort \in BOOLEAN,
              FrameOutOfResults(W, v, abort)
       PROVE  ListsInv'
  <2>1. UNCHANGED <<dialog, dbg>> /\ autoSearch' \in {"off", autoSearch} /\ backup' = <<>>
    BY <1>13 DEF FrameOutOfResults
  <2>2. regions' = AllRegions \/ regions' = <<>>
    BY <1>13 DEF FrameOutOfResults, ResetAddressInfo
  <2> QED BY <2>1, <2>2, AllRegionsGood, EmptyGood DEF dialog
<1>14. CASE AutoSearch
  <2>1. UNCHANGED <<backup, dialog, autoSearch>> /\ dbg.at = "search"
    BY <1>14 DEF AutoSearch
  <2>2. regions' = regions \/ regions' = Search(dbg.criterion, regions)
    BY <1>14 DEF AutoSearch
  <2>3. dbg' = Idle \/ dbg' = [dbg EXCEPT !.at = "pruned"]
    BY <1>14 DEF AutoSearch
  <2>4. GoodList(regions')
    BY <2>1, <2>2, SearchKeeps
  <2>5. dbg'.at # "search"
    <3>1. CASE dbg' = Idle
      BY <3>1 DEF Idle
    <3>2. CASE dbg' = [dbg EXCEPT !.at = "pruned"]
      BY <2>1, <3>2
    <3> QED BY <2>3, <3>1, <3>2
  <2> QED BY <2>1, <2>4, <2>5 DEF dialog
<1>15. CASE FinishAutoSearch
  BY <1>15 DEF FinishAutoSearch, dialog, Idle
<1>16. CASE UNCHANGED vars
  BY <1>16 DEF vars
<1> QED
  BY <1>1, <1>2, <1>3, <1>4, <1>5, <1>6, <1>7, <1>8, <1>9, <1>10, <1>11, <1>12, <1>13, <1>14,
     <1>15, <1>16 DEF Next

LEMMA ListsCorrect == Spec => []ListsInv
  BY ListsInit, ListsNext, PTL DEF Spec

(* Eliminating items takes no other item away (ramsearch.cpp, the command  *)
(* IDC_C_ELIMINATE), whatever is selected and however the list was split.  *)
THEOREM EliminatesNothingElseCorrect == Spec => EliminatesNothingElse
<1>1. ASSUME ListsInv
      PROVE  \A selected \in Selections :
               Eliminate(selected) => Items \ selected \subseteq Items'
  <2> SUFFICES ASSUME NEW selected \in Selections, Eliminate(selected)
               PROVE  Items \ selected \subseteq Items'
    OBVIOUS
  <2>1. UNCHANGED dialog /\ regions' = EliminateRanges(regions, Ranges(selected))
    BY DEF Eliminate
  <2>2. Items' = ItemsIn(regions', Step)
    BY <2>1 DEF Items, Step, dialog
  <2>3. selected \in SUBSET Items
    BY DEF Selections
  <2> QED
    BY <1>1, <2>1, <2>2, <2>3, EliminateOnly DEF ListsInv
<1> QED
  BY <1>1, ListsCorrect, PTL DEF EliminatesNothingElse

(* A search leaves exactly the items that match (the loops of prune),      *)
(* whatever the layout of the regions; the search for an address when they *)
(* start at items.                                                         *)
LEMMA SearchedItems ==
  ASSUME ListsInv, NEW criterion \in Criteria, UNCHANGED dialog,
         regions' = Search(criterion, regions)
  PROVE  Searched(criterion)
<1>1. Comparable(criterion, regions) =>
        ItemsIn(regions', Step) = {a \in ItemsIn(regions, Step) : Match(criterion, a)}
  BY SearchKeeps DEF ListsInv
<1>2. Items' = ItemsIn(regions', Step)
  BY DEF Items, Step, dialog
<1> QED
  BY <1>1, <1>2 DEF Searched, Comparable, Items, Match

THEOREM SearchExactCorrect == Spec => SearchExact
<1> DEFINE ByUser == ui.at = "idle" /\ ui'.at = "pruned"
           ByFrame == dbg.at = "search" /\ dbg'.at = "pruned"
<1>1. ASSUME ListsInv, [Next]_vars
      PROVE  (ByUser => Searched(ui'.criterion)) /\ (ByFrame => Searched(dbg.criterion))
  <2>1. CASE Reset
    BY <2>1 DEF Reset
  <2>2. CASE ResetChanges
    BY <2>2 DEF ResetChanges
  <2>3. CASE Undo
    BY <2>3 DEF Undo
  <2>4. ASSUME NEW size \in Sizes, NEW align \in BOOLEAN, SetType(size, align)
        PROVE  ~ByUser /\ ~ByFrame
    BY <2>4 DEF SetType
  <2>5. ASSUME NEW criterion \in Criteria, NEW auto \in BOOLEAN, BeginSearch(criterion, auto)
        PROVE  (ByUser => Searched(ui'.criterion)) /\ ~ByFrame
    <3>1. UNCHANGED <<dialog, dbg>>
      BY <2>5 DEF BeginSearch
    <3>2. ASSUME ByUser PROVE regions' = Search(criterion, regions) /\ ui'.criterion = criterion
      BY <2>5, <3>2 DEF BeginSearch, Idle
    <3> QED
      BY <1>1, <3>1, <3>2, SearchedItems
  <2>6. CASE StopAutoSearch
    BY <2>6 DEF StopAutoSearch
  <2>7. CASE FinishSearch
    BY <2>7 DEF FinishSearch
  <2>8. CASE ResetSearch
    BY <2>8 DEF ResetSearch
  <2>9. ASSUME NEW selected \in Selections, Eliminate(selected)
        PROVE  ~ByUser /\ ~ByFrame
    BY <2>9 DEF Eliminate
  <2>10. CASE CloseDialog
    BY <2>10 DEF CloseDialog
  <2>11. CASE OpenDialog
    BY <2>11 DEF OpenDialog
  <2>12. ASSUME NEW W \in WriteSets, NEW v \in Values, Frame(W, v)
         PROVE  ~ByUser /\ ~ByFrame
    BY <2>12 DEF Frame
  <2>13. ASSUME NEW W \in WriteSets, NEW v \in Values, NEW abort \in BOOLEAN,
                FrameOutOfResults(W, v, abort)
         PROVE  ~ByUser /\ ~ByFrame
    BY <2>13 DEF FrameOutOfResults
  <2>14. CASE AutoSearch
    <3>1. UNCHANGED <<dialog, ui>> /\ dbg.at = "search"
      BY <2>14 DEF AutoSearch
    <3>2. ASSUME ByFrame PROVE regions' = Search(dbg.criterion, regions)
      BY <2>14, <3>2 DEF AutoSearch, Idle
    <3>3. dbg.criterion \in Criteria
      BY <1>1, <3>1 DEF ListsInv
    <3> QED
      BY <1>1, <3>1, <3>2, <3>3, SearchedItems
  <2>15. CASE FinishAutoSearch
    BY <2>15 DEF FinishAutoSearch
  <2>16. CASE UNCHANGED vars
    BY <2>16 DEF vars
  <2> QED
    BY <1>1, <2>1, <2>2, <2>3, <2>4, <2>5, <2>6, <2>7, <2>8, <2>9, <2>10, <2>11, <2>12, <2>13,
       <2>14, <2>15, <2>16 DEF Next
<1> QED
  BY <1>1, ListsCorrect, PTL DEF SearchExact, Spec

-----------------------------------------------------------------------------
(* Counting.  Items of one region are as many as its loop makes turns.     *)
Multiples(m, first, end, step) ==
  /\ m \in Nat
  /\ \A k \in 1 .. m : /\ first + (k - 1) * step \in Nat /\ first <= first + (k - 1) * step
                       /\ first + (k - 1) * step < end /\ (first + (k - 1) * step) % step = 0
  /\ \A k, n \in 1 .. m : first + (k - 1) * step = first + (n - 1) * step => k = n
  /\ \A a \in Nat : a % step = 0 /\ first <= a /\ a < end =>
       \E k \in 1 .. m : a = first + (k - 1) * step

LEMMA MultiplesBetween ==
  ASSUME NEW step \in {1, 2, 4, 8}, NEW first \in Nat, first % step = 0, NEW end \in Nat,
         first < end + step, NEW m, m = (end - first + step - 1) \div step
  PROVE  Multiples(m, first, end, step)
<1>1. ASSUME NEW s \in {1, 2, 4, 8}, step = s, NEW a \in Nat, a % step = 0, first <= a, a < end
      PROVE  LET k == (a - first) \div step + 1 IN k \in 1 .. m /\ a = first + (k - 1) * step
  <2>1. CASE s = 1
    BY <1>1, <2>1
  <2>2. CASE s = 2
    BY <1>1, <2>2
  <2>3. CASE s = 4
    BY <1>1, <2>3
  <2>4. CASE s = 8
    BY <1>1, <2>4
  <2> QED BY <2>1, <2>2, <2>3, <2>4
<1>2. ASSUME NEW a \in Nat, a % step = 0, first <= a, a < end
      PROVE  \E k \in 1 .. m : a = first + (k - 1) * step
  BY <1>1, <1>2
<1>3. CASE step = 1
  BY <1>2, <1>3 DEF Multiples
<1>4. CASE step = 2
  BY <1>2, <1>4 DEF Multiples
<1>5. CASE step = 4
  BY <1>2, <1>5 DEF Multiples
<1>6. CASE step = 8
  BY <1>2, <1>6 DEF Multiples
<1> QED BY <1>3, <1>4, <1>5, <1>6

LEMMA CountOne ==
  ASSUME NEW step \in {1, 2, 4, 8}, NEW r \in Region,
         NEW S, S = {a \in BytesOf(r) : a % step = 0}
  PROVE  ItemsOf(r, step) \in Nat /\ IsFiniteSet(S) /\ Cardinality(S) = ItemsOf(r, step)
<1> DEFINE skip == StartSkipSize(r, step)
           h == r.hardwareAddress
           z == r.size
           first == h + skip
           end == RegionEnd(r)
           m == ItemsOf(r, step)
           f == [k \in 1 .. m |-> first + (k - 1) * step]
<1>1. /\ h \in Nat /\ z \in Nat \ {0} /\ end = h + z /\ end \in Nat
      /\ \A a : a \in BytesOf(r) <=> a \in Nat /\ h <= a /\ a < end
  BY RegionEnds DEF Region, RegionEnd
<1>2. /\ skip \in 0 .. step - 1 /\ first % step = 0
      /\ \A a \in Nat : a % step = 0 /\ h <= a => first <= a
  BY SkipFacts
<1>3. m = (z - skip + step - 1) \div step
  BY DEF ItemsOf
<1> HIDE DEF skip, h, z, end, m
<1>4. /\ first \in Nat /\ first < end + step /\ m = (end - first + step - 1) \div step /\ h <= first
  <2>1. skip \in Nat /\ skip < step /\ step \in Nat
    BY <1>2
  <2>2. z - skip + step - 1 = end - first + step - 1
    BY <1>1, <2>1
  <2> QED BY <1>1, <1>3, <2>1, <2>2
<1> HIDE DEF first
<1>5. /\ m \in Nat
      /\ \A k \in 1 .. m : /\ first + (k - 1) * step \in Nat /\ first <= first + (k - 1) * step
                           /\ first + (k - 1) * step < end /\ (first + (k - 1) * step) % step = 0
      /\ \A k, n \in 1 .. m : first + (k - 1) * step = first + (n - 1) * step => k = n
      /\ \A a \in Nat : a % step = 0 /\ first <= a /\ a < end =>
           \E k \in 1 .. m : a = first + (k - 1) * step
  <2>1. Multiples(m, first, end, step)
    BY <1>1, <1>2, <1>4, MultiplesBetween
  <2> QED BY <2>1 DEF Multiples
<1>6. \A k \in 1 .. m : f[k] \in S
  <2> SUFFICES ASSUME NEW k \in 1 .. m PROVE f[k] \in S
    OBVIOUS
  <2> DEFINE a == first + (k - 1) * step
  <2>1. a \in Nat /\ first <= a /\ a < end /\ a % step = 0
    BY <1>5
  <2>2. f[k] = a
    OBVIOUS
  <2> HIDE DEF a, f
  <2>3. h <= a
    BY <1>1, <1>4, <2>1
  <2> QED BY <1>1, <2>1, <2>2, <2>3
<1>7. \A k, n \in 1 .. m : f[k] = f[n] => k = n
  BY <1>5
<1>8. \A a \in S : \E k \in 1 .. m : f[k] = a
  <2> SUFFICES ASSUME NEW a \in S PROVE \E k \in 1 .. m : f[k] = a
    OBVIOUS
  <2>1. a \in Nat /\ a % step = 0 /\ first <= a /\ a < end
    BY <1>1, <1>2
  <2>2. PICK k \in 1 .. m : a = first + (k - 1) * step
    BY <1>5, <2>1
  <2> QED BY <2>2
<1>9. f \in Bijection(1 .. m, S)
  <2>1. f \in [1 .. m -> S]
    BY <1>6
  <2> HIDE DEF f
  <2> QED BY <1>7, <1>8, <2>1, Fun_IsBij
<1>10. IsFiniteSet(1 .. m) /\ Cardinality(1 .. m) = m
  BY <1>5, FS_Interval
<1>11. ExistsBijection(1 .. m, S)
  BY <1>9 DEF ExistsBijection
<1> QED BY <1>5, <1>10, <1>11, FS_Bijection DEF m

CountSteps(list, step, g) ==
  g = [n \in 0 .. Len(list) |-> IF n = 0 THEN 0 ELSE g[n - 1] + ItemsOf(list[n], step)]

(* The number of results is that of the items.                             *)
LEMMA CountItems ==
  ASSUME NEW step \in {1, 2, 4, 8}, NEW list, GoodList(list)
  PROVE  /\ IsFiniteSet(ItemsIn(list, step))
         /\ CountRegionItems(list, step) = Cardinality(ItemsIn(list, step))
<1> DEFINE T == Len(list)
           Turn == [j \in 1 .. T |-> [x \in Nat |-> x + ItemsOf(list[j], step)]]
           f == CHOOSE g : CountSteps(list, step, g)
           Of(n) == {a \in BytesOf(list[n]) : a % step = 0}
           Upto(n) == {a \in ItemsIn(list, step) : \E i \in 1 .. n : a \in BytesOf(list[i])}
<1>1. T \in Nat /\ \A i \in 1 .. T : list[i] \in Region
  BY DEF GoodList
<1>2. \A j \in 1 .. T : /\ ItemsOf(list[j], step) \in Nat /\ IsFiniteSet(Of(j))
                        /\ Cardinality(Of(j)) = ItemsOf(list[j], step)
  BY <1>1, CountOne
<1>3. Turn \in [1 .. T -> [Nat -> Nat]]
  <2> SUFFICES ASSUME NEW j \in 1 .. T PROVE [x \in Nat |-> x + ItemsOf(list[j], step)] \in [Nat -> Nat]
    OBVIOUS
  <2> DEFINE c == ItemsOf(list[j], step)
  <2>1. c \in Nat
    BY <1>2
  <2> HIDE DEF c
  <2>2. \A x \in Nat : x + c \in Nat
    BY <2>1
  <2>3. [x \in Nat |-> x + c] \in [Nat -> Nat]
    BY <2>2
  <2> QED BY <2>3 DEF c
<1> HIDE DEF T
<1>4. PICK g \in [0 .. T -> Nat] : Iterates(T, 0, Turn, g)
  <2> DEFINE zero == 0
  <2>1. zero \in Nat
    OBVIOUS
  <2>2. \E g \in [0 .. T -> Nat] : Iterates(T, zero, Turn, g)
    <3> HIDE DEF zero, Turn
    <3> QED BY <1>1, <1>3, <2>1, IterateExists
  <2> QED BY <2>2
<1>5. \A n \in 0 .. T : n # 0 => n \in 1 .. T /\ n - 1 \in 0 .. T /\ g[n - 1] \in Nat
  BY <1>1
<1>6. \A n \in 0 .. T : n # 0 => Turn[n][g[n - 1]] = g[n - 1] + ItemsOf(list[n], step)
  BY <1>5
<1>7. CountSteps(list, step, g)
  <2> HIDE DEF Turn
  <2> QED BY <1>4, <1>6 DEF CountSteps, Iterates, T
<1>8. CountSteps(list, step, f)
  BY <1>7
<1>9. CountRegionItems(list, step) = f[T]
  BY DEF CountRegionItems, CountSteps, T
<1> HIDE DEF f, Turn
<1>10. /\ f[0] = 0 /\ \A n \in 1 .. T : f[n] = f[n - 1] + ItemsOf(list[n], step)
  <2>1. \A n \in 0 .. T : f[n] = IF n = 0 THEN 0 ELSE f[n - 1] + ItemsOf(list[n], step)
    BY <1>8 DEF CountSteps, T
  <2> QED BY <1>1, <2>1
<1> DEFINE G == {n \in 0 .. T : f[n] \in Nat /\ IsFiniteSet(Upto(n)) /\ Cardinality(Upto(n)) = f[n]}
<1>11. 0 \in G
  <2>1. Upto(0) = {}
    OBVIOUS
  <2> HIDE DEF Upto
  <2>2. IsFiniteSet(Upto(0)) /\ Cardinality(Upto(0)) = 0
    BY <2>1, FS_EmptySet
  <2> QED BY <1>1, <1>10, <2>2
<1>12. ASSUME NEW n \in 1 .. T, n - 1 \in G PROVE n \in G
  <2>1. Upto(n) = Upto(n - 1) \cup Of(n)
    <3>1. \A a : a \in Of(n) => a \in ItemsIn(list, step)
      BY InBytes DEF ItemsIn, T
    <3>2. \A i : i \in 1 .. n <=> i \in 1 .. n - 1 \/ i = n
      BY <1>1
    <3>3. \A a : a \in Upto(n) <=> a \in Upto(n - 1) \/ a \in Of(n)
      BY <3>1, <3>2 DEF ItemsIn
    <3> HIDE DEF Upto, Of
    <3> QED BY <3>3
  <2>2. Upto(n - 1) \cap Of(n) = {}
    <3>1. SUFFICES ASSUME NEW a \in Upto(n - 1), a \in Of(n) PROVE FALSE
      OBVIOUS
    <3>2. PICK i \in 1 .. n - 1 : a \in BytesOf(list[i])
      OBVIOUS
    <3>3. i \in 1 .. T /\ i < n
      BY <1>1
    <3>4. RegionEnd(list[i]) <= list[n].hardwareAddress
      BY <3>3 DEF GoodList, InOrder, T
    <3>5. a \in Nat /\ a < RegionEnd(list[i]) /\ list[n].hardwareAddress <= a
          /\ RegionEnd(list[i]) \in Nat /\ list[n].hardwareAddress \in Nat
      BY <1>1, <3>1, <3>2, <3>3, RegionEnds
    <3> QED BY <3>4, <3>5
  <2> HIDE DEF Upto, Of
  <2>3. /\ n - 1 \in 0 .. T /\ f[n - 1] \in Nat
        /\ IsFiniteSet(Upto(n - 1)) /\ Cardinality(Upto(n - 1)) = f[n - 1]
    BY <1>12
  <2>4. /\ IsFiniteSet(Upto(n))
        /\ Cardinality(Upto(n)) = Cardinality(Upto(n - 1)) + Cardinality(Of(n)) - Cardinality({})
    <3> DEFINE P == Upto(n - 1)
               Q == Of(n)
    <3>1. IsFiniteSet(P) /\ IsFiniteSet(Q) /\ Upto(n) = P \cup Q /\ P \cap Q = {}
      BY <1>2, <2>1, <2>2, <2>3
    <3> HIDE DEF P, Q
    <3>2. /\ IsFiniteSet(P \cup Q)
          /\ Cardinality(P \cup Q) = Cardinality(P) + Cardinality(Q) - Cardinality(P \cap Q)
      BY <3>1, FS_Union
    <3>3. IsFiniteSet(Upto(n)) /\ Cardinality(Upto(n)) = Cardinality(P) + Cardinality(Q) - Cardinality({})
      BY <3>1, <3>2
    <3> QED BY <3>3 DEF P, Q
  <2>5. Cardinality({}) = 0
    BY FS_EmptySet
  <2>6. ItemsOf(list[n], step) \in Nat /\ Cardinality(Of(n)) = ItemsOf(list[n], step)
    BY <1>2
  <2> DEFINE c == ItemsOf(list[n], step)
             b == f[n - 1]
  <2>7. f[n] = b + c /\ b \in Nat /\ c \in Nat
    BY <1>10, <2>3, <2>6
  <2>8. Cardinality(Upto(n)) = b + c - 0
    BY <2>3, <2>4, <2>5, <2>6
  <2> HIDE DEF b, c
  <2>9. f[n] \in Nat /\ Cardinality(Upto(n)) = f[n]
    BY <2>7, <2>8
  <2>10. n \in 0 .. T
    BY <1>1
  <2> QED BY <2>4, <2>9, <2>10
<1>13. \A n \in 0 .. T : n \in G
  <2> HIDE DEF G
  <2> QED BY <1>1, <1>11, <1>12, Induction
<1>14. IsFiniteSet(Upto(T)) /\ Cardinality(Upto(T)) = f[T]
  BY <1>1, <1>13
<1>15. Upto(T) = ItemsIn(list, step)
  BY InBytes DEF ItemsIn, T
<1> HIDE DEF Upto
<1> QED BY <1>9, <1>14, <1>15

LEMMA AddressesFinite ==
  /\ Addresses \subseteq Nat /\ IsFiniteSet(Addresses) /\ Cardinality(Addresses) \in Nat
<1>1. ASSUME NEW a \in Addresses PROVE a \in Nat /\ a <= MemoryEnd
  <2>1. PICK i \in 1 .. Len(Areas) : a \in AreaBytes(i)
    BY DEF Addresses
  <2>2. /\ Len(Areas) \in Nat /\ Len(Areas) \in 1 .. Len(Areas)
        /\ Areas[i].base \in Nat /\ Areas[i].size \in Nat
        /\ i < Len(Areas) => Areas[i].base + Areas[i].size <= Areas[Len(Areas)].base
        /\ Areas[Len(Areas)].base \in Nat /\ Areas[Len(Areas)].size \in Nat
    BY AreaFacts
  <2>3. MemoryEnd = Areas[Len(Areas)].base + Areas[Len(Areas)].size
    <3>1. Areas # <<>>
      BY <2>2
    <3> QED BY <3>1 DEF MemoryEnd, Last
  <2>4. a \in Areas[i].base .. Areas[i].base + Areas[i].size - 1
    BY <2>1 DEF AreaBytes
  <2> DEFINE b == Areas[i].base
             z == Areas[i].size
             c == Areas[Len(Areas)].base
             y == Areas[Len(Areas)].size
  <2>5. b \in Nat /\ z \in Nat /\ c \in Nat /\ y \in Nat /\ MemoryEnd = c + y
    BY <2>2, <2>3
  <2>6. b + z <= c \/ (b = c /\ z = y)
    BY <2>2
  <2>7. a \in Int /\ b <= a /\ a <= b + z - 1
    BY <2>4, <2>5
  <2> HIDE DEF b, z, c, y
  <2> QED BY <2>5, <2>6, <2>7
<1>2. IsFiniteSet(Addresses)
  <2>1. Addresses \in SUBSET Nat /\ \A a \in Addresses : a <= MemoryEnd
    BY <1>1
  <2> QED BY <2>1, MemoryEndType, FS_BoundedSetOfNaturals
<1> QED BY <1>1, <1>2, FS_CardinalityType

LEMMA ItemsAreAddresses ==
  ASSUME NEW step, NEW list, GoodList(list)
  PROVE  ItemsIn(list, step) \subseteq Addresses
<1> SUFFICES ASSUME NEW a \in ItemsIn(list, step) PROVE a \in Addresses
  OBVIOUS
<1>1. PICK i \in 1 .. Len(list) : a \in BytesOf(list[i])
  BY InBytes DEF ItemsIn
<1>2. Placed(list[i])
  BY DEF GoodList
<1> QED BY <1>1, <1>2, PlacedIndex

(* The number of results is at most that of the addresses.                 *)
LEMMA CountWithin ==
  ASSUME NEW step \in {1, 2, 4, 8}, NEW list, GoodList(list)
  PROVE  /\ CountRegionItems(list, step) = Cardinality(ItemsIn(list, step))
         /\ CountRegionItems(list, step) \in 0 .. Cardinality(Addresses)
<1>1. ItemsIn(list, step) \subseteq Addresses
  BY ItemsAreAddresses
<1> DEFINE items == ItemsIn(list, step)
<1>2. /\ IsFiniteSet(items) /\ CountRegionItems(list, step) = Cardinality(items)
      /\ items \in SUBSET Addresses
  BY <1>1, CountItems
<1> HIDE DEF items
<1>3. Cardinality(items) \in Nat /\ Cardinality(items) <= Cardinality(Addresses)
      /\ Cardinality(Addresses) \in Nat
  BY <1>2, AddressesFinite, FS_CardinalityType, FS_Subset
<1> QED BY <1>2, <1>3 DEF items

-----------------------------------------------------------------------------
(* The number shown.                                                       *)
CountInv == resultCount \in 0 .. Cardinality(Addresses) /\ CountIsRight

StepOf(size, align) == IF align THEN size ELSE 1

LEMMA StepOfType ==
  ASSUME NEW size \in Sizes, NEW align
  PROVE  StepOf(size, align) \in {1, 2, 4, 8}
<1>1. Sizes \subseteq {1, 2, 4, 8}
  BY RamSearchAssumption, Zenon
<1> QED BY <1>1 DEF StepOf

(* The list and the step it is counted with.                               *)
LEMMA CountedAgain ==
  ASSUME ListsInv', resultCount' = CountRegionItems(regions', Step')
  PROVE  CountInv'
<1>1. Step' = StepOf(typeSize', noMisalign') /\ typeSize' \in Sizes
  BY DEF Step, StepOf, ListsInv
<1>2. Step' \in {1, 2, 4, 8}
  BY <1>1, StepOfType
<1>3. GoodList(regions')
  BY DEF ListsInv
<1>4. /\ resultCount' = Cardinality(ItemsIn(regions', Step'))
      /\ resultCount' \in 0 .. Cardinality(Addresses)
  BY <1>2, <1>3, CountWithin
<1>5. Items' = ItemsIn(regions', Step')
  BY DEF Items
<1> QED BY <1>4, <1>5 DEF CountInv, CountIsRight

(* The list, the step and the number do not change.                        *)
LEMMA CountKept ==
  ASSUME CountInv, UNCHANGED <<regions, typeSize, noMisalign, resultCount>>,
         ui'.at = "pruned" \/ ui.at # "pruned", dbg'.at = "pruned" \/ dbg.at # "pruned"
  PROVE  CountInv'
<1>1. Step' = Step
  BY DEF Step
<1>2. Items' = Items
  BY <1>1 DEF Items
<1> QED BY <1>2 DEF CountInv, CountIsRight

LEMMA CountInit ==
  ASSUME Init
  PROVE  CountInv
<1>1. /\ regions = AllRegions /\ typeSize \in Sizes
      /\ resultCount = CountRegionItems(AllRegions, Step)
  BY DEF Init
<1>2. Step \in {1, 2, 4, 8}
  BY <1>1, StepType
<1>3. /\ resultCount = Cardinality(ItemsIn(AllRegions, Step))
      /\ resultCount \in 0 .. Cardinality(Addresses)
  BY <1>1, <1>2, AllRegionsGood, CountWithin
<1> QED BY <1>1, <1>3 DEF CountInv, CountIsRight, Items

(* Every operation that changes the list or the step counts again, or      *)
(* leaves that to the end of the search.                                   *)
LEMMA CountNext ==
  ASSUME ListsInv, CountInv, [Next]_vars
  PROVE  CountInv'
<1>a. ListsInv'
  BY ListsNext
<1>b. ASSUME UNCHANGED <<typeSize, noMisalign>> PROVE Step' = Step
  BY <1>b DEF Step
<1>1. CASE Reset
  <2>1. UNCHANGED <<typeSize, noMisalign>> /\ regions' = AllRegions
        /\ resultCount' = CountRegionItems(AllRegions, Step)
    BY <1>1 DEF Reset, ResetAddressInfo, dialog
  <2> QED BY <1>a, <1>b, <2>1, CountedAgain
<1>2. CASE ResetChanges
  BY <1>2, CountKept DEF ResetChanges, lists, dialog
<1>3. CASE Undo
  <2>1. UNCHANGED <<typeSize, noMisalign>> /\ regions' = backup
        /\ resultCount' = CountRegionItems(backup, Step)
    BY <1>3 DEF Undo, dialog
  <2> QED BY <1>a, <1>b, <2>1, CountedAgain
<1>4. ASSUME NEW size \in Sizes, NEW align \in BOOLEAN, SetType(size, align)
      PROVE  CountInv'
  <2>1. typeSize' = size /\ noMisalign' = align /\ regions' = regions
        /\ resultCount' = CountRegionItems(regions, IF align THEN size ELSE 1)
    BY <1>4 DEF SetType, lists
  <2>2. Step' = IF align THEN size ELSE 1
    BY <2>1 DEF Step
  <2> QED BY <1>a, <2>1, <2>2, CountedAgain
<1>5. ASSUME NEW criterion \in Criteria, NEW auto \in BOOLEAN, BeginSearch(criterion, auto)
      PROVE  CountInv'
  <2>1. UNCHANGED <<typeSize, noMisalign, dbg, resultCount>> /\ ui.at = "idle"
    BY <1>5 DEF BeginSearch, dialog, Does
  <2>2. regions' = regions \/ ui'.at = "pruned"
    BY <1>5 DEF BeginSearch, Idle
  <2>3. CASE regions' = regions
    BY <2>1, <2>3, CountKept
  <2>4. CASE ui'.at = "pruned"
    BY <2>1, <2>4 DEF CountInv, CountIsRight
  <2> QED BY <2>2, <2>3, <2>4
<1>6. CASE StopAutoSearch
  BY <1>6, CountKept DEF StopAutoSearch, lists, dialog
<1>7. CASE FinishSearch
  <2>1. UNCHANGED <<typeSize, noMisalign, regions>>
        /\ resultCount' = CountRegionItems(regions, Step)
    BY <1>7 DEF FinishSearch, FinishPrune, dialog
  <2> QED BY <1>a, <1>b, <2>1, CountedAgain
<1>8. CASE ResetSearch
  <2>1. UNCHANGED <<typeSize, noMisalign>> /\ regions' = AllRegions
        /\ resultCount' = CountRegionItems(AllRegions, Step)
    BY <1>8 DEF ResetSearch, ResetAddressInfo, dialog
  <2> QED BY <1>a, <1>b, <2>1, CountedAgain
<1>9. ASSUME NEW selected \in Selections, Eliminate(selected)
      PROVE  CountInv'
  <2>1. UNCHANGED <<typeSize, noMisalign>> /\ resultCount' = CountRegionItems(regions', Step)
    BY <1>9 DEF Eliminate, dialog
  <2> QED BY <1>a, <1>b, <2>1, CountedAgain
<1>10. CASE CloseDialog
  BY <1>10, CountKept DEF CloseDialog, lists
<1>11. CASE OpenDialog
  <2>1. UNCHANGED <<typeSize, noMisalign>>
    BY <1>11 DEF OpenDialog
  <2>2. CASE resultCount = 0
    <3>1. regions' = AllRegions /\ resultCount' = CountRegionItems(AllRegions, Step)
      BY <1>11, <2>2 DEF OpenDialog, ResetAddressInfo
    <3> QED BY <1>a, <1>b, <2>1, <3>1, CountedAgain
  <2>3. CASE resultCount # 0
    <3>1. regions' = regions /\ resultCount' = CountRegionItems(regions, Step)
      BY <1>11, <2>3 DEF OpenDialog, lists
    <3> QED BY <1>a, <1>b, <2>1, <3>1, CountedAgain
  <2> QED BY <2>2, <2>3
<1>12. ASSUME NEW W \in WriteSets, NEW v \in Values, Frame(W, v)
       PROVE  CountInv'
  <2>1. UNCHANGED <<regions, typeSize, noMisalign, resultCount, ui>> /\ dbg.at = "idle"
    BY <1>12 DEF Frame, lists, dialog
  <2> QED BY <2>1, CountKept
<1>13. ASSUME NEW W \in WriteSets, NEW v \in Values, NEW abort \in BOOLEAN,
              FrameOutOfResults(W, v, abort)
       PROVE  CountInv'
  <2>1. UNCHANGED <<typeSize, noMisalign>>
    BY <1>13 DEF FrameOutOfResults, dialog
  <2>2. CASE isOpen
    <3>1. regions' = AllRegions /\ resultCount' = CountRegionItems(AllRegions, Step)
      BY <1>13, <2>2 DEF FrameOutOfResults, ResetAddressInfo
    <3> QED BY <1>a, <1>b, <2>1, <3>1, CountedAgain
  <2>3. CASE ~isOpen
    <3>1. regions' = <<>> /\ resultCount' = 0
      BY <1>13, <2>3 DEF FrameOutOfResults
    <3>2. Items' = {}
      BY <3>1 DEF Items, ItemsIn, Bytes
    <3> QED BY <3>1, <3>2, AddressesFinite, FS_EmptySet DEF CountInv, CountIsRight
  <2> QED BY <2>2, <2>3
<1>14. CASE AutoSearch
  <2>1. UNCHANGED <<typeSize, noMisalign, ui, resultCount>> /\ dbg.at = "search"
    BY <1>14 DEF AutoSearch, dialog
  <2>2. regions' = regions \/ dbg' = [dbg EXCEPT !.at = "pruned"]
    BY <1>14 DEF AutoSearch
  <2>3. CASE regions' = regions
    BY <2>1, <2>3, CountKept
  <2>4. CASE dbg' = [dbg EXCEPT !.at = "pruned"]
    <3>1. dbg'.at = "pruned"
      BY <2>1, <2>4
    <3> QED BY <2>1, <3>1 DEF CountInv, CountIsRight
  <2> QED BY <2>2, <2>3, <2>4
<1>15. CASE FinishAutoSearch
  <2>1. UNCHANGED <<typeSize, noMisalign, regions>>
        /\ resultCount' = CountRegionItems(regions, Step)
    BY <1>15 DEF FinishAutoSearch, FinishPrune, dialog
  <2> QED BY <1>a, <1>b, <2>1, CountedAgain
<1>16. CASE UNCHANGED vars
  BY <1>16, CountKept DEF vars
<1> QED
  BY <1>1, <1>2, <1>3, <1>4, <1>5, <1>6, <1>7, <1>8, <1>9, <1>10, <1>11, <1>12, <1>13, <1>14,
     <1>15, <1>16 DEF Next

-----------------------------------------------------------------------------
(* The arrays.  A region's turn of the update, byte by byte.               *)
RegionBytes(r) ==
  LET skip       == StartSkipSize(r, Step)
      indexStart == r.virtualIndex + skip
      lastRead   == LastIndexToRead(r)
  IN IF lastRead > indexStart THEN lastRead - indexStart ELSE 0
FirstByte(st, r, copyPrev) ==
  [st EXCEPT !.prev = IF copyPrev THEN PrevCopied(r, st.cur, st.prev) ELSE @,
             !.nextValid = [m \in 0 .. typeSize - 1 |-> r.virtualIndex + StartSkipSize(r, Step) + m]]
ByteTurn(s, mem, r, next, junk, i) ==
  IF s.cur[i] = Buffer(mem, r, i, junk) THEN s
  ELSE CountChange([s EXCEPT !.cur[i] = IF i < LastIndexToCopy(LastIndexToRead(r), next)
                                        THEN Buffer(mem, r, i, junk) ELSE @],
                   i, r.virtualIndex + StartSkipSize(r, Step), r.virtualIndex + r.size)
ByteSteps(st, mem, r, next, copyPrev, junk, g) ==
  g = [n \in 0 .. RegionBytes(r) |->
        IF n = 0 THEN FirstByte(st, r, copyPrev)
        ELSE ByteTurn(g[n - 1], mem, r, next, junk, r.virtualIndex + StartSkipSize(r, Step) + n - 1)]

Validities == [0 .. typeSize - 1 -> Int]
ArrayStates ==
  [cur : [Indices -> Values], prev : [Indices -> Values], num : [Indices -> 0 .. CountModulus - 1],
   nextValid : Validities \cup {<<>>}]

(* Changing fields of a state.                                             *)
WithCur(st, x) == [st EXCEPT !.cur = x]
WithPrev(st, x, y) == [st EXCEPT !.prev = x, !.nextValid = y]
WithNum(st, x, y) == [st EXCEPT !.num = x, !.nextValid = y]

LEMMA ArrayFields ==
  ASSUME NEW st \in ArrayStates
  PROVE  /\ \A x \in [Indices -> Values] : WithCur(st, x) \in ArrayStates
         /\ \A x \in [Indices -> Values], y \in Validities :
              WithPrev(st, x, y) \in ArrayStates
         /\ \A x \in [Indices -> 0 .. CountModulus - 1], y \in Validities \cup {<<>>} :
              WithNum(st, x, y) \in ArrayStates
<1>1. ASSUME NEW V, NEW N, NEW D, NEW E \in SUBSET D,
             NEW s \in [cur : V, prev : V, num : N, nextValid : D]
      PROVE  /\ \A x \in V : WithCur(s, x) \in [cur : V, prev : V, num : N, nextValid : D]
             /\ \A x \in V, y \in E : WithPrev(s, x, y)
                                       \in [cur : V, prev : V, num : N, nextValid : D]
             /\ \A x \in N, y \in D : WithNum(s, x, y)
                                       \in [cur : V, prev : V, num : N, nextValid : D]
  BY DEF WithCur, WithPrev, WithNum
<1> DEFINE V == [Indices -> Values]
           N == [Indices -> 0 .. CountModulus - 1]
           D == Validities \cup {<<>>}
           E == Validities
<1>2. ArrayStates = [cur : V, prev : V, num : N, nextValid : D] /\ E \in SUBSET D
  BY DEF ArrayStates
<1>3. /\ \A x \in V : WithCur(st, x) \in ArrayStates
      /\ \A x \in V, y \in E : WithPrev(st, x, y) \in ArrayStates
      /\ \A x \in N, y \in D : WithNum(st, x, y) \in ArrayStates
  <2> HIDE DEF V, N, D, E
  <2> QED BY <1>1, <1>2
<1> QED BY <1>3

LEMMA FirstByteType ==
  ASSUME typeSize \in Sizes, NEW r \in Region, NEW st \in ArrayStates, NEW copyPrev
  PROVE  FirstByte(st, r, copyPrev) \in ArrayStates
<1>1. typeSize \in Nat /\ StartSkipSize(r, Step) \in Int /\ r.virtualIndex \in Int
  <2>1. Step \in {1, 2, 4, 8} /\ typeSize \in Nat
    BY StepType
  <2>2. r.hardwareAddress \in Nat /\ r.virtualIndex \in Nat
    BY RegionEnds
  <2>3. StartSkipSize(r, Step) \in 0 .. Step - 1
    BY <2>1, SkipFacts
  <2> QED BY <2>1, <2>2, <2>3
<1> DEFINE p == IF copyPrev THEN PrevCopied(r, st.cur, st.prev) ELSE st.prev
           v == [m \in 0 .. typeSize - 1 |-> r.virtualIndex + StartSkipSize(r, Step) + m]
<1>2. /\ st.cur \in [Indices -> Values] /\ st.prev \in [Indices -> Values]
      /\ st.num \in [Indices -> 0 .. CountModulus - 1]
  BY DEF ArrayStates
<1>3. p \in [Indices -> Values]
  BY <1>2 DEF PrevCopied
<1>4. v \in Validities
  <2> DEFINE w == r.virtualIndex + StartSkipSize(r, Step)
  <2>1. w \in Int
    BY <1>1
  <2> HIDE DEF w
  <2>2. \A m \in 0 .. typeSize - 1 : w + m \in Int
    BY <1>1, <2>1
  <2>3. [m \in 0 .. typeSize - 1 |-> w + m] \in Validities
    BY <2>2 DEF Validities
  <2> QED BY <2>3 DEF w
<1>5. FirstByte(st, r, copyPrev) = WithPrev(st, p, v)
  BY DEF FirstByte, WithPrev
<1> HIDE DEF p, v
<1> QED BY <1>3, <1>4, <1>5, ArrayFields

(* One byte changed.                                                       *)
LEMMA CountChangeType ==
  ASSUME typeSize \in Sizes, NEW st \in ArrayStates, NEW i \in Int, NEW from, NEW to
  PROVE  CountChange(st, i, from, to) \in ArrayStates
<1> DEFINE entry(k) == ((i - from) - k + typeSize) % typeSize
           counts == {k \in 0 .. typeSize - 1 : i < to + k /\ ValidChange(st.nextValid, entry(k), i)}
           n == [e \in Indices |-> IF i - e \in counts THEN (st.num[e] + 1) % CountModulus ELSE st.num[e]]
           v == [m \in DOMAIN st.nextValid |->
                  IF \E k \in counts : entry(k) = m
                  THEN i - (CHOOSE k \in counts : entry(k) = m) + typeSize ELSE st.nextValid[m]]
<1>1. /\ st.cur \in [Indices -> Values] /\ st.prev \in [Indices -> Values]
      /\ st.num \in [Indices -> 0 .. CountModulus - 1]
      /\ st.nextValid \in Validities \cup {<<>>}
  BY DEF ArrayStates
<1>2. CountChange(st, i, from, to) = WithNum(st, n, v)
  BY DEF CountChange, WithNum
<1>3. CountModulus \in Nat \ {0}
  BY RamSearchAssumption, Zenon
<1>4. typeSize \in Nat
  BY StepType
<1>5. counts \subseteq Nat
  BY <1>4
<1>6. v \in Validities \cup {<<>>}
  <2> HIDE DEF counts, entry
  <2>1. CASE st.nextValid = <<>>
    <3>1. DOMAIN st.nextValid = {}
      BY <2>1
    <3> HIDE DEF v
    <3>2. v = <<>>
      BY <3>1 DEF v
    <3> QED BY <3>2
  <2>2. CASE st.nextValid \in Validities
    <3>1. DOMAIN st.nextValid = 0 .. typeSize - 1 /\ \A m \in 0 .. typeSize - 1 : st.nextValid[m] \in Int
      BY <2>2 DEF Validities
    <3>2. ASSUME NEW m \in 0 .. typeSize - 1, \E k \in counts : entry(k) = m
          PROVE  i - (CHOOSE k \in counts : entry(k) = m) + typeSize \in Int
      <4> DEFINE c == CHOOSE k \in counts : entry(k) = m
      <4>1. c \in counts
        BY <3>2
      <4> HIDE DEF c
      <4>2. c \in Int
        BY <1>5, <4>1
      <4>3. i - c + typeSize \in Int
        BY <1>4, <4>2
      <4> QED BY <4>3 DEF c
    <3>3. \A m \in DOMAIN st.nextValid : v[m] \in Int
      BY <3>1, <3>2
    <3>4. v = [m \in 0 .. typeSize - 1 |-> v[m]]
      BY <3>1
    <3> HIDE DEF v
    <3>5. v \in Validities
      BY <3>1, <3>3, <3>4 DEF Validities
    <3> QED BY <3>5
  <2> QED BY <1>1, <2>1, <2>2
<1>7. n \in [Indices -> 0 .. CountModulus - 1]
  <2> HIDE DEF counts
  <2> SUFFICES ASSUME NEW e \in Indices
               PROVE  n[e] \in 0 .. CountModulus - 1
    OBVIOUS
  <2> DEFINE c == CountModulus
             x == st.num[e]
  <2>1. x \in 0 .. c - 1 /\ c \in Nat \ {0}
    BY <1>1, <1>3
  <2>2. n[e] = IF i - e \in counts THEN (x + 1) % c ELSE x
    OBVIOUS
  <2> HIDE DEF c, x, n
  <2>3. x + 1 \in Nat /\ x \in 0 .. c - 1
    BY <2>1
  <2>4. (x + 1) % c \in 0 .. c - 1
    BY <2>1, <2>3
  <2> QED BY <2>2, <2>3, <2>4 DEF c
<1> HIDE DEF n, v
<1> QED BY <1>2, <1>6, <1>7, ArrayFields

(* Every byte the update reads can be read, or is junk.                    *)
LEMMA BufferType ==
  ASSUME typeSize \in Sizes, NEW mem \in [Addresses -> Values], NEW r, Placed(r),
         NEW junk \in Values, NEW n \in 1 .. RegionBytes(r)
  PROVE  /\ Buffer(mem, r, r.virtualIndex + StartSkipSize(r, Step) + n - 1, junk) \in Values
         /\ r.virtualIndex + StartSkipSize(r, Step) + n - 1 \in Int
<1> DEFINE skip == StartSkipSize(r, Step)
           h == r.hardwareAddress
           z == r.size
           v == r.virtualIndex
           e == RegionEnd(r)
           t == typeSize
           w == Step
           x == (skip - z) % w
           a == h + (v + skip + n - 1) - v
<1>1. t \in {1, 2, 4, 8} /\ w \in {1, 2, 4, 8} /\ w <= t
  <2>1. typeSize \in {1, 2, 4, 8} /\ Step \in {1, 2, 4, 8}
    BY StepType
  <2>2. Step = 1 \/ Step = typeSize
    BY DEF Step
  <2> QED BY <2>1, <2>2
<1>2. h \in Nat /\ z \in Nat \ {0} /\ v \in Nat /\ e = h + z
      /\ \A b : b \in BytesOf(r) <=> b \in Nat /\ h <= b /\ b < e
  BY RegionEnds DEF Placed
<1>3. skip \in 0 .. w - 1
  <2>1. r \in Region
    BY DEF Placed
  <2> QED BY <1>1, <2>1, SkipFacts
<1>4. RegionBytes(r) = LET last == v + z + x + t - w IN
                         IF last > v + skip THEN last - (v + skip) ELSE 0
  BY DEF RegionBytes, LastIndexToRead
<1>5. Buffer(mem, r, v + skip + n - 1, junk) = 
        IF a \in BytesOf(r) \/ e .. e + t - 2 \subseteq Addresses THEN mem[a] ELSE junk
  BY DEF Buffer, TailBytes
<1> HIDE DEF skip, h, z, v, e, t, w
<1>6. x \in 0 .. w - 1
  <2>1. skip - z \in Int
    BY <1>1, <1>2, <1>3
  <2> DEFINE d == skip - z
  <2> HIDE DEF d
  <2>2. d % w \in 0 .. w - 1
    BY <1>1, <2>1 DEF d
  <2> QED BY <2>2 DEF d
<1> HIDE DEF x
<1>7. n \in Nat \ {0} /\ v + skip + n - 1 < v + z + x + t - w
  <2> DEFINE last == v + z + x + t - w
  <2>1. last \in Int /\ v + skip \in Int
    BY <1>1, <1>2, <1>3, <1>6
  <2>2. n <= IF last > v + skip THEN last - (v + skip) ELSE 0
    BY <1>4
  <2> HIDE DEF last
  <2>3. n \in Nat \ {0} /\ n <= last - (v + skip)
    BY <1>4, <2>1, <2>2
  <2>4. v + skip + n - 1 < last
    BY <1>2, <1>3, <2>1, <2>3
  <2> QED BY <2>3, <2>4 DEF last
<1>8. a \in Nat /\ h <= a /\ a <= e + t - 2 /\ v + skip + n - 1 \in Int
  BY <1>1, <1>2, <1>3, <1>6, <1>7
<1> HIDE DEF a
<1>9. a \in BytesOf(r) => a \in Addresses
  BY PlacedIndex
<1>10. a \notin BytesOf(r) => a \in e .. e + t - 2
  BY <1>1, <1>2, <1>8
<1>11. Buffer(mem, r, v + skip + n - 1, junk) \in Values
  BY <1>5, <1>9, <1>10
<1> QED BY <1>8, <1>11 DEF v, skip

LEMMA ByteTurnType ==
  ASSUME typeSize \in Sizes, NEW mem \in [Addresses -> Values], NEW r, Placed(r), NEW next,
         NEW junk \in Values, NEW s \in ArrayStates, NEW n \in 1 .. RegionBytes(r)
  PROVE  ByteTurn(s, mem, r, next, junk, r.virtualIndex + StartSkipSize(r, Step) + n - 1) \in ArrayStates
<1> DEFINE i == r.virtualIndex + StartSkipSize(r, Step) + n - 1
           byte == Buffer(mem, r, i, junk)
           first == r.virtualIndex + StartSkipSize(r, Step)
           end == r.virtualIndex + r.size
           copied == IF i < LastIndexToCopy(LastIndexToRead(r), next) THEN byte ELSE s.cur[i]
           new == [s.cur EXCEPT ![i] = copied]
<1>1. byte \in Values /\ i \in Int
  BY BufferType
<1>2. s.cur \in [Indices -> Values]
  BY DEF ArrayStates
<1>3. new \in [Indices -> Values]
  <2> HIDE DEF byte, i
  <2>1. i \in Indices => copied \in Values
    BY <1>1, <1>2
  <2> HIDE DEF copied
  <2> QED BY <1>2, <2>1
<1>4. ByteTurn(s, mem, r, next, junk, i) =
        IF s.cur[i] = byte THEN s ELSE CountChange(WithCur(s, new), i, first, end)
  BY DEF ByteTurn, WithCur
<1> HIDE DEF new, byte, first, end
<1>5. WithCur(s, new) \in ArrayStates
  BY <1>3, ArrayFields
<1> HIDE DEF i
<1>6. CountChange(WithCur(s, new), i, first, end) \in ArrayStates
  BY <1>1, <1>5, CountChangeType
<1>7. ByteTurn(s, mem, r, next, junk, i) \in ArrayStates
  BY <1>4, <1>6
<1> QED BY <1>7 DEF i

LEMMA RegionBytesType ==
  ASSUME typeSize \in Sizes, NEW r \in Region
  PROVE  RegionBytes(r) \in Nat
<1> DEFINE skip == StartSkipSize(r, Step)
           first == r.virtualIndex + skip
           last == LastIndexToRead(r)
<1>1. first \in Int /\ last \in Int
  <2>1. typeSize \in {1, 2, 4, 8} /\ Step \in {1, 2, 4, 8}
    BY StepType
  <2>2. r.size \in Nat /\ r.virtualIndex \in Nat
    BY RegionEnds
  <2>3. skip \in 0 .. Step - 1
    BY <2>1, SkipFacts
  <2> DEFINE w == Step
             d == skip - r.size
  <2>4. d \in Int /\ last = r.virtualIndex + r.size + (d % w) + typeSize - w
    BY <2>1, <2>2, <2>3 DEF LastIndexToRead
  <2> HIDE DEF d, w, skip
  <2>5. d % w \in Int
    BY <2>1, <2>4 DEF w
  <2> QED BY <2>1, <2>2, <2>3, <2>4, <2>5 DEF w
<1>2. RegionBytes(r) = IF last > first THEN last - first ELSE 0
  BY DEF RegionBytes
<1> HIDE DEF first, last
<1> QED BY <1>1, <1>2

(* The loop over the bytes of a region, and what it makes of the arrays.   *)
LEMMA ByteStepsExist ==
  ASSUME typeSize \in Sizes, NEW mem \in [Addresses -> Values], NEW r, Placed(r), NEW next,
         NEW copyPrev, NEW junk \in Values, NEW st \in ArrayStates
  PROVE  ByteSteps(st, mem, r, next, copyPrev, junk,
                   CHOOSE g : ByteSteps(st, mem, r, next, copyPrev, junk, g))
<1> DEFINE T == RegionBytes(r)
           s == FirstByte(st, r, copyPrev)
           Byte(x, n) == ByteTurn(x, mem, r, next, junk, r.virtualIndex + StartSkipSize(r, Step) + n - 1)
           Turn == [n \in 1 .. T |-> [x \in ArrayStates |-> Byte(x, n)]]
<1>1. T \in Nat /\ s \in ArrayStates
  BY RegionBytesType, FirstByteType DEF Placed
<1>2. ASSUME NEW n \in 1 .. T, NEW x \in ArrayStates PROVE Byte(x, n) \in ArrayStates
  BY ByteTurnType
<1>3. \A g : ByteSteps(st, mem, r, next, copyPrev, junk, g) <=>
               g = [n \in 0 .. T |-> IF n = 0 THEN s ELSE Byte(g[n - 1], n)]
  BY DEF ByteSteps
<1> HIDE DEF T, s, Byte
<1>4. Turn \in [1 .. T -> [ArrayStates -> ArrayStates]]
  BY <1>2
<1>5. \A n \in 1 .. T, x \in ArrayStates : Turn[n][x] = Byte(x, n)
  OBVIOUS
<1> HIDE DEF Turn
<1>6. PICK g \in [0 .. T -> ArrayStates] : Iterates(T, s, Turn, g)
  BY <1>1, <1>4, IterateExists
<1>7. \A n \in 0 .. T : n # 0 => n \in 1 .. T /\ g[n - 1] \in ArrayStates
  BY <1>1
<1>8. \A n \in 0 .. T : n # 0 => Turn[n][g[n - 1]] = Byte(g[n - 1], n)
  BY <1>5, <1>7
<1>9. g = [n \in 0 .. T |-> IF n = 0 THEN s ELSE Byte(g[n - 1], n)]
  BY <1>6, <1>8 DEF Iterates
<1> QED BY <1>3, <1>9

(* The update of one region: where it reads, where it copies, which items. *)
First(r) == r.virtualIndex + StartSkipSize(r, Step)
End(r) == r.virtualIndex + r.size
LastCopy(r, next) == LastIndexToCopy(LastIndexToRead(r), next)

(* An item has changed in a byte that the loop has reached.                *)
ChangedBefore(st, mem, r, junk, e, i) ==
  \E k \in 0 .. typeSize - 1 : e + k < i /\ st.cur[e + k] # Buffer(mem, r, e + k, junk)

(* The entry of nextValid for an item that a byte belongs to.              *)
Entry(r, i, k) == ((i - First(r)) - k + typeSize) % typeSize

CurAt(s, st, mem, r, next, junk, i) ==
  \A x \in Indices :
    s.cur[x] = IF First(r) <= x /\ x < i /\ x < LastCopy(r, next) THEN Buffer(mem, r, x, junk)
               ELSE st.cur[x]
NumAt(s, st, mem, r, junk, i) ==
  \A e \in Indices :
    s.num[e] = IF First(r) <= e /\ e < End(r) /\ ChangedBefore(st, mem, r, junk, e, i)
               THEN (st.num[e] + 1) % CountModulus ELSE st.num[e]
ValidAt(valid, st, mem, r, junk, i, j) ==
  /\ valid \in Validities
  /\ \A k \in 0 .. typeSize - 1 :
       /\ i - k < First(r) => valid[Entry(r, i, k)] = i - k + typeSize
       /\ First(r) <= i - k /\ i - k < End(r) =>
            IF ChangedBefore(st, mem, r, junk, i - k, j)
            THEN valid[Entry(r, i, k)] = i - k + typeSize ELSE valid[Entry(r, i, k)] <= i - k
ByteAt(s, st, p, mem, r, next, junk, i) ==
  /\ s \in ArrayStates /\ s.prev = p
  /\ CurAt(s, st, mem, r, next, junk, i) /\ NumAt(s, st, mem, r, junk, i)
  /\ ValidAt(s.nextValid, st, mem, r, junk, i, i)

LEMMA FirstType ==
  ASSUME typeSize \in Sizes, NEW r \in Region
  PROVE  /\ First(r) \in Nat /\ End(r) \in Nat /\ r.virtualIndex <= First(r)
         /\ typeSize \in {1, 2, 4, 8}
<1>1. typeSize \in {1, 2, 4, 8} /\ Step \in {1, 2, 4, 8}
  BY StepType
<1>2. r.size \in Nat /\ r.virtualIndex \in Nat
  BY RegionEnds
<1> DEFINE skip == StartSkipSize(r, Step)
<1>3. skip \in 0 .. Step - 1
  BY <1>1, SkipFacts
<1> HIDE DEF skip
<1>4. skip \in Nat
  BY <1>1, <1>3
<1>5. r.virtualIndex + skip \in Nat /\ r.virtualIndex <= r.virtualIndex + skip
  BY <1>2, <1>4
<1> QED BY <1>1, <1>2, <1>5 DEF First, End, skip

LEMMA AroundFacts ==
  ASSUME NEW t \in {1, 2, 4, 8}, NEW d \in Int, NEW k \in 0 .. t - 1, NEW l \in 0 .. t - 1
  PROVE  /\ (d - k + t) % t \in 0 .. t - 1
         /\ (d - k + t) % t = (d - l + t) % t => k = l
         /\ (d + 1 + t) % t = (d - (t - 1) + t) % t
<1>1. ASSUME NEW x \in Int, NEW y \in Int, x <= y, y < x + t, x % t = y % t PROVE x = y
  <2>1. CASE t = 1
    BY <1>1, <2>1
  <2>2. CASE t = 2
    BY <1>1, <2>2
  <2>3. CASE t = 4
    BY <1>1, <2>3
  <2>4. CASE t = 8
    BY <1>1, <2>4
  <2> QED BY <2>1, <2>2, <2>3, <2>4
<1>2. \A x \in Int : x % t \in 0 .. t - 1 /\ (x + t) % t = x % t
  <2>1. CASE t = 1
    BY <2>1
  <2>2. CASE t = 2
    BY <2>2
  <2>3. CASE t = 4
    BY <2>3
  <2>4. CASE t = 8
    BY <2>4
  <2> QED BY <2>1, <2>2, <2>3, <2>4
<1> DEFINE x == d - k + t
           y == d - l + t
<1>3. x \in Int /\ y \in Int /\ x - y = l - k /\ k \in 0 .. t - 1 /\ l \in 0 .. t - 1
  OBVIOUS
<1>4. d + 1 \in Int /\ d - (t - 1) + t = d + 1
  OBVIOUS
<1> HIDE DEF x, y
<1>5. (x <= y /\ y < x + t) \/ (y <= x /\ x < y + t)
  BY <1>3
<1>6. x % t = y % t => k = l
  BY <1>1, <1>3, <1>5
<1>7. x % t \in 0 .. t - 1 /\ (d + 1 + t) % t = (d - (t - 1) + t) % t
  BY <1>2, <1>3, <1>4
<1> QED BY <1>6, <1>7 DEF x, y

(* Entries are numbered around: a byte and its items.                      *)
LEMMA EntryFacts ==
  ASSUME typeSize \in Sizes, NEW r \in Region, NEW i \in Int
  PROVE  /\ \A k \in 0 .. typeSize - 1 : Entry(r, i, k) \in 0 .. typeSize - 1
         /\ \A k, l \in 0 .. typeSize - 1 : Entry(r, i, k) = Entry(r, i, l) => k = l
         /\ \A k \in 1 .. typeSize - 1 : Entry(r, i + 1, k) = Entry(r, i, k - 1)
         /\ Entry(r, i + 1, 0) = Entry(r, i, typeSize - 1)
<1> DEFINE f == First(r)
           t == typeSize
           d == i - f
<1>1. f \in Int /\ t \in {1, 2, 4, 8}
  BY FirstType
<1>2. d \in Int
  BY <1>1
<1>3. \A k : Entry(r, i, k) = (d - k + t) % t
  BY DEF Entry
<1>4. \A j, k : Entry(r, j, k) = ((j - f) - k + t) % t
  BY DEF Entry
<1>5. ASSUME NEW k \in Int PROVE Entry(r, i + 1, k) = (d + 1 - k + t) % t
  <2>1. (((i + 1) - f) - k) + t = d + 1 - k + t
    BY <1>1
  <2>2. Entry(r, i + 1, k) = (((i + 1) - f) - k + t) % t
    BY <1>4
  <2> QED BY <2>1, <2>2
<1> HIDE DEF f, t, d
<1>6. \A k \in 0 .. t - 1 : Entry(r, i, k) \in 0 .. t - 1
  BY <1>1, <1>2, <1>3, AroundFacts
<1>7. ASSUME NEW k \in 0 .. t - 1, NEW l \in 0 .. t - 1, Entry(r, i, k) = Entry(r, i, l)
      PROVE  k = l
  BY <1>1, <1>2, <1>3, <1>7, AroundFacts
<1>8. ASSUME NEW k \in 1 .. t - 1 PROVE Entry(r, i + 1, k) = Entry(r, i, k - 1)
  <2>1. k \in Int /\ d + 1 - k + t = d - (k - 1) + t
    BY <1>1, <1>2
  <2>2. Entry(r, i + 1, k) = (d + 1 - k + t) % t
    BY <1>5, <2>1
  <2> QED BY <1>3, <2>1, <2>2
<1>9. Entry(r, i + 1, 0) = Entry(r, i, t - 1)
  <2>1. d + 1 - 0 + t = d + 1 + t /\ 0 \in 0 .. t - 1
    BY <1>1, <1>2
  <2>2. (d + 1 + t) % t = (d - (t - 1) + t) % t
    BY <1>1, <1>2, <2>1, AroundFacts
  <2>3. Entry(r, i + 1, 0) = (d + 1 - 0 + t) % t
    BY <1>5
  <2> QED BY <1>3, <2>1, <2>2, <2>3
<1> QED BY <1>6, <1>7, <1>8, <1>9 DEF t

LEMMA ChangedStep ==
  ASSUME typeSize \in Sizes, NEW st, NEW mem, NEW r, NEW junk, NEW e \in Int, NEW i \in Int
  PROVE  /\ ChangedBefore(st, mem, r, junk, e, i + 1) <=>
               \/ ChangedBefore(st, mem, r, junk, e, i)
               \/ i - e \in 0 .. typeSize - 1 /\ st.cur[i] # Buffer(mem, r, i, junk)
         /\ e >= i => ~ChangedBefore(st, mem, r, junk, e, i)
<1>1. typeSize \in Nat
  BY StepType
<1> DEFINE D(x) == st.cur[x] # Buffer(mem, r, x, junk)
<1>2. \A j : ChangedBefore(st, mem, r, junk, e, j) <=> \E k \in 0 .. typeSize - 1 : e + k < j /\ D(e + k)
  BY DEF ChangedBefore
<1> HIDE DEF D
<1>3. ASSUME NEW k \in 0 .. typeSize - 1, e + k < i + 1, D(e + k)
      PROVE  e + k < i \/ (i - e \in 0 .. typeSize - 1 /\ D(i))
  <2>1. CASE e + k < i
    BY <2>1
  <2>2. CASE ~(e + k < i)
    <3>1. e + k = i /\ i - e = k
      BY <1>1, <1>3, <2>2
    <3> QED BY <1>3, <3>1
  <2> QED BY <2>1, <2>2
<1>4. ASSUME i - e \in 0 .. typeSize - 1, D(i)
      PROVE  \E k \in 0 .. typeSize - 1 : e + k < i + 1 /\ D(e + k)
  <2>1. e + (i - e) = i /\ i < i + 1
    OBVIOUS
  <2> QED BY <1>4, <2>1
<1>5. ASSUME NEW k \in 0 .. typeSize - 1, e + k < i PROVE e + k < i + 1 /\ ~(e >= i)
  BY <1>1, <1>5
<1>6. ChangedBefore(st, mem, r, junk, e, i + 1) <=>
        ChangedBefore(st, mem, r, junk, e, i) \/ (i - e \in 0 .. typeSize - 1 /\ D(i))
  BY <1>2, <1>3, <1>4, <1>5
<1>7. e >= i => ~ChangedBefore(st, mem, r, junk, e, i)
  BY <1>2, <1>5
<1> QED BY <1>6, <1>7 DEF D

(* On to the next byte: the entry of an item that ends here is that of the *)
(* item that begins there.                                                 *)
LEMMA ValidShift ==
  ASSUME typeSize \in Sizes, NEW st, NEW mem, NEW r \in Region, NEW junk, NEW i \in Int,
         First(r) <= i, NEW valid, ValidAt(valid, st, mem, r, junk, i, i + 1)
  PROVE  ValidAt(valid, st, mem, r, junk, i + 1, i + 1)
<1> DEFINE f == First(r)
           end == End(r)
           t == typeSize
           C(e) == ChangedBefore(st, mem, r, junk, e, i + 1)
           V(k) == valid[Entry(r, i, k)]
           W(k) == valid[Entry(r, i + 1, k)]
<1>1. f \in Nat /\ end \in Nat /\ t \in {1, 2, 4, 8} /\ f <= i
  BY FirstType
<1>2. \A k \in 0 .. t - 1 :
        /\ i - k < f => V(k) = i - k + t
        /\ f <= i - k /\ i - k < end => IF C(i - k) THEN V(k) = i - k + t ELSE V(k) <= i - k
  BY DEF ValidAt
<1>3. /\ \A k \in 1 .. t - 1 : W(k) = V(k - 1)
      /\ W(0) = V(t - 1)
  BY EntryFacts
<1>4. ~C(i + 1)
  <2>1. i + 1 \in Int /\ i + 1 >= i + 1
    OBVIOUS
  <2> QED BY <2>1, ChangedStep
<1>5. \A k \in 0 .. t - 1 : V(k) \in Int
  <2>1. valid \in [0 .. t - 1 -> Int]
    BY DEF ValidAt, Validities
  <2> QED BY <2>1, EntryFacts
<1> HIDE DEF f, end, t, C, V, W
<1>6. ASSUME NEW k \in 0 .. t - 1
      PROVE  /\ i + 1 - k < f => W(k) = i + 1 - k + t
             /\ f <= i + 1 - k /\ i + 1 - k < end =>
                  IF C(i + 1 - k) THEN W(k) = i + 1 - k + t ELSE W(k) <= i + 1 - k
  <2>1. CASE k = 0
    <3>1. t - 1 \in 0 .. t - 1 /\ i - (t - 1) = i + 1 - t /\ i + 1 - k = i + 1
      BY <1>1, <2>1
    <3>2. /\ i + 1 - t < f => V(t - 1) = i + 1 - t + t
          /\ f <= i + 1 - t /\ i + 1 - t < end =>
               V(t - 1) = i + 1 - t + t \/ V(t - 1) <= i + 1 - t
      BY <1>2, <3>1
    <3>3. i + 1 < end => V(t - 1) <= i + 1
      BY <1>1, <1>5, <3>1, <3>2
    <3> QED BY <1>1, <1>3, <1>4, <2>1, <3>1, <3>3
  <2>2. CASE k # 0
    <3>1. k \in 1 .. t - 1 /\ k - 1 \in 0 .. t - 1 /\ i - (k - 1) = i + 1 - k
      BY <1>1, <2>2
    <3>2. /\ i + 1 - k < f => V(k - 1) = i + 1 - k + t
          /\ f <= i + 1 - k /\ i + 1 - k < end =>
               IF C(i + 1 - k) THEN V(k - 1) = i + 1 - k + t ELSE V(k - 1) <= i + 1 - k
      BY <1>2, <3>1
    <3> QED BY <1>3, <3>1, <3>2
  <2> QED BY <2>1, <2>2
<1>7. valid \in Validities
  BY DEF ValidAt
<1> QED BY <1>6, <1>7 DEF ValidAt, f, end, t, C, W

(* A byte that changed counts for the items it belongs to, unless one of   *)
(* their other bytes has counted.                                          *)
LEMMA CountChangeAt ==
  ASSUME typeSize \in Sizes, NEW st \in ArrayStates, NEW mem, NEW r \in Region, NEW junk,
         NEW i \in Int, First(r) <= i, st.cur[i] # Buffer(mem, r, i, junk),
         NEW s \in ArrayStates, NumAt(s, st, mem, r, junk, i),
         ValidAt(s.nextValid, st, mem, r, junk, i, i),
         NEW new, new = CountChange(s, i, First(r), End(r))
  PROVE  /\ new.cur = s.cur /\ new.prev = s.prev
         /\ NumAt(new, st, mem, r, junk, i + 1)
         /\ ValidAt(new.nextValid, st, mem, r, junk, i, i + 1)
<1> DEFINE f == First(r)
           end == End(r)
           t == typeSize
           N(k) == Entry(r, i, k)
           C(e) == ChangedBefore(st, mem, r, junk, e, i)
           counts == {k \in 0 .. t - 1 : i < end + k /\ s.nextValid[N(k)] <= i}
           num1 == [e \in Indices |-> IF i - e \in counts THEN (s.num[e] + 1) % CountModulus ELSE s.num[e]]
           valid1 == [m \in DOMAIN s.nextValid |->
                       IF \E k \in counts : N(k) = m
                       THEN i - (CHOOSE k \in counts : N(k) = m) + t ELSE s.nextValid[m]]
<1>1. f \in Nat /\ end \in Nat /\ t \in {1, 2, 4, 8} /\ f <= i
  BY FirstType
<1>2. new = [s EXCEPT !.num = num1, !.nextValid = valid1]
  BY DEF CountChange, ValidChange, Entry
<1>3. new.cur = s.cur /\ new.prev = s.prev /\ new.num = num1 /\ new.nextValid = valid1
  <2> HIDE DEF num1, valid1
  <2> QED BY <1>2 DEF ArrayStates
<1>4. s.nextValid \in [0 .. t - 1 -> Int]
  BY DEF ValidAt, Validities
<1>5. /\ \A k \in 0 .. t - 1 : N(k) \in 0 .. t - 1
      /\ \A k, l \in 0 .. t - 1 : N(k) = N(l) => k = l
  BY EntryFacts
<1>6. \A k \in 0 .. t - 1 :
        /\ i - k < f => s.nextValid[N(k)] = i - k + t
        /\ f <= i - k /\ i - k < end =>
             IF C(i - k) THEN s.nextValid[N(k)] = i - k + t ELSE s.nextValid[N(k)] <= i - k
  BY DEF ValidAt
<1> HIDE DEF f, end, t, N, C
<1>7. ASSUME NEW k \in 0 .. t - 1
      PROVE  k \in counts <=> f <= i - k /\ i - k < end /\ ~C(i - k)
  <2>1. k \in counts <=> i < end + k /\ s.nextValid[N(k)] <= i
    OBVIOUS
  <2>2. s.nextValid[N(k)] \in Int /\ k \in Int /\ 0 <= k /\ k < t
    BY <1>1, <1>4, <1>5
  <2>3. /\ i - k < f => s.nextValid[N(k)] = i - k + t
        /\ f <= i - k /\ i - k < end =>
             IF C(i - k) THEN s.nextValid[N(k)] = i - k + t ELSE s.nextValid[N(k)] <= i - k
    BY <1>6
  <2> HIDE DEF counts
  <2>4. CASE i - k < f
    BY <1>1, <2>1, <2>2, <2>3, <2>4
  <2>5. CASE end <= i - k
    BY <1>1, <2>1, <2>2, <2>5
  <2>6. CASE f <= i - k /\ i - k < end
    BY <1>1, <2>1, <2>2, <2>3, <2>6
  <2> QED BY <1>1, <2>2, <2>4, <2>5, <2>6
<1>8. counts \subseteq 0 .. t - 1
  OBVIOUS
<1>9. \A e \in Int : ChangedBefore(st, mem, r, junk, e, i + 1) <=> C(e) \/ i - e \in 0 .. t - 1
  BY ChangedStep DEF C, t
<1>10. NumAt(new, st, mem, r, junk, i + 1)
  <2> SUFFICES ASSUME NEW e \in Indices
               PROVE  num1[e] = IF f <= e /\ e < end /\ ChangedBefore(st, mem, r, junk, e, i + 1)
                                THEN (st.num[e] + 1) % CountModulus ELSE st.num[e]
    BY <1>3 DEF NumAt, f, end
  <2>1. e \in Int
    BY DEF Indices
  <2>2. num1[e] = IF i - e \in counts THEN (s.num[e] + 1) % CountModulus ELSE s.num[e]
    OBVIOUS
  <2>3. s.num[e] = IF f <= e /\ e < end /\ C(e) THEN (st.num[e] + 1) % CountModulus ELSE st.num[e]
    BY DEF NumAt, f, end, C
  <2>4. i - e \in counts <=> i - e \in 0 .. t - 1 /\ f <= e /\ e < end /\ ~C(e)
    <3>1. i - (i - e) = e
      BY <2>1
    <3> HIDE DEF counts
    <3> QED BY <1>7, <1>8, <3>1
  <2> HIDE DEF num1, counts
  <2> QED BY <1>9, <2>1, <2>2, <2>3, <2>4
<1>11. valid1 \in [0 .. t - 1 -> Int] /\ \A k \in 0 .. t - 1 :
         valid1[N(k)] = IF k \in counts THEN i - k + t ELSE s.nextValid[N(k)]
  <2> HIDE DEF counts
  <2>1. DOMAIN s.nextValid = 0 .. t - 1 /\ \A m \in 0 .. t - 1 : s.nextValid[m] \in Int
    BY <1>4
  <2>2. ASSUME NEW m \in 0 .. t - 1, \E k \in counts : N(k) = m
        PROVE  \E k \in counts : N(k) = m /\ valid1[m] = i - k + t /\ i - k + t \in Int
    <3> DEFINE c == CHOOSE k \in counts : N(k) = m
    <3>1. c \in counts /\ N(c) = m
      BY <2>2
    <3>2. valid1[m] = i - c + t
      BY <2>1, <2>2
    <3> HIDE DEF c
    <3>3. i - c + t \in Int
      BY <1>1, <1>8, <3>1
    <3> QED BY <3>1, <3>2, <3>3
  <2>3. ASSUME NEW m \in 0 .. t - 1, ~ \E k \in counts : N(k) = m
        PROVE  valid1[m] = s.nextValid[m]
    BY <2>1, <2>3
  <2>4. valid1 = [m \in 0 .. t - 1 |-> valid1[m]]
    BY <2>1
  <2> HIDE DEF valid1
  <2>5. \A m \in 0 .. t - 1 : valid1[m] \in Int
    BY <2>1, <2>2, <2>3
  <2>6. valid1 \in [0 .. t - 1 -> Int]
    BY <2>4, <2>5
  <2>7. ASSUME NEW k \in 0 .. t - 1
        PROVE  valid1[N(k)] = IF k \in counts THEN i - k + t ELSE s.nextValid[N(k)]
    <3>1. N(k) \in 0 .. t - 1 /\ \A l \in counts : N(l) = N(k) => l = k
      BY <1>5, <1>8
    <3>2. CASE k \in counts
      BY <2>2, <3>1, <3>2
    <3>3. CASE k \notin counts
      BY <2>3, <3>1, <3>3
    <3> QED BY <3>2, <3>3
  <2> QED BY <2>6, <2>7
<1> HIDE DEF valid1, num1
<1>12. ASSUME NEW k \in 0 .. t - 1
       PROVE  /\ i - k < f => valid1[N(k)] = i - k + t
              /\ f <= i - k /\ i - k < end =>
                   IF ChangedBefore(st, mem, r, junk, i - k, i + 1)
                   THEN valid1[N(k)] = i - k + t ELSE valid1[N(k)] <= i - k
  <2>1. k \in Int /\ i - k \in Int /\ i - (i - k) = k
    BY <1>1
  <2>2. ChangedBefore(st, mem, r, junk, i - k, i + 1)
    BY <1>9, <2>1
  <2>3. i - k < f => ~(f <= i - k)
    BY <1>1, <2>1
  <2> HIDE DEF counts
  <2> QED BY <1>6, <1>7, <1>11, <2>2, <2>3
<1>13. ValidAt(new.nextValid, st, mem, r, junk, i, i + 1)
  <2>1. new.nextValid \in Validities
    BY <1>3, <1>11 DEF Validities, t
  <2> QED BY <1>3, <1>12, <2>1 DEF ValidAt, f, end, t, N
<1> QED BY <1>3, <1>10, <1>13

(* The areas lie one behind the other in the arrays, at multiples of every *)
(* size.                                                                   *)
LEMMA AreasInOrder ==
  ASSUME NEW i \in 1 .. Len(Areas), NEW j \in 1 .. Len(Areas) + 1, i < j
  PROVE  AreaStart(i) + Areas[i].size <= AreaStart(j)
<1>1. i \in Nat /\ j \in Nat /\ Len(Areas) \in Nat /\ i <= Len(Areas) /\ j <= Len(Areas) + 1
  BY AreaFacts
<1> DEFINE T == j - (i + 1)
           G == {n \in 0 .. T : AreaStart(i + 1) <= AreaStart(i + 1 + n)}
<1>2. T \in Nat
  BY <1>1
<1>3. \A n \in 0 .. T : i + 1 + n \in 1 .. Len(Areas) + 1
  BY <1>1
<1>4. \A n \in 1 .. T : i + 1 + (n - 1) \in 1 .. Len(Areas) /\ i + 1 + (n - 1) + 1 = i + 1 + n
  BY <1>1
<1>5. 0 \in G
  <2>1. i + 1 + 0 = i + 1 /\ i + 1 \in 1 .. Len(Areas) + 1 /\ 0 \in 0 .. T
    BY <1>1, <1>2
  <2>2. AreaStart(i + 1) \in Nat
    BY <2>1, AreaStarts
  <2> QED BY <2>1, <2>2
<1>6. ASSUME NEW n \in 1 .. T, n - 1 \in G PROVE n \in G
  <2> DEFINE m == i + 1 + (n - 1)
  <2>1. m \in 1 .. Len(Areas) /\ m \in 1 .. Len(Areas) + 1 /\ m + 1 = i + 1 + n
        /\ i + 1 \in 1 .. Len(Areas) + 1 /\ n \in 0 .. T
    BY <1>1, <1>4
  <2>2. AreaStart(i + 1) <= AreaStart(m)
    BY <1>6
  <2> HIDE DEF m
  <2>3. /\ AreaStart(m + 1) = AreaStart(m) + Areas[m].size /\ AreaStart(m) \in Nat
        /\ AreaStart(i + 1) \in Nat
    BY <2>1, AreaStarts
  <2>4. Areas[m].size \in Nat
    BY <2>1, AreaFacts
  <2>5. AreaStart(i + 1) <= AreaStart(m + 1)
    BY <2>2, <2>3, <2>4
  <2> QED BY <2>1, <2>5
<1>7. T \in G
  <2>1. \A n \in 0 .. T : n \in G
    <3> HIDE DEF G, T
    <3> QED BY <1>2, <1>5, <1>6, Induction
  <2>2. T \in 0 .. T
    <3> HIDE DEF T
    <3> QED BY <1>2
  <2> QED BY <2>1, <2>2
<1>8. i + 1 + T = j
  BY <1>1
<1>9. AreaStart(i + 1) = AreaStart(i) + Areas[i].size
  BY AreaStarts
<1> QED BY <1>7, <1>8, <1>9

LEMMA MultipleSum ==
  ASSUME NEW step \in {1, 2, 4, 8}, NEW a \in Int, NEW b \in Int, b % step = 0
  PROVE  (a + b) % step = 0 <=> a % step = 0
<1>1. CASE step = 1
  BY <1>1
<1>2. CASE step = 2
  BY <1>2
<1>3. CASE step = 4
  BY <1>3
<1>4. CASE step = 8
  BY <1>4
<1> QED BY <1>1, <1>2, <1>3, <1>4

LEMMA AreasAligned ==
  ASSUME NEW s \in Sizes
  PROVE  \A i \in 1 .. Len(Areas) :
           AreaStart(i) % s = 0 /\ Areas[i].base % s = 0 /\ Areas[i].size % s = 0
<1>1. s \in {1, 2, 4, 8} /\ \A i \in 1 .. Len(Areas) : Areas[i].base % s = 0 /\ Areas[i].size % s = 0
  BY RamSearchAssumption, Zenon
<1>2. Len(Areas) \in Nat /\ \A i \in 1 .. Len(Areas) : Areas[i].size \in Nat
  BY AreaFacts
<1> DEFINE T == Len(Areas)
           G == {n \in 0 .. T : AreaStart(n + 1) % s = 0}
<1>3. 0 \in G
  <2>1. AreaStart(0 + 1) = 0
    BY AreaStarts
  <2>2. 0 % s = 0
    BY <1>1
  <2> QED BY <1>2, <2>1, <2>2
<1>4. ASSUME NEW n \in 1 .. T, n - 1 \in G PROVE n \in G
  <2>1. n - 1 + 1 = n /\ n \in 0 .. T /\ n \in 1 .. T + 1
    BY <1>2
  <2>2. AreaStart(n) % s = 0
    BY <1>4, <2>1
  <2>3. AreaStart(n + 1) = AreaStart(n) + Areas[n].size /\ AreaStart(n) \in Nat
    BY <2>1, AreaStarts
  <2>4. Areas[n].size \in Nat /\ Areas[n].size % s = 0
    BY <1>1, <1>2
  <2> DEFINE x == AreaStart(n)
             y == Areas[n].size
  <2>5. (x + y) % s = 0
    <3>1. x \in Int /\ y \in Int /\ x % s = 0 /\ y % s = 0
      BY <2>2, <2>3, <2>4
    <3> HIDE DEF x, y
    <3> QED BY <1>1, <3>1, MultipleSum
  <2> QED BY <2>1, <2>3, <2>5
<1>5. \A n \in 0 .. T : n \in G
  <2>1. T \in Nat
    BY <1>2
  <2> HIDE DEF G, T
  <2> QED BY <1>3, <1>4, <2>1, Induction
<1>6. ASSUME NEW i \in 1 .. Len(Areas) PROVE AreaStart(i) % s = 0
  <2>1. i - 1 \in 0 .. T /\ i - 1 + 1 = i
    BY <1>2
  <2> QED BY <1>5, <2>1
<1> QED BY <1>1, <1>6

(* Where a region lies: in its area, and in the arrays.                    *)
LEMMA RegionInArea ==
  ASSUME NEW r, Placed(r)
  PROVE  \E j \in 1 .. Len(Areas) :
           /\ Areas[j].base <= r.hardwareAddress
           /\ RegionEnd(r) <= Areas[j].base + Areas[j].size
           /\ r.virtualIndex = AreaStart(j) + (r.hardwareAddress - Areas[j].base)
           /\ AreaStart(j) \in Nat /\ Areas[j].base \in Nat /\ Areas[j].size \in Nat
           /\ AreaStart(j) + Areas[j].size <= MAX_RAM_SIZE /\ MAX_RAM_SIZE \in Nat
<1>1. PICK j \in 1 .. Len(Areas) : BytesOf(r) \subseteq AreaBytes(j)
  BY DEF Placed
<1>2. r \in Region /\ r.virtualIndex = VirtualIndex[r.hardwareAddress]
  BY DEF Placed
<1>3. /\ r.hardwareAddress \in Nat /\ RegionEnd(r) \in Nat /\ r.hardwareAddress < RegionEnd(r)
      /\ \A a : a \in BytesOf(r) <=> a \in Nat /\ r.hardwareAddress <= a /\ a < RegionEnd(r)
  BY <1>2, RegionEnds
<1> DEFINE h == r.hardwareAddress
           e == RegionEnd(r)
           b == Areas[j].base
           z == Areas[j].size
<1>4. b \in Nat /\ z \in Nat /\ j \in 1 .. Len(Areas) + 1 /\ Len(Areas) + 1 \in 1 .. Len(Areas) + 1
      /\ j < Len(Areas) + 1
  BY AreaFacts
<1>5. AreaStart(j) \in Nat /\ MAX_RAM_SIZE \in Nat
  BY <1>4, AreaStarts DEF MAX_RAM_SIZE
<1>6. h \in BytesOf(r) /\ e - 1 \in BytesOf(r)
  <2>1. e - 1 \in Nat /\ h <= e - 1 /\ e - 1 < e
    BY <1>3
  <2> QED BY <1>3, <2>1
<1>7. h \in b .. b + z - 1 /\ e - 1 \in b .. b + z - 1
  BY <1>1, <1>6 DEF AreaBytes
<1>8. h \in AreaBytes(j)
  BY <1>1, <1>6
<1>9. r.virtualIndex = AreaStart(j) + (h - b)
  BY <1>2, <1>8, IndexOf
<1>10. AreaStart(j) + z <= MAX_RAM_SIZE
  BY <1>4, AreasInOrder DEF MAX_RAM_SIZE
<1>11. b <= h /\ e <= b + z
  <2> HIDE DEF b, e, h, z
  <2>1. b \in Nat /\ z \in Nat /\ e \in Nat
    BY <1>3, <1>4 DEF e
  <2> QED BY <1>7, <2>1
<1> QED BY <1>4, <1>5, <1>9, <1>10, <1>11

LEMMA AreasStep ==
  ASSUME typeSize \in Sizes
  PROVE  \A i \in 1 .. Len(Areas) : (Areas[i].base + Areas[i].size) % Step = 0
<1> SUFFICES ASSUME NEW i \in 1 .. Len(Areas) PROVE (Areas[i].base + Areas[i].size) % Step = 0
  OBVIOUS
<1> DEFINE b == Areas[i].base
           z == Areas[i].size
<1>1. b \in Int /\ z \in Int
  BY AreaFacts
<1>2. b % typeSize = 0 /\ z % typeSize = 0 /\ typeSize \in {1, 2, 4, 8}
  BY AreasAligned, StepType
<1> HIDE DEF b, z
<1>3. CASE Step = typeSize
  <2>1. (b + z) % typeSize = 0
    BY <1>1, <1>2, MultipleSum
  <2> QED BY <1>3, <2>1 DEF b, z
<1>4. CASE Step # typeSize
  <2>1. Step = 1
    BY <1>4 DEF Step
  <2>2. (b + z) % 1 = 0
    BY <1>1
  <2> QED BY <2>1, <2>2 DEF b, z
<1> QED BY <1>3, <1>4

(* Regions that are apart in memory are apart in the arrays, and so are    *)
(* their items.                                                            *)
LEMMA PlacedOrder ==
  ASSUME typeSize \in Sizes, NEW r, Placed(r), NEW q, Placed(q), RegionEnd(r) <= q.hardwareAddress
  PROVE  End(r) <= q.virtualIndex /\ First(r) <= First(q)
<1>1. r \in Region /\ q \in Region
  BY DEF Placed
<1> DEFINE h == r.hardwareAddress
           e == RegionEnd(r)
           v == r.virtualIndex
           g == q.hardwareAddress
           w == q.virtualIndex
           skip == StartSkipSize(r, Step)
           skip1 == StartSkipSize(q, Step)
<1>2. /\ h \in Nat /\ e = h + r.size /\ h < e /\ v \in Nat /\ r.size \in Nat
      /\ g \in Nat /\ g < RegionEnd(q) /\ w \in Nat /\ e \in Nat /\ RegionEnd(q) \in Nat
  BY <1>1, RegionEnds
<1>3. Step \in {1, 2, 4, 8}
  BY StepType
<1>4. /\ skip \in 0 .. Step - 1 /\ skip1 \in 0 .. Step - 1
      /\ \A a \in Nat : a % Step = 0 /\ h <= a => h + skip <= a
      /\ (g + skip1) % Step = 0
  BY <1>1, <1>3, SkipFacts
<1>5. skip \in Nat /\ skip1 \in Nat
  BY <1>3, <1>4
<1>6. PICK j \in 1 .. Len(Areas) :
        /\ Areas[j].base <= h /\ e <= Areas[j].base + Areas[j].size
        /\ v = AreaStart(j) + (h - Areas[j].base)
        /\ AreaStart(j) \in Nat /\ Areas[j].base \in Nat /\ Areas[j].size \in Nat
  BY RegionInArea
<1>7. PICK m \in 1 .. Len(Areas) :
        /\ Areas[m].base <= g /\ RegionEnd(q) <= Areas[m].base + Areas[m].size
        /\ w = AreaStart(m) + (g - Areas[m].base)
        /\ AreaStart(m) \in Nat /\ Areas[m].base \in Nat /\ Areas[m].size \in Nat
  BY RegionInArea
<1>8. (Areas[j].base + Areas[j].size) % Step = 0
  BY AreasStep
<1>9. End(r) = v + (e - h) /\ First(r) = v + skip /\ First(q) = w + skip1 /\ e <= g
  <2>1. End(r) = v + r.size
    BY DEF End
  <2>2. r.size = e - h
    BY <1>2
  <2> QED BY <2>1, <2>2 DEF First
<1> DEFINE b == Areas[j].base
           z == Areas[j].size
           s == AreaStart(j)
           c == Areas[m].base
           y == Areas[m].size
           u == AreaStart(m)
           n == RegionEnd(q)
<1>10. b <= h /\ e <= b + z /\ v = s + (h - b) /\ s \in Nat /\ b \in Nat /\ z \in Nat
  BY <1>6
<1>11. c <= g /\ n <= c + y /\ w = u + (g - c) /\ u \in Nat /\ c \in Nat /\ y \in Nat
  BY <1>7
<1>12. h \in Nat /\ h < e /\ v \in Nat /\ g \in Nat /\ g < n /\ w \in Nat /\ e \in Nat /\ n \in Nat
  BY <1>2
<1>13. h + skip <= b + z
  <2>1. b + z \in Nat /\ h <= b + z
    <3> HIDE DEF h, e, v, g, w, n, b, z, s
    <3> QED BY <1>10, <1>12
  <2> QED BY <1>4, <1>8, <2>1
<1>14. h + skip <= g + skip1
  <2>1. g + skip1 \in Nat /\ h <= g + skip1
    <3> HIDE DEF h, e, v, g, w, n, skip1
    <3> QED BY <1>5, <1>9, <1>12
  <2> QED BY <1>4, <2>1
<1>15. j < m => s + z <= u
  <2>1. m \in 1 .. Len(Areas) + 1
    BY AreaFacts
  <2> QED BY <2>1, AreasInOrder
<1>16. m < j => c + y <= b
  BY AreaFacts
<1>17. j = m => b = c /\ s = u
  OBVIOUS
<1>18. j = m \/ j < m \/ m < j
  BY AreaFacts
<1> DEFINE End1 == End(r)
           First1 == First(r)
           First2 == First(q)
<1>19. End1 = v + (e - h) /\ First1 = v + skip /\ First2 = w + skip1 /\ e <= g
  BY <1>9
<1> HIDE DEF h, e, g, v, w, n, skip, skip1, b, z, s, c, u, y, End1, First1, First2
<1>20. End1 <= w /\ First1 <= First2
  <2>1. CASE j = m
    BY <1>5, <1>10, <1>11, <1>12, <1>14, <1>17, <1>19, <2>1
  <2>2. CASE j < m
    BY <1>5, <1>10, <1>11, <1>12, <1>13, <1>15, <1>19, <2>2
  <2>3. CASE m < j
    BY <1>10, <1>11, <1>12, <1>16, <1>19, <2>3
  <2> QED BY <1>18, <2>1, <2>2, <2>3
<1> QED BY <1>20 DEF End1, First1, First2, w

(* How far the update reads: to the end of the last item.                  *)
LEMMA LastFacts ==
  ASSUME typeSize \in Sizes, NEW r, Placed(r)
  PROVE  /\ LastIndexToRead(r) \in Int /\ LastIndexToRead(r) <= End(r) + typeSize - 1
         /\ Step = 1 => LastIndexToRead(r) = End(r) + typeSize - 1
         /\ \A a \in BytesOf(r) : a % Step = 0 =>
              First(r) <= VirtualIndex[a] /\ VirtualIndex[a] < End(r)
              /\ VirtualIndex[a] + typeSize <= LastIndexToRead(r)
<1>1. r \in Region
  BY DEF Placed
<1> DEFINE h == r.hardwareAddress
           z == r.size
           v == r.virtualIndex
           w == Step
           t == typeSize
           skip == StartSkipSize(r, w)
           d == skip - z
           x == d % w
           last == LastIndexToRead(r)
<1>2. h \in Nat /\ z \in Nat /\ v \in Nat /\ w \in {1, 2, 4, 8} /\ t \in {1, 2, 4, 8}
  BY <1>1, RegionEnds, StepType
<1>3. w = 1 \/ w = t
  BY DEF Step
<1>4. /\ skip \in 0 .. w - 1 /\ (h + skip) % w = 0
      /\ \A a \in Nat : a % w = 0 /\ h <= a => h + skip <= a
  BY <1>1, <1>2, SkipFacts
<1>5. last = v + z + x + t - w /\ First(r) = v + skip /\ End(r) = v + z
  BY DEF LastIndexToRead, First, End
<1>6. \A a : a \in BytesOf(r) <=> a \in Nat /\ h <= a /\ a < h + z
  BY <1>1, RegionEnds
<1>7. \A a \in BytesOf(r) : VirtualIndex[a] = v + (a - h)
  BY PlacedIndex
<1> HIDE DEF h, z, v, w, t, skip, last
<1>8. d \in Int /\ skip \in Nat
  BY <1>2, <1>4
<1> HIDE DEF d
<1>9. x \in 0 .. w - 1
  BY <1>2, <1>8
<1>10. x \in Nat /\ x <= w - 1
  BY <1>2, <1>9
<1>11. (z + x - skip) % w = 0
  <2>1. \A y \in Int : ((y % w) - y) % w = 0
    <3>1. CASE w = 1
      BY <3>1
    <3>2. CASE w = 2
      BY <3>2
    <3>3. CASE w = 4
      BY <3>3
    <3>4. CASE w = 8
      BY <3>4
    <3> QED BY <1>2, <3>1, <3>2, <3>3, <3>4
  <2>2. z + x - skip = x - d
    BY <1>2, <1>8, <1>10 DEF d
  <2> QED BY <1>8, <2>1, <2>2
<1>12. w = 1 => x = 0
  BY <1>10
<1> HIDE DEF x
<1>13. last \in Int /\ last <= v + z + t - 1 /\ (w = 1 => last = v + z + t - 1)
  BY <1>2, <1>5, <1>10, <1>12
<1>14. ASSUME NEW a \in BytesOf(r), a % w = 0
       PROVE  First(r) <= VirtualIndex[a] /\ VirtualIndex[a] < End(r) /\ VirtualIndex[a] + t <= last
  <2>1. a \in Nat /\ h <= a /\ a < h + z /\ VirtualIndex[a] = v + (a - h)
    BY <1>6, <1>7
  <2>2. h + skip <= a
    BY <1>4, <1>14, <2>1
  <2>3. a + w <= h + z + x
    <3> DEFINE y == h + z + x
               c == h + skip
               k == z + x - skip
    <3>1. y \in Nat /\ c \in Nat /\ k \in Int /\ c + k = y /\ a < y
      BY <1>2, <1>8, <1>10, <2>1
    <3>2. c % w = 0 /\ k % w = 0
      BY <1>4, <1>11
    <3> HIDE DEF y, c, k
    <3>3. (c + k) % w = 0
      <4>1. w \in {1, 2, 4, 8} /\ c \in Int /\ k \in Int
        BY <1>2, <3>1
      <4> QED BY <3>2, <4>1, MultipleSum, Zenon
    <3>4. a + w <= y
      BY <1>2, <1>14, <2>1, <3>1, <3>3, MultipleFacts
    <3> QED BY <3>4 DEF y
  <2> QED BY <1>2, <1>5, <1>8, <1>10, <2>1, <2>2, <2>3
<1> QED BY <1>5, <1>13, <1>14 DEF w, t, last

LEMMA LoopIndex ==
  ASSUME typeSize \in Sizes, NEW r, Placed(r), NEW n \in 1 .. RegionBytes(r),
         NEW i, i = First(r) + n - 1
  PROVE  /\ i \in Indices /\ i \in Int /\ First(r) <= i /\ i < LastIndexToRead(r)
         /\ i = First(r) + (n - 1) /\ i + 1 = First(r) + n
<1> DEFINE f == First(r)
           last == LastIndexToRead(r)
           t == typeSize
<1>1. f \in Nat /\ t \in {1, 2, 4, 8} /\ last \in Int /\ last <= End(r) + t - 1
  BY FirstType, LastFacts DEF Placed
<1>2. End(r) <= MAX_RAM_SIZE /\ MAX_RAM_SIZE \in Nat /\ End(r) \in Nat
  <2>1. PICK j \in 1 .. Len(Areas) :
          /\ RegionEnd(r) <= Areas[j].base + Areas[j].size
          /\ r.virtualIndex = AreaStart(j) + (r.hardwareAddress - Areas[j].base)
          /\ AreaStart(j) \in Nat /\ Areas[j].base \in Nat /\ Areas[j].size \in Nat
          /\ AreaStart(j) + Areas[j].size <= MAX_RAM_SIZE /\ MAX_RAM_SIZE \in Nat
    BY RegionInArea
  <2>2. /\ r.hardwareAddress \in Nat /\ r.size \in Nat
        /\ RegionEnd(r) = r.hardwareAddress + r.size
    BY RegionEnds DEF Placed
  <2>3. End(r) = r.virtualIndex + r.size
    BY DEF End
  <2>4. End(r) \in Nat
    BY FirstType DEF Placed
  <2> DEFINE b == Areas[j].base
             z == Areas[j].size
             s == AreaStart(j)
             m == MAX_RAM_SIZE
             h == r.hardwareAddress
             v == r.virtualIndex
             y == r.size
             e == End(r)
  <2>5. h + y <= b + z /\ v = s + (h - b) /\ s \in Nat /\ b \in Nat /\ z \in Nat /\ s + z <= m
        /\ m \in Nat /\ h \in Nat /\ y \in Nat /\ e = v + y
    BY <2>1, <2>2, <2>3
  <2> HIDE DEF b, z, s, m, h, v, y, e
  <2>6. e <= m
    BY <2>5
  <2> QED BY <2>4, <2>5, <2>6 DEF e, m
<1>3. RegionBytes(r) = IF last > f THEN last - f ELSE 0
  BY DEF RegionBytes, First
<1> DEFINE m == MAX_RAM_SIZE
           e == End(r)
<1>4. e <= m /\ m \in Nat /\ e \in Nat
  BY <1>2
<1>5. i = f + n - 1
  OBVIOUS
<1>6. n \in Int /\ 1 <= n /\ n <= IF last > f THEN last - f ELSE 0
  BY <1>1, <1>3
<1>7. last <= e + t - 1
  BY <1>1
<1> HIDE DEF f, last, t, m, e
<1>8. i \in Int /\ f <= i /\ i < last /\ 0 <= i /\ i <= m + 8 - 1 /\ i = f + (n - 1) /\ i + 1 = f + n
  BY <1>1, <1>4, <1>5, <1>6, <1>7
<1>9. i \in Indices
  BY <1>4, <1>8 DEF Indices, m
<1> QED BY <1>8, <1>9 DEF f, last

(* The loop begins.                                                        *)
LEMMA FirstByteAt ==
  ASSUME typeSize \in Sizes, NEW mem, NEW r \in Region, NEW next, NEW copyPrev, NEW junk,
         NEW st \in ArrayStates, NEW s, s = FirstByte(st, r, copyPrev)
  PROVE  ByteAt(s, st, IF copyPrev THEN PrevCopied(r, st.cur, st.prev) ELSE st.prev, mem, r, next,
                junk, First(r))
<1> DEFINE p == IF copyPrev THEN PrevCopied(r, st.cur, st.prev) ELSE st.prev
           f == First(r)
           t == typeSize
           valid == [m \in 0 .. t - 1 |-> f + m]
<1>1. f \in Nat /\ t \in {1, 2, 4, 8}
  BY FirstType
<1>2. s = [st EXCEPT !.prev = p, !.nextValid = valid]
  BY DEF FirstByte, First
<1>3. s.cur = st.cur /\ s.prev = p /\ s.num = st.num /\ s.nextValid = valid
  <2> HIDE DEF p, valid
  <2> QED BY <1>2 DEF ArrayStates
<1>4. s \in ArrayStates
  BY FirstByteType
<1> HIDE DEF p, f, t
<1>5. ASSUME NEW e \in Int, f <= e PROVE ~ChangedBefore(st, mem, r, junk, e, f)
  <2>1. f \in Int /\ e >= f
    BY <1>1, <1>5
  <2> QED BY <2>1, ChangedStep
<1>6. CurAt(s, st, mem, r, next, junk, f)
  <2> SUFFICES ASSUME NEW x \in Indices PROVE ~(f <= x /\ x < f)
    BY <1>3 DEF CurAt, f
  <2>1. x \in Int
    BY DEF Indices
  <2> QED BY <1>1, <2>1
<1>7. NumAt(s, st, mem, r, junk, f)
  <2>1. Indices \subseteq Int
    BY DEF Indices
  <2> QED BY <1>3, <1>5, <2>1 DEF NumAt, f
<1>8. ASSUME NEW k \in 0 .. t - 1
      PROVE  /\ k = 0 => valid[Entry(r, f, k)] = f
             /\ k # 0 => valid[Entry(r, f, k)] = f - k + t
  <2> DEFINE m == Entry(r, f, k)
  <2>1. m = (f - f - k + t) % t
    BY DEF Entry, f, t
  <2>2. f - f - k + t = t - k /\ k \in 0 .. t - 1
    BY <1>1
  <2>3. m = (t - k) % t
    BY <2>1, <2>2
  <2>4. (k = 0 => m = 0) /\ (k # 0 => m = t - k)
    <3> HIDE DEF m
    <3>1. CASE t = 1
      BY <2>2, <2>3, <3>1
    <3>2. CASE t = 2
      BY <2>2, <2>3, <3>2
    <3>3. CASE t = 4
      BY <2>2, <2>3, <3>3
    <3>4. CASE t = 8
      BY <2>2, <2>3, <3>4
    <3> QED BY <1>1, <3>1, <3>2, <3>3, <3>4
  <2>5. m \in 0 .. t - 1
    BY <1>1, <2>2, <2>4
  <2>6. valid[m] = f + m
    BY <2>5
  <2> HIDE DEF m, valid
  <2>7. /\ k = 0 => valid[m] = f
        /\ k # 0 => valid[m] = f - k + t
    BY <1>1, <2>2, <2>4, <2>6
  <2> QED BY <2>7 DEF m
<1>9. valid \in Validities
  BY <1>1 DEF Validities, t
<1> HIDE DEF valid
<1>10. ASSUME NEW k \in 0 .. t - 1
       PROVE  /\ f - k < f => valid[Entry(r, f, k)] = f - k + t
              /\ f <= f - k /\ f - k < End(r) =>
                   IF ChangedBefore(st, mem, r, junk, f - k, f)
                   THEN valid[Entry(r, f, k)] = f - k + t ELSE valid[Entry(r, f, k)] <= f - k
  <2>1. CASE k = 0
    <3>1. f - k = f /\ f \in Int /\ f <= f /\ ~(f < f)
      BY <1>1, <2>1
    <3>2. ~ChangedBefore(st, mem, r, junk, f - k, f)
      BY <1>5, <3>1
    <3> QED BY <1>8, <2>1, <3>1, <3>2
  <2>2. CASE k # 0
    <3>1. ~(f <= f - k)
      BY <1>1, <2>2
    <3> QED BY <1>8, <2>2, <3>1
  <2> QED BY <2>1, <2>2
<1>11. ValidAt(s.nextValid, st, mem, r, junk, f, f)
  BY <1>3, <1>9, <1>10 DEF ValidAt, f, t
<1> QED BY <1>3, <1>4, <1>6, <1>7, <1>11 DEF ByteAt, f, p

(* The loop goes on by a byte.                                             *)
LEMMA ByteTurnAt ==
  ASSUME typeSize \in Sizes, NEW mem \in [Addresses -> Values], NEW r, Placed(r), NEW next,
         NEW junk \in Values, NEW st \in ArrayStates, NEW p, NEW s, NEW n \in 1 .. RegionBytes(r),
         NEW i, i = First(r) + n - 1, ByteAt(s, st, p, mem, r, next, junk, i),
         NEW new, new = ByteTurn(s, mem, r, next, junk, i)
  PROVE  ByteAt(new, st, p, mem, r, next, junk, i + 1)
<1> DEFINE byte == Buffer(mem, r, i, junk)
           copy == LastCopy(r, next)
<1>1. r \in Region /\ i \in Indices /\ i \in Int /\ First(r) <= i
  BY LoopIndex DEF Placed
<1>2. s \in ArrayStates /\ s.prev = p /\ CurAt(s, st, mem, r, next, junk, i)
      /\ NumAt(s, st, mem, r, junk, i) /\ ValidAt(s.nextValid, st, mem, r, junk, i, i)
  BY DEF ByteAt
<1>3. new \in ArrayStates
  <2>1. i = r.virtualIndex + StartSkipSize(r, Step) + n - 1
    BY DEF First
  <2> QED BY <1>2, <2>1, ByteTurnType
<1>4. s.cur[i] = st.cur[i]
  <2>1. ~(i < i)
    BY <1>1
  <2> QED BY <1>1, <1>2, <2>1 DEF CurAt
<1>5. Indices \subseteq Int
  BY DEF Indices
<1>6. CASE s.cur[i] = byte
  <2>1. new = s
    BY <1>6 DEF ByteTurn
  <2>2. \A e \in Int : ChangedBefore(st, mem, r, junk, e, i + 1) <=> ChangedBefore(st, mem, r, junk, e, i)
    BY <1>1, <1>4, <1>6, ChangedStep
  <2>3. CurAt(s, st, mem, r, next, junk, i + 1)
    <3> SUFFICES ASSUME NEW x \in Indices
                 PROVE  s.cur[x] = IF First(r) <= x /\ x < i + 1 /\ x < LastCopy(r, next)
                                   THEN Buffer(mem, r, x, junk) ELSE st.cur[x]
      BY DEF CurAt
    <3>1. s.cur[x] = IF First(r) <= x /\ x < i /\ x < LastCopy(r, next)
                     THEN Buffer(mem, r, x, junk) ELSE st.cur[x]
      BY <1>2 DEF CurAt
    <3>2. x < i + 1 <=> x < i \/ x = i
      BY <1>1, <1>5
    <3> QED BY <1>4, <1>6, <3>1, <3>2
  <2>4. NumAt(s, st, mem, r, junk, i + 1)
    BY <1>2, <1>5, <2>2 DEF NumAt
  <2>5. ValidAt(s.nextValid, st, mem, r, junk, i, i + 1)
    <3>1. \A k \in 0 .. typeSize - 1 : i - k \in Int
      BY <1>1, StepType
    <3> QED BY <1>2, <2>2, <3>1 DEF ValidAt
  <2>6. ValidAt(s.nextValid, st, mem, r, junk, i + 1, i + 1)
    BY <1>1, <2>5, ValidShift
  <2> QED BY <1>2, <2>1, <2>3, <2>4, <2>6 DEF ByteAt
<1>7. CASE s.cur[i] # byte
  <2> DEFINE u == [s EXCEPT !.cur[i] = IF i < copy THEN byte ELSE @]
  <2>1. new = CountChange(u, i, First(r), End(r))
    BY <1>7 DEF ByteTurn, First, End, LastCopy
  <2>2. byte \in Values
    <3>1. i = r.virtualIndex + StartSkipSize(r, Step) + n - 1
      BY DEF First
    <3> QED BY <3>1, BufferType
  <2>3. /\ s.cur \in [Indices -> Values]
        /\ u.cur = [s.cur EXCEPT ![i] = IF i < copy THEN byte ELSE s.cur[i]]
        /\ u.prev = s.prev /\ u.num = s.num /\ u.nextValid = s.nextValid
    <3> HIDE DEF byte, copy
    <3> QED BY <1>2 DEF ArrayStates
  <2>4. u \in ArrayStates
    <3> DEFINE x == IF i < copy THEN byte ELSE s.cur[i]
               c == [s.cur EXCEPT ![i] = x]
    <3>1. x \in Values
      <4> HIDE DEF byte, copy
      <4> QED BY <1>1, <2>2, <2>3
    <3>2. c \in [Indices -> Values]
      <4> HIDE DEF x
      <4> QED BY <2>3, <3>1
    <3>3. u = WithCur(s, c)
      BY DEF WithCur
    <3> HIDE DEF c, u
    <3> QED BY <1>2, <3>2, <3>3, ArrayFields
  <2>5. NumAt(u, st, mem, r, junk, i) /\ ValidAt(u.nextValid, st, mem, r, junk, i, i)
    <3> HIDE DEF u
    <3> QED BY <1>2, <2>3 DEF NumAt
  <2>6. st.cur[i] # byte
    BY <1>4, <1>7
  <2> HIDE DEF u
  <2>7. /\ new.cur = u.cur /\ new.prev = u.prev /\ NumAt(new, st, mem, r, junk, i + 1)
        /\ ValidAt(new.nextValid, st, mem, r, junk, i, i + 1)
    BY <1>1, <2>1, <2>4, <2>5, <2>6, CountChangeAt
  <2>8. ValidAt(new.nextValid, st, mem, r, junk, i + 1, i + 1)
    BY <1>1, <2>7, ValidShift
  <2>9. CurAt(new, st, mem, r, next, junk, i + 1)
    <3> SUFFICES ASSUME NEW x \in Indices
                 PROVE  u.cur[x] = IF First(r) <= x /\ x < i + 1 /\ x < copy
                                   THEN Buffer(mem, r, x, junk) ELSE st.cur[x]
      BY <2>7 DEF CurAt
    <3>1. s.cur[x] = IF First(r) <= x /\ x < i /\ x < copy
                     THEN Buffer(mem, r, x, junk) ELSE st.cur[x]
      BY <1>2 DEF CurAt
    <3>2. x < i + 1 <=> x < i \/ x = i
      BY <1>1, <1>5
    <3>3. u.cur[x] = IF x = i THEN IF i < copy THEN byte ELSE s.cur[i] ELSE s.cur[x]
      <4> HIDE DEF byte, copy
      <4> QED BY <1>1, <2>3
    <3>4. CASE x = i
      <4> HIDE DEF copy
      <4> QED BY <1>1, <1>4, <3>3, <3>2, <3>4
    <3>5. CASE x # i
      <4> HIDE DEF copy
      <4> QED BY <3>1, <3>2, <3>3, <3>5
    <3> QED BY <3>4, <3>5
  <2> QED BY <1>2, <1>3, <2>3, <2>7, <2>8, <2>9 DEF ByteAt
<1> QED BY <1>6, <1>7

(* Where the loop ends.                                                    *)
Reach(r) == First(r) + RegionBytes(r)
PrevOf(st, r, copyPrev) == IF copyPrev THEN PrevCopied(r, st.cur, st.prev) ELSE st.prev

LEMMA UpdateRegionAt ==
  ASSUME typeSize \in Sizes, NEW mem \in [Addresses -> Values], NEW r, Placed(r), NEW next,
         NEW copyPrev, NEW junk \in Values, NEW st \in ArrayStates
  PROVE  ByteAt(UpdateRegion(st, mem, r, next, copyPrev, junk), st, PrevOf(st, r, copyPrev),
                mem, r, next, junk, Reach(r))
<1> DEFINE T == RegionBytes(r)
           s == FirstByte(st, r, copyPrev)
           p == PrevOf(st, r, copyPrev)
           Byte(x, n) == ByteTurn(x, mem, r, next, junk, First(r) + n - 1)
           At(x, i) == ByteAt(x, st, p, mem, r, next, junk, i)
           f == CHOOSE g : ByteSteps(st, mem, r, next, copyPrev, junk, g)
           f0 == First(r)
<1>1. T \in Nat /\ s \in ArrayStates /\ f0 \in Nat
  BY RegionBytesType, FirstByteType, FirstType DEF Placed
<1>2. UpdateRegion(st, mem, r, next, copyPrev, junk) = f[T]
  BY DEF UpdateRegion, ByteSteps, RegionBytes, FirstByte, ByteTurn
<1>3. ByteSteps(st, mem, r, next, copyPrev, junk, f)
  BY ByteStepsExist
<1>4. f = [n \in 0 .. T |-> IF n = 0 THEN s ELSE Byte(f[n - 1], n)]
  BY <1>3 DEF ByteSteps, First
<1>5. At(s, f0)
  BY FirstByteAt DEF Placed, PrevOf
<1>6. ASSUME NEW n \in 1 .. T, NEW x, At(x, f0 + (n - 1)) PROVE At(Byte(x, n), f0 + n)
  <2> DEFINE i == f0 + n - 1
  <2>1. i = f0 + (n - 1) /\ i + 1 = f0 + n
    BY LoopIndex
  <2>2. ByteAt(x, st, p, mem, r, next, junk, i)
    BY <1>6, <2>1
  <2>3. ByteAt(Byte(x, n), st, p, mem, r, next, junk, i + 1)
    <3> HIDE DEF p
    <3> QED BY <2>2, ByteTurnAt
  <2> QED BY <2>1, <2>3
<1> HIDE DEF T, s, p, Byte, At, f, f0
<1> DEFINE G == {n \in 0 .. T : At(f[n], f0 + n)}
<1>7. 0 \in G
  <2>1. f[0] = s /\ f0 + 0 = f0 /\ 0 \in 0 .. T
    BY <1>1, <1>4
  <2> QED BY <1>5, <2>1
<1>8. ASSUME NEW n \in 1 .. T, n - 1 \in G PROVE n \in G
  <2>1. f[n] = Byte(f[n - 1], n) /\ n \in 0 .. T
    BY <1>1, <1>4
  <2>2. At(f[n - 1], f0 + (n - 1))
    BY <1>8
  <2> QED BY <1>6, <2>1, <2>2
<1>9. \A n \in 0 .. T : n \in G
  <2> HIDE DEF G
  <2> QED BY <1>1, <1>7, <1>8, Induction
<1>10. At(f[T], f0 + T)
  BY <1>1, <1>9
<1> QED BY <1>2, <1>10 DEF At, p, Reach, f0, T

RegionTurn(x, mem, list, copyPrev, junk, n) ==
  UpdateRegion(x, mem, list[n], IF n < Len(list) THEN <<list[n + 1]>> ELSE <<>>, copyPrev, junk)
RegionSteps(st, mem, list, copyPrev, junk, g) ==
  g = [n \in 0 .. Len(list) |->
        IF n = 0 THEN st ELSE RegionTurn(g[n - 1], mem, list, copyPrev, junk, n)]

(* The loop over a list of regions, and what it makes of the arrays.       *)
LEMMA RegionTurnType ==
  ASSUME typeSize \in Sizes, NEW mem \in [Addresses -> Values], NEW list, GoodList(list),
         NEW copyPrev, NEW junk \in Values, NEW st \in ArrayStates, NEW n \in 1 .. Len(list)
  PROVE  RegionTurn(st, mem, list, copyPrev, junk, n) \in ArrayStates
<1>1. Placed(list[n])
  BY DEF GoodList
<1> QED BY <1>1, UpdateRegionAt DEF RegionTurn, ByteAt

LEMMA RegionStepsExist ==
  ASSUME typeSize \in Sizes, NEW mem \in [Addresses -> Values], NEW list, GoodList(list),
         NEW copyPrev, NEW junk \in Values, NEW st \in ArrayStates
  PROVE  RegionSteps(st, mem, list, copyPrev, junk,
                     CHOOSE g : RegionSteps(st, mem, list, copyPrev, junk, g))
<1> DEFINE T == Len(list)
           Take(x, n) == RegionTurn(x, mem, list, copyPrev, junk, n)
           Turn == [n \in 1 .. T |-> [x \in ArrayStates |-> Take(x, n)]]
<1>1. T \in Nat
  BY DEF GoodList
<1>2. ASSUME NEW n \in 1 .. T, NEW x \in ArrayStates PROVE Take(x, n) \in ArrayStates
  BY RegionTurnType
<1>3. \A g : RegionSteps(st, mem, list, copyPrev, junk, g) <=>
               g = [n \in 0 .. T |-> IF n = 0 THEN st ELSE Take(g[n - 1], n)]
  BY DEF RegionSteps
<1> HIDE DEF T, Take
<1>4. Turn \in [1 .. T -> [ArrayStates -> ArrayStates]]
  BY <1>2
<1>5. \A n \in 1 .. T, x \in ArrayStates : Turn[n][x] = Take(x, n)
  OBVIOUS
<1> HIDE DEF Turn
<1>6. PICK g \in [0 .. T -> ArrayStates] : Iterates(T, st, Turn, g)
  BY <1>1, <1>4, IterateExists
<1>7. \A n \in 0 .. T : n # 0 => n \in 1 .. T /\ g[n - 1] \in ArrayStates
  BY <1>1
<1>8. \A n \in 0 .. T : n # 0 => Turn[n][g[n - 1]] = Take(g[n - 1], n)
  BY <1>5, <1>7
<1>9. g = [n \in 0 .. T |-> IF n = 0 THEN st ELSE Take(g[n - 1], n)]
  BY <1>6, <1>8 DEF Iterates
<1> QED BY <1>3, <1>9

(* Each index of the arrays is written by one region: the last of those    *)
(* that begin at it or before.                                             *)
NextOf(list, n) == IF n < Len(list) THEN <<list[n + 1]>> ELSE <<>>
CopyEnd(list, n) == LastCopy(list[n], NextOf(list, n))
Copies(list, n, x) == First(list[n]) <= x /\ x < CopyEnd(list, n)
Counts(list, n, e) == First(list[n]) <= e /\ e < End(list[n])

LEMMA ListOrder ==
  ASSUME typeSize \in Sizes, NEW list, GoodList(list), NEW i \in 1 .. Len(list),
         NEW j \in 1 .. Len(list), i < j
  PROVE  End(list[i]) <= list[j].virtualIndex /\ First(list[i]) <= First(list[j])
<1>1. Placed(list[i]) /\ Placed(list[j]) /\ RegionEnd(list[i]) <= list[j].hardwareAddress
  BY DEF GoodList, InOrder
<1> QED BY <1>1, PlacedOrder

LEMMA CopyEndFacts ==
  ASSUME typeSize \in Sizes, NEW list, GoodList(list), NEW n \in 1 .. Len(list)
  PROVE  /\ CopyEnd(list, n) \in Int /\ CopyEnd(list, n) <= LastIndexToRead(list[n])
         /\ \A j \in 1 .. Len(list) : n < j => CopyEnd(list, n) <= First(list[j])
         /\ \A x \in Int : x < LastIndexToRead(list[n]) /\ (n < Len(list) => x < First(list[n + 1]))
                             => x < CopyEnd(list, n)
<1> DEFINE last == LastIndexToRead(list[n])
<1>1. Len(list) \in Nat /\ \A j \in 1 .. Len(list) : Placed(list[j]) /\ list[j] \in Region
  <2>1. Len(list) \in Nat /\ \A j \in 1 .. Len(list) : Placed(list[j])
    BY DEF GoodList
  <2> QED BY <2>1 DEF Placed
<1>2. last \in Int /\ \A j \in 1 .. Len(list) : First(list[j]) \in Int
  BY <1>1, LastFacts, FirstType
<1>3. CASE n < Len(list)
  <2> DEFINE f == First(list[n + 1])
  <2>1. n + 1 \in 1 .. Len(list)
    BY <1>1, <1>3
  <2>2. NextOf(list, n) = <<list[n + 1]>>
    BY <1>3 DEF NextOf
  <2>3. CopyEnd(list, n) = IF last > f THEN f ELSE last
    BY <2>2 DEF CopyEnd, LastCopy, LastIndexToCopy, First
  <2>4. \A j \in 1 .. Len(list) : n < j => f <= First(list[j])
    <3> SUFFICES ASSUME NEW j \in 1 .. Len(list), n < j PROVE f <= First(list[j])
      OBVIOUS
    <3>1. j = n + 1 \/ n + 1 < j
      BY <1>1
    <3>2. CASE j = n + 1
      BY <1>2, <2>1, <3>2
    <3>3. CASE n + 1 < j
      BY <2>1, <3>3, ListOrder
    <3> QED BY <3>1, <3>2, <3>3
  <2>5. f \in Int
    BY <1>2, <2>1
  <2>6. CopyEnd(list, n) \in Int /\ CopyEnd(list, n) <= last /\ CopyEnd(list, n) <= f
        /\ \A x \in Int : x < last /\ x < f => x < CopyEnd(list, n)
    <3> HIDE DEF last, f
    <3> QED BY <1>2, <2>3, <2>5
  <2>7. \A j \in 1 .. Len(list) : n < j => CopyEnd(list, n) <= First(list[j])
    <3> SUFFICES ASSUME NEW j \in 1 .. Len(list), n < j PROVE CopyEnd(list, n) <= First(list[j])
      OBVIOUS
    <3>1. f <= First(list[j]) /\ First(list[j]) \in Int
      BY <1>2, <2>4
    <3> HIDE DEF f
    <3> QED BY <2>5, <2>6, <3>1
  <2> QED BY <1>3, <2>6, <2>7
<1>4. CASE ~(n < Len(list))
  <2>1. CopyEnd(list, n) = last
    BY <1>4 DEF NextOf, CopyEnd, LastCopy, LastIndexToCopy
  <2>2. \A j \in 1 .. Len(list) : ~(n < j)
    BY <1>1, <1>4
  <2> QED BY <1>2, <1>4, <2>1, <2>2
<1> QED BY <1>3, <1>4

LEMMA ReachFacts ==
  ASSUME typeSize \in Sizes, NEW r, Placed(r)
  PROVE  /\ Reach(r) \in Int
         /\ LastIndexToRead(r) > First(r) => Reach(r) = LastIndexToRead(r)
         /\ \A x \in Int : First(r) <= x /\ x < Reach(r) => x \in Indices
<1> DEFINE f == First(r)
           last == LastIndexToRead(r)
           T == RegionBytes(r)
<1>1. f \in Int /\ last \in Int /\ T \in Nat
  BY FirstType, LastFacts, RegionBytesType DEF Placed
<1>2. T = IF last > f THEN last - f ELSE 0
  BY DEF RegionBytes, First
<1>3. Reach(r) = f + T
  BY DEF Reach
<1> HIDE DEF f, last, T
<1>4. Reach(r) \in Int /\ (last > f => Reach(r) = last)
  BY <1>1, <1>2, <1>3
<1>5. ASSUME NEW x \in Int, f <= x, x < Reach(r) PROVE x \in Indices
  <2>1. x - f + 1 \in 1 .. T /\ x = f + (x - f + 1) - 1
    BY <1>1, <1>3, <1>5
  <2> DEFINE n == x - f + 1
  <2>2. n \in 1 .. T /\ x = f + n - 1
    BY <2>1
  <2> HIDE DEF n
  <2> QED BY <2>2, LoopIndex DEF f, T
<1> QED BY <1>4, <1>5 DEF f, last

LEMMA ChangedSame ==
  ASSUME typeSize \in Sizes, NEW mem, NEW r, Placed(r), NEW junk, NEW s, NEW st,
         \A x \in Indices : First(r) <= x => s.cur[x] = st.cur[x], NEW e \in Int, First(r) <= e
  PROVE  ChangedBefore(s, mem, r, junk, e, Reach(r)) <=> ChangedBefore(st, mem, r, junk, e, Reach(r))
<1>1. ASSUME NEW k \in 0 .. typeSize - 1, e + k < Reach(r) PROVE s.cur[e + k] = st.cur[e + k]
  <2>1. typeSize \in Nat /\ First(r) \in Nat
    BY FirstType, StepType DEF Placed
  <2>2. e + k \in Int /\ First(r) <= e + k
    <3> DEFINE f == First(r)
    <3>1. f \in Nat /\ f <= e
      BY <2>1
    <3> HIDE DEF f
    <3>2. e + k \in Int /\ f <= e + k
      BY <2>1, <3>1
    <3> QED BY <3>2 DEF f
  <2>3. e + k \in Indices
    BY <1>1, <2>2, ReachFacts
  <2> QED BY <2>2, <2>3
<1> QED BY <1>1 DEF ChangedBefore

(* The arrays when the loop has updated the first regions of the list.     *)
ListAt(s, st, mem, list, copyPrev, junk, n) ==
  /\ s \in ArrayStates
  /\ \A x \in Indices, j \in 1 .. n : Copies(list, j, x) => s.cur[x] = Buffer(mem, list[j], x, junk)
  /\ \A x \in Indices : (\A j \in 1 .. n : ~Copies(list, j, x)) => s.cur[x] = st.cur[x]
  /\ \A e \in Indices, j \in 1 .. n : Counts(list, j, e) =>
       s.num[e] = IF ChangedBefore(st, mem, list[j], junk, e, Reach(list[j]))
                  THEN (st.num[e] + 1) % CountModulus ELSE st.num[e]
  /\ \A e \in Indices : (\A j \in 1 .. n : ~Counts(list, j, e)) => s.num[e] = st.num[e]
  /\ ~copyPrev => s.prev = st.prev
  /\ copyPrev => \A x \in Indices, j \in 1 .. n :
       First(list[j]) <= x /\ x < End(list[j]) + typeSize - Step => s.prev[x] = st.cur[x]

LEMMA RegionTurnAt ==
  ASSUME typeSize \in Sizes, NEW mem \in [Addresses -> Values], NEW list, GoodList(list),
         NEW copyPrev \in BOOLEAN, NEW junk \in Values, NEW st \in ArrayStates, NEW s,
         NEW n \in 1 .. Len(list), ListAt(s, st, mem, list, copyPrev, junk, n - 1),
         NEW new, new = RegionTurn(s, mem, list, copyPrev, junk, n)
  PROVE  ListAt(new, st, mem, list, copyPrev, junk, n)
<1> DEFINE r == list[n]
           f == First(r)
<1>1. Len(list) \in Nat /\ \A j \in 1 .. Len(list) : Placed(list[j])
  BY DEF GoodList
<1>2. \A j \in 1 .. Len(list) :
        /\ list[j].virtualIndex \in Int /\ First(list[j]) \in Int /\ End(list[j]) \in Int
        /\ list[j].virtualIndex <= First(list[j])
  <2> SUFFICES ASSUME NEW j \in 1 .. Len(list)
               PROVE  /\ list[j].virtualIndex \in Int /\ First(list[j]) \in Int /\ End(list[j]) \in Int
                      /\ list[j].virtualIndex <= First(list[j])
    OBVIOUS
  <2>1. list[j] \in Region
    BY <1>1 DEF Placed
  <2> QED BY <2>1, FirstType, RegionEnds
<1>3. /\ typeSize \in {1, 2, 4, 8} /\ Step \in {1, 2, 4, 8} /\ (Step = 1 \/ Step = typeSize)
      /\ Indices \subseteq Int
  BY StepType DEF Step, Indices
<1>4. \A j \in 1 .. n : j \in 1 .. Len(list) /\ (j = n \/ j \in 1 .. n - 1)
  BY <1>1
<1>5. \A j \in 1 .. n - 1 : j \in 1 .. n /\ j \in 1 .. Len(list) /\ j < n
  BY <1>1
<1>6. \A j \in 1 .. n - 1 : End(list[j]) <= r.virtualIndex /\ CopyEnd(list, j) <= f /\ CopyEnd(list, j) \in Int
  BY <1>5, ListOrder, CopyEndFacts
<1>7. s \in ArrayStates
  BY DEF ListAt
<1>8. ByteAt(new, s, PrevOf(s, r, copyPrev), mem, r, NextOf(list, n), junk, Reach(r))
  BY <1>1, <1>7, UpdateRegionAt DEF RegionTurn, NextOf
<1>9. \A x \in Indices : new.cur[x] = IF f <= x /\ x < Reach(r) /\ x < CopyEnd(list, n)
                                     THEN Buffer(mem, r, x, junk) ELSE s.cur[x]
  BY <1>8 DEF ByteAt, CurAt, CopyEnd
<1>10. \A e \in Indices :
         new.num[e] = IF f <= e /\ e < End(r) /\ ChangedBefore(s, mem, r, junk, e, Reach(r))
                      THEN (s.num[e] + 1) % CountModulus ELSE s.num[e]
  BY <1>8 DEF ByteAt, NumAt
<1>11. new \in ArrayStates /\ new.prev = PrevOf(s, r, copyPrev)
  BY <1>8 DEF ByteAt
<1>12. \A x \in Indices : Copies(list, n, x) => f <= x /\ x < Reach(r) /\ x < CopyEnd(list, n)
  <2> SUFFICES ASSUME NEW x \in Indices, Copies(list, n, x) PROVE x < Reach(r)
    BY DEF Copies
  <2> DEFINE last == LastIndexToRead(r)
             end == CopyEnd(list, n)
  <2>1. f <= x /\ x < end /\ x \in Int
    BY <1>3 DEF Copies
  <2>2. last \in Int /\ end \in Int /\ end <= last /\ f \in Int /\ (last > f => Reach(r) = last)
    BY <1>1, <1>2, LastFacts, CopyEndFacts, ReachFacts
  <2> HIDE DEF f, last, end
  <2> QED BY <2>1, <2>2
<1>13. \A x \in Indices : f <= x => s.cur[x] = st.cur[x]
  <2> SUFFICES ASSUME NEW x \in Indices, f <= x PROVE \A j \in 1 .. n - 1 : ~Copies(list, j, x)
    BY DEF ListAt
  <2> SUFFICES ASSUME NEW j \in 1 .. n - 1, x < CopyEnd(list, j) PROVE FALSE
    BY DEF Copies
  <2>1. CopyEnd(list, j) <= f /\ CopyEnd(list, j) \in Int /\ f \in Int /\ x \in Int
    BY <1>2, <1>3, <1>6
  <2> HIDE DEF f
  <2> QED BY <2>1
<1>14. ASSUME NEW x \in Indices, NEW j \in 1 .. n, Copies(list, j, x)
       PROVE  new.cur[x] = Buffer(mem, list[j], x, junk)
  <2>1. CASE j = n
    BY <1>9, <1>12, <1>14, <2>1
  <2>2. CASE j \in 1 .. n - 1
    <3>1. s.cur[x] = Buffer(mem, list[j], x, junk)
      BY <1>14, <2>2 DEF ListAt
    <3>2. ~(f <= x)
      <4>1. x < CopyEnd(list, j) /\ CopyEnd(list, j) <= f /\ CopyEnd(list, j) \in Int /\ f \in Int /\ x \in Int
        BY <1>2, <1>3, <1>6, <1>14, <2>2 DEF Copies
      <4> HIDE DEF f
      <4> QED BY <4>1
    <3> QED BY <1>9, <3>1, <3>2
  <2> QED BY <1>4, <2>1, <2>2
<1>15. ASSUME NEW x \in Indices, \A j \in 1 .. n : ~Copies(list, j, x)
       PROVE  new.cur[x] = st.cur[x]
  <2>1. s.cur[x] = st.cur[x]
    BY <1>5, <1>15 DEF ListAt
  <2>2. n \in 1 .. n
    BY <1>1
  <2>3. ~Copies(list, n, x)
    BY <1>15, <2>2
  <2> QED BY <1>9, <2>1, <2>3 DEF Copies
<1>16. ASSUME NEW e \in Indices, NEW j \in 1 .. n, Counts(list, j, e)
       PROVE  new.num[e] = IF ChangedBefore(st, mem, list[j], junk, e, Reach(list[j]))
                           THEN (st.num[e] + 1) % CountModulus ELSE st.num[e]
  <2>1. CASE j = n
    <3>1. f <= e /\ e < End(r) /\ e \in Int
      BY <1>3, <1>16, <2>1 DEF Counts
    <3>2. \A i \in 1 .. n - 1 : ~Counts(list, i, e)
      <4> SUFFICES ASSUME NEW i \in 1 .. n - 1, e < End(list[i]) PROVE FALSE
        BY DEF Counts
      <4>1. End(list[i]) <= r.virtualIndex /\ r.virtualIndex <= f /\ r.virtualIndex \in Int /\ f \in Int
            /\ End(list[i]) \in Int
        BY <1>2, <1>5, <1>6
      <4> DEFINE v == r.virtualIndex
                 u == End(list[i])
      <4>2. u <= v /\ v <= f /\ v \in Int /\ f \in Int /\ u \in Int /\ e < u /\ f <= e /\ e \in Int
        BY <3>1, <4>1
      <4> HIDE DEF f, u, v
      <4> QED BY <4>2
    <3>3. s.num[e] = st.num[e]
      BY <3>2 DEF ListAt
    <3>4. ChangedBefore(s, mem, r, junk, e, Reach(r)) <=> ChangedBefore(st, mem, r, junk, e, Reach(r))
      BY <1>1, <1>13, <3>1, ChangedSame
    <3> QED BY <1>10, <2>1, <3>1, <3>3, <3>4
  <2>2. CASE j \in 1 .. n - 1
    <3>1. s.num[e] = IF ChangedBefore(st, mem, list[j], junk, e, Reach(list[j]))
                     THEN (st.num[e] + 1) % CountModulus ELSE st.num[e]
      BY <1>16, <2>2 DEF ListAt
    <3>2. ~(f <= e)
      <4> DEFINE v == r.virtualIndex
                 u == End(list[j])
      <4>1. e < u /\ u <= v /\ v <= f /\ v \in Int /\ f \in Int /\ u \in Int /\ e \in Int
        BY <1>2, <1>3, <1>5, <1>6, <1>16, <2>2 DEF Counts
      <4> HIDE DEF f, u, v
      <4> QED BY <4>1
    <3> QED BY <1>10, <3>1, <3>2
  <2> QED BY <1>4, <2>1, <2>2
<1>17. ASSUME NEW e \in Indices, \A j \in 1 .. n : ~Counts(list, j, e)
       PROVE  new.num[e] = st.num[e]
  <2>1. s.num[e] = st.num[e]
    BY <1>5, <1>17 DEF ListAt
  <2>2. n \in 1 .. n
    BY <1>1
  <2>3. ~Counts(list, n, e)
    BY <1>17, <2>2
  <2> QED BY <1>10, <2>1, <2>3 DEF Counts
<1>18. ~copyPrev => new.prev = st.prev
  BY <1>11 DEF ListAt, PrevOf
<1>19. ASSUME copyPrev, NEW x \in Indices, NEW j \in 1 .. n, First(list[j]) <= x,
              x < End(list[j]) + typeSize - Step
       PROVE  new.prev[x] = st.cur[x]
  <2>1. new.prev[x] = IF r.virtualIndex <= x /\ x < r.virtualIndex + r.size + typeSize - Step
                      THEN s.cur[x] ELSE s.prev[x]
    BY <1>11, <1>19 DEF PrevOf, PrevCopied
  <2>2. End(r) = r.virtualIndex + r.size
    BY DEF End
  <2>3. CASE j = n
    <3>1. s.cur[x] = st.cur[x]
      BY <1>13, <1>19, <2>3
    <3>2. r.virtualIndex <= x
      <4> DEFINE v == r.virtualIndex
      <4>1. v <= f /\ f <= x /\ v \in Int /\ f \in Int /\ x \in Int
        BY <1>2, <1>3, <1>19, <2>3
      <4> HIDE DEF v, f
      <4>2. v <= x
        BY <4>1
      <4> QED BY <4>2 DEF v
    <3> DEFINE end == r.virtualIndex + r.size + typeSize - Step
    <3>3. x < end
      BY <1>19, <2>2, <2>3
    <3>4. new.prev[x] = IF r.virtualIndex <= x /\ x < end THEN s.cur[x] ELSE s.prev[x]
      BY <2>1
    <3> HIDE DEF end
    <3> QED BY <3>1, <3>2, <3>3, <3>4
  <2>4. CASE j \in 1 .. n - 1
    <3>1. s.prev[x] = st.cur[x]
      BY <1>19, <2>4 DEF ListAt
    <3>2. r.virtualIndex <= x => f <= x
      <4>1. CASE Step = 1
        <5>1. StartSkipSize(r, 1) \in 0 .. 1 - 1
          BY <1>1, SkipFacts DEF Placed
        <5>2. f = r.virtualIndex + 0
          BY <4>1, <5>1 DEF First
        <5>3. r.virtualIndex \in Int
          BY <1>2
        <5> QED BY <5>2, <5>3
      <4>2. CASE Step = typeSize
        <5> DEFINE v == r.virtualIndex
                   u == End(list[j])
        <5>1. v \in Int /\ u \in Int /\ u <= v /\ x \in Int /\ typeSize - Step = 0
          BY <1>2, <1>3, <1>5, <1>6, <2>4, <4>2
        <5>2. x < u + typeSize - Step
          BY <1>19
        <5> HIDE DEF u, v
        <5>3. x < u
          BY <1>3, <4>2, <5>1, <5>2
        <5> QED BY <5>1, <5>3 DEF v
      <4> QED BY <1>3, <4>1, <4>2
    <3> QED BY <1>13, <2>1, <3>1, <3>2
  <2> QED BY <1>4, <2>3, <2>4
<1> QED BY <1>11, <1>14, <1>15, <1>16, <1>17, <1>18, <1>19 DEF ListAt

LEMMA UpdateRegionsAt ==
  ASSUME typeSize \in Sizes, NEW mem \in [Addresses -> Values], NEW list, GoodList(list),
         NEW copyPrev \in BOOLEAN, NEW junk \in Values, NEW st \in ArrayStates
  PROVE  ListAt(UpdateRegions(st, mem, list, copyPrev, junk), st, mem, list, copyPrev, junk, Len(list))
<1> DEFINE T == Len(list)
           Take(x, n) == RegionTurn(x, mem, list, copyPrev, junk, n)
           At(x, n) == ListAt(x, st, mem, list, copyPrev, junk, n)
           f == CHOOSE g : RegionSteps(st, mem, list, copyPrev, junk, g)
<1>1. T \in Nat
  BY DEF GoodList
<1>2. UpdateRegions(st, mem, list, copyPrev, junk) = f[T]
  BY DEF UpdateRegions, RegionSteps, RegionTurn
<1>3. RegionSteps(st, mem, list, copyPrev, junk, f)
  BY RegionStepsExist
<1>4. f = [n \in 0 .. T |-> IF n = 0 THEN st ELSE Take(f[n - 1], n)]
  BY <1>3 DEF RegionSteps
<1>5. At(st, 0)
  <2>1. \A j \in 1 .. 0 : FALSE
    OBVIOUS
  <2> QED BY <2>1 DEF ListAt
<1>6. ASSUME NEW n \in 1 .. T, NEW x, At(x, n - 1) PROVE At(Take(x, n), n)
  BY <1>6, RegionTurnAt
<1> HIDE DEF T, Take, At, f
<1> DEFINE G == {n \in 0 .. T : At(f[n], n)}
<1>7. 0 \in G
  <2>1. f[0] = st /\ 0 \in 0 .. T
    BY <1>1, <1>4
  <2> QED BY <1>5, <2>1
<1>8. ASSUME NEW n \in 1 .. T, n - 1 \in G PROVE n \in G
  <2>1. f[n] = Take(f[n - 1], n) /\ n \in 0 .. T
    BY <1>1, <1>4
  <2>2. At(f[n - 1], n - 1)
    BY <1>8
  <2> QED BY <1>6, <2>1, <2>2
<1>9. \A n \in 0 .. T : n \in G
  <2> HIDE DEF G
  <2> QED BY <1>1, <1>7, <1>8, Induction
<1>10. At(f[T], T)
  BY <1>1, <1>9
<1> QED BY <1>2, <1>10 DEF At, T

LEMMA UpdateRegionsType ==
  ASSUME typeSize \in Sizes, NEW mem \in [Addresses -> Values], NEW list, GoodList(list),
         NEW copyPrev \in BOOLEAN, NEW junk \in Values, NEW st \in ArrayStates
  PROVE  UpdateRegions(st, mem, list, copyPrev, junk) \in ArrayStates
  BY UpdateRegionsAt DEF ListAt

(* A readable item: its bytes lie in the arrays as they lie in memory, and *)
(* are read in every region with items in it.                              *)
WholeIn(a, j) == a .. a + typeSize - 1 \subseteq AreaBytes(j)
RestRead(a, r) == a + typeSize <= RegionEnd(r) \/ TailBytes(r) \subseteq Addresses

LEMMA ItemBytes ==
  ASSUME typeSize \in Sizes, NEW j \in 1 .. Len(Areas), NEW a \in Nat,
         WholeIn(a, j), NEW k \in 0 .. typeSize - 1
  PROVE  /\ a + k \in Addresses /\ a + k \in AreaBytes(j) /\ a \in AreaBytes(j)
         /\ VirtualIndex[a + k] = VirtualIndex[a] + k
         /\ VirtualIndex[a] \in Nat /\ VirtualIndex[a] + k < MAX_RAM_SIZE
         /\ VirtualIndex[a] + k \in Indices /\ VirtualIndex[a] \in Indices
<1>1. typeSize \in {1, 2, 4, 8}
  BY StepType
<1>2. a \in a .. a + typeSize - 1 /\ a + k \in a .. a + typeSize - 1
  BY <1>1
<1>3. a \in AreaBytes(j) /\ a + k \in AreaBytes(j)
  BY <1>2 DEF WholeIn
<1> DEFINE b == Areas[j].base
           z == Areas[j].size
           s == AreaStart(j)
           m == MAX_RAM_SIZE
           v == VirtualIndex[a]
           w == VirtualIndex[a + k]
<1>4. v = s + (a - b) /\ w = s + ((a + k) - b) /\ v \in Nat /\ w \in Nat /\ a + k \in Addresses
  <2> DEFINE c == a + k
  <2>1. a \in AreaBytes(j) /\ c \in AreaBytes(j)
    BY <1>3
  <2> HIDE DEF c
  <2>2. /\ VirtualIndex[a] = AreaStart(j) + (a - Areas[j].base) /\ VirtualIndex[a] \in Nat
        /\ VirtualIndex[c] = AreaStart(j) + (c - Areas[j].base) /\ VirtualIndex[c] \in Nat
        /\ c \in Addresses
    BY <2>1, IndexOf
  <2> QED BY <2>2 DEF c
<1>5. b \in Nat /\ z \in Nat /\ s \in Nat /\ m \in Nat /\ s + z <= m
  <2>1. b \in Nat /\ z \in Nat /\ j \in 1 .. Len(Areas) + 1 /\ Len(Areas) + 1 \in 1 .. Len(Areas) + 1
        /\ j < Len(Areas) + 1
    BY AreaFacts
  <2> QED BY <2>1, AreaStarts, AreasInOrder DEF MAX_RAM_SIZE
<1>6. a + k \in b .. b + z - 1
  BY <1>3 DEF AreaBytes
<1>7. k \in Nat
  BY <1>1
<1> HIDE DEF b, z, s, m, v, w
<1>8. w = v + k /\ v + k < m /\ v < m
  BY <1>4, <1>5, <1>6, <1>7
<1>9. \A x \in Nat : x < m => x \in Indices
  BY <1>5 DEF Indices, m
<1>10. v + k \in Nat
  BY <1>4, <1>7
<1> QED BY <1>3, <1>4, <1>8, <1>9, <1>10 DEF v, w, m

LEMMA LastRegion ==
  ASSUME NEW list, GoodList(list), NEW i \in 1 .. Len(list), NEW x, First(list[i]) <= x
  PROVE  \E j \in i .. Len(list) : First(list[j]) <= x /\ (j < Len(list) => ~(First(list[j + 1]) <= x))
<1> DEFINE T == Len(list) - i
           G == {n \in 0 .. T : First(list[i + n]) <= x}
<1>1. Len(list) \in Nat /\ i \in Nat /\ T \in Nat
  BY DEF GoodList
<1>2. SUFFICES ASSUME \A j \in i .. Len(list) : First(list[j]) <= x => j < Len(list) /\ First(list[j + 1]) <= x
               PROVE  FALSE
  OBVIOUS
<1>3. 0 \in G
  <2>1. i + 0 = i /\ 0 \in 0 .. T
    BY <1>1
  <2> QED BY <2>1
<1>4. ASSUME NEW n \in 1 .. T, n - 1 \in G PROVE n \in G
  <2>1. i + (n - 1) \in i .. Len(list) /\ i + (n - 1) + 1 = i + n /\ n \in 0 .. T
    BY <1>1
  <2>2. First(list[i + (n - 1)]) <= x
    BY <1>4
  <2>3. First(list[i + (n - 1) + 1]) <= x
    BY <1>2, <2>1, <2>2
  <2> QED BY <2>1, <2>3
<1>5. T \in G
  <2>1. \A n \in 0 .. T : n \in G
    <3>1. T \in Nat
      BY <1>1
    <3> HIDE DEF G, T
    <3> QED BY <1>3, <1>4, <3>1, Induction
  <2>2. T \in 0 .. T
    BY <1>1
  <2> QED BY <2>1, <2>2
<1>6. i + T = Len(list) /\ Len(list) \in i .. Len(list)
  BY <1>1
<1>7. First(list[Len(list)]) <= x
  BY <1>5, <1>6
<1> QED BY <1>1, <1>2, <1>6, <1>7

(* What the update reads for a byte of an item, in any region of its area  *)
(* that does not begin behind the byte.                                    *)
BehindStart(r, a, k) == r.hardwareAddress <= a + k
ReadAt(mem, r, junk, a, k) == Buffer(mem, r, VirtualIndex[a] + k, junk) = mem[a + k]
Begun(r, a, k) == First(r) <= VirtualIndex[a] + k
BeforeLast(r, a, k) == VirtualIndex[a] + k < LastIndexToRead(r)
WithinReach(r, a, k) == VirtualIndex[a] + k < Reach(r)

LEMMA ItemBuffer ==
  ASSUME typeSize \in Sizes, NEW mem, NEW junk, NEW j \in 1 .. Len(Areas), NEW a \in Nat,
         WholeIn(a, j), NEW k \in 0 .. typeSize - 1,
         NEW r, Placed(r), r.hardwareAddress \in AreaBytes(j), RestRead(a, r), BehindStart(r, a, k)
  PROVE  ReadAt(mem, r, junk, a, k)
<1> DEFINE c == Areas[j].base
           s == AreaStart(j)
           h == r.hardwareAddress
           v == r.virtualIndex
           u == VirtualIndex[a]
           e == RegionEnd(r)
           t == typeSize
<1>1. u = s + (a - c) /\ v = s + (h - c) /\ u \in Nat
  <2>1. a \in AreaBytes(j) /\ v = VirtualIndex[h]
    <3>1. 0 \in 0 .. typeSize - 1
      BY StepType
    <3> QED BY <3>1, ItemBytes DEF Placed
  <2> QED BY <2>1, IndexOf
<1>2. /\ h \in Nat /\ e \in Nat /\ v \in Nat /\ t \in {1, 2, 4, 8}
      /\ \A d : d \in BytesOf(r) <=> d \in Nat /\ h <= d /\ d < e
  BY RegionEnds, StepType DEF Placed
<1>3. c \in Nat /\ s \in Nat
  <2>1. c \in Nat /\ j \in 1 .. Len(Areas) + 1
    BY AreaFacts
  <2> QED BY <2>1, AreaStarts
<1>4. k \in Nat /\ k < t
  BY <1>2
<1>5. h <= a + k /\ (a + t <= e \/ TailBytes(r) \subseteq Addresses)
  BY DEF RestRead, BehindStart
<1>6. Buffer(mem, r, u + k, junk) =
        IF h + ((u + k) - v) \in BytesOf(r) \/ TailBytes(r) \subseteq Addresses
        THEN mem[h + ((u + k) - v)] ELSE junk
  BY DEF Buffer
<1> HIDE DEF c, s, h, v, u, e, t
<1>7. h + ((u + k) - v) = a + k
  BY <1>1, <1>2, <1>3, <1>4
<1>8. a + t <= e => a + k \in BytesOf(r)
  BY <1>2, <1>4, <1>5
<1>9. Buffer(mem, r, u + k, junk) = mem[a + k]
  BY <1>5, <1>6, <1>7, <1>8
<1> QED BY <1>9 DEF ReadAt, u

LEMMA ReadableFacts ==
  ASSUME typeSize \in Sizes, NEW list, GoodList(list), NEW a \in Readable(list)
  PROVE  /\ a \in Nat /\ a % Step = 0
         /\ \E i \in 1 .. Len(list) : a \in BytesOf(list[i])
         /\ \E j \in 1 .. Len(Areas) : WholeIn(a, j)
         /\ \A i \in 1 .. Len(list), f \in a .. a + typeSize - 1 :
              f \in BytesOf(list[i]) /\ f % Step = 0 =>
                RestRead(a, list[i])
<1>1. a \in Bytes(list) /\ a % Step = 0
  BY DEF Readable, ItemsIn
<1>2. a \in Nat /\ \E i \in 1 .. Len(list) : a \in BytesOf(list[i])
  BY <1>1, BytesType, InBytes
<1>3. \E j \in 1 .. Len(Areas) : WholeIn(a, j)
  BY DEF Readable, WholeIn
<1>4. ASSUME NEW i \in 1 .. Len(list), NEW f \in a .. a + typeSize - 1, f \in BytesOf(list[i]), f % Step = 0
      PROVE  RestRead(a, list[i])
  <2>1. Bytes(<<list[i]>>) = BytesOf(list[i])
    BY DEF Bytes
  <2>2. f \in ItemsIn(<<list[i]>>, Step)
    BY <1>4, <2>1 DEF ItemsIn
  <2>3. ItemsIn(<<list[i]>>, Step) \cap a .. a + typeSize - 1 # {}
    BY <2>2
  <2> QED BY <2>3 DEF Readable, RestRead
<1> QED BY <1>1, <1>2, <1>3, <1>4

(* A byte of an item, in the region of the item.                           *)
LEMMA OwnRegion ==
  ASSUME typeSize \in Sizes, NEW mem, NEW junk, NEW list, GoodList(list), NEW a \in Readable(list),
         NEW i \in 1 .. Len(list), a \in BytesOf(list[i]), NEW k \in 0 .. typeSize - 1
  PROVE  /\ ReadAt(mem, list[i], junk, a, k) /\ Begun(list[i], a, k)
         /\ BeforeLast(list[i], a, k) /\ WithinReach(list[i], a, k)
<1> DEFINE r == list[i]
           h == r.hardwareAddress
           u == VirtualIndex[a]
           t == typeSize
           last == LastIndexToRead(r)
           f == First(r)
<1>1. a \in Nat /\ a % Step = 0 /\ Placed(r) /\ t \in {1, 2, 4, 8}
  BY ReadableFacts, StepType DEF GoodList
<1>2. PICK j \in 1 .. Len(Areas) : WholeIn(a, j)
  BY ReadableFacts
<1>3. PICK m \in 1 .. Len(Areas) : BytesOf(r) \subseteq AreaBytes(m)
  BY <1>1 DEF Placed
<1>4. a \in a .. a + t - 1 /\ k \in Nat /\ k < t /\ a + k >= a
  BY <1>1
<1>5. j = m
  BY <1>2, <1>3, <1>4, AreasApart DEF WholeIn
<1>6. h \in Nat /\ h <= a /\ h \in BytesOf(r)
  BY <1>1, RegionEnds DEF Placed
<1>7. h \in AreaBytes(j) /\ h <= a + k
  <2>1. h <= a + k
    <3> HIDE DEF h
    <3> QED BY <1>1, <1>4, <1>6
  <2> QED BY <1>3, <1>5, <1>6, <2>1
<1>8. RestRead(a, r)
  BY <1>1, <1>4, ReadableFacts
<1>9. ReadAt(mem, r, junk, a, k)
  <2>1. BehindStart(r, a, k)
    BY <1>7 DEF BehindStart
  <2> QED BY <1>1, <1>2, <1>7, <1>8, <2>1, ItemBuffer
<1>10. f <= u /\ u < End(r) /\ u + t <= last /\ last \in Int
  BY <1>1, LastFacts
<1>11. u \in Nat /\ f \in Nat /\ (last > f => Reach(r) = last)
  BY <1>1, <1>2, ItemBytes, FirstType, ReachFacts DEF Placed
<1> HIDE DEF r, u, t, last, f
<1>12. u + k < last /\ f <= u + k /\ last > f
  BY <1>1, <1>4, <1>10, <1>11
<1>13. u + k < Reach(r)
  BY <1>11, <1>12
<1> QED BY <1>9, <1>12, <1>13 DEF Begun, BeforeLast, WithinReach, r, u, last, f

(* A byte of an item, in a later region that it reaches into.              *)
LEMMA LaterRegion ==
  ASSUME typeSize \in Sizes, NEW mem, NEW junk, NEW list, GoodList(list), NEW a \in Readable(list),
         NEW i \in 1 .. Len(list), a \in BytesOf(list[i]), NEW k \in 0 .. typeSize - 1,
         NEW n \in 1 .. Len(list), i < n, Begun(list[n], a, k)
  PROVE  ReadAt(mem, list[n], junk, a, k) /\ BeforeLast(list[n], a, k)
<1> DEFINE q == list[n]
           g == q.hardwareAddress
           w == q.virtualIndex
           skip == StartSkipSize(q, Step)
           u == VirtualIndex[a]
           t == typeSize
           last == LastIndexToRead(q)
           end == End(q)
           p == End(list[i])
           y == q.size
<1>1. /\ a \in Nat /\ a % Step = 0 /\ Placed(q) /\ Placed(list[i]) /\ t \in {1, 2, 4, 8}
      /\ Step \in {1, 2, 4, 8}
  BY ReadableFacts, StepType DEF GoodList
<1>2. q \in Region /\ list[i] \in Region
  BY <1>1 DEF Placed
<1>3. PICK j \in 1 .. Len(Areas) : WholeIn(a, j)
  BY ReadableFacts
<1>4. PICK m \in 1 .. Len(Areas) :
           /\ Areas[m].base <= g
           /\ RegionEnd(q) <= Areas[m].base + Areas[m].size
           /\ w = AreaStart(m) + (g - Areas[m].base)
           /\ AreaStart(m) \in Nat /\ Areas[m].base \in Nat /\ Areas[m].size \in Nat
  BY <1>1, RegionInArea
<1>5. k \in Nat /\ k < t
  BY <1>1
<1>6. u < p /\ p <= w /\ p \in Int
  <2>1. u < p
    BY <1>1, LastFacts
  <2>2. p <= w
    BY ListOrder
  <2>3. p \in Int
    BY <1>2, FirstType
  <2> QED BY <2>1, <2>2, <2>3
<1>7. /\ g \in Nat /\ y \in Nat \ {0} /\ w \in Nat /\ RegionEnd(q) = g + y /\ end = w + y
      /\ g \in BytesOf(q)
  BY <1>2, RegionEnds DEF End
<1>8. skip \in Nat /\ (g + skip) % Step = 0
  <2>1. skip \in 0 .. Step - 1 /\ (g + skip) % Step = 0
    BY <1>1, <1>2, SkipFacts
  <2> QED BY <1>1, <2>1
<1>9. w + skip <= u + k
  BY DEF First, Begun
<1> DEFINE b == Areas[j].base
           z == Areas[j].size
           s == AreaStart(j)
           c == Areas[m].base
           x == Areas[m].size
           o == AreaStart(m)
<1>10. /\ u = s + (a - b) /\ u \in Nat /\ u + k < s + z /\ b <= a
       /\ b \in Nat /\ z \in Nat /\ s \in Nat
  <2>1. a \in AreaBytes(j) /\ a + k \in AreaBytes(j)
    BY <1>1, <1>3, ItemBytes
  <2>2. u = s + (a - b) /\ u \in Nat
    BY <2>1, IndexOf
  <2>3. b \in Nat /\ z \in Nat /\ j \in 1 .. Len(Areas) + 1
    BY AreaFacts
  <2>4. s \in Nat
    BY <2>3, AreaStarts
  <2>5. a \in b .. b + z - 1 /\ a + k \in b .. b + z - 1
    BY <2>1 DEF AreaBytes
  <2> HIDE DEF u, b, z, s
  <2> QED BY <1>1, <1>5, <2>2, <2>3, <2>4, <2>5
<1>11. c <= g /\ g + y <= c + x /\ w = o + (g - c) /\ o \in Nat /\ c \in Nat /\ x \in Nat
  BY <1>4, <1>7
<1>12. j < m => s + z <= o
  <2>1. m \in 1 .. Len(Areas) + 1
    BY AreaFacts
  <2> QED BY <2>1, AreasInOrder
<1>13. m < j => o + x <= s
  <2>1. j \in 1 .. Len(Areas) + 1
    BY AreaFacts
  <2> QED BY <2>1, AreasInOrder
<1>14. j = m => b = c /\ s = o
  OBVIOUS
<1>15. j = m
  <2>1. j = m \/ j < m \/ m < j
    BY AreaFacts
  <2> HIDE DEF g, w, skip, u, t, p, y, b, z, s, c, x, o
  <2>2. CASE j < m
    BY <1>5, <1>7, <1>8, <1>9, <1>10, <1>11, <1>12, <2>2
  <2>3. CASE m < j
    BY <1>6, <1>7, <1>10, <1>11, <1>13, <2>3
  <2> QED BY <2>1, <2>2, <2>3
<1>16. a < g /\ g + skip <= a + k /\ g <= a + k
  <2> HIDE DEF g, w, skip, u, t, p, y, b, z, s, c, x, o
  <2> QED BY <1>1, <1>5, <1>6, <1>7, <1>8, <1>9, <1>10, <1>11, <1>14, <1>15
<1>17. Step = 1
  <2>1. SUFFICES ASSUME Step = t PROVE Step = 1
    BY DEF Step
  <2> DEFINE f == g + skip
  <2>2. f \in Nat /\ f % Step = 0 /\ a < f /\ f <= a + k
    <3>1. f % Step = 0 /\ skip \in Nat
      BY <1>8
    <3>2. g \in Nat /\ a < g /\ g + skip <= a + k
      BY <1>7, <1>16
    <3> HIDE DEF g, skip
    <3>3. g + skip \in Nat /\ a < g + skip
      BY <1>1, <3>1, <3>2
    <3> QED BY <3>1, <3>2, <3>3
  <2> HIDE DEF f
  <2>3. a + Step <= f
    BY <1>1, <2>2, MultipleFacts
  <2>4. FALSE
    BY <1>1, <1>5, <2>1, <2>2, <2>3
  <2> QED BY <2>4
<1>18. g \in a .. a + t - 1 /\ g % Step = 0
  <2>1. g \in a .. a + t - 1
    <3> HIDE DEF g, t, skip
    <3> QED BY <1>1, <1>5, <1>7, <1>16
  <2>2. g % 1 = 0
    <3> HIDE DEF g
    <3> QED BY <1>7
  <2> QED BY <1>17, <2>1, <2>2
<1>19. RestRead(a, q)
  BY <1>7, <1>18, ReadableFacts
<1>20. g \in AreaBytes(j)
  <2>1. g \in c .. c + x - 1
    <3>1. g \in Nat /\ y \in Nat /\ 0 < y
      BY <1>7
    <3>2. c <= g /\ g + y <= c + x /\ c \in Nat /\ x \in Nat
      BY <1>11
    <3> HIDE DEF g, y, c, x
    <3>3. g <= c + x - 1
      BY <3>1, <3>2
    <3> QED BY <3>1, <3>2, <3>3
  <2> QED BY <1>15, <2>1 DEF AreaBytes
<1>21. ReadAt(mem, q, junk, a, k)
  <2>1. BehindStart(q, a, k)
    BY <1>16 DEF BehindStart
  <2> QED BY <1>1, <1>3, <1>19, <1>20, <2>1, ItemBuffer
<1>22. last = end + t - 1
  BY <1>1, <1>17, LastFacts
<1>23. u + k < last
  <2>1. u \in Nat /\ y \in Nat \ {0} /\ w \in Nat /\ end = w + y /\ t \in Nat
    <3>1. t \in Nat
      BY <1>1
    <3>2. y \in Nat \ {0} /\ w \in Nat /\ end = w + y
      BY <1>7
    <3>3. u \in Nat
      BY <1>10
    <3> HIDE DEF u, y, w, end, t
    <3> QED BY <3>1, <3>2, <3>3
  <2> HIDE DEF g, w, u, t, p, y, last, end
  <2>2. u < w /\ k < t /\ k \in Nat
    BY <1>5, <1>6, <2>1
  <2>3. u + k < w + y + t - 1
    BY <2>1, <2>2
  <2> QED BY <1>22, <2>1, <2>3 DEF last
<1> QED BY <1>21, <1>23 DEF BeforeLast

(* What an update makes of an item that can be read: its value becomes the *)
(* one in memory, whichever regions it reaches into, and it counts a       *)
(* change if one of its bytes differs.                                     *)
Shows(t, c, mem, a) == \A k \in 0 .. t - 1 : c[VirtualIndex[a] + k] = mem[a + k]

LEMMA ItemShown ==
  ASSUME typeSize \in Sizes, NEW mem \in [Addresses -> Values], NEW list, GoodList(list),
         NEW copyPrev \in BOOLEAN, NEW junk \in Values, NEW st \in ArrayStates, NEW new,
         ListAt(new, st, mem, list, copyPrev, junk, Len(list)), NEW a \in Readable(list)
  PROVE  Shows(typeSize, new.cur, mem, a)
<1> SUFFICES ASSUME NEW k \in 0 .. typeSize - 1 PROVE new.cur[VirtualIndex[a] + k] = mem[a + k]
  BY DEF Shows
<1> DEFINE x == VirtualIndex[a] + k
<1>1. PICK i \in 1 .. Len(list) : a \in BytesOf(list[i])
  BY ReadableFacts
<1>2. a \in Nat /\ \E j \in 1 .. Len(Areas) : WholeIn(a, j)
  BY ReadableFacts
<1>3. x \in Indices /\ x \in Int
  <2>1. x \in Indices
    BY <1>2, ItemBytes
  <2> HIDE DEF x
  <2> QED BY <2>1 DEF Indices
<1>4. ReadAt(mem, list[i], junk, a, k) /\ Begun(list[i], a, k) /\ BeforeLast(list[i], a, k)
  BY <1>1, OwnRegion
<1>5. PICK n \in i .. Len(list) :
        First(list[n]) <= x /\ (n < Len(list) => ~(First(list[n + 1]) <= x))
  <2>1. First(list[i]) <= x
    BY <1>4 DEF Begun
  <2> HIDE DEF x
  <2> QED BY <2>1, LastRegion
<1>6. Len(list) \in Nat /\ n \in 1 .. Len(list) /\ (n = i \/ i < n)
  BY DEF GoodList
<1>7. Buffer(mem, list[n], x, junk) = mem[a + k] /\ x < LastIndexToRead(list[n])
  <2>1. Begun(list[n], a, k)
    BY <1>5 DEF Begun
  <2>2. CASE n = i
    BY <1>4, <2>2 DEF ReadAt, BeforeLast
  <2>3. CASE i < n
    <3>1. ReadAt(mem, list[n], junk, a, k) /\ BeforeLast(list[n], a, k)
      BY <1>1, <1>6, <2>1, <2>3, LaterRegion
    <3> QED BY <3>1 DEF ReadAt, BeforeLast
  <2> QED BY <1>6, <2>2, <2>3
<1>8. n < Len(list) => x < First(list[n + 1])
  <2> SUFFICES ASSUME n < Len(list) PROVE x < First(list[n + 1])
    OBVIOUS
  <2>1. n + 1 \in 1 .. Len(list)
    BY <1>6
  <2>2. list[n + 1] \in Region
    BY <2>1 DEF GoodList
  <2>3. First(list[n + 1]) \in Nat
    BY <2>2, FirstType
  <2>4. ~(First(list[n + 1]) <= x)
    BY <1>5
  <2> HIDE DEF x
  <2> QED BY <1>3, <2>3, <2>4
<1>9. Copies(list, n, x)
  <2>1. First(list[n]) <= x
    BY <1>5
  <2> HIDE DEF x
  <2>2. x < LastIndexToRead(list[n])
    BY <1>7 DEF x
  <2> QED BY <1>3, <1>6, <1>8, <2>1, <2>2, CopyEndFacts DEF Copies
<1>10. new.cur[x] = Buffer(mem, list[n], x, junk)
  <2> HIDE DEF x
  <2> QED BY <1>3, <1>6, <1>9 DEF ListAt
<1> QED BY <1>7, <1>10

LEMMA ItemCounted ==
  ASSUME typeSize \in Sizes, NEW mem \in [Addresses -> Values], NEW list, GoodList(list),
         NEW copyPrev \in BOOLEAN, NEW junk \in Values, NEW st \in ArrayStates, NEW new,
         ListAt(new, st, mem, list, copyPrev, junk, Len(list)), NEW a \in Readable(list)
  PROVE  new.num[VirtualIndex[a]] =
           IF Shows(typeSize, st.cur, mem, a) THEN st.num[VirtualIndex[a]]
           ELSE (st.num[VirtualIndex[a]] + 1) % CountModulus
<1> DEFINE e == VirtualIndex[a]
<1>1. PICK i \in 1 .. Len(list) : a \in BytesOf(list[i])
  BY ReadableFacts
<1>2. 0 \in 0 .. typeSize - 1
  BY StepType
<1>3. e \in Indices
  <2>1. a \in Nat /\ \E j \in 1 .. Len(Areas) : WholeIn(a, j)
    BY ReadableFacts
  <2> QED BY <1>2, <2>1, ItemBytes
<1>4. ASSUME NEW k \in 0 .. typeSize - 1
      PROVE  Buffer(mem, list[i], e + k, junk) = mem[a + k] /\ e + k < Reach(list[i])
  <2>1. ReadAt(mem, list[i], junk, a, k) /\ WithinReach(list[i], a, k)
    BY <1>1, OwnRegion
  <2> QED BY <2>1 DEF ReadAt, WithinReach
<1>5. Counts(list, i, e)
  <2>1. a % Step = 0 /\ Placed(list[i])
    BY ReadableFacts DEF GoodList
  <2> QED BY <1>1, <2>1, LastFacts DEF Counts
<1>6. ChangedBefore(st, mem, list[i], junk, e, Reach(list[i])) <=> ~Shows(typeSize, st.cur, mem, a)
  BY <1>4 DEF ChangedBefore, Shows
<1>7. new.num[e] = IF ChangedBefore(st, mem, list[i], junk, e, Reach(list[i]))
                   THEN (st.num[e] + 1) % CountModulus ELSE st.num[e]
  <2> HIDE DEF e
  <2> QED BY <1>3, <1>5 DEF ListAt
<1> QED BY <1>6, <1>7

(* A copy of the previous values reaches the bytes it is said to reach.    *)
Remembers(p, ref, known) ==
  \A b \in known : p[VirtualIndex[b[1]] + b[2]] = ref[VirtualIndex[b[1]] + b[2]]
LEMMA ItemCopied ==
  ASSUME typeSize \in Sizes, NEW mem, NEW list, GoodList(list), NEW junk, NEW st, NEW new,
         NEW copyPrev, copyPrev, ListAt(new, st, mem, list, copyPrev, junk, Len(list))
  PROVE  Remembers(new.prev, st.cur, Copied(list))
<1> SUFFICES ASSUME NEW byte \in Copied(list)
             PROVE  new.prev[VirtualIndex[byte[1]] + byte[2]] = st.cur[VirtualIndex[byte[1]] + byte[2]]
  BY DEF Remembers
<1> DEFINE a == byte[1]
           k == byte[2]
<1>1. /\ a % Step = 0 /\ k \in 0 .. typeSize - 1
      /\ \E i \in 1 .. Len(list) :
           a \in BytesOf(list[i]) /\ a + k < RegionEnd(list[i]) + typeSize - Step
  BY DEF Copied, ItemsIn
<1> HIDE DEF a, k
<1>2. PICK i \in 1 .. Len(list) :
        a \in BytesOf(list[i]) /\ a + k < RegionEnd(list[i]) + typeSize - Step
  BY <1>1
<1> DEFINE r == list[i]
           h == r.hardwareAddress
           v == r.virtualIndex
           y == r.size
           u == VirtualIndex[a]
           f == First(r)
           t == typeSize
           w == Step
           m == MAX_RAM_SIZE
<1>3. Placed(r) /\ r \in Region
  BY DEF GoodList, Placed
<1>4. /\ h \in Nat /\ y \in Nat /\ v \in Nat /\ RegionEnd(r) = h + y /\ End(r) = v + y
      /\ a \in Nat /\ h <= a
  BY <1>2, <1>3, RegionEnds DEF End
<1>5. u = v + (a - h)
  BY <1>2, <1>3, PlacedIndex
<1>6. f <= u /\ u < End(r)
  BY <1>1, <1>2, <1>3, LastFacts
<1>7. t \in {1, 2, 4, 8} /\ w \in {1, 2, 4, 8} /\ f \in Nat
  BY <1>3, StepType, FirstType
<1>8. End(r) <= m /\ m \in Nat
  <2>1. PICK j \in 1 .. Len(Areas) :
          /\ RegionEnd(r) <= Areas[j].base + Areas[j].size
          /\ v = AreaStart(j) + (h - Areas[j].base)
          /\ AreaStart(j) \in Nat /\ Areas[j].base \in Nat /\ Areas[j].size \in Nat
          /\ AreaStart(j) + Areas[j].size <= m /\ m \in Nat
    BY <1>3, RegionInArea
  <2> DEFINE b == Areas[j].base
             z == Areas[j].size
             s == AreaStart(j)
             e == RegionEnd(r)
             end == End(r)
  <2>2. e <= b + z /\ v = s + (h - b) /\ s \in Nat /\ b \in Nat /\ z \in Nat /\ s + z <= m /\ m \in Nat
    BY <2>1
  <2>3. h \in Nat /\ y \in Nat /\ e = h + y /\ end = v + y
    BY <1>4
  <2> HIDE DEF b, z, s, e, end, h, v, y, m
  <2>4. end <= m
    BY <2>2, <2>3
  <2> QED BY <2>2, <2>4 DEF end
<1>9. a + k < h + y + t - w /\ k \in Nat /\ k < t
  BY <1>1, <1>2, <1>4, <1>7
<1> DEFINE x == u + k
           end == End(r)
<1>10. end = v + y /\ end <= m
  BY <1>4, <1>8
<1> HIDE DEF h, v, y, u, f, t, w, m, end
<1>11. x \in Nat /\ f <= x /\ x < end + t - w /\ x < m + 8
  BY <1>4, <1>5, <1>6, <1>7, <1>8, <1>9, <1>10
<1>12. x \in Indices
  <2> HIDE DEF x
  <2> QED BY <1>8, <1>11 DEF Indices, m
<1>13. First(list[i]) <= x /\ x < End(list[i]) + typeSize - Step
  BY <1>11 DEF f, end, t, w
<1>14. new.prev[x] = st.cur[x]
  <2> HIDE DEF x
  <2> QED BY <1>12, <1>13 DEF ListAt
<1> QED BY <1>14 DEF a, k, u

-----------------------------------------------------------------------------
(* The types.  Those of the list and of the number shown are above.        *)
ArraysIn(c, p, n) ==
  /\ c \in [Indices -> Values] /\ p \in [Indices -> Values]
  /\ n \in [Indices -> 0 .. CountModulus - 1]
ArraysInv ==
  /\ memory \in [Addresses -> Values] /\ undoType \in {-1, 0, 1, 2}
  /\ ArraysIn(cur, prev, num)
  /\ needPrev \in BOOLEAN /\ noMisalign \in BOOLEAN /\ isOpen \in BOOLEAN

LEMMA StateArrays ==
  ASSUME NEW st \in ArrayStates
  PROVE  ArraysIn(st.cur, st.prev, st.num)
  BY DEF ArrayStates, ArraysIn

LEMMA NoCount == 0 \in 0 .. CountModulus - 1 /\ NoChanges \in [Indices -> 0 .. CountModulus - 1]
<1>1. CountModulus \in Nat \ {0}
  BY RamSearchAssumption, Zenon
<1>2. 0 \in 0 .. CountModulus - 1
  BY <1>1
<1> QED BY <1>2 DEF NoChanges

(* Changes before an index of the arrays are forgotten.                    *)
LEMMA ForgetCounts ==
  ASSUME NEW n \in [Indices -> 0 .. CountModulus - 1]
  PROVE  [i \in Indices |-> IF i < MAX_RAM_SIZE THEN 0 ELSE n[i]] \in [Indices -> 0 .. CountModulus - 1]
  BY NoCount

LEMMA ArraysState ==
  ASSUME ArraysIn(cur, prev, num)
  PROVE  Arrays \in ArrayStates /\ [Arrays EXCEPT !.prev = cur] \in ArrayStates
<1>1. Arrays = [cur |-> cur, prev |-> prev, num |-> num, nextValid |-> <<>>]
  BY DEF Arrays
<1>2. [Arrays EXCEPT !.prev = cur] = [cur |-> cur, prev |-> cur, num |-> num, nextValid |-> <<>>]
  BY DEF Arrays
<1> QED BY <1>1, <1>2 DEF ArraysIn, ArrayStates

LEMMA ResetTypes ==
  ASSUME typeSize \in Sizes, NEW st \in ArrayStates, NEW mem \in [Addresses -> Values],
         ResetAddressInfo(st, mem)
  PROVE  ArraysIn(cur', prev', num') /\ needPrev' = FALSE
<1>1. PICK junk \in Values :
        LET first  == UpdateRegions(st, mem, AllRegions, FALSE, junk)
            second == UpdateRegions(first, mem, AllRegions, TRUE, junk)
        IN /\ cur' = second.cur /\ prev' = second.prev
           /\ num' = [i \in Indices |-> IF i < MAX_RAM_SIZE THEN 0 ELSE second.num[i]]
           /\ needPrev' = FALSE
  BY DEF ResetAddressInfo
<1> DEFINE first == UpdateRegions(st, mem, AllRegions, FALSE, junk)
           second == UpdateRegions(first, mem, AllRegions, TRUE, junk)
<1>2. first \in ArrayStates
  BY AllRegionsGood, UpdateRegionsType
<1> HIDE DEF first
<1>3. second \in ArrayStates
  BY <1>2, AllRegionsGood, UpdateRegionsType
<1>4. /\ cur' = second.cur /\ prev' = second.prev
      /\ num' = [i \in Indices |-> IF i < MAX_RAM_SIZE THEN 0 ELSE second.num[i]]
      /\ needPrev' = FALSE
  BY <1>1 DEF first
<1> HIDE DEF second
<1>5. ArraysIn(second.cur, second.prev, second.num)
  BY <1>3, StateArrays
<1>6. num' \in [Indices -> 0 .. CountModulus - 1]
  BY <1>4, <1>5, ForgetCounts DEF ArraysIn
<1> QED BY <1>4, <1>5, <1>6 DEF ArraysIn

LEMMA ArraysInit ==
  ASSUME Init
  PROVE  ArraysInv
<1>1. 0 \in Values
  BY RamSearchAssumption, Zenon
<1>2. /\ memory \in [Addresses -> {0}] /\ undoType = 0 /\ num = NoChanges
      /\ cur = InitArray /\ prev = InitArray
      /\ needPrev = FALSE /\ noMisalign \in BOOLEAN /\ isOpen = TRUE
  BY DEF Init
<1>3. memory \in [Addresses -> Values]
  BY <1>1, <1>2
<1>4. InitArray \in [Indices -> Values]
  <2> SUFFICES ASSUME NEW i \in Indices
               PROVE  (IF \E a \in Addresses : VirtualIndex[a] = i
                       THEN memory[CHOOSE a \in Addresses : VirtualIndex[a] = i] ELSE 0) \in Values
    BY DEF InitArray
  <2>1. CASE \E a \in Addresses : VirtualIndex[a] = i
    <3> DEFINE b == CHOOSE a \in Addresses : VirtualIndex[a] = i
    <3>1. b \in Addresses
      BY <2>1
    <3> HIDE DEF b
    <3>2. memory[b] \in Values
      BY <1>3, <3>1
    <3> QED BY <2>1, <3>2 DEF b
  <2>2. CASE ~ \E a \in Addresses : VirtualIndex[a] = i
    BY <1>1, <2>2
  <2> QED BY <2>1, <2>2
<1> QED BY <1>2, <1>3, <1>4, NoCount DEF ArraysInv, ArraysIn

(* The memory after the game has written.                                  *)
LEMMA WrittenType ==
  ASSUME memory \in [Addresses -> Values], NEW W, NEW v \in Values
  PROVE  [a \in Addresses |-> IF a \in W THEN v ELSE memory[a]] \in [Addresses -> Values]
  OBVIOUS

LEMMA ArraysNext ==
  ASSUME ListsInv, ArraysInv, [Next]_vars
  PROVE  ArraysInv'
<1> USE DEF ArraysInv
<1>a. typeSize \in Sizes /\ GoodList(regions) /\ Arrays \in ArrayStates
      /\ [Arrays EXCEPT !.prev = cur] \in ArrayStates
  BY ArraysState DEF ListsInv
<1>1. CASE Reset
  <2>1. ResetAddressInfo(Arrays, memory) /\ UNCHANGED <<memory, noMisalign, isOpen>>
    BY <1>1 DEF Reset, dialog
  <2>2. undoType' \in {0, 1}
    BY <1>1 DEF Reset
  <2>3. ArraysIn(cur', prev', num') /\ needPrev' = FALSE
    BY <1>a, <2>1, ResetTypes
  <2> QED BY <2>1, <2>2, <2>3 DEF ArraysIn
<1>2. CASE ResetChanges
  <2>1. /\ num' = [i \in Indices |-> IF i < MAX_RAM_SIZE THEN 0 ELSE num[i]]
        /\ UNCHANGED <<memory, undoType, cur, prev, needPrev, noMisalign, isOpen>>
    BY <1>2 DEF ResetChanges, lists, dialog
  <2>2. num' \in [Indices -> 0 .. CountModulus - 1]
    BY <2>1, ForgetCounts DEF ArraysIn
  <2> QED BY <2>1, <2>2 DEF ArraysIn
<1>3. CASE Undo
  <2>1. UNCHANGED <<memory, cur, prev, num, needPrev, noMisalign, isOpen>>
    BY <1>3 DEF Undo, dialog, arrays
  <2>2. undoType > 0 /\ undoType' \in {3 - undoType, -1}
    BY <1>3 DEF Undo
  <2>3. undoType' \in {-1, 1, 2}
    BY <2>2
  <2> QED BY <2>1, <2>3 DEF ArraysIn
<1>4. ASSUME NEW size \in Sizes, NEW align \in BOOLEAN, SetType(size, align)
      PROVE  ArraysInv'
  <2>1. UNCHANGED <<memory, undoType, cur, prev, num, needPrev, isOpen>> /\ noMisalign' = align
    BY <1>4 DEF SetType, lists, arrays
  <2> QED BY <2>1 DEF ArraysIn
<1>5. ASSUME NEW criterion \in Criteria, NEW auto \in BOOLEAN, BeginSearch(criterion, auto)
      PROVE  ArraysInv'
  <2>1. UNCHANGED <<memory, cur, prev, num, needPrev, noMisalign, isOpen>>
    BY <1>5 DEF BeginSearch, dialog, arrays
  <2>2. undoType' \in {undoType, 0, 1}
    BY <1>5 DEF BeginSearch, SaveUndoState
  <2> QED BY <2>1, <2>2 DEF ArraysIn
<1>6. CASE StopAutoSearch
  BY <1>6 DEF StopAutoSearch, lists, dialog, arrays, ArraysIn
<1>7. CASE FinishSearch
  <2>1. UNCHANGED <<memory, cur, prev, num, noMisalign, isOpen>> /\ needPrev' = TRUE
    BY <1>7 DEF FinishSearch, FinishPrune, dialog, arrays
  <2>2. undoType' \in {undoType, 0}
    BY <1>7 DEF FinishSearch, FinishPrune
  <2> QED BY <2>1, <2>2 DEF ArraysIn
<1>8. CASE ResetSearch
  <2>1. ResetAddressInfo(Arrays, memory) /\ UNCHANGED <<memory, undoType, noMisalign, isOpen>>
    BY <1>8 DEF ResetSearch, dialog
  <2>2. ArraysIn(cur', prev', num') /\ needPrev' = FALSE
    BY <1>a, <2>1, ResetTypes
  <2> QED BY <2>1, <2>2 DEF ArraysIn
<1>9. ASSUME NEW selected \in Selections, Eliminate(selected)
      PROVE  ArraysInv'
  <2>1. UNCHANGED <<memory, cur, prev, num, needPrev, noMisalign, isOpen>>
    BY <1>9 DEF Eliminate, dialog, arrays
  <2>2. undoType' \in {0, 1}
    BY <1>9 DEF Eliminate, SaveUndoState
  <2> QED BY <2>1, <2>2 DEF ArraysIn
<1>10. CASE CloseDialog
  BY <1>10 DEF CloseDialog, lists, arrays, ArraysIn
<1>11. CASE OpenDialog
  <2>1. UNCHANGED <<memory, noMisalign>> /\ isOpen' = TRUE
    BY <1>11 DEF OpenDialog
  <2>2. CASE resultCount = 0
    <3>1. ResetAddressInfo([Arrays EXCEPT !.prev = cur], memory) /\ undoType' = 0
      BY <1>11, <2>2 DEF OpenDialog
    <3>2. ArraysIn(cur', prev', num') /\ needPrev' = FALSE
      BY <1>a, <3>1, ResetTypes
    <3> QED BY <2>1, <3>1, <3>2 DEF ArraysIn
  <2>3. CASE resultCount # 0
    <3>1. PICK junk \in Values :
            LET st == UpdateRegions(Arrays, memory, regions, TRUE, junk)
            IN /\ cur' = st.cur /\ prev' = st.prev /\ num' = st.num
               /\ needPrev' = FALSE /\ undoType' = undoType
      BY <1>11, <2>3 DEF OpenDialog, lists
    <3> DEFINE st == UpdateRegions(Arrays, memory, regions, TRUE, junk)
    <3>2. st \in ArrayStates
      BY <1>a, UpdateRegionsType
    <3>3. cur' = st.cur /\ prev' = st.prev /\ num' = st.num /\ needPrev' = FALSE
          /\ undoType' = undoType
      BY <3>1
    <3> HIDE DEF st
    <3>4. ArraysIn(st.cur, st.prev, st.num)
      BY <3>2, StateArrays
    <3> QED BY <2>1, <3>3, <3>4 DEF ArraysIn
  <2> QED BY <2>2, <2>3
<1>12. ASSUME NEW W \in WriteSets, NEW v \in Values, Frame(W, v)
       PROVE  ArraysInv'
  <2>1. UNCHANGED <<undoType, noMisalign, isOpen>> /\ memory' \in [Addresses -> Values]
    BY <1>12, WrittenType DEF Frame, lists, dialog
  <2>2. CASE isOpen
    <3>1. UpdateValues(memory')
      BY <1>12, <2>2 DEF Frame
    <3>2. PICK junk \in Values :
            LET st == UpdateRegions(Arrays, memory', regions, needPrev, junk)
            IN cur' = st.cur /\ prev' = st.prev /\ num' = st.num /\ needPrev' = FALSE
      BY <3>1 DEF UpdateValues
    <3> DEFINE st == UpdateRegions(Arrays, memory', regions, needPrev, junk)
    <3>3. st \in ArrayStates
      BY <1>a, <2>1, UpdateRegionsType
    <3>4. cur' = st.cur /\ prev' = st.prev /\ num' = st.num /\ needPrev' = FALSE
      BY <3>2
    <3> HIDE DEF st
    <3>5. ArraysIn(st.cur, st.prev, st.num)
      BY <3>3, StateArrays
    <3> QED BY <2>1, <3>4, <3>5 DEF ArraysIn
  <2>3. CASE ~isOpen
    <3>1. UNCHANGED <<cur, prev, num, needPrev>>
      BY <1>12, <2>3 DEF Frame, arrays
    <3> QED BY <2>1, <3>1 DEF ArraysIn
  <2> QED BY <2>2, <2>3
<1>13. ASSUME NEW W \in WriteSets, NEW v \in Values, NEW abort \in BOOLEAN,
              FrameOutOfResults(W, v, abort)
       PROVE  ArraysInv'
  <2>1. UNCHANGED <<noMisalign, isOpen>> /\ memory' \in [Addresses -> Values] /\ undoType' = 0
    BY <1>13, WrittenType DEF FrameOutOfResults, dialog
  <2>2. CASE isOpen
    <3>1. ResetAddressInfo([Arrays EXCEPT !.prev = cur], memory')
      BY <1>13, <2>2 DEF FrameOutOfResults
    <3>2. ArraysIn(cur', prev', num') /\ needPrev' = FALSE
      BY <1>a, <2>1, <3>1, ResetTypes
    <3> QED BY <2>1, <3>2 DEF ArraysIn
  <2>3. CASE ~isOpen
    <3>1. prev' = cur /\ num' = NoChanges /\ cur' = cur /\ needPrev' = FALSE
      BY <1>13, <2>3 DEF FrameOutOfResults
    <3> QED BY <2>1, <3>1, NoCount DEF ArraysIn
  <2> QED BY <2>2, <2>3
<1>14. CASE AutoSearch
  BY <1>14 DEF AutoSearch, dialog, arrays, ArraysIn
<1>15. CASE FinishAutoSearch
  <2>1. UNCHANGED <<memory, cur, prev, num, noMisalign, isOpen>> /\ needPrev' = TRUE
    BY <1>15 DEF FinishAutoSearch, FinishPrune, dialog, arrays
  <2>2. undoType' \in {undoType, 0}
    BY <1>15 DEF FinishAutoSearch, FinishPrune
  <2> QED BY <2>1, <2>2 DEF ArraysIn
<1>16. CASE UNCHANGED vars
  BY <1>16 DEF vars, ArraysIn
<1> QED
  BY <1>1, <1>2, <1>3, <1>4, <1>5, <1>6, <1>7, <1>8, <1>9, <1>10, <1>11, <1>12, <1>13, <1>14,
     <1>15, <1>16 DEF Next

-----------------------------------------------------------------------------
(* Counts: a number of changes wraps around as an unsigned short does.     *)
LEMMA SameRest ==
  ASSUME NEW c \in Nat \ {0}, NEW q \in Int, NEW p \in Int, NEW r \in 0 .. c - 1, NEW s \in 0 .. c - 1,
         c * q + r = c * p + s
  PROVE  r = s
<1>1. CASE q = p
  BY <1>1
<1>2. CASE q < p
  <2> DEFINE d == p - q - 1
  <2>1. d \in Nat /\ p = q + 1 + d
    BY <1>2
  <2> HIDE DEF d
  <2>2. c * p = c * q + c + c * d
    BY <2>1
  <2>3. c * d \in Nat
    BY <2>1
  <2>4. c * q \in Int
    OBVIOUS
  <2> DEFINE x == c * q
             y == c * d
             z == c * p
  <2>5. z = x + c + y /\ y \in Nat /\ x \in Int /\ x + r = z + s
    BY <2>2, <2>3, <2>4
  <2> HIDE DEF x, y, z
  <2> QED BY <2>5
<1>3. CASE p < q
  <2> DEFINE d == q - p - 1
  <2>1. d \in Nat /\ q = p + 1 + d
    BY <1>3
  <2> HIDE DEF d
  <2>2. c * q = c * p + c + c * d
    BY <2>1
  <2>3. c * d \in Nat
    BY <2>1
  <2>4. c * p \in Int
    OBVIOUS
  <2> DEFINE x == c * p
             y == c * d
             z == c * q
  <2>5. z = x + c + y /\ y \in Nat /\ x \in Int /\ x + s = z + r
    BY <2>2, <2>3, <2>4
  <2> HIDE DEF x, y, z
  <2> QED BY <2>5
<1> QED BY <1>1, <1>2, <1>3

LEMMA Divided ==
  ASSUME NEW c \in Nat \ {0}, NEW x \in Int
  PROVE  x % c \in 0 .. c - 1 /\ x \div c \in Int /\ x = c * (x \div c) + (x % c)
  OBVIOUS

LEMMA RestOf ==
  ASSUME NEW c \in Nat \ {0}, NEW x \in Int, NEW q \in Int, NEW r \in 0 .. c - 1, x = c * q + r
  PROVE  x % c = r
<1> DEFINE p == x \div c
           s == x % c
<1>1. s \in 0 .. c - 1 /\ p \in Int /\ x = c * p + s
  BY Divided
<1> HIDE DEF p, s
<1>2. r = s
  BY <1>1, SameRest
<1> QED BY <1>2 DEF s

LEMMA NextCount ==
  ASSUME NEW c \in Nat \ {0}, NEW x \in Nat
  PROVE  ((x % c) + 1) % c = (x + 1) % c
<1> DEFINE q == x \div c
           r == x % c
<1>1. r \in 0 .. c - 1 /\ q \in Int /\ x = c * q + r
  BY Divided
<1> HIDE DEF q, r
<1>2. CASE r + 1 \in 0 .. c - 1
  <2>1. c * q \in Int /\ x + 1 = c * q + (r + 1) /\ r + 1 = c * 0 + (r + 1)
    BY <1>1
  <2>2. (x + 1) % c = r + 1 /\ (r + 1) % c = r + 1
    BY <1>1, <1>2, <2>1, RestOf
  <2> QED BY <2>2 DEF r
<1>3. CASE r + 1 = c
  <2>1. c * (q + 1) = c * q + c
    BY <1>1
  <2>2. c * q \in Int /\ x + 1 = c * q + c
    BY <1>1, <1>3
  <2>3. x + 1 = c * (q + 1) + 0 /\ r + 1 = c * 1 + 0 /\ q + 1 \in Int /\ 0 \in 0 .. c - 1
    BY <1>1, <1>3, <2>1, <2>2
  <2>4. (x + 1) % c = 0 /\ (r + 1) % c = 0
    BY <1>1, <2>3, RestOf
  <2> QED BY <2>4 DEF r
<1> QED BY <1>1, <1>2, <1>3

LEMMA NoRest == 0 % CountModulus = 0
<1>1. CountModulus \in Nat \ {0}
  BY RamSearchAssumption, Zenon
<1> DEFINE c == CountModulus
<1>2. c \in Nat \ {0}
  BY <1>1
<1> HIDE DEF c
<1>3. 0 = c * 0 + 0 /\ 0 \in 0 .. c - 1
  BY <1>2
<1>4. 0 % c = 0
  BY <1>2, <1>3, RestOf
<1> QED BY <1>4 DEF c

(* What the arrays say of the history: the values of the items read at the *)
(* last update are those of memory then, an item that is followed has as   *)
(* many changes as were seen, and the previous values are those when they  *)
(* became due, or still to be copied from the values.                      *)
HistoryIn(t, c, p, n, due, h) ==
  /\ h = [read |-> h.read, good |-> h.good, ref |-> h.ref, known |-> h.known, seen |-> h.seen]
  /\ \A a \in h.good : /\ a \in Nat /\ \E j \in 1 .. Len(Areas) : a .. a + t - 1 \subseteq AreaBytes(j)
                       /\ Shows(t, c, h.read, a)
  /\ h.seen \in [Addresses -> Int]
  /\ \A a \in Addresses : h.seen[a] >= 0 =>
       a \in h.good /\ n[VirtualIndex[a]] = h.seen[a] % CountModulus
  /\ due => h.ref = c
  /\ ~due => Remembers(p, h.ref, h.known)
HistoryInv == HistoryIn(typeSize, cur, prev, num, needPrev, past)

LEMMA ItemIndex ==
  ASSUME typeSize \in Sizes, NEW a \in Nat, NEW j \in 1 .. Len(Areas), WholeIn(a, j)
  PROVE  a \in Addresses /\ VirtualIndex[a] \in Indices /\ VirtualIndex[a] < MAX_RAM_SIZE
<1>1. 0 \in 0 .. typeSize - 1
  BY StepType
<1>2. VirtualIndex[a] + 0 < MAX_RAM_SIZE /\ VirtualIndex[a] \in Indices /\ a + 0 \in Addresses
      /\ VirtualIndex[a] \in Nat
  BY <1>1, ItemBytes
<1>3. a + 0 = a /\ VirtualIndex[a] + 0 = VirtualIndex[a]
  BY <1>2
<1> QED BY <1>2, <1>3

LEMMA ReadableGood ==
  ASSUME typeSize \in Sizes, NEW list, GoodList(list), NEW a \in Readable(list)
  PROVE  /\ a \in Nat /\ a \in Addresses /\ VirtualIndex[a] \in Indices
         /\ VirtualIndex[a] < MAX_RAM_SIZE
         /\ \E j \in 1 .. Len(Areas) : a .. a + typeSize - 1 \subseteq AreaBytes(j)
<1>1. a \in Nat /\ \E j \in 1 .. Len(Areas) : WholeIn(a, j)
  BY ReadableFacts
<1> QED BY <1>1, ItemIndex DEF WholeIn

LEMMA HistoryUpdated ==
  ASSUME typeSize \in Sizes, NEW mem \in [Addresses -> Values], NEW list, GoodList(list),
         NEW copyPrev \in BOOLEAN, NEW junk \in Values, NEW st \in ArrayStates, NEW new,
         new = UpdateRegions(st, mem, list, copyPrev, junk),
         NEW due, HistoryIn(typeSize, st.cur, st.prev, st.num, due, past), NEW ref, NEW known,
         copyPrev => ref = st.cur /\ known = Copied(list),
         ~copyPrev => ~due /\ ref = past.ref /\ known = past.known
  PROVE  HistoryIn(typeSize, new.cur, new.prev, new.num, FALSE,
                   [read |-> mem, good |-> Readable(list), ref |-> ref, known |-> known,
                    seen |-> Counted(mem, list)])
<1> DEFINE h == [read |-> mem, good |-> Readable(list), ref |-> ref, known |-> known,
                 seen |-> Counted(mem, list)]
<1>1. ListAt(new, st, mem, list, copyPrev, junk, Len(list))
  BY UpdateRegionsAt
<1>2. /\ h = [read |-> h.read, good |-> h.good, ref |-> h.ref, known |-> h.known, seen |-> h.seen]
      /\ h.read = mem /\ h.good = Readable(list) /\ h.ref = ref /\ h.known = known
      /\ h.seen = Counted(mem, list)
  OBVIOUS
<1>3. past.seen \in [Addresses -> Int] /\ \A a \in Addresses : past.seen[a] >= 0 =>
        a \in past.good /\ st.num[VirtualIndex[a]] = past.seen[a] % CountModulus
  BY DEF HistoryIn
<1>4. \A a \in past.good, k \in 0 .. typeSize - 1 : st.cur[VirtualIndex[a] + k] = past.read[a + k]
  BY DEF HistoryIn, Shows
<1>5. ASSUME NEW a \in Readable(list) PROVE Shows(typeSize, new.cur, mem, a)
  BY <1>1, ItemShown
<1>6. ASSUME NEW a \in Addresses
      PROVE  /\ Counted(mem, list)[a] =
                  IF a \in Readable(list) /\ past.seen[a] >= 0
                  THEN past.seen[a] + (IF \E k \in 0 .. typeSize - 1 : past.read[a + k] # mem[a + k]
                                       THEN 1 ELSE 0)
                  ELSE -1
             /\ Counted(mem, list)[a] \in Int
  <2>1. past.seen[a] \in Int
    BY <1>3
  <2> QED BY <2>1 DEF Counted
<1>7. Counted(mem, list) \in [Addresses -> Int]
  <2>1. Counted(mem, list) = [a \in Addresses |-> Counted(mem, list)[a]]
    BY DEF Counted
  <2> QED BY <1>6, <2>1
<1>8. ASSUME NEW a \in Addresses, Counted(mem, list)[a] >= 0
      PROVE  a \in Readable(list) /\ new.num[VirtualIndex[a]] = Counted(mem, list)[a] % CountModulus
  <2> DEFINE x == past.seen[a]
             y == Counted(mem, list)[a]
             m == st.num[VirtualIndex[a]]
             c == CountModulus
  <2>1. a \in Readable(list) /\ x >= 0
    BY <1>6, <1>8
  <2>2. x \in Nat /\ a \in past.good /\ m = x % c
    BY <1>3, <2>1
  <2>3. Shows(typeSize, st.cur, mem, a) <=>
          ~ \E k \in 0 .. typeSize - 1 : past.read[a + k] # mem[a + k]
    BY <1>4, <2>2 DEF Shows
  <2>4. new.num[VirtualIndex[a]] = IF Shows(typeSize, st.cur, mem, a) THEN m ELSE (m + 1) % c
    BY <1>1, <2>1, ItemCounted
  <2>5. CASE Shows(typeSize, st.cur, mem, a)
    <3>1. y = x + 0
      BY <1>6, <2>1, <2>3, <2>5
    <3>2. y = x
      BY <2>2, <3>1
    <3> QED BY <2>1, <2>2, <2>4, <2>5, <3>2
  <2>6. CASE ~Shows(typeSize, st.cur, mem, a)
    <3>1. y = x + 1
      BY <1>6, <2>1, <2>3, <2>6
    <3>2. c \in Nat \ {0}
      BY RamSearchAssumption, Zenon
    <3>3. ((x % c) + 1) % c = (x + 1) % c
      <4> HIDE DEF x, c
      <4> QED BY <2>2, <3>2, NextCount
    <3>4. new.num[VirtualIndex[a]] = (m + 1) % c
      BY <2>4, <2>6
    <3>5. m = x % c
      BY <2>2
    <3> HIDE DEF x, y, m, c
    <3>6. new.num[VirtualIndex[a]] = y % c
      BY <3>1, <3>3, <3>4, <3>5
    <3> QED BY <2>1, <3>6 DEF y, c
  <2> QED BY <2>5, <2>6
<1>9. Remembers(new.prev, ref, known)
  <2>1. CASE copyPrev
    <3>1. known = Copied(list) /\ ref = st.cur
      BY <2>1
    <3> QED BY <1>1, <2>1, <3>1, ItemCopied
  <2>2. CASE ~copyPrev
    <3>1. new.prev = st.prev
      BY <1>1, <2>2 DEF ListAt
    <3>2. ~due /\ ref = past.ref /\ known = past.known
      BY <2>2
    <3> QED BY <3>1, <3>2 DEF HistoryIn
  <2> QED BY <2>1, <2>2
<1>10. \A a \in Readable(list) :
         a \in Nat /\ \E j \in 1 .. Len(Areas) : a .. a + typeSize - 1 \subseteq AreaBytes(j)
  BY ReadableGood
<1> HIDE DEF h
<1>11. HistoryIn(typeSize, new.cur, new.prev, new.num, FALSE, h)
  BY <1>2, <1>5, <1>7, <1>8, <1>9, <1>10 DEF HistoryIn
<1> QED BY <1>11 DEF h

(* A reset updates twice: the second time copies the values of the first.  *)
LEMMA HistoryReset ==
  ASSUME typeSize \in Sizes, NEW st \in ArrayStates, NEW mem \in [Addresses -> Values],
         ResetAddressInfo(st, mem)
  PROVE  HistoryIn(typeSize, cur', prev', num', needPrev', past')
<1>1. PICK junk \in Values :
        LET first  == UpdateRegions(st, mem, AllRegions, FALSE, junk)
            second == UpdateRegions(first, mem, AllRegions, TRUE, junk)
        IN /\ cur' = second.cur /\ prev' = second.prev
           /\ num' = [i \in Indices |-> IF i < MAX_RAM_SIZE THEN 0 ELSE second.num[i]]
           /\ needPrev' = FALSE
           /\ past' = [read |-> mem, good |-> Readable(AllRegions), ref |-> first.cur,
                       known |-> Copied(AllRegions),
                       seen |-> [a \in Addresses |-> IF a \in Readable(AllRegions) THEN 0 ELSE -1]]
  BY DEF ResetAddressInfo
<1> DEFINE all == AllRegions
           first == UpdateRegions(st, mem, all, FALSE, junk)
           second == UpdateRegions(first, mem, all, TRUE, junk)
           h == past'
<1>2. GoodList(all)
  BY AllRegionsGood
<1>3. first \in ArrayStates
  BY <1>2, UpdateRegionsType
<1>4. ListAt(second, first, mem, all, TRUE, junk, Len(all))
  <2> HIDE DEF first, all
  <2> QED BY <1>2, <1>3, UpdateRegionsAt
<1>5. /\ cur' = second.cur /\ prev' = second.prev /\ needPrev' = FALSE
      /\ num' = [i \in Indices |-> IF i < MAX_RAM_SIZE THEN 0 ELSE second.num[i]]
      /\ past' = [read |-> mem, good |-> Readable(all), ref |-> first.cur, known |-> Copied(all),
                  seen |-> [a \in Addresses |-> IF a \in Readable(all) THEN 0 ELSE -1]]
  BY <1>1
<1> HIDE DEF first, second, all
<1>6. /\ h = [read |-> h.read, good |-> h.good, ref |-> h.ref, known |-> h.known, seen |-> h.seen]
      /\ h.read = mem /\ h.good = Readable(all) /\ h.ref = first.cur /\ h.known = Copied(all)
      /\ h.seen = [a \in Addresses |-> IF a \in Readable(all) THEN 0 ELSE -1]
  BY <1>5
<1>7. ASSUME NEW a \in Readable(all)
      PROVE  /\ a \in Nat /\ \E j \in 1 .. Len(Areas) : a .. a + typeSize - 1 \subseteq AreaBytes(j)
             /\ Shows(typeSize, cur', mem, a) /\ num'[VirtualIndex[a]] = 0
  <2>1. Shows(typeSize, second.cur, mem, a)
    BY <1>2, <1>3, <1>4, ItemShown
  <2>2. /\ a \in Nat /\ VirtualIndex[a] \in Indices /\ VirtualIndex[a] < MAX_RAM_SIZE
        /\ \E j \in 1 .. Len(Areas) : a .. a + typeSize - 1 \subseteq AreaBytes(j)
    BY <1>2, ReadableGood
  <2>3. num'[VirtualIndex[a]] = 0
    BY <1>5, <2>2
  <2> QED BY <1>5, <2>1, <2>2, <2>3
<1>8. h.seen \in [Addresses -> Int]
  BY <1>6
<1>9. ASSUME NEW a \in Addresses, h.seen[a] >= 0
      PROVE  a \in Readable(all) /\ num'[VirtualIndex[a]] = h.seen[a] % CountModulus
  <2>1. a \in Readable(all) /\ h.seen[a] = 0
    BY <1>6, <1>9
  <2> QED BY <1>7, <2>1, NoRest
<1>10. Remembers(prev', first.cur, Copied(all))
  BY <1>2, <1>4, <1>5, ItemCopied
<1> HIDE DEF h
<1>11. HistoryIn(typeSize, cur', prev', num', FALSE, h)
  BY <1>6, <1>7, <1>8, <1>9, <1>10 DEF HistoryIn
<1> QED BY <1>5, <1>11 DEF h

LEMMA HistoryInit ==
  ASSUME Init
  PROVE  HistoryInv
<1> DEFINE all == AllRegions
           t == typeSize
<1>1. /\ typeSize \in Sizes /\ memory \in [Addresses -> {0}] /\ needPrev = FALSE
      /\ cur = InitArray /\ prev = InitArray /\ num = NoChanges
      /\ past = [read |-> memory, good |-> Readable(all), ref |-> cur, known |-> Copied(all),
                 seen |-> [a \in Addresses |-> IF a \in Readable(all) THEN 0 ELSE -1]]
  BY DEF Init
<1>2. GoodList(all)
  BY AllRegionsGood
<1> HIDE DEF all
<1>3. \A i \in Indices : cur[i] = 0
  <2> SUFFICES ASSUME NEW i \in Indices PROVE InitArray[i] = 0
    BY <1>1
  <2>1. InitArray[i] = IF \E a \in Addresses : VirtualIndex[a] = i
                       THEN memory[CHOOSE a \in Addresses : VirtualIndex[a] = i] ELSE 0
    BY DEF InitArray
  <2>2. CASE \E a \in Addresses : VirtualIndex[a] = i
    <3> DEFINE b == CHOOSE a \in Addresses : VirtualIndex[a] = i
    <3>1. b \in Addresses
      BY <2>2
    <3>2. InitArray[i] = memory[b]
      BY <2>1, <2>2
    <3> HIDE DEF b
    <3> QED BY <1>1, <3>1, <3>2
  <2>3. CASE ~ \E a \in Addresses : VirtualIndex[a] = i
    BY <2>1, <2>3
  <2> QED BY <2>2, <2>3
<1>4. ASSUME NEW a \in Readable(all)
      PROVE  /\ a \in Nat /\ \E j \in 1 .. Len(Areas) : a .. a + t - 1 \subseteq AreaBytes(j)
             /\ Shows(t, cur, memory, a) /\ num[VirtualIndex[a]] = 0
  <2>1. /\ a \in Nat /\ VirtualIndex[a] \in Indices
        /\ \E j \in 1 .. Len(Areas) : a .. a + t - 1 \subseteq AreaBytes(j)
    BY <1>1, <1>2, ReadableGood
  <2>2. \E j \in 1 .. Len(Areas) : WholeIn(a, j)
    BY <2>1 DEF WholeIn
  <2>3. \A k \in 0 .. typeSize - 1 : VirtualIndex[a] + k \in Indices /\ a + k \in Addresses
    BY <1>1, <2>1, <2>2, ItemBytes
  <2>4. Shows(t, cur, memory, a)
    BY <1>1, <1>3, <2>3 DEF Shows
  <2>5. num[VirtualIndex[a]] = 0
    BY <1>1, <2>1 DEF NoChanges
  <2> QED BY <2>1, <2>4, <2>5
<1>5. /\ past = [read |-> past.read, good |-> past.good, ref |-> past.ref, known |-> past.known,
                 seen |-> past.seen]
      /\ past.read = memory /\ past.good = Readable(all) /\ past.ref = cur /\ past.known = Copied(all)
      /\ past.seen = [a \in Addresses |-> IF a \in Readable(all) THEN 0 ELSE -1]
  BY <1>1
<1>6. past.seen \in [Addresses -> Int]
  BY <1>5
<1>7. ASSUME NEW a \in Addresses, past.seen[a] >= 0
      PROVE  a \in Readable(all) /\ num[VirtualIndex[a]] = past.seen[a] % CountModulus
  <2>1. a \in Readable(all) /\ past.seen[a] = 0
    BY <1>5, <1>7
  <2> QED BY <1>4, <2>1, NoRest
<1> QED BY <1>1, <1>4, <1>5, <1>6, <1>7 DEF HistoryInv, HistoryIn, Remembers

(* Nothing is followed any more.                                           *)
LEMMA HistoryForgotten ==
  ASSUME NEW t, NEW c, NEW p, NEW n, NEW due, NEW h,
         h = [read |-> h.read, good |-> {}, ref |-> h.ref, known |-> {},
              seen |-> [a \in Addresses |-> -1]],
         due => h.ref = c
  PROVE  HistoryIn(t, c, p, n, due, h)
<1>1. h.good = {} /\ h.known = {} /\ h.seen = [a \in Addresses |-> -1]
  OBVIOUS
<1>2. h = [read |-> h.read, good |-> h.good, ref |-> h.ref, known |-> h.known, seen |-> h.seen]
  BY <1>1
<1>3. h.seen \in [Addresses -> Int] /\ \A a \in Addresses : ~(h.seen[a] >= 0)
  BY <1>1
<1> QED BY <1>1, <1>2, <1>3 DEF HistoryIn, Remembers

(* A search has ended: its values are the previous ones from now on.       *)
LEMMA HistoryPruned ==
  ASSUME HistoryInv, FinishPrune, UNCHANGED <<typeSize, cur, prev, num>>
  PROVE  HistoryInv'
<1>1. past' = [past EXCEPT !.ref = cur] /\ needPrev' = TRUE
  BY DEF FinishPrune
<1>2. HistoryIn(typeSize, cur, prev, num, needPrev, past)
  BY DEF HistoryInv
<1>3. past = [read |-> past.read, good |-> past.good, ref |-> past.ref, known |-> past.known,
              seen |-> past.seen]
  BY <1>2 DEF HistoryIn
<1> DEFINE h == past'
<1>4. /\ h = [read |-> past.read, good |-> past.good, ref |-> cur, known |-> past.known,
              seen |-> past.seen]
  BY <1>1, <1>3
<1> HIDE DEF h
<1>5. h.read = past.read /\ h.good = past.good /\ h.ref = cur /\ h.seen = past.seen
      /\ h = [read |-> h.read, good |-> h.good, ref |-> h.ref, known |-> h.known, seen |-> h.seen]
  BY <1>4
<1>6. HistoryIn(typeSize, cur, prev, num, TRUE, h)
  BY <1>2, <1>5 DEF HistoryIn
<1>7. HistoryIn(typeSize', cur', prev', num', needPrev', h)
  BY <1>1, <1>6
<1> QED BY <1>7 DEF HistoryInv, h

LEMMA HistoryNext ==
  ASSUME ListsInv, ArraysInv, HistoryInv, [Next]_vars
  PROVE  HistoryInv'
<1>a. /\ typeSize \in Sizes /\ GoodList(regions) /\ Arrays \in ArrayStates
      /\ [Arrays EXCEPT !.prev = cur] \in ArrayStates
      /\ memory \in [Addresses -> Values] /\ needPrev \in BOOLEAN
  BY ArraysState DEF ListsInv, ArraysInv
<1>b. Arrays.cur = cur /\ Arrays.prev = prev /\ Arrays.num = num
  BY DEF Arrays
<1>c. HistoryIn(typeSize, cur, prev, num, needPrev, past)
  BY DEF HistoryInv
<1>d. past = [read |-> past.read, good |-> past.good, ref |-> past.ref, known |-> past.known,
              seen |-> past.seen]
  BY <1>c DEF HistoryIn
<1>e. UNCHANGED <<typeSize, cur, prev, num, needPrev, past>> => HistoryInv'
  BY DEF HistoryInv
<1>f. ASSUME NEW st \in ArrayStates, NEW mem \in [Addresses -> Values], ResetAddressInfo(st, mem),
             typeSize' = typeSize
      PROVE  HistoryInv'
  BY <1>a, <1>f, HistoryReset DEF HistoryInv
<1>1. CASE Reset
  <2>1. ResetAddressInfo(Arrays, memory) /\ typeSize' = typeSize
    BY <1>1 DEF Reset, dialog
  <2> QED BY <1>a, <1>f, <2>1
<1>2. CASE ResetChanges
  <2>1. /\ num' = [i \in Indices |-> IF i < MAX_RAM_SIZE THEN 0 ELSE num[i]]
        /\ past' = [past EXCEPT !.seen = [a \in Addresses |-> IF a \in past.good THEN 0 ELSE -1]]
        /\ UNCHANGED <<typeSize, cur, prev, needPrev>>
    BY <1>2 DEF ResetChanges, dialog
  <2> DEFINE h == past'
  <2>2. h = [read |-> past.read, good |-> past.good, ref |-> past.ref, known |-> past.known,
             seen |-> [a \in Addresses |-> IF a \in past.good THEN 0 ELSE -1]]
    BY <1>d, <2>1
  <2> HIDE DEF h
  <2>3. /\ h = [read |-> h.read, good |-> h.good, ref |-> h.ref, known |-> h.known, seen |-> h.seen]
        /\ h.read = past.read /\ h.good = past.good /\ h.ref = past.ref /\ h.known = past.known
        /\ h.seen = [a \in Addresses |-> IF a \in past.good THEN 0 ELSE -1]
    BY <2>2
  <2>4. h.seen \in [Addresses -> Int]
    BY <2>3
  <2>5. ASSUME NEW a \in Addresses, h.seen[a] >= 0
        PROVE  a \in past.good /\ num'[VirtualIndex[a]] = h.seen[a] % CountModulus
    <3>1. a \in past.good /\ h.seen[a] = 0
      BY <2>3, <2>5
    <3>2. a \in Nat /\ \E j \in 1 .. Len(Areas) : a .. a + typeSize - 1 \subseteq AreaBytes(j)
      BY <1>c, <3>1 DEF HistoryIn
    <3>3. VirtualIndex[a] \in Indices /\ VirtualIndex[a] < MAX_RAM_SIZE
      BY <1>a, <3>2, ItemIndex DEF WholeIn
    <3>4. num'[VirtualIndex[a]] = 0
      BY <2>1, <3>3
    <3> QED BY <3>1, <3>4, NoRest
  <2>6. HistoryIn(typeSize, cur, prev, num', needPrev, h)
    BY <1>c, <2>3, <2>4, <2>5 DEF HistoryIn
  <2>7. HistoryIn(typeSize', cur', prev', num', needPrev', h)
    BY <2>1, <2>6
  <2> QED BY <2>7 DEF HistoryInv, h
<1>3. CASE Undo
  BY <1>3, <1>e DEF Undo, dialog, arrays
<1>4. ASSUME NEW size \in Sizes, NEW align \in BOOLEAN, SetType(size, align)
      PROVE  HistoryInv'
  <2>1. /\ past' = [past EXCEPT !.good = {}, !.known = {}, !.seen = [a \in Addresses |-> -1]]
        /\ UNCHANGED <<cur, needPrev>>
    BY <1>4 DEF SetType, arrays
  <2> DEFINE h == past'
  <2>2. h = [read |-> past.read, good |-> {}, ref |-> past.ref, known |-> {},
             seen |-> [a \in Addresses |-> -1]]
    BY <1>d, <2>1
  <2>3. needPrev => past.ref = cur
    BY <1>c DEF HistoryIn
  <2> HIDE DEF h
  <2>4. h = [read |-> h.read, good |-> {}, ref |-> h.ref, known |-> {},
             seen |-> [a \in Addresses |-> -1]] /\ h.ref = past.ref
    BY <2>2
  <2>5. HistoryIn(typeSize', cur', prev', num', needPrev', h)
    BY <2>1, <2>3, <2>4, HistoryForgotten
  <2> QED BY <2>5 DEF HistoryInv, h
<1>5. ASSUME NEW criterion \in Criteria, NEW auto \in BOOLEAN, BeginSearch(criterion, auto)
      PROVE  HistoryInv'
  BY <1>5, <1>e DEF BeginSearch, dialog, arrays
<1>6. CASE StopAutoSearch
  BY <1>6, <1>e DEF StopAutoSearch, dialog, arrays
<1>7. CASE FinishSearch
  BY <1>7, HistoryPruned DEF FinishSearch, dialog, arrays
<1>8. CASE ResetSearch
  <2>1. ResetAddressInfo(Arrays, memory) /\ typeSize' = typeSize
    BY <1>8 DEF ResetSearch, dialog
  <2> QED BY <1>a, <1>f, <2>1
<1>9. ASSUME NEW selected \in Selections, Eliminate(selected)
      PROVE  HistoryInv'
  BY <1>9, <1>e DEF Eliminate, dialog, arrays
<1>10. CASE CloseDialog
  BY <1>10, <1>e DEF CloseDialog, arrays
<1>11. CASE OpenDialog
  <2>1. typeSize' = typeSize
    BY <1>11 DEF OpenDialog
  <2>2. CASE resultCount = 0
    <3>1. ResetAddressInfo([Arrays EXCEPT !.prev = cur], memory)
      BY <1>11, <2>2 DEF OpenDialog
    <3> QED BY <1>a, <1>f, <2>1, <3>1
  <2>3. CASE resultCount # 0
    <3>1. PICK junk \in Values :
            LET st == UpdateRegions(Arrays, memory, regions, TRUE, junk)
            IN /\ cur' = st.cur /\ prev' = st.prev /\ num' = st.num /\ needPrev' = FALSE
               /\ past' = [read |-> memory, good |-> Readable(regions), ref |-> cur,
                           known |-> Copied(regions), seen |-> Counted(memory, regions)]
      BY <1>11, <2>3 DEF OpenDialog
    <3> DEFINE st == UpdateRegions(Arrays, memory, regions, TRUE, junk)
               h == [read |-> memory, good |-> Readable(regions), ref |-> cur,
                     known |-> Copied(regions), seen |-> Counted(memory, regions)]
    <3>2. cur' = st.cur /\ prev' = st.prev /\ num' = st.num /\ needPrev' = FALSE /\ past' = h
      BY <3>1
    <3>3. HistoryIn(typeSize, st.cur, st.prev, st.num, FALSE, h)
      BY <1>a, <1>b, <1>c, HistoryUpdated
    <3> HIDE DEF st, h
    <3>4. HistoryIn(typeSize', cur', prev', num', needPrev', past')
      BY <2>1, <3>2, <3>3
    <3> QED BY <3>4 DEF HistoryInv
  <2> QED BY <2>2, <2>3
<1>12. ASSUME NEW W \in WriteSets, NEW v \in Values, Frame(W, v)
       PROVE  HistoryInv'
  <2>1. typeSize' = typeSize /\ memory' \in [Addresses -> Values]
    BY <1>12, <1>a, WrittenType DEF Frame, dialog
  <2>2. CASE isOpen
    <3>1. UpdateValues(memory')
      BY <1>12, <2>2 DEF Frame
    <3> DEFINE mem == memory'
               known == IF needPrev THEN Copied(regions) ELSE past.known
               h == [read |-> mem, good |-> Readable(regions), ref |-> past.ref, known |-> known,
                     seen |-> Counted(mem, regions)]
    <3>2. PICK junk \in Values :
            LET st == UpdateRegions(Arrays, mem, regions, needPrev, junk)
            IN /\ cur' = st.cur /\ prev' = st.prev /\ num' = st.num /\ needPrev' = FALSE
               /\ past' = [past EXCEPT !.read = mem, !.good = Readable(regions), !.known = known,
                                       !.seen = Counted(mem, regions)]
      BY <3>1 DEF UpdateValues
    <3> DEFINE st == UpdateRegions(Arrays, mem, regions, needPrev, junk)
    <3>3. cur' = st.cur /\ prev' = st.prev /\ num' = st.num /\ needPrev' = FALSE /\ past' = h
      BY <1>d, <3>2
    <3>4. needPrev => past.ref = cur
      BY <1>c DEF HistoryIn
    <3>5. mem \in [Addresses -> Values]
      BY <2>1
    <3> HIDE DEF mem
    <3>6. HistoryIn(typeSize, st.cur, st.prev, st.num, FALSE, h)
      BY <1>a, <1>b, <1>c, <3>4, <3>5, HistoryUpdated
    <3> HIDE DEF st, h
    <3>7. HistoryIn(typeSize', cur', prev', num', needPrev', past')
      BY <2>1, <3>3, <3>6
    <3> QED BY <3>7 DEF HistoryInv
  <2>3. CASE ~isOpen
    BY <1>12, <1>e, <2>1, <2>3 DEF Frame, arrays
  <2> QED BY <2>2, <2>3
<1>13. ASSUME NEW W \in WriteSets, NEW v \in Values, NEW abort \in BOOLEAN,
              FrameOutOfResults(W, v, abort)
       PROVE  HistoryInv'
  <2>1. typeSize' = typeSize /\ memory' \in [Addresses -> Values]
    BY <1>13, <1>a, WrittenType DEF FrameOutOfResults, dialog
  <2>2. CASE isOpen
    <3>1. ResetAddressInfo([Arrays EXCEPT !.prev = cur], memory')
      BY <1>13, <2>2 DEF FrameOutOfResults
    <3> QED BY <1>a, <1>f, <2>1, <3>1
  <2>3. CASE ~isOpen
    <3>1. /\ past' = [past EXCEPT !.good = {}, !.known = {}, !.seen = [a \in Addresses |-> -1]]
          /\ needPrev' = FALSE
      BY <1>13, <2>3 DEF FrameOutOfResults
    <3> DEFINE h == past'
    <3>2. h = [read |-> past.read, good |-> {}, ref |-> past.ref, known |-> {},
               seen |-> [a \in Addresses |-> -1]]
      BY <1>d, <3>1
    <3> HIDE DEF h
    <3>3. h = [read |-> h.read, good |-> {}, ref |-> h.ref, known |-> {},
               seen |-> [a \in Addresses |-> -1]]
      BY <3>2
    <3>4. HistoryIn(typeSize', cur', prev', num', needPrev', h)
      BY <3>1, <3>3, HistoryForgotten
    <3> QED BY <3>4 DEF HistoryInv, h
  <2> QED BY <2>2, <2>3
<1>14. CASE AutoSearch
  BY <1>14, <1>e DEF AutoSearch, dialog, arrays
<1>15. CASE FinishAutoSearch
  BY <1>15, HistoryPruned DEF FinishAutoSearch, dialog, arrays
<1>16. CASE UNCHANGED vars
  BY <1>16, <1>e DEF vars
<1> QED
  BY <1>1, <1>2, <1>3, <1>4, <1>5, <1>6, <1>7, <1>8, <1>9, <1>10, <1>11, <1>12, <1>13, <1>14,
     <1>15, <1>16 DEF Next

-----------------------------------------------------------------------------
LEMMA GoodSound ==
  ASSUME NEW list, GoodList(list)
  PROVE  Sound(list)
<1>1. Len(list) \in Nat /\ \A i \in 1 .. Len(list) : Placed(list[i]) /\ list[i] \in Region
  BY DEF GoodList
<1>2. \A i \in 1 .. Len(list) - 1 : RegionEnd(list[i]) <= list[i + 1].hardwareAddress
  BY <1>1 DEF GoodList, InOrder
<1>3. \A i \in 1 .. Len(list) : list[i].size > 0
  BY <1>1, RegionEnds
<1> QED BY <1>1, <1>2, <1>3 DEF Sound, Placed

(* The list of regions stays in order and apart, each region points at the *)
(* values of its own addresses, and the number of results shown is that of *)
(* the items whenever nobody is searching: through splits in the middle of *)
(* a search, undo, resets by either thread and changes of the type         *)
(* (ramsearch.cpp, DeactivateRegion, prune and the dialog's commands).     *)
THEOREM ResultsSoundCorrect == Spec => []ResultsSound
<1>1. Init => ListsInv /\ CountInv /\ ArraysInv
  BY ListsInit, CountInit, ArraysInit
<1>2. (ListsInv /\ CountInv /\ ArraysInv) /\ [Next]_vars => (ListsInv /\ CountInv /\ ArraysInv)'
  BY ListsNext, CountNext, ArraysNext
<1>3. ListsInv /\ CountInv /\ ArraysInv => ResultsSound
  <2> SUFFICES ASSUME ListsInv, CountInv, ArraysInv PROVE ResultsSound
    OBVIOUS
  <2>1. TypeOK
    BY DEF ListsInv, CountInv, ArraysInv, ArraysIn, TypeOK
  <2>2. RegionsSound
    BY GoodSound DEF ListsInv, RegionsSound
  <2> QED BY <2>1, <2>2 DEF CountInv, ResultsSound
<1> QED BY <1>1, <1>2, <1>3, PTL DEF Spec

(* Every item that is listed shows the value the game had at the last      *)
(* update, in all its bytes, and how often it changed; and the value at the*)
(* last search or reset in those of its bytes that are copied, which are   *)
(* all but the bytes of an aligned item beyond the end of its region:      *)
(* although each region is updated by a loop of its own that reads beyond  *)
(* the region's end, copies up to the next one, and counts the items a byte*)
(* belongs to (ramsearch.cpp, UpdateRegionT).                              *)
THEOREM ArraysSoundCorrect == Spec => []ArraysSound
<1>1. Init => ListsInv /\ ArraysInv /\ HistoryInv
  BY ListsInit, ArraysInit, HistoryInit
<1>2. (ListsInv /\ ArraysInv /\ HistoryInv) /\ [Next]_vars => (ListsInv /\ ArraysInv /\ HistoryInv)'
  BY ListsNext, ArraysNext, HistoryNext
<1>3. ListsInv /\ HistoryInv => ArraysSound
  <2> SUFFICES ASSUME ListsInv, HistoryInv PROVE ArraysSound
    OBVIOUS
  <2>1. HistoryIn(typeSize, cur, prev, num, needPrev, past)
    BY DEF HistoryInv
  <2>2. ValuesAreOfLastFrame
    BY <2>1 DEF HistoryIn, Shows, ValuesAreOfLastFrame
  <2>3. PreviousIsOfLastSearch
    BY <2>1 DEF HistoryIn, Remembers, PreviousIsOfLastSearch
  <2>4. Items \subseteq Addresses
    BY ItemsAreAddresses DEF ListsInv, Items
  <2>5. ChangesCounted
    BY <2>1, <2>4 DEF HistoryIn, ChangesCounted
  <2> QED BY <2>2, <2>3, <2>5 DEF ArraysSound
<1> QED BY <1>1, <1>2, <1>3, PTL DEF Spec

=============================================================================
