-------------------------- MODULE AviDumper_proofs ---------------------------
(***************************************************************************)
(* Proofs about AviDumper for every choice of its constants: what it       *)
(* writes into the files of a capture.                                     *)
(***************************************************************************)
EXTENDS AviDumper, SequenceTheorems, WellFoundedInduction, TLAPS

-----------------------------------------------------------------------------
(* Numbers: a set of them has a least one.                                 *)
Below == {ss \in Nat \X Nat : ss[1] < ss[2]}

LEMMA BelowWellFounded == IsWellFoundedOn(Below, Nat)
  BY NatLessThanWellFounded, Zenon DEF OpToRel, Below

LEMMA LeastNumber ==
  ASSUME NEW T \in SUBSET Nat, T # {}
  PROVE  \E m \in T : \A n \in T : m <= n
<1>1. PICK m \in T : \A n \in T : ~(<<n, m>> \in Below)
  BY BelowWellFounded, WFMin
<1>2. \A n \in T : ~(n < m)
  BY <1>1 DEF Below
<1>3. \A n \in T : n \in Nat /\ m \in Nat
  OBVIOUS
<1> QED
  BY <1>2, <1>3

-----------------------------------------------------------------------------
(* FlattenSeq.  g[i] joins the first i of the sequences.                   *)
Joins(seqs, n, g) == g = [i \in 1 .. n |-> IF i = 1 THEN seqs[i] ELSE g[i - 1] \o seqs[i]]

LEMMA FlattenIsJoin ==
  ASSUME NEW seqs, Len(seqs) # 0
  PROVE  FlattenSeq(seqs) = (CHOOSE g : Joins(seqs, Len(seqs), g))[Len(seqs)]
  BY DEF FlattenSeq, Joins

JoinStep(seqs, g, i) == \/ i = 1 /\ g[i] = seqs[i]
                        \/ i # 1 /\ g[i] = g[i - 1] \o seqs[i]
Agree(f, g, n) == \A i \in 1 .. n : f[i] = g[i]

LEMMA JoinSteps ==
  ASSUME NEW seqs, NEW n, NEW g, Joins(seqs, n, g)
  PROVE  \A i \in 1 .. n : JoinStep(seqs, g, i)
  BY DEF Joins, JoinStep

(* Two joins agree as far as the sequences do.                             *)
LEMMA JoinsAgree ==
  ASSUME NEW seqs, NEW t, NEW m \in Nat, NEW n \in Nat, NEW k \in Nat, k <= m, k <= n,
         NEW g, NEW h, Joins(seqs, m, g), Joins(t, n, h),
         Agree(seqs, t, k)
  PROVE  Agree(g, h, k)
<1> DEFINE T == {i \in 1 .. k : g[i] # h[i]}
<1>1. SUFFICES ASSUME T # {} PROVE FALSE
  BY DEF Agree
<1>2. T \in SUBSET Nat
  OBVIOUS
<1>3. PICK i \in T : \A j \in T : i <= j
  BY <1>1, <1>2, LeastNumber
<1>4. i \in 1 .. k /\ g[i] # h[i] /\ seqs[i] = t[i] /\ i \in 1 .. m /\ i \in 1 .. n /\ i \in Nat
  BY DEF Agree
<1>5. i # 1 => i - 1 \in 1 .. k /\ i - 1 \notin T
  BY <1>3, <1>4
<1>6. i # 1 => g[i - 1] = h[i - 1]
  BY <1>5
<1> HIDE DEF T
<1>7. JoinStep(seqs, g, i)
  BY <1>4, JoinSteps, Zenon
<1>8. JoinStep(t, h, i)
  BY <1>4, JoinSteps, Zenon
<1> QED
  BY <1>4, <1>6, <1>7, <1>8 DEF JoinStep

(* One sequence more.                                                      *)
LEMMA JoinExtends ==
  ASSUME NEW S, NEW seqs \in Seq(Seq(S)), NEW n \in Nat, n < Len(seqs),
         NEW g \in [1 .. n -> Seq(S)], Joins(seqs, n, g)
  PROVE  \E h \in [1 .. n + 1 -> Seq(S)] : Joins(seqs, n + 1, h)
<1> DEFINE last == IF n = 0 THEN seqs[1] ELSE g[n] \o seqs[n + 1]
           h == [i \in 1 .. n + 1 |-> IF i = n + 1 THEN last ELSE g[i]]
<1>1. \A i \in 1 .. n + 1 : seqs[i] \in Seq(S)
  OBVIOUS
<1>2. last \in Seq(S)
  <2>1. CASE n = 0
    BY <2>1, <1>1
  <2>2. CASE n # 0
    <3>1. n \in 1 .. n
      BY <2>2
    <3>2. g[n] \in Seq(S) /\ seqs[n + 1] \in Seq(S)
      BY <1>1, <3>1
    <3> QED
      BY <2>2, <3>2, ConcatProperties
  <2> QED BY <2>1, <2>2
<1> HIDE DEF last
<1>3. h \in [1 .. n + 1 -> Seq(S)]
  BY <1>2
<1>4. ASSUME NEW i \in 1 .. n + 1
      PROVE  h[i] = IF i = 1 THEN seqs[i] ELSE h[i - 1] \o seqs[i]
  <2>1. CASE i = n + 1
    <3>1. h[i] = last
      BY <2>1
    <3>2. i # 1 => h[i - 1] = g[n]
      BY <2>1
    <3> HIDE DEF h
    <3> QED
      BY <2>1, <3>1, <3>2 DEF last
  <2>2. CASE i # n + 1
    <3>1. i \in 1 .. n
      BY <2>2
    <3>2. h[i] = g[i]
      BY <3>1, <2>2
    <3>4. i # 1 => i - 1 \in 1 .. n + 1 /\ i - 1 # n + 1
      BY <3>1
    <3>5. i # 1 => h[i - 1] = g[i - 1]
      BY <3>4
    <3> HIDE DEF h
    <3>3. JoinStep(seqs, g, i)
      BY <3>1, JoinSteps, Zenon
    <3> QED
      BY <3>2, <3>3, <3>5 DEF JoinStep
  <2> QED BY <2>1, <2>2
<1> HIDE DEF h
<1>5. h = [i \in 1 .. n + 1 |-> h[i]]
  BY <1>3
<1>6. Joins(seqs, n + 1, h)
  BY <1>4, <1>5 DEF Joins
<1> QED
  BY <1>3, <1>6

LEMMA JoinExists ==
  ASSUME NEW S, NEW seqs \in Seq(Seq(S)), NEW n \in Nat, n <= Len(seqs)
  PROVE  \E g \in [1 .. n -> Seq(S)] : Joins(seqs, n, g)
<1> DEFINE Good(m) == \E g \in [1 .. m -> Seq(S)] : Joins(seqs, m, g)
           T == {m \in Nat : m <= Len(seqs) /\ ~Good(m)}
<1>1. Good(0)
  <2>1. Joins(seqs, 0, << >>)
    BY DEF Joins
  <2>2. << >> \in [1 .. 0 -> Seq(S)]
    OBVIOUS
  <2> QED
    BY <2>1, <2>2
<1>2. ASSUME NEW m \in Nat, m < Len(seqs), Good(m) PROVE Good(m + 1)
  BY <1>2, JoinExtends
<1> HIDE DEF Good
<1>3. SUFFICES ASSUME T # {} PROVE FALSE
  BY DEF Good
<1>4. PICK m \in T : \A j \in T : m <= j
  BY <1>3, LeastNumber
<1>5. m \in Nat /\ m <= Len(seqs) /\ ~Good(m) /\ m # 0
  BY <1>1
<1>6. m - 1 \in Nat /\ m - 1 < Len(seqs) /\ m - 1 \notin T
  BY <1>4, <1>5
<1>7. Good(m - 1)
  BY <1>6
<1> DEFINE p == m - 1
<1>8. p \in Nat /\ p < Len(seqs) /\ Good(p) /\ p + 1 = m
  BY <1>5, <1>6, <1>7
<1> HIDE DEF p
<1>9. Good(p + 1)
  BY <1>2, <1>8
<1> QED
  BY <1>5, <1>8, <1>9

(* What FlattenSeq picks is such a join.                                   *)
LEMMA FlattenJoins ==
  ASSUME NEW S, NEW seqs \in Seq(Seq(S)), seqs # << >>
  PROVE  \E g \in [1 .. Len(seqs) -> Seq(S)] :
           Joins(seqs, Len(seqs), g) /\ FlattenSeq(seqs) = g[Len(seqs)]
<1> DEFINE n == Len(seqs)
           f == CHOOSE g : Joins(seqs, n, g)
<1>1. n \in Nat /\ n # 0
  OBVIOUS
<1>2. FlattenSeq(seqs) = f[n]
  BY <1>1, FlattenIsJoin
<1>3. PICK g \in [1 .. n -> Seq(S)] : Joins(seqs, n, g)
  <2>1. n \in Nat /\ n <= Len(seqs)
    OBVIOUS
  <2> HIDE DEF n, f
  <2> QED
    BY <2>1, JoinExists
<1>4. Joins(seqs, n, f)
  BY <1>3
<1> HIDE DEF f
<1>5. Agree(f, g, n)
  <2>1. n <= n /\ Agree(seqs, seqs, n)
    BY <1>1 DEF Agree
  <2> HIDE DEF n
  <2> QED
    BY <1>1, <1>3, <1>4, <2>1, JoinsAgree, Zenon
<1>6. FlattenSeq(seqs) = g[n]
  BY <1>1, <1>2, <1>5 DEF Agree
<1> QED
  BY <1>3, <1>6

LEMMA FlattenEmpty == FlattenSeq(<< >>) = << >>
  BY DEF FlattenSeq

LEMMA FlattenType ==
  ASSUME NEW S, NEW seqs \in Seq(Seq(S))
  PROVE  FlattenSeq(seqs) \in Seq(S)
<1>1. CASE seqs = << >>
  <2>1. FlattenSeq(seqs) = << >>
    BY <1>1, FlattenEmpty, Zenon
  <2> QED
    BY <2>1
<1>2. CASE seqs # << >>
  <2>1. PICK g \in [1 .. Len(seqs) -> Seq(S)] : FlattenSeq(seqs) = g[Len(seqs)]
    BY <1>2, FlattenJoins
  <2>2. Len(seqs) \in 1 .. Len(seqs)
    BY <1>2
  <2> QED
    BY <2>1, <2>2
<1> QED BY <1>1, <1>2

LEMMA FlattenAppend ==
  ASSUME NEW S, NEW seqs \in Seq(Seq(S)), NEW s \in Seq(S)
  PROVE  FlattenSeq(Append(seqs, s)) = FlattenSeq(seqs) \o s
<1> DEFINE t == Append(seqs, s)
           n == Len(seqs)
<1>1. /\ t \in Seq(Seq(S)) /\ t # << >> /\ Len(t) = n + 1 /\ n \in Nat
      /\ t[n + 1] = s /\ \A i \in 1 .. n : t[i] = seqs[i]
  BY AppendProperties
<1> HIDE DEF t
<1>2. PICK h : Joins(t, n + 1, h) /\ FlattenSeq(t) = h[n + 1]
  BY <1>1, FlattenJoins
<1>3. JoinStep(t, h, n + 1)
  <2>1. n + 1 \in Nat /\ n + 1 \in 1 .. n + 1
    BY <1>1
  <2> QED
    BY <1>2, <2>1, JoinSteps, Zenon
<1>4. CASE seqs = << >>
  <2>1. FlattenSeq(seqs) = << >> /\ n = 0
    BY <1>4, FlattenEmpty
  <2>2. FlattenSeq(t) = s
    BY <1>1, <1>2, <1>3, <2>1 DEF JoinStep
  <2>3. << >> \o s = s
    BY ConcatEmptySeq
  <2> QED
    BY <2>1, <2>2, <2>3, Zenon DEF t
<1>5. CASE seqs # << >>
  <2>1. PICK g : Joins(seqs, n, g) /\ FlattenSeq(seqs) = g[n]
    BY <1>5, FlattenJoins
  <2>2. n # 0
    BY <1>5
  <2> HIDE DEF n
  <2>3. Agree(h, g, n)
    <3>1. n + 1 \in Nat /\ n <= n + 1 /\ n <= n /\ Agree(t, seqs, n)
      BY <1>1 DEF Agree
    <3> QED
      BY <1>1, <1>2, <2>1, <3>1, JoinsAgree, Zenon
  <2>4. h[n] = g[n]
    BY <1>1, <2>2, <2>3 DEF Agree
  <2>5. n + 1 # 1 /\ (n + 1) - 1 = n
    BY <1>1, <2>2
  <2>6. h[n + 1] = h[n] \o t[n + 1]
    <3>1. h[n + 1] = h[(n + 1) - 1] \o t[n + 1]
      BY <1>3, <2>5 DEF JoinStep
    <3> QED
      BY <2>5, <3>1
  <2>7. FlattenSeq(t) = FlattenSeq(seqs) \o s
    BY <1>1, <1>2, <2>1, <2>4, <2>6, Zenon
  <2> QED
    BY <2>7, Zenon DEF t
<1> QED BY <1>4, <1>5

-----------------------------------------------------------------------------
(* The ring of slots: n of them, from the one that is read next, are filled*)
(* with the last n items that were handed over.                            *)
Ahead(i, k) == IF i + k < NumSlots THEN i + k ELSE i + k - NumSlots
Distance(i, j) == IF i <= j THEN j - i ELSE j - i + NumSlots
Ring(filled, holds, write, read, items, n) ==
  /\ n \in 0 .. NumSlots
  /\ write = Ahead(read, n)
  /\ \A i \in Slots : filled[i] <=> Distance(read, i) < n
  /\ \A i \in Slots : filled[i] => holds[i] = items[Len(items) - n + Distance(read, i) + 1]

LEMMA NextIsAhead ==
  ASSUME NEW i \in Slots
  PROVE  NextSlot(i) = Ahead(i, 1) /\ NextSlot(i) \in Slots
<1>1. NumSlots \in Nat \ {0}
  BY AviAssumption
<1>2. CASE i = NumSlots - 1
  <2>1. i + 1 = NumSlots
    BY <1>1, <1>2
  <2>2. NumSlots % NumSlots = 0
    BY <1>1
  <2> QED
    BY <1>1, <2>1, <2>2 DEF NextSlot, Ahead, Slots
<1>3. CASE i # NumSlots - 1
  <2>1. i + 1 \in Nat /\ i + 1 < NumSlots
    BY <1>1, <1>3 DEF Slots
  <2>2. (i + 1) % NumSlots = i + 1
    BY <1>1, <2>1
  <2> QED
    BY <1>1, <2>1, <2>2 DEF NextSlot, Ahead, Slots
<1> QED
  BY <1>2, <1>3

(* An empty ring.                                                          *)
LEMMA RingEmpty ==
  ASSUME NEW filled \in [Slots -> BOOLEAN], NEW holds, NEW write \in Slots, NEW read \in Slots,
         NEW items
  PROVE  /\ (\A i \in Slots : ~filled[i]) /\ write = read
              => Ring(filled, holds, write, read, items, 0)
         /\ \A n : Ring(filled, holds, write, read, items, n) /\ ~filled[read]
              => n = 0 /\ write = read /\ \A i \in Slots : ~filled[i]
<1>1. NumSlots \in Nat \ {0}
  BY AviAssumption
<1> QED
  BY <1>1 DEF Ring, Ahead, Distance, Slots

(* The slot that is read next holds the oldest of the items.               *)
LEMMA RingHead ==
  ASSUME NEW filled \in [Slots -> BOOLEAN], NEW holds, NEW write \in Slots, NEW read \in Slots,
         NEW items, NEW n, Ring(filled, holds, write, read, items, n), filled[read]
  PROVE  n \in 1 .. NumSlots /\ holds[read] = items[Len(items) - n + 1]
<1>1. NumSlots \in Nat \ {0}
  BY AviAssumption
<1>2. Distance(read, read) = 0
  BY <1>1 DEF Distance, Slots
<1>3. n \in 1 .. NumSlots
  BY <1>1, <1>2 DEF Ring
<1>4. holds[read] = items[Len(items) - n + 0 + 1]
  BY <1>2 DEF Ring
<1> HIDE DEF Ring
<1> DEFINE l == Len(items)
<1> QED
  BY <1>3, <1>4

(* The slot that is read next is emptied.                                  *)
LEMMA RingGet ==
  ASSUME NEW filled \in [Slots -> BOOLEAN], NEW holds, NEW write \in Slots, NEW read \in Slots,
         NEW S, NEW items \in Seq(S), NEW n, Ring(filled, holds, write, read, items, n), filled[read]
  PROVE  Ring([filled EXCEPT ![read] = FALSE], holds, write, NextSlot(read), items, n - 1)
<1> DEFINE next == NextSlot(read)
           raised == [filled EXCEPT ![read] = FALSE]
<1>1. NumSlots \in Nat \ {0} /\ Len(items) \in Nat
  BY AviAssumption
<1>2. next = Ahead(read, 1) /\ next \in Slots
  BY NextIsAhead
<1>3. n \in 1 .. NumSlots
  BY RingHead
<1>4. write = Ahead(next, n - 1)
  BY <1>1, <1>2, <1>3 DEF Ring, Ahead, Slots
<1>5. /\ \A i \in Slots : i # read => Distance(read, i) = Distance(next, i) + 1
      /\ Distance(next, read) = NumSlots - 1
      /\ \A i \in Slots : Distance(next, i) \in Nat
  BY <1>1, <1>2 DEF Ahead, Slots, Distance
<1>6. ~raised[read] /\ \A i \in Slots : i # read => raised[i] = filled[i]
  OBVIOUS
<1> HIDE DEF raised, next
<1>7. \A i \in Slots : raised[i] <=> Distance(next, i) < n - 1
  <2> TAKE i \in Slots
  <2>1. filled[i] <=> Distance(read, i) < n
    BY DEF Ring
  <2>2. Distance(next, i) \in Nat
    BY <1>5
  <2>3. CASE i = read
    BY <1>1, <1>3, <1>5, <1>6, <2>3
  <2>4. CASE i # read
    BY <1>3, <1>5, <1>6, <2>1, <2>2, <2>4
  <2> QED BY <2>3, <2>4
<1>8. \A i \in Slots : raised[i] => holds[i] = items[Len(items) - (n - 1) + Distance(next, i) + 1]
  <2> TAKE i \in Slots
  <2> HAVE raised[i]
  <2>1. i # read /\ filled[i]
    BY <1>6
  <2>2. holds[i] = items[Len(items) - n + Distance(read, i) + 1]
    BY <2>1 DEF Ring
  <2>3. Distance(next, i) \in Nat /\ Distance(read, i) = Distance(next, i) + 1
    BY <1>5, <2>1
  <2>4. Len(items) - n + Distance(read, i) + 1 = Len(items) - (n - 1) + Distance(next, i) + 1
    BY <1>1, <1>3, <2>3
  <2> QED
    BY <2>2, <2>4
<1>9. n - 1 \in 0 .. NumSlots
  BY <1>1, <1>3
<1> QED
  BY <1>4, <1>7, <1>8, <1>9 DEF Ring, raised, next

(* The next slot is filled with one item more.                             *)
LEMMA RingPut ==
  ASSUME NEW filled \in [Slots -> BOOLEAN], NEW S, NEW holds \in [Slots -> S],
         NEW write \in Slots, NEW read \in Slots,
         NEW items \in Seq(S), NEW n, Ring(filled, holds, write, read, items, n), ~filled[write],
         NEW item \in S, n <= Len(items)
  PROVE  /\ n \in Nat /\ n < NumSlots
         /\ Ring([filled EXCEPT ![write] = TRUE], [holds EXCEPT ![write] = item],
                 NextSlot(write), read, Append(items, item), n + 1)
<1> DEFINE next == NextSlot(write)
           raised == [filled EXCEPT ![write] = TRUE]
           held == [holds EXCEPT ![write] = item]
           more == Append(items, item)
           l == Len(items)
<1>1. NumSlots \in Nat \ {0} /\ l \in Nat /\ n \in Nat /\ n <= NumSlots
  BY AviAssumption DEF Ring
<1>2. next = Ahead(write, 1) /\ next \in Slots
  BY NextIsAhead
<1>3. n < NumSlots
  <2>1. SUFFICES ASSUME n = NumSlots PROVE FALSE
    BY <1>1
  <2>2. write = read /\ Distance(read, read) = 0
    BY <1>1, <2>1 DEF Ring, Ahead, Distance, Slots
  <2> QED
    BY <1>1, <2>1, <2>2 DEF Ring
<1>4. next = Ahead(read, n + 1)
  BY <1>1, <1>2, <1>3 DEF Ring, Ahead, Slots
<1>5. /\ Distance(read, write) = n
      /\ \A i \in Slots : i # write => Distance(read, i) # n
      /\ \A i \in Slots : Distance(read, i) \in Nat
  BY <1>1, <1>3 DEF Ring, Ahead, Slots, Distance
<1>6. /\ raised[write] /\ held[write] = item
      /\ \A i \in Slots : i # write => raised[i] = filled[i] /\ held[i] = holds[i]
  OBVIOUS
<1>7. Len(more) = l + 1 /\ more[l + 1] = item /\ \A i \in 1 .. l : more[i] = items[i]
  BY AppendProperties
<1> HIDE DEF raised, next, held, more, l
<1>8. \A i \in Slots : raised[i] <=> Distance(read, i) < n + 1
  <2> TAKE i \in Slots
  <2>1. (filled[i] <=> Distance(read, i) < n) /\ Distance(read, i) \in Nat
    BY <1>5 DEF Ring
  <2>2. CASE i = write
    BY <1>1, <1>5, <1>6, <2>2
  <2>3. CASE i # write
    BY <1>1, <1>5, <1>6, <2>1, <2>3
  <2> QED BY <2>2, <2>3
<1>9. \A i \in Slots : raised[i] => held[i] = more[Len(more) - (n + 1) + Distance(read, i) + 1]
  <2> TAKE i \in Slots
  <2> HAVE raised[i]
  <2> DEFINE d == Distance(read, i)
  <2>1. d \in Nat /\ (filled[i] <=> d < n)
    BY <1>5 DEF Ring
  <2>2. CASE i = write
    <3>1. Len(more) - (n + 1) + d + 1 = l + 1
      BY <1>1, <1>5, <1>7, <2>2
    <3> QED
      BY <1>6, <1>7, <2>2, <3>1
  <2>3. CASE i # write
    <3>1. filled[i] /\ held[i] = holds[i]
      BY <1>6, <2>3
    <3>2. holds[i] = items[l - n + d + 1]
      BY <3>1 DEF Ring, l
    <3> HIDE DEF d
    <3>3. d < n
      BY <2>1, <3>1
    <3>4. Len(more) - (n + 1) + d + 1 = l - n + d + 1
      BY <1>1, <1>7, <2>1
    <3>5. l - n + d + 1 \in 1 .. l
      BY <1>1, <2>1, <3>3 DEF l
    <3> QED
      BY <1>7, <3>1, <3>2, <3>4, <3>5 DEF d
  <2> QED BY <2>2, <2>3
<1>10. n + 1 \in 0 .. NumSlots
  BY <1>1, <1>3
<1> QED
  BY <1>1, <1>3, <1>4, <1>8, <1>9, <1>10 DEF Ring, raised, next, held, more

-----------------------------------------------------------------------------
(* What the files hold of one half, file by file.                          *)
Parts(fs, c) == [i \in 1 .. Len(fs) |-> fs[i][c]]

LEMMA WrittenIsFlat ==
  ASSUME NEW c
  PROVE  Written(c) = FlattenSeq(Parts(files, c))
  BY DEF Written, Parts

LEMMA FileHalf ==
  ASSUME NEW f \in FileType, NEW c \in Halves
  PROVE  f[c] \in Seq(Items)
<1>1. CASE c = "video"
  BY <1>1 DEF FileType
<1>2. CASE c = "audio"
  BY <1>2 DEF FileType
<1> QED
  BY <1>1, <1>2 DEF Halves

LEMMA PartsType ==
  ASSUME NEW fs \in Seq(FileType), NEW c \in Halves
  PROVE  /\ Parts(fs, c) \in Seq(Seq(Items)) /\ Len(Parts(fs, c)) = Len(fs)
         /\ \A i \in 1 .. Len(fs) : Parts(fs, c)[i] = fs[i][c]
<1>1. \A i \in 1 .. Len(fs) : fs[i][c] \in Seq(Items)
  BY FileHalf
<1>2. Len(fs) \in Nat
  OBVIOUS
<1>3. Parts(fs, c) \in [1 .. Len(fs) -> Seq(Items)]
  BY <1>1 DEF Parts
<1>4. Parts(fs, c) \in Seq(Seq(Items))
  BY <1>2, <1>3, SeqDef
<1>5. Len(Parts(fs, c)) = Len(fs)
  BY <1>2, <1>3, <1>4, LenProperties
<1> QED
  BY <1>4, <1>5 DEF Parts

(* A new file that is still empty.                                         *)
LEMMA FlatNew ==
  ASSUME NEW fs \in Seq(FileType), NEW f \in FileType, NEW c \in Halves, f[c] = << >>
  PROVE  FlattenSeq(Parts(Append(fs, f), c)) = FlattenSeq(Parts(fs, c))
<1> DEFINE more == Append(fs, f)
           old == Parts(fs, c)
<1>1. more \in Seq(FileType) /\ Len(more) = Len(fs) + 1 /\ more[Len(fs) + 1] = f
      /\ \A i \in 1 .. Len(fs) : more[i] = fs[i]
  BY AppendProperties
<1>2. old \in Seq(Seq(Items)) /\ Len(old) = Len(fs) /\ \A i \in 1 .. Len(fs) : old[i] = fs[i][c]
  BY PartsType
<1> HIDE DEF more
<1>3. /\ Parts(more, c) \in Seq(Seq(Items)) /\ Len(Parts(more, c)) = Len(more)
      /\ \A i \in 1 .. Len(more) : Parts(more, c)[i] = more[i][c]
  BY <1>1, PartsType
<1>4. << >> \in Seq(Items)
  OBVIOUS
<1> DEFINE put == Append(old, << >>)
<1>5. put \in Seq(Seq(Items)) /\ Len(put) = Len(fs) + 1 /\ put[Len(fs) + 1] = << >>
      /\ \A i \in 1 .. Len(fs) : put[i] = old[i]
  BY <1>2, <1>4, AppendProperties
<1> HIDE DEF old, put
<1> DEFINE new == Parts(more, c)
<1>6. \A i \in 1 .. Len(fs) + 1 : new[i] = put[i]
  <2> SUFFICES ASSUME NEW i \in 1 .. Len(fs) + 1
               PROVE  new[i] = put[i]
    OBVIOUS
  <2>1. i \in 1 .. Len(fs) \/ i = Len(fs) + 1
    OBVIOUS
  <2>2. new[i] = more[i][c]
    BY <1>1, <1>3
  <2> HIDE DEF new
  <2> QED
    BY <1>1, <1>2, <1>5, <2>1, <2>2
<1>7. new = put
  <2>1. Len(new) = Len(put)
    BY <1>1, <1>3, <1>5
  <2> HIDE DEF new
  <2>2. new \in Seq(Seq(Items))
    BY <1>3 DEF new
  <2>3. \A i \in 1 .. Len(new) : new[i] = put[i]
    BY <1>5, <1>6, <2>1
  <2> QED
    BY <1>5, <2>1, <2>2, <2>3, SeqEqual
<1>8. FlattenSeq(put) = FlattenSeq(old) \o << >>
  BY <1>2, <1>4, FlattenAppend DEF put
<1>9. FlattenSeq(old) \in Seq(Items)
  BY <1>2, FlattenType
<1>10. FlattenSeq(old) \o << >> = FlattenSeq(old)
  BY <1>9, ConcatEmptySeq
<1> QED
  BY <1>7, <1>8, <1>10, Zenon DEF new, more, old

LEMMA ConcatAppend ==
  ASSUME NEW S, NEW s \in Seq(S), NEW t \in Seq(S), NEW x \in S
  PROVE  s \o Append(t, x) = Append(s \o t, x)
  OBVIOUS

(* An item more in the last file.                                          *)
LEMMA FlatMore ==
  ASSUME NEW fs \in Seq(FileType), NEW gs \in Seq(FileType), fs # << >>, Len(gs) = Len(fs),
         NEW c \in Halves, NEW item \in Items,
         \A i \in 1 .. Len(fs) : i # Len(fs) => gs[i][c] = fs[i][c],
         gs[Len(fs)][c] = Append(fs[Len(fs)][c], item)
  PROVE  FlattenSeq(Parts(gs, c)) = Append(FlattenSeq(Parts(fs, c)), item)
<1> DEFINE n == Len(fs)
           old == Parts(fs, c)
           new == Parts(gs, c)
           front == SubSeq(old, 1, n - 1)
           last == fs[n][c]
<1>1. n \in Nat /\ n # 0
  OBVIOUS
<1>2. old \in Seq(Seq(Items)) /\ Len(old) = n /\ \A i \in 1 .. n : old[i] = fs[i][c]
  BY PartsType
<1>3. new \in Seq(Seq(Items)) /\ Len(new) = n /\ \A i \in 1 .. n : new[i] = gs[i][c]
  BY PartsType
<1>4. last \in Seq(Items) /\ Append(last, item) \in Seq(Items)
  BY <1>1, FileHalf, AppendProperties
<1>c. /\ \A i \in 1 .. n : i # n => gs[i][c] = fs[i][c]
      /\ gs[n][c] = Append(last, item)
  OBVIOUS
<1>d. fs[n][c] = last
  OBVIOUS
<1> HIDE DEF old, new, last, n
<1>5. front \in Seq(Seq(Items)) /\ Len(front) = n - 1
      /\ \A i \in 1 .. n - 1 : front[i] = old[i]
  BY <1>1, <1>2, SubSeqProperties
<1> HIDE DEF front
<1>6. ASSUME NEW s \in Seq(Items), NEW t \in Seq(Seq(Items)), Len(t) = n,
             \A i \in 1 .. n - 1 : t[i] = front[i], t[n] = s
      PROVE  t = Append(front, s)
  <2> DEFINE p == Append(front, s)
  <2>1. p \in Seq(Seq(Items)) /\ Len(p) = n /\ p[n] = s /\ \A i \in 1 .. n - 1 : p[i] = front[i]
    BY <1>1, <1>5, AppendProperties
  <2> HIDE DEF p
  <2>2. \A i \in 1 .. n : t[i] = p[i]
    <3> TAKE i \in 1 .. n
    <3>1. i = n \/ i \in 1 .. n - 1
      BY <1>1
    <3> QED
      BY <1>6, <2>1, <3>1
  <2>3. t = p
    BY <1>6, <2>1, <2>2, SeqEqual
  <2> QED
    BY <2>3 DEF p
<1>7. old = Append(front, last)
  <2>1. old[n] = last
    BY <1>1, <1>2, <1>d
  <2>2. \A i \in 1 .. n - 1 : old[i] = front[i]
    BY <1>5
  <2> QED
    BY <1>2, <1>4, <1>6, <2>1, <2>2
<1>8. new = Append(front, Append(last, item))
  <2>1. new[n] = Append(last, item)
    BY <1>1, <1>3, <1>c
  <2>2. \A i \in 1 .. n - 1 : new[i] = front[i]
    <3> TAKE i \in 1 .. n - 1
    <3>1. i \in 1 .. n /\ i # n
      BY <1>1
    <3> QED
      BY <1>2, <1>3, <1>5, <1>c, <3>1
  <2> QED
    BY <1>3, <1>4, <1>6, <2>1, <2>2
<1> DEFINE f == FlattenSeq(front)
           g == FlattenSeq(old)
<1>9. f \in Seq(Items)
  BY <1>5, FlattenType
<1>10. FlattenSeq(old) = f \o last /\ FlattenSeq(new) = f \o Append(last, item)
  BY <1>4, <1>5, <1>7, <1>8, FlattenAppend
<1> HIDE DEF f
<1>11. f \o Append(last, item) = Append(f \o last, item)
  BY <1>4, <1>9, ConcatAppend
<1> QED
  BY <1>10, <1>11, Zenon DEF old, new

(* Files that hold the same of a half.                                     *)
LEMMA FlatSame ==
  ASSUME NEW fs \in Seq(FileType), NEW gs \in Seq(FileType), Len(gs) = Len(fs), NEW c \in Halves,
         \A i \in 1 .. Len(fs) : gs[i][c] = fs[i][c]
  PROVE  FlattenSeq(Parts(gs, c)) = FlattenSeq(Parts(fs, c))
<1>1. Parts(gs, c) = Parts(fs, c)
  BY DEF Parts
<1> QED
  BY <1>1

-----------------------------------------------------------------------------
(* AviDumper: what each action does to the variables of the dumper.        *)
AviIs(a, mode, open, size, fileSize, splitCount, discardCount, requested, empty) ==
  /\ a.mode = mode /\ a.open = open /\ a.size = size /\ a.fileSize = fileSize
  /\ a.splitCount = splitCount /\ a.discardCount = discardCount
  /\ a.requestedSplitCount = requested /\ a.oldIsBasicallyEmpty = empty
AlmostEmptyNow == /\ stream["video"]
                  /\ count["video"] < BasicallyEmptyVideo
                  /\ count["audio"] < BasicallyEmptyAudio

LEMMA AviFields ==
  ASSUME NEW a \in AviType
  PROVE  /\ a.mode \in SUBSET Halves /\ a.open \in BOOLEAN /\ a.size \in Sizes \cup {NoSize}
         /\ a.fileSize \in Nat /\ a.splitCount \in Nat /\ a.discardCount \in Nat
         /\ a.requestedSplitCount \in Nat /\ a.oldIsBasicallyEmpty \in BOOLEAN
  BY DEF AviType

LEMMA AviTyped ==
  ASSUME TypeOK
  PROVE  avi \in AviType
  BY DEF TypeOK

LEMMA CallEffect ==
  ASSUME NEW ret, NEW flags \in AviType, CallCloseAVI(ret, flags)
  PROVE  /\ avi' \in AviType
         /\ AviIs(avi', flags.mode, flags.open, flags.size, flags.fileSize, flags.splitCount,
                  flags.discardCount, flags.requestedSplitCount, avi'.oldIsBasicallyEmpty)
         /\ avi'.oldIsBasicallyEmpty => flags.oldIsBasicallyEmpty \/ AlmostEmptyNow
         /\ after' = ret /\ pc' = "flush"
<1> DEFINE old == flags.oldIsBasicallyEmpty \/ /\ stream["video"]
                                               /\ count["video"] < BasicallyEmptyVideo
                                               /\ count["audio"] < BasicallyEmptyAudio
<1>1. old \in BOOLEAN /\ (old => flags.oldIsBasicallyEmpty \/ AlmostEmptyNow)
  BY DEF AlmostEmptyNow
<1>2. avi' = [flags EXCEPT !.oldIsBasicallyEmpty = old] /\ after' = ret /\ pc' = "flush"
  BY DEF CallCloseAVI, Goto
<1> HIDE DEF old
<1>3. avi' \in AviType
  BY <1>1, <1>2 DEF AviType
<1>4. avi'.oldIsBasicallyEmpty = old
  BY <1>2 DEF AviType
<1>5. AviIs(avi', flags.mode, flags.open, flags.size, flags.fileSize, flags.splitCount,
            flags.discardCount, flags.requestedSplitCount, old)
  BY <1>2 DEF AviType, AviIs
<1> QED
  BY <1>1, <1>2, <1>3, <1>4, <1>5 DEF AviIs

LEMMA CountFrameEffect ==
  ASSUME TypeOK, NEW c \in Halves, CountFrame(c)
  PROVE  /\ avi' \in AviType
         /\ AviIs(avi', avi.mode, avi.open, avi.size, avi.fileSize + 1, avi.splitCount,
                  avi.discardCount, avi'.requestedSplitCount, avi.oldIsBasicallyEmpty)
<1>1. avi \in AviType
  BY AviTyped
<1> DEFINE requested == IF avi.fileSize + 1 > MaxFileSize THEN avi.splitCount + 1
                        ELSE avi.requestedSplitCount
<1>2. requested \in Nat /\ avi.fileSize + 1 \in Nat
  BY <1>1, AviFields
<1>3. avi' = [avi EXCEPT !.fileSize = avi.fileSize + 1, !.requestedSplitCount = requested]
  BY DEF CountFrame
<1> HIDE DEF requested
<1>4. avi' \in AviType
  BY <1>1, <1>2, <1>3 DEF AviType
<1>5. AviIs(avi', avi.mode, avi.open, avi.size, avi.fileSize + 1, avi.splitCount,
            avi.discardCount, requested, avi.oldIsBasicallyEmpty)
  BY <1>1, <1>3 DEF AviType, AviIs
<1> QED
  BY <1>4, <1>5 DEF AviIs

LEMMA CloseEffect ==
  ASSUME TypeOK, CloseAVI
  PROVE  /\ avi' \in AviType
         /\ AviIs(avi', {}, FALSE, avi.size, 0, 0, 0, avi.requestedSplitCount,
                  avi.oldIsBasicallyEmpty)
<1>1. avi \in AviType
  BY AviTyped
<1> QED
  BY <1>1 DEF CloseAVI, AviType, AviIs

LEMMA HandleEffect ==
  ASSUME TypeOK, HandleAviSplitRequests
  PROVE  /\ avi' \in AviType
         /\ AviIs(avi', saved.mode, avi.open, avi.size, avi.fileSize, saved.requested,
                  saved.discardCount, 0, avi.oldIsBasicallyEmpty)
<1>1. avi \in AviType /\ saved.mode \in SUBSET Halves /\ saved.requested \in Nat
      /\ saved.discardCount \in Nat
  BY AviTyped DEF TypeOK
<1> QED
  BY <1>1 DEF HandleAviSplitRequests, AviType, AviIs

SavedType == [mode : SUBSET Halves, splitCount : Nat, discardCount : Nat, requested : Nat]
LEMMA SavedFields ==
  ASSUME NEW a \in AviType
  PROVE  /\ Saved(a) \in SavedType
         /\ Saved(a).mode = a.mode /\ Saved(a).splitCount = a.splitCount
         /\ Saved(a).discardCount = a.discardCount /\ Saved(a).requested = a.requestedSplitCount
  BY DEF Saved, SavedType, AviType

FrameType == [size : Sizes \cup {NoSize}, hasSound : BOOLEAN, opening : Sizes \cup {NoSize}]
LEMMA FrameTyped ==
  ASSUME TypeOK
  PROVE  frame \in FrameType
  BY DEF TypeOK, FrameType

LEMMA FrameFields ==
  ASSUME NEW f \in FrameType
  PROVE  f.size \in Sizes \cup {NoSize} /\ f.hasSound \in BOOLEAN
         /\ f.opening \in Sizes \cup {NoSize}
  BY DEF FrameType

LEMMA OpenEffect ==
  ASSUME TypeOK, NEW flags \in AviType, NEW size \in Sizes \cup {NoSize}, OpenAVIFile(flags, size)
  PROVE  /\ avi' \in AviType
         /\ AviIs(avi', flags.mode, flags.open, flags.size, flags.fileSize, flags.splitCount,
                  flags.discardCount, flags.requestedSplitCount, avi'.oldIsBasicallyEmpty)
         /\ avi'.oldIsBasicallyEmpty => flags.oldIsBasicallyEmpty \/ AlmostEmptyNow
         /\ after' = "opened" /\ pc' = "flush"
         /\ saved' \in SavedType
         /\ saved'.mode = flags.mode /\ saved'.splitCount = flags.splitCount
         /\ saved'.discardCount = flags.discardCount
         /\ frame' \in FrameType
         /\ frame'.size = frame.size /\ frame'.hasSound = frame.hasSound /\ frame'.opening = size
<1>1. CallCloseAVI("opened", flags)
  BY DEF OpenAVIFile
<1>2. saved' = Saved(flags) /\ frame' = [frame EXCEPT !.opening = size] /\ frame \in FrameType
  BY FrameTyped DEF OpenAVIFile
<1>3. /\ saved' \in SavedType
      /\ saved'.mode = flags.mode /\ saved'.splitCount = flags.splitCount
      /\ saved'.discardCount = flags.discardCount
  BY <1>2, SavedFields
<1>4. /\ frame' \in FrameType
      /\ frame'.size = frame.size /\ frame'.hasSound = frame.hasSound /\ frame'.opening = size
  BY <1>2 DEF FrameType
<1>5. /\ avi' \in AviType
      /\ AviIs(avi', flags.mode, flags.open, flags.size, flags.fileSize, flags.splitCount,
               flags.discardCount, flags.requestedSplitCount, avi'.oldIsBasicallyEmpty)
      /\ avi'.oldIsBasicallyEmpty => flags.oldIsBasicallyEmpty \/ AlmostEmptyNow
      /\ after' = "opened" /\ pc' = "flush"
  BY <1>1, CallEffect
<1> QED
  BY <1>3, <1>4, <1>5

(* WriteAVIFrame with another file, OpenAVIAudioStream without a file.     *)
WritesToNewFile == WriteAVIFrame /\ ~SameFile(frame.size)
SoundWithoutFile == OpenAVIAudioStream /\ ~avi.open

LEMMA NewFileEffect ==
  ASSUME TypeOK, WritesToNewFile
  PROVE  \E split \in Nat :
         /\ split = IF avi.open THEN avi.splitCount + 1 ELSE avi.splitCount
         /\ avi' \in AviType
         /\ AviIs(avi', avi.mode, avi.open, avi.size, avi.fileSize, split,
                  avi.discardCount, avi.requestedSplitCount, avi'.oldIsBasicallyEmpty)
         /\ avi'.oldIsBasicallyEmpty => avi.oldIsBasicallyEmpty \/ AlmostEmptyNow
         /\ after' = "opened" /\ pc' = "flush"
         /\ saved' \in SavedType
         /\ saved'.mode = avi.mode /\ saved'.splitCount = split
         /\ saved'.discardCount = avi.discardCount
         /\ frame' \in FrameType
         /\ frame'.size = frame.size /\ frame'.hasSound = frame.hasSound
         /\ frame'.opening = frame.size
<1> DEFINE split == IF avi.open THEN avi.splitCount + 1 ELSE avi.splitCount
           flags == [avi EXCEPT !.splitCount = split]
<1>1. avi \in AviType /\ frame \in FrameType
  BY AviTyped, FrameTyped
<1>2. split \in Nat /\ frame.size \in Sizes \cup {NoSize}
  BY <1>1, AviFields, FrameFields
<1>3. OpenAVIFile(flags, frame.size)
  BY DEF WritesToNewFile, WriteAVIFrame
<1>d. split = IF avi.open THEN avi.splitCount + 1 ELSE avi.splitCount
  OBVIOUS
<1> HIDE DEF split
<1>4. /\ flags \in AviType
      /\ AviIs(flags, avi.mode, avi.open, avi.size, avi.fileSize, split, avi.discardCount,
               avi.requestedSplitCount, avi.oldIsBasicallyEmpty)
  BY <1>1, <1>2 DEF AviType, AviIs
<1> HIDE DEF flags
<1>5. /\ avi' \in AviType
      /\ AviIs(avi', flags.mode, flags.open, flags.size, flags.fileSize, flags.splitCount,
               flags.discardCount, flags.requestedSplitCount, avi'.oldIsBasicallyEmpty)
      /\ avi'.oldIsBasicallyEmpty => flags.oldIsBasicallyEmpty \/ AlmostEmptyNow
      /\ after' = "opened" /\ pc' = "flush"
      /\ saved' \in SavedType
      /\ saved'.mode = flags.mode /\ saved'.splitCount = flags.splitCount
      /\ saved'.discardCount = flags.discardCount
      /\ frame' \in FrameType
      /\ frame'.size = frame.size /\ frame'.hasSound = frame.hasSound
      /\ frame'.opening = frame.size
  BY <1>2, <1>3, <1>4, OpenEffect
<1> QED
  BY <1>2, <1>4, <1>5, <1>d, Zenon DEF AviIs

LEMMA SoundFileEffect ==
  ASSUME TypeOK, SoundWithoutFile
  PROVE  \E size \in Sizes \cup {NoSize} :
         /\ size = IF "video" \in avi.mode THEN avi.size ELSE NoSize
         /\ avi' \in AviType
         /\ AviIs(avi', avi.mode, avi.open, size, avi.fileSize, avi.splitCount,
                  avi.discardCount, avi.requestedSplitCount, avi'.oldIsBasicallyEmpty)
         /\ avi'.oldIsBasicallyEmpty => avi.oldIsBasicallyEmpty \/ AlmostEmptyNow
         /\ after' = "opened" /\ pc' = "flush"
         /\ saved' \in SavedType
         /\ saved'.mode = avi.mode /\ saved'.splitCount = avi.splitCount
         /\ saved'.discardCount = avi.discardCount
         /\ frame' \in FrameType
         /\ frame'.size = frame.size /\ frame'.hasSound = frame.hasSound
         /\ frame'.opening = size
<1> DEFINE size == IF "video" \in avi.mode THEN avi.size ELSE NoSize
           flags == [avi EXCEPT !.size = size]
<1>1. avi \in AviType
  BY AviTyped
<1>2. size \in Sizes \cup {NoSize}
  BY <1>1, AviFields
<1>3. OpenAVIFile(flags, size)
  BY DEF SoundWithoutFile, OpenAVIAudioStream, HasFile
<1>d. size = IF "video" \in avi.mode THEN avi.size ELSE NoSize
  OBVIOUS
<1> HIDE DEF size
<1>4. /\ flags \in AviType
      /\ AviIs(flags, avi.mode, avi.open, size, avi.fileSize, avi.splitCount, avi.discardCount,
               avi.requestedSplitCount, avi.oldIsBasicallyEmpty)
  BY <1>1, <1>2 DEF AviType, AviIs
<1> HIDE DEF flags
<1>5. /\ avi' \in AviType
      /\ AviIs(avi', flags.mode, flags.open, flags.size, flags.fileSize, flags.splitCount,
               flags.discardCount, flags.requestedSplitCount, avi'.oldIsBasicallyEmpty)
      /\ avi'.oldIsBasicallyEmpty => flags.oldIsBasicallyEmpty \/ AlmostEmptyNow
      /\ after' = "opened" /\ pc' = "flush"
      /\ saved' \in SavedType
      /\ saved'.mode = flags.mode /\ saved'.splitCount = flags.splitCount
      /\ saved'.discardCount = flags.discardCount
      /\ frame' \in FrameType
      /\ frame'.size = frame.size /\ frame'.hasSound = frame.hasSound
      /\ frame'.opening = size
  BY <1>2, <1>3, <1>4, OpenEffect
<1> QED
  BY <1>2, <1>4, <1>5, <1>d, Zenon DEF AviIs

LEMMA SavedTyped ==
  ASSUME TypeOK
  PROVE  saved \in SavedType /\ saved.mode \in SUBSET Halves /\ saved.splitCount \in Nat
         /\ saved.discardCount \in Nat /\ saved.requested \in Nat
  BY DEF TypeOK, SavedType

(* The new file, and whether the last one is discarded.                    *)
NewFile(discard) ==
  [segment |-> Segment(saved.splitCount, discard), size |-> frame.opening,
   video |-> <<>>, audio |-> <<>>]
LEMMA OpenedEffect ==
  ASSUME TypeOK, OpenedAVIFile
  PROVE  \E discard \in Nat :
         /\ \/ discard = saved.discardCount
            \/ /\ discard = saved.discardCount + 1
               /\ saved.splitCount > 0 /\ avi.oldIsBasicallyEmpty
         /\ avi' \in AviType
         /\ AviIs(avi', saved.mode, TRUE, frame.opening, avi.fileSize, saved.splitCount, discard,
                  avi.requestedSplitCount, FALSE)
         /\ files' = Append(files, NewFile(discard))
<1> DEFINE discard == saved.discardCount + (IF Discards THEN 1 ELSE 0)
<1>1. avi \in AviType /\ saved.mode \in SUBSET Halves /\ saved.splitCount \in Nat
      /\ saved.discardCount \in Nat /\ frame.opening \in Sizes \cup {NoSize}
  BY AviTyped, SavedTyped, FrameTyped, FrameFields
<1>2. /\ discard \in Nat
      /\ \/ discard = saved.discardCount
         \/ /\ discard = saved.discardCount + 1
            /\ saved.splitCount > 0 /\ avi.oldIsBasicallyEmpty
  BY <1>1 DEF Discards
<1>3. /\ avi' = [avi EXCEPT !.mode = saved.mode, !.splitCount = saved.splitCount,
                            !.discardCount = discard, !.oldIsBasicallyEmpty = FALSE,
                            !.open = TRUE, !.size = frame.opening]
      /\ files' = Append(files, NewFile(discard))
  BY DEF OpenedAVIFile, NewFile
<1> HIDE DEF discard
<1>4. avi' \in AviType
  BY <1>1, <1>2, <1>3 DEF AviType
<1>5. AviIs(avi', saved.mode, TRUE, frame.opening, avi.fileSize, saved.splitCount, discard,
            avi.requestedSplitCount, FALSE)
  BY <1>1, <1>3 DEF AviType, AviIs
<1> QED
  BY <1>2, <1>3, <1>4, <1>5

LEMMA CancelVideoEffect ==
  ASSUME TypeOK, CancelVideoCodec
  PROVE  /\ avi' \in AviType
         /\ AviIs(avi', avi.mode, avi.open, avi.size, avi.fileSize, avi.splitCount,
                  avi.discardCount, avi.requestedSplitCount, TRUE)
<1>1. avi \in AviType
  BY AviTyped
<1> QED
  BY <1>1 DEF CancelVideoCodec, AviType, AviIs

LEMMA CancelAudioEffect ==
  ASSUME TypeOK, CancelAudioCodec
  PROVE  /\ avi' \in AviType
         /\ AviIs(avi', avi.mode \ {"audio"}, avi.open, avi.size, avi.fileSize, avi.splitCount,
                  avi.discardCount, avi.requestedSplitCount, avi.oldIsBasicallyEmpty)
<1>1. avi \in AviType
  BY AviTyped
<1> QED
  BY <1>1 DEF CancelAudioCodec, AviType, AviIs

LEMMA StartEffect ==
  ASSUME TypeOK, NEW mode \in SUBSET Halves, StartCapture(mode)
  PROVE  /\ avi' \in AviType
         /\ AviIs(avi', mode, avi.open, avi.size, avi.fileSize, avi.splitCount,
                  avi.discardCount, avi.requestedSplitCount, avi.oldIsBasicallyEmpty)
<1>1. avi \in AviType
  BY AviTyped
<1> QED
  BY <1>1 DEF StartCapture, AviType, AviIs

LEMMA StopEffect ==
  ASSUME TypeOK, StopCapture
  PROVE  /\ avi' \in AviType
         /\ AviIs(avi', {}, avi.open, avi.size, avi.fileSize, avi.splitCount,
                  avi.discardCount, avi.requestedSplitCount, avi'.oldIsBasicallyEmpty)
         /\ after' = "game" /\ pc' = "flush"
<1> DEFINE flags == [avi EXCEPT !.mode = {}]
<1>1. avi \in AviType
  BY AviTyped
<1>2. /\ flags \in AviType
      /\ AviIs(flags, {}, avi.open, avi.size, avi.fileSize, avi.splitCount, avi.discardCount,
               avi.requestedSplitCount, avi.oldIsBasicallyEmpty)
  BY <1>1 DEF AviType, AviIs
<1>3. CallCloseAVI("game", flags)
  BY DEF StopCapture
<1> HIDE DEF flags
<1>4. /\ avi' \in AviType
      /\ AviIs(avi', flags.mode, flags.open, flags.size, flags.fileSize, flags.splitCount,
               flags.discardCount, flags.requestedSplitCount, avi'.oldIsBasicallyEmpty)
      /\ after' = "game" /\ pc' = "flush"
  BY <1>2, <1>3, CallEffect
<1> QED
  BY <1>2, <1>4, Zenon DEF AviIs

LEMMA SplitNowEffect ==
  ASSUME TypeOK, SplitAVINow
  PROVE  /\ avi' \in AviType
         /\ AviIs(avi', avi.mode, avi.open, avi.size, avi.fileSize, avi.splitCount,
                  avi.discardCount, avi'.requestedSplitCount, avi.oldIsBasicallyEmpty)
<1>1. avi \in AviType /\ avi.splitCount + 1 \in Nat
  BY AviTyped, AviFields
<1> QED
  BY <1>1 DEF SplitAVINow, AviType, AviIs

(* FrameBoundary with and without a split.                                 *)
Splits(size, hasSound) == FrameBoundary(size, hasSound) /\ avi.requestedSplitCount > avi.splitCount
Boundary(size, hasSound) ==
  FrameBoundary(size, hasSound) /\ ~(avi.requestedSplitCount > avi.splitCount)

LEMMA SplitsEffect ==
  ASSUME TypeOK, NEW size, NEW hasSound, Splits(size, hasSound)
  PROVE  /\ avi' \in AviType
         /\ AviIs(avi', avi.mode, avi.open, avi.size, avi.fileSize, avi.splitCount,
                  avi.discardCount, avi.requestedSplitCount, avi'.oldIsBasicallyEmpty)
         /\ avi'.oldIsBasicallyEmpty => avi.oldIsBasicallyEmpty \/ AlmostEmptyNow
         /\ after' = "split" /\ pc' = "flush"
         /\ saved' \in SavedType
         /\ saved'.mode = avi.mode /\ saved'.splitCount = avi.splitCount
         /\ saved'.discardCount = avi.discardCount
         /\ saved'.requested = avi.requestedSplitCount
<1>1. avi \in AviType
  BY AviTyped
<1>2. CallCloseAVI("split", avi) /\ saved' = Saved(avi)
  BY DEF Splits, FrameBoundary
<1>3. /\ avi' \in AviType
      /\ AviIs(avi', avi.mode, avi.open, avi.size, avi.fileSize, avi.splitCount,
               avi.discardCount, avi.requestedSplitCount, avi'.oldIsBasicallyEmpty)
      /\ avi'.oldIsBasicallyEmpty => avi.oldIsBasicallyEmpty \/ AlmostEmptyNow
      /\ after' = "split" /\ pc' = "flush"
  BY <1>1, <1>2, CallEffect
<1>4. /\ saved' \in SavedType
      /\ saved'.mode = avi.mode /\ saved'.splitCount = avi.splitCount
      /\ saved'.discardCount = avi.discardCount /\ saved'.requested = avi.requestedSplitCount
  BY <1>1, <1>2, SavedFields
<1> QED
  BY <1>3, <1>4

-----------------------------------------------------------------------------
(* The invariant.  While CloseAVI runs, and until the flags are restored   *)
(* after it, the halves that are captured are the saved ones.              *)
Plain    == {"game", "video", "fill", "audio", "sound", "silence", "audioStream", "write"}
Closing  == pc \in {"flush", "delete", "join"}
Stopping == Closing /\ after = "game"
Opening  == pc = "opened" \/ (Closing /\ after = "opened")
Splitting == pc = "split" \/ (Closing /\ after = "split")
Mode     == IF pc \in {"split", "opened"} THEN saved.mode ELSE avi.mode

(* Where the debugger thread is, and what it knows there.                  *)
ControlInv ==
  /\ pc \in Plain \cup {"split", "opened", "flush", "delete", "join"}
  /\ after \in {"game", "split", "opened"}
  /\ threadDone <=> pc = "join"
  /\ Closing => avi.mode = IF after = "game" THEN {} ELSE saved.mode
  /\ pc \in {"split", "opened"} => avi.mode = {} /\ ~avi.open
  /\ aviCS => "audio" \in Mode
  /\ aviCS /\ Closing => after = "opened"
  /\ \A c \in Halves : stream[c] => c \in avi.mode \/ Stopping
  /\ Opening => /\ saved.mode # {}
                /\ frame.opening # NoSize => "video" \in saved.mode
                /\ ~aviCS => frame.opening # NoSize /\ frame.opening = frame.size
  /\ pc \in {"audioStream", "write", "sound", "silence"} => "audio" \in avi.mode /\ avi.open
  /\ pc = "audioStream" => ~stream["audio"] /\ aviCS
  /\ pc \in {"write", "sound", "silence"} => stream["audio"]
  /\ pc = "fill" => stream["video"] /\ frame.size \in {avi.size, NoSize}
  /\ avi.open => files # <<>>
  /\ frames \in 0 .. MaxFrames

(* A segment that is opened later has no smaller number, and the same one  *)
(* only if the segment before it was almost empty.                         *)
SegmentOrder ==
  /\ avi.discardCount <= avi.splitCount
  /\ Opening \/ Splitting => saved.discardCount <= saved.splitCount
  /\ Splitting => saved.requested > saved.splitCount
  /\ Opening /\ saved.splitCount > 0 => saved.discardCount < saved.splitCount
  /\ ~avi.open /\ avi.splitCount > 0 /\ ~Closing => avi.discardCount < avi.splitCount

LEMMA QueueTyped ==
  ASSUME TypeOK
  PROVE  /\ hasProcessed \in [Halves -> [Slots -> BOOLEAN]]
         /\ contents \in [Halves -> [Slots -> Items]]
         /\ nextWrite \in [Halves -> Slots] /\ nextRead \in [Halves -> Slots]
         /\ threadDone \in BOOLEAN /\ aviCS \in BOOLEAN
         /\ stream \in [Halves -> BOOLEAN] /\ count \in [Halves -> Nat]
         /\ encoder \in [Halves -> {"wait", "output", "count", "clear", "exited"}]
  BY DEF TypeOK

LEMMA HistoryTyped ==
  ASSUME TypeOK
  PROVE  /\ captured \in [Halves -> Seq(Items)]
         /\ files \in Seq(FileType)
         /\ \A c \in Halves : stream[c] => avi.open
         /\ aviCS => pc \in {"flush", "delete", "join", "opened", "audioStream"}
  BY DEF TypeOK

(* The actions that take the debugger from one place to another and leave  *)
(* the queue, the dumper and the files alone.                              *)
Turn == \/ WriteAVIFrame /\ SameFile(frame.size)
        \/ RewriteAVIFrame \/ SkipAudio \/ WriteAVIAudio \/ CaughtUp
        \/ OpenAVIAudioStream /\ avi.open
        \/ \E size \in Sizes \cup {NoSize}, hasSound \in BOOLEAN : Boundary(size, hasSound)

LEMMA TurnEffect ==
  ASSUME TypeOK, ControlInv, Turn
  PROVE  /\ UNCHANGED <<queueVars, stream, count, avi, encoder, saved, after, captured, files,
                        splits>>
         /\ pc \in Plain /\ pc' \in Plain
         /\ frame' \in FrameType
<1>1. frame \in FrameType
  BY FrameTyped
<1>2. CASE WriteAVIFrame /\ SameFile(frame.size)
  BY <1>1, <1>2 DEF WriteAVIFrame, At, Goto, Plain, callVars, history, queueVars, aviVars
<1>3. CASE RewriteAVIFrame \/ SkipAudio \/ WriteAVIAudio \/ CaughtUp
  BY <1>1, <1>3 DEF RewriteAVIFrame, SkipAudio, WriteAVIAudio, CaughtUp, At, Goto, Plain, callVars,
       history, queueVars, aviVars
<1>4. CASE OpenAVIAudioStream /\ avi.open
  BY <1>1, <1>4 DEF OpenAVIAudioStream, HasFile, At, Goto, Plain, callVars, history, queueVars,
       aviVars
<1>5. ASSUME NEW size \in Sizes \cup {NoSize}, NEW hasSound \in BOOLEAN, Boundary(size, hasSound)
      PROVE  /\ UNCHANGED <<queueVars, stream, count, avi, encoder, saved, after, captured, files,
                            splits>>
             /\ pc \in Plain /\ pc' \in Plain
             /\ frame' \in FrameType
  <2>1. frame' = [size |-> size, hasSound |-> hasSound, opening |-> NoSize]
    BY <1>5 DEF Boundary, FrameBoundary
  <2>2. frame' \in FrameType
    BY <2>1 DEF FrameType
  <2> QED
    BY <1>5, <2>2 DEF Boundary, FrameBoundary, At, Goto, Plain, callVars, history, queueVars,
         aviVars
<1> QED
  BY <1>2, <1>3, <1>4, <1>5 DEF Turn

LEMMA ReplaceLast ==
  ASSUME NEW S, NEW s \in Seq(S), NEW n \in 1 .. Len(s), NEW x \in S
  PROVE  /\ [s EXCEPT ![n] = x] \in Seq(S) /\ Len([s EXCEPT ![n] = x]) = Len(s)
         /\ [s EXCEPT ![n] = x][n] = x
         /\ \A i \in 1 .. Len(s) : i # n => [s EXCEPT ![n] = x][i] = s[i]
  OBVIOUS

(* The last file with an item more.                                        *)
Grown(fs, gs, c, item) == gs = [fs EXCEPT ![Len(fs)][c] = Append(@, item)]

LEMMA FilesMore ==
  ASSUME NEW fs \in Seq(FileType), fs # <<>>, NEW c \in Halves, NEW item \in Items,
         NEW gs, Grown(fs, gs, c, item)
  PROVE  /\ gs \in Seq(FileType) /\ Len(gs) = Len(fs) /\ gs # <<>>
         /\ \A i \in 1 .. Len(fs) : i # Len(fs) => gs[i] = fs[i]
         /\ gs[Len(fs)].segment = fs[Len(fs)].segment /\ gs[Len(fs)].size = fs[Len(fs)].size
         /\ gs[Len(fs)][c] = Append(fs[Len(fs)][c], item)
         /\ \A d \in Halves : d # c => gs[Len(fs)][d] = fs[Len(fs)][d]
<1> DEFINE n == Len(fs)
           f == fs[n]
           g == [f EXCEPT ![c] = Append(@, item)]
<1>1. n \in Nat /\ n # 0 /\ n \in 1 .. n /\ f \in FileType
  OBVIOUS
<1>2. gs = [fs EXCEPT ![n] = g]
  BY DEF Grown
<1>3. f[c] \in Seq(Items)
  BY <1>1, FileHalf
<1>4. Append(f[c], item) \in Seq(Items)
  BY <1>3
<1>f. f = fs[n]
  OBVIOUS
<1> HIDE DEF f
<1>5. /\ g \in FileType /\ g.segment = f.segment /\ g.size = f.size
      /\ g[c] = Append(f[c], item) /\ \A d \in Halves : d # c => g[d] = f[d]
  <2> DEFINE more == Append(f[c], item)
  <2>1. g = [f EXCEPT ![c] = more]
    OBVIOUS
  <2>m. more \in Seq(Items)
    BY <1>4
  <2> HIDE DEF more
  <2>2. CASE c = "video"
    BY <1>1, <2>1, <2>2, <2>m DEF FileType, Halves, more
  <2>3. CASE c = "audio"
    BY <1>1, <2>1, <2>3, <2>m DEF FileType, Halves, more
  <2> QED
    BY <2>2, <2>3 DEF Halves
<1> HIDE DEF g, n
<1>6. gs \in Seq(FileType) /\ Len(gs) = n /\ gs[n] = g /\ \A i \in 1 .. n : i # n => gs[i] = fs[i]
  <2>1. Len(fs) = n
    BY DEF n
  <2>2. n \in 1 .. Len(fs) /\ g \in FileType
    BY <1>1, <1>5, <2>1
  <2>3. /\ gs \in Seq(FileType) /\ Len(gs) = Len(fs) /\ gs[n] = g
        /\ \A i \in 1 .. Len(fs) : i # n => gs[i] = fs[i]
    <3> DEFINE e == [fs EXCEPT ![n] = g]
    <3>1. /\ e \in Seq(FileType) /\ Len(e) = Len(fs) /\ e[n] = g
          /\ \A i \in 1 .. Len(fs) : i # n => e[i] = fs[i]
      BY <2>2, ReplaceLast
    <3> HIDE DEF e
    <3>2. gs = e
      BY <1>2 DEF e
    <3> QED
      BY <3>1, <3>2, Zenon
  <2> QED
    BY <2>1, <2>3, Zenon
<1>7. gs # <<>>
  BY <1>1, <1>6
<1> QED
  BY <1>5, <1>6, <1>7, <1>f DEF n

-----------------------------------------------------------------------------
(* The actions by what they do to the queue and the files.                 *)
Calls == \/ WritesToNewFile \/ SoundWithoutFile
         \/ \E size \in Sizes \cup {NoSize}, hasSound \in BOOLEAN : Splits(size, hasSound)
Fills == FillFrame \/ FillAudioFrame \/ FillEmptyAudioFrame

LEMMA NextCases ==
  ASSUME TypeOK, Next
  PROVE  \/ Turn \/ Calls \/ Fills \/ StopCapture \/ SplitAVINow
         \/ \E c \in Halves : WaitUntilTrue(c) \/ OutputFrame(c) \/ CountFrame(c) \/ NextFrame(c)
         \/ Flush \/ DeleteQueue \/ CloseAVI
         \/ HandleAviSplitRequests \/ OpenedAVIFile \/ CancelVideoCodec \/ CancelAudioCodec
         \/ OpenedAVIAudioStream
         \/ \E mode \in SUBSET Halves \ {{}} : StartCapture(mode)
<1>1. CASE Dumper
  BY <1>1 DEF Dumper, Turn, Calls, Fills, WritesToNewFile, SoundWithoutFile
<1>2. CASE User
  BY <1>2 DEF User
<1>3. ASSUME NEW c \in Halves, Encode(c)
      PROVE  WaitUntilTrue(c) \/ OutputFrame(c) \/ CountFrame(c) \/ NextFrame(c)
  BY <1>3 DEF Encode
<1>4. ASSUME NEW size \in Sizes \cup {NoSize}, NEW hasSound \in BOOLEAN,
             FrameBoundary(size, hasSound)
      PROVE  Turn \/ Calls
  BY <1>4 DEF Turn, Calls, Boundary, Splits
<1> QED
  BY <1>1, <1>2, <1>3, <1>4 DEF Next

(* What a call of CloseAVI leaves alone.                                   *)
LEMMA CallsEffect ==
  ASSUME TypeOK, Calls
  PROVE  /\ UNCHANGED <<queueVars, stream, count, encoder, captured, files, splits>>
         /\ avi' \in AviType /\ avi'.mode = avi.mode /\ avi'.open = avi.open
         /\ avi'.discardCount = avi.discardCount /\ avi'.splitCount \in Nat
         /\ pc' = "flush" /\ after' \in {"split", "opened"}
         /\ saved' \in SavedType /\ saved'.mode = avi.mode
         /\ saved'.discardCount = avi.discardCount
         /\ frame' \in FrameType /\ pc \in {"game", "video", "audio"}
<1>1. CASE WritesToNewFile
  <2>1. PICK split \in Nat :
         /\ AviIs(avi', avi.mode, avi.open, avi.size, avi.fileSize, split,
                  avi.discardCount, avi.requestedSplitCount, avi'.oldIsBasicallyEmpty)
         /\ avi' \in AviType
         /\ after' = "opened" /\ pc' = "flush"
         /\ saved' \in SavedType
         /\ saved'.mode = avi.mode /\ saved'.discardCount = avi.discardCount
         /\ frame' \in FrameType
    BY <1>1, NewFileEffect, Zenon
  <2>2. UNCHANGED <<queueVars, stream, count, encoder, captured, files, splits>> /\ pc = "video"
    BY <1>1 DEF WritesToNewFile, WriteAVIFrame, history, queueVars, At
  <2> QED
    BY <2>1, <2>2 DEF AviIs
<1>2. CASE SoundWithoutFile
  <2>1. PICK size \in Sizes \cup {NoSize} :
         /\ AviIs(avi', avi.mode, avi.open, size, avi.fileSize, avi.splitCount,
                  avi.discardCount, avi.requestedSplitCount, avi'.oldIsBasicallyEmpty)
         /\ avi' \in AviType
         /\ after' = "opened" /\ pc' = "flush"
         /\ saved' \in SavedType
         /\ saved'.mode = avi.mode /\ saved'.discardCount = avi.discardCount
         /\ frame' \in FrameType
    BY <1>2, SoundFileEffect, Zenon
  <2>2. UNCHANGED <<queueVars, stream, count, encoder, captured, files, splits>> /\ pc = "audio"
    BY <1>2 DEF SoundWithoutFile, OpenAVIAudioStream, history, queueVars, At
  <2>3. avi.splitCount \in Nat
    BY AviTyped, AviFields
  <2> QED
    BY <2>1, <2>2, <2>3 DEF AviIs
<1>3. ASSUME NEW size \in Sizes \cup {NoSize}, NEW hasSound \in BOOLEAN, Splits(size, hasSound)
      PROVE  /\ UNCHANGED <<queueVars, stream, count, encoder, captured, files, splits>>
             /\ avi' \in AviType /\ avi'.mode = avi.mode /\ avi'.open = avi.open
             /\ avi'.discardCount = avi.discardCount /\ avi'.splitCount \in Nat
             /\ pc' = "flush" /\ after' \in {"split", "opened"}
             /\ saved' \in SavedType /\ saved'.mode = avi.mode
             /\ saved'.discardCount = avi.discardCount
             /\ frame' \in FrameType /\ pc \in {"game", "video", "audio"}
  <2>1. /\ AviIs(avi', avi.mode, avi.open, avi.size, avi.fileSize, avi.splitCount,
                 avi.discardCount, avi.requestedSplitCount, avi'.oldIsBasicallyEmpty)
        /\ avi' \in AviType
        /\ after' = "split" /\ pc' = "flush"
        /\ saved' \in SavedType
        /\ saved'.mode = avi.mode /\ saved'.discardCount = avi.discardCount
    BY <1>3, SplitsEffect, Zenon
  <2>2. UNCHANGED <<queueVars, stream, count, encoder, captured, files, splits>> /\ pc = "game"
    BY <1>3 DEF Splits, FrameBoundary, queueVars, At
  <2>3. avi.splitCount \in Nat
    BY AviTyped, AviFields
  <2>4. frame' = [size |-> size, hasSound |-> hasSound, opening |-> NoSize]
    BY <1>3 DEF Splits, FrameBoundary
  <2>5. frame' \in FrameType
    BY <2>4 DEF FrameType
  <2> QED
    BY <2>1, <2>2, <2>3, <2>5 DEF AviIs
<1> QED
  BY <1>1, <1>2, <1>3 DEF Calls

(* What is filled in: an item into a half that is captured into an open    *)
(* stream.                                                                 *)
LEMMA FillsEffect ==
  ASSUME TypeOK, ControlInv, Fills
  PROVE  \E c \in Halves, item \in Items :
           /\ Fill(c, item) /\ c \in avi.mode /\ stream[c]
           /\ pc \in Plain /\ pc' \in Plain
           /\ c = "video" => /\ pc = "fill" /\ pc' = "audio"
                             /\ item.size \in {avi.size, contents["video"][LastSlot("video")].size}
           /\ c = "audio" => \/ pc = "sound" /\ pc' = "game"
                             \/ pc = "silence" /\ pc' = "silence" /\ NeedsSilence
<1>1. frames \in 0 .. MaxFrames /\ frame \in FrameType /\ frame.size \in Sizes \cup {NoSize}
      /\ MaxFrames \in Nat
  BY FrameTyped, FrameFields, AviAssumption DEF ControlInv
<1>2. CASE FillFrame
  <2> DEFINE item == IF frame.size = NoSize THEN contents["video"][LastSlot("video")]
                     ELSE [picture |-> frames, size |-> frame.size]
  <2>1. LastSlot("video") \in Slots
    <3>1. nextWrite["video"] \in Slots /\ NumSlots \in Nat \ {0}
      BY QueueTyped, AviAssumption DEF Halves
    <3>2. NumSlots + nextWrite["video"] - 1 \in Nat
      BY <3>1 DEF Slots
    <3> QED
      BY <3>1, <3>2 DEF LastSlot, Slots
  <2>2. contents["video"][LastSlot("video")] \in Items
    BY <2>1, QueueTyped DEF Halves
  <2>3. item \in Items /\ pc = "fill" /\ pc' = "audio" /\ Fill("video", item)
    BY <1>1, <1>2, <2>2 DEF FillFrame, At, Goto, Items, NoSize
  <2>4. item.size \in {avi.size, contents["video"][LastSlot("video")].size}
    <3>1. frame.size # NoSize => frame.size = avi.size
      BY <2>3 DEF ControlInv
    <3> QED
      BY <3>1
  <2>5. stream["video"] /\ "video" \in avi.mode
    BY <2>3 DEF ControlInv, Halves, Stopping, Closing
  <2> HIDE DEF item
  <2> QED
    BY <2>3, <2>4, <2>5 DEF Halves, Plain
<1>3. CASE FillAudioFrame
  <2>1. [picture |-> frames, size |-> NoSize] \in Items
    BY <1>1 DEF Items, NoSize
  <2>2. stream["audio"] /\ "audio" \in avi.mode
    BY <1>3 DEF ControlInv, FillAudioFrame, At
  <2> QED
    BY <1>3, <2>1, <2>2 DEF FillAudioFrame, At, Goto, Halves, Plain
<1>4. CASE FillEmptyAudioFrame
  <2>1. Silence \in Items
    BY <1>1 DEF Items, Silence
  <2>2. stream["audio"] /\ "audio" \in avi.mode
    BY <1>4 DEF ControlInv, FillEmptyAudioFrame, At
  <2> QED
    BY <1>4, <2>1, <2>2 DEF FillEmptyAudioFrame, At, Goto, Halves, Plain
<1> QED
  BY <1>2, <1>3, <1>4 DEF Fills

-----------------------------------------------------------------------------
(* Types.                                                                  *)
LEMMA FillType ==
  ASSUME TypeOK, NEW c \in Halves, NEW item \in Items, Fill(c, item)
  PROVE  /\ hasProcessed' \in [Halves -> [Slots -> BOOLEAN]]
         /\ contents' \in [Halves -> [Slots -> Items]]
         /\ nextWrite' \in [Halves -> Slots]
         /\ captured' \in [Halves -> Seq(Items)]
         /\ UNCHANGED <<nextRead, threadDone, aviVars, encoder, callVars, files, frames, splits>>
<1>1. /\ hasProcessed \in [Halves -> [Slots -> BOOLEAN]]
      /\ contents \in [Halves -> [Slots -> Items]]
      /\ nextWrite \in [Halves -> Slots]
  BY QueueTyped
<1>2. NextSlot(nextWrite[c]) \in Slots
  BY <1>1, NextIsAhead
<1>3. captured \in [Halves -> Seq(Items)]
  BY HistoryTyped
<1>4. /\ contents' = [contents EXCEPT ![c][nextWrite[c]] = item]
      /\ hasProcessed' = [hasProcessed EXCEPT ![c][nextWrite[c]] = TRUE]
      /\ nextWrite' = [nextWrite EXCEPT ![c] = NextSlot(nextWrite[c])]
      /\ captured' = [captured EXCEPT ![c] = Append(captured[c], item)]
      /\ UNCHANGED <<nextRead, threadDone, aviVars, encoder, callVars, files, frames, splits>>
  BY DEF Fill
<1>5. hasProcessed' \in [Halves -> [Slots -> BOOLEAN]]
  BY <1>1, <1>4
<1>6. contents' \in [Halves -> [Slots -> Items]]
  BY <1>1, <1>4
<1>7. nextWrite' \in [Halves -> Slots]
  BY <1>1, <1>2, <1>4
<1>8. captured' \in [Halves -> Seq(Items)]
  <2>1. Append(captured[c], item) \in Seq(Items)
    BY <1>3
  <2> QED
    BY <1>3, <1>4, <2>1
<1> QED
  BY <1>4, <1>5, <1>6, <1>7, <1>8

LEMMA OutputEffect ==
  ASSUME TypeOK, ControlInv, NEW c \in Halves, OutputFrame(c)
  PROVE  /\ encoder[c] = "output"
         /\ UNCHANGED <<queueVars, aviVars, pc, callVars, captured, frames, splits>>
         /\ encoder' \in [Halves -> {"wait", "output", "count", "clear", "exited"}]
         /\ \A d \in Halves : d # c => encoder'[d] = encoder[d]
         /\ files' \in Seq(FileType)
         /\ \/ /\ ~(c \in avi.mode /\ stream[c])
               /\ encoder'[c] = "clear" /\ files' = files
            \/ /\ c \in avi.mode /\ stream[c] /\ files # <<>> /\ avi.open
               /\ encoder'[c] = "count" /\ files' # <<>>
               /\ files' = [files EXCEPT ![Len(files)][c] = Append(@, contents[c][nextRead[c]])]
<1>1. /\ encoder \in [Halves -> {"wait", "output", "count", "clear", "exited"}]
      /\ files \in Seq(FileType) /\ (stream[c] => avi.open) /\ contents[c][nextRead[c]] \in Items
  BY QueueTyped, HistoryTyped
<1>2. encoder[c] = "output" /\ UNCHANGED <<queueVars, aviVars, pc, callVars, captured, frames, splits>>
  BY DEF OutputFrame, EncoderAt
<1>3. CASE c \in avi.mode /\ stream[c]
  <2>1. files # <<>> /\ avi.open
    BY <1>1, <1>3 DEF ControlInv
  <2>2. /\ files' = [files EXCEPT ![Len(files)][c] = Append(@, contents[c][nextRead[c]])]
        /\ encoder' = [encoder EXCEPT ![c] = "count"]
    BY <1>3 DEF OutputFrame, EncoderGoto
  <2>3. files' \in Seq(FileType) /\ files' # <<>>
    <3> DEFINE item == contents[c][nextRead[c]]
               more == files'
    <3>1. item \in Items /\ Grown(files, more, c, item)
      BY <1>1, <2>2 DEF Grown
    <3> HIDE DEF item, more
    <3>2. more \in Seq(FileType)
      BY <1>1, <2>1, <3>1, FilesMore
    <3>3. Len(more) = Len(files)
      BY <1>1, <2>1, <3>1, FilesMore
    <3>4. more # <<>>
      BY <1>1, <2>1, <3>2, <3>3
    <3> QED
      BY <3>2, <3>4 DEF more
  <2>4. /\ encoder' \in [Halves -> {"wait", "output", "count", "clear", "exited"}]
        /\ \A d \in Halves : d # c => encoder'[d] = encoder[d]
        /\ encoder'[c] = "count"
    BY <1>1, <2>2
  <2> QED
    BY <1>2, <1>3, <2>1, <2>2, <2>3, <2>4, Zenon
<1>4. CASE ~(c \in avi.mode /\ stream[c])
  <2>1. files' = files /\ encoder' = [encoder EXCEPT ![c] = "clear"]
    BY <1>4 DEF OutputFrame, EncoderGoto
  <2> QED
    BY <1>1, <1>2, <1>4, <2>1
<1> QED
  BY <1>3, <1>4

(* The number of a new segment is positive.                                *)
LEMMA SegmentPositive ==
  ASSUME NEW split \in Nat, NEW discard \in Nat, discard <= split
  PROVE  Segment(split, discard) \in Nat \ {0}
         /\ Segment(split, discard) = (split + 1) - discard
  BY DEF Segment

LEMMA NewFileType ==
  ASSUME NEW split \in Nat, NEW discard \in Nat, discard <= split, NEW size \in Sizes \cup {NoSize},
         NEW f, f = [segment |-> Segment(split, discard), size |-> size,
                     video |-> <<>>, audio |-> <<>>]
  PROVE  /\ f \in FileType /\ f.segment = (split + 1) - discard /\ f.size = size
         /\ \A c \in Halves : f[c] = <<>>
<1>1. Segment(split, discard) \in Nat \ {0} /\ Segment(split, discard) = (split + 1) - discard
  BY SegmentPositive
<1>2. f \in FileType
  BY <1>1 DEF FileType
<1> QED
  BY <1>1, <1>2 DEF Halves

(* The new file, once more, with its type.                                 *)
LEMMA OpenedFile ==
  ASSUME TypeOK, SegmentOrder, OpenedAVIFile
  PROVE  \E discard \in Nat, f \in FileType :
         /\ discard <= saved.splitCount
         /\ \/ discard = saved.discardCount
            \/ discard = saved.discardCount + 1 /\ avi.oldIsBasicallyEmpty
         /\ avi' \in AviType
         /\ AviIs(avi', saved.mode, TRUE, frame.opening, avi.fileSize, saved.splitCount, discard,
                  avi.requestedSplitCount, FALSE)
         /\ f.segment = (saved.splitCount + 1) - discard /\ f.size = frame.opening
         /\ \A c \in Halves : f[c] = <<>>
         /\ files' = Append(files, f)
<1>1. PICK discard \in Nat :
         /\ \/ discard = saved.discardCount
            \/ /\ discard = saved.discardCount + 1
               /\ saved.splitCount > 0 /\ avi.oldIsBasicallyEmpty
         /\ avi' \in AviType
         /\ AviIs(avi', saved.mode, TRUE, frame.opening, avi.fileSize, saved.splitCount, discard,
                  avi.requestedSplitCount, FALSE)
         /\ files' = Append(files, NewFile(discard))
  BY OpenedEffect, Zenon
<1> DEFINE f == NewFile(discard)
<1>2. saved.splitCount \in Nat /\ saved.discardCount \in Nat
      /\ frame.opening \in Sizes \cup {NoSize}
  BY SavedTyped, FrameTyped, FrameFields
<1>3. pc = "opened"
  BY DEF OpenedAVIFile, At
<1>4. discard <= saved.splitCount
  BY <1>1, <1>2, <1>3 DEF SegmentOrder, Opening
<1>5. /\ f \in FileType /\ f.segment = (saved.splitCount + 1) - discard /\ f.size = frame.opening
      /\ \A c \in Halves : f[c] = <<>>
  <2>1. f = [segment |-> Segment(saved.splitCount, discard), size |-> frame.opening,
             video |-> <<>>, audio |-> <<>>]
    BY DEF NewFile
  <2> HIDE DEF f
  <2> DEFINE split == saved.splitCount
             size == frame.opening
  <2>2. split \in Nat /\ size \in Sizes \cup {NoSize} /\ discard <= split
        /\ f = [segment |-> Segment(split, discard), size |-> size, video |-> <<>>, audio |-> <<>>]
    BY <1>2, <1>4, <2>1
  <2> HIDE DEF split, size
  <2>3. /\ f \in FileType /\ f.segment = (split + 1) - discard /\ f.size = size
        /\ \A c \in Halves : f[c] = <<>>
    BY <2>2, NewFileType
  <2> QED
    BY <2>3 DEF split, size
<1>6. files' = Append(files, f)
  BY <1>1
<1> HIDE DEF f
<1> QED
  BY <1>1, <1>4, <1>5, <1>6

LEMMA TypeStep ==
  ASSUME TypeOK, ControlInv, SegmentOrder, [Next]_vars
  PROVE  TypeOK'
<1> USE DEF queueVars, aviVars, callVars, history
<1>q. /\ hasProcessed \in [Halves -> [Slots -> BOOLEAN]]
      /\ contents \in [Halves -> [Slots -> Items]]
      /\ nextWrite \in [Halves -> Slots] /\ nextRead \in [Halves -> Slots]
      /\ threadDone \in BOOLEAN /\ aviCS \in BOOLEAN
      /\ stream \in [Halves -> BOOLEAN] /\ count \in [Halves -> Nat]
      /\ encoder \in [Halves -> {"wait", "output", "count", "clear", "exited"}]
  BY QueueTyped
<1>h. /\ captured \in [Halves -> Seq(Items)]
      /\ files \in Seq(FileType)
      /\ \A c \in Halves : stream[c] => avi.open
      /\ aviCS => pc \in {"flush", "delete", "join", "opened", "audioStream"}
  BY HistoryTyped
<1>r. avi \in AviType /\ saved \in SavedType /\ frame \in FrameType
  BY AviTyped, SavedTyped, FrameTyped
<1>1. CASE Turn
  <2>1. /\ UNCHANGED <<queueVars, stream, count, avi, encoder, saved, after, captured, files, splits>>
        /\ pc \in Plain /\ pc' \in Plain /\ frame' \in FrameType
    BY <1>1, TurnEffect
  <2>2. aviCS' \in BOOLEAN /\ (aviCS' => pc' = "audioStream")
    <3>1. CASE OpenAVIAudioStream /\ avi.open
      BY <3>1 DEF OpenAVIAudioStream, HasFile, Goto
    <3>2. CASE ~(OpenAVIAudioStream /\ avi.open)
      <4>1. aviCS' = aviCS
        BY <1>1, <3>2 DEF Turn, WriteAVIFrame, RewriteAVIFrame, SkipAudio, WriteAVIAudio, CaughtUp,
             Boundary, FrameBoundary
      <4>2. pc # "audioStream"
        BY <1>1, <3>2 DEF Turn, WriteAVIFrame, RewriteAVIFrame, SkipAudio, WriteAVIAudio, CaughtUp,
             Boundary, FrameBoundary, At
      <4>3. ~aviCS
        BY <1>h, <2>1, <4>2 DEF Plain
      <4> QED
        BY <1>q, <4>1, <4>3
    <3> QED
      BY <3>1, <3>2
  <2> QED
    BY <1>q, <1>h, <1>r, <2>1, <2>2 DEF TypeOK, SavedType, FrameType
<1>2. CASE Calls
  <2>1. /\ UNCHANGED <<queueVars, stream, count, encoder, captured, files, splits>>
        /\ avi' \in AviType /\ avi'.open = avi.open
        /\ pc' = "flush" /\ saved' \in SavedType /\ frame' \in FrameType
    BY <1>2, CallsEffect
  <2>2. aviCS' \in BOOLEAN
    BY <1>q, <1>2 DEF Calls, WritesToNewFile, WriteAVIFrame, SoundWithoutFile, OpenAVIAudioStream,
         Splits, FrameBoundary
  <2> QED
    BY <1>q, <1>h, <2>1, <2>2 DEF TypeOK, SavedType, FrameType
<1>3. CASE Fills
  <2>1. PICK c \in Halves, item \in Items : Fill(c, item) /\ pc \in Plain /\ pc # "audioStream"
    <3>1. pc # "audioStream"
      BY <1>3 DEF Fills, FillFrame, FillAudioFrame, FillEmptyAudioFrame, At
    <3> QED
      BY <1>3, <3>1, FillsEffect, Zenon
  <2>2. /\ hasProcessed' \in [Halves -> [Slots -> BOOLEAN]]
        /\ contents' \in [Halves -> [Slots -> Items]]
        /\ nextWrite' \in [Halves -> Slots]
        /\ captured' \in [Halves -> Seq(Items)]
        /\ UNCHANGED <<nextRead, threadDone, aviVars, encoder, callVars, files, frames, splits>>
    BY <2>1, FillType
  <2>3. ~aviCS
    BY <1>h, <2>1 DEF Plain
  <2> QED
    BY <1>q, <1>h, <1>r, <2>2, <2>3 DEF TypeOK, SavedType, FrameType
<1>4. CASE StopCapture
  <2>1. /\ avi' \in AviType /\ avi'.open = avi.open /\ pc' = "flush"
    BY <1>4, StopEffect DEF AviIs
  <2>2. UNCHANGED <<queueVars, stream, count, aviCS, encoder, frame, saved, history>>
    BY <1>4 DEF StopCapture
  <2> QED
    BY <1>q, <1>h, <1>r, <2>1, <2>2 DEF TypeOK, SavedType, FrameType
<1>5. CASE SplitAVINow
  <2>1. /\ avi' \in AviType /\ avi'.open = avi.open
    BY <1>5, SplitNowEffect DEF AviIs
  <2>2. UNCHANGED <<queueVars, stream, count, aviCS, pc, encoder, callVars, captured, files>>
    BY <1>5 DEF SplitAVINow
  <2> QED
    BY <1>q, <1>h, <1>r, <2>1, <2>2 DEF TypeOK, SavedType, FrameType
<1>6. ASSUME NEW c \in Halves, WaitUntilTrue(c) PROVE TypeOK'
  <2>1. encoder' \in [Halves -> {"wait", "output", "count", "clear", "exited"}]
    BY <1>q, <1>6 DEF WaitUntilTrue, EncoderGoto
  <2>2. UNCHANGED <<queueVars, aviVars, pc, callVars, history>>
    BY <1>6 DEF WaitUntilTrue
  <2> QED
    BY <1>q, <1>h, <1>r, <2>1, <2>2 DEF TypeOK, SavedType, FrameType
<1>7. ASSUME NEW c \in Halves, OutputFrame(c) PROVE TypeOK'
  <2>1. /\ UNCHANGED <<queueVars, aviVars, pc, callVars, captured, frames, splits>>
        /\ encoder' \in [Halves -> {"wait", "output", "count", "clear", "exited"}]
        /\ files' \in Seq(FileType)
    BY <1>7, OutputEffect
  <2> QED
    BY <1>q, <1>h, <1>r, <2>1 DEF TypeOK, SavedType, FrameType
<1>8. ASSUME NEW c \in Halves, CountFrame(c) PROVE TypeOK'
  <2>1. /\ avi' \in AviType /\ avi'.open = avi.open
    BY <1>8, CountFrameEffect DEF AviIs
  <2>2. /\ encoder' \in [Halves -> {"wait", "output", "count", "clear", "exited"}]
        /\ count' \in [Halves -> Nat]
    BY <1>q, <1>8 DEF CountFrame, EncoderGoto
  <2>3. UNCHANGED <<queueVars, stream, aviCS, pc, callVars, history>>
    BY <1>8 DEF CountFrame
  <2> QED
    BY <1>q, <1>h, <1>r, <2>1, <2>2, <2>3 DEF TypeOK, SavedType, FrameType
<1>9. ASSUME NEW c \in Halves, NextFrame(c) PROVE TypeOK'
  <2>1. NextSlot(nextRead[c]) \in Slots
    BY <1>q, NextIsAhead
  <2>2. /\ encoder' \in [Halves -> {"wait", "output", "count", "clear", "exited"}]
        /\ nextRead' \in [Halves -> Slots]
    BY <1>q, <1>9, <2>1 DEF NextFrame, EncoderGoto
  <2>3. hasProcessed' \in [Halves -> [Slots -> BOOLEAN]]
    BY <1>q, <1>9 DEF NextFrame
  <2>4. UNCHANGED <<contents, nextWrite, threadDone, aviVars, pc, callVars, history>>
    BY <1>9 DEF NextFrame
  <2> QED
    BY <1>q, <1>h, <1>r, <2>2, <2>3, <2>4 DEF TypeOK, SavedType, FrameType
<1>10. CASE Flush
  <2>1. UNCHANGED <<queueVars, aviVars, encoder, callVars, history>> /\ pc' = "delete"
    BY <1>10 DEF Flush, Goto
  <2> QED
    BY <1>q, <1>h, <1>r, <2>1 DEF TypeOK, SavedType, FrameType
<1>11. CASE DeleteQueue
  <2>1. UNCHANGED <<contents, nextWrite, nextRead, aviVars, encoder, callVars, history>>
        /\ pc' = "join" /\ threadDone' = TRUE
    BY <1>11 DEF DeleteQueue, Goto
  <2>2. hasProcessed' \in [Halves -> [Slots -> BOOLEAN]]
    BY <1>11 DEF DeleteQueue
  <2> QED
    BY <1>q, <1>h, <1>r, <2>1, <2>2 DEF TypeOK, SavedType, FrameType
<1>12. CASE CloseAVI
  <2>1. avi' \in AviType
    BY <1>12, CloseEffect
  <2>2. Nothing \in Items /\ 0 \in Slots
    BY AviAssumption DEF Nothing, Items, Slots
  <2>3. /\ hasProcessed' \in [Halves -> [Slots -> BOOLEAN]]
        /\ contents' \in [Halves -> [Slots -> Items]]
        /\ nextWrite' \in [Halves -> Slots] /\ nextRead' \in [Halves -> Slots]
        /\ threadDone' = FALSE
        /\ encoder' \in [Halves -> {"wait", "output", "count", "clear", "exited"}]
    BY <1>12, <2>2 DEF CloseAVI, NewQueue
  <2>4. /\ stream' \in [Halves -> BOOLEAN] /\ count' \in [Halves -> Nat]
        /\ \A c \in Halves : ~stream'[c]
        /\ UNCHANGED <<aviCS, callVars, history>>
    BY <1>12 DEF CloseAVI
  <2>5. aviCS => pc' = "opened"
    BY <1>12 DEF CloseAVI, At, Goto, ControlInv, Closing
  <2> QED
    BY <1>h, <1>q, <1>r, <2>1, <2>3, <2>4, <2>5 DEF TypeOK, SavedType, FrameType
<1>13. CASE HandleAviSplitRequests
  <2>1. avi' \in AviType /\ avi'.open = avi.open
    BY <1>13, HandleEffect DEF AviIs
  <2>2. UNCHANGED <<queueVars, stream, count, aviCS, encoder, callVars, history>> /\ pc = "split"
    BY <1>13 DEF HandleAviSplitRequests, At
  <2>3. ~aviCS
    BY <1>h, <2>2
  <2> QED
    BY <1>h, <1>q, <1>r, <2>1, <2>2, <2>3 DEF TypeOK, SavedType, FrameType
<1>14. CASE OpenedAVIFile
  <2>1. PICK f \in FileType : /\ avi' \in AviType /\ avi'.open = TRUE
                              /\ files' = Append(files, f)
    BY <1>14, OpenedFile, Zenon DEF AviIs
  <2>2. files' \in Seq(FileType)
    BY <1>h, <2>1
  <2>3. /\ stream' \in [Halves -> BOOLEAN]
        /\ aviCS => pc' = "audioStream"
        /\ UNCHANGED <<queueVars, count, aviCS, encoder, callVars, captured, frames, splits>>
    BY <1>q, <1>14 DEF OpenedAVIFile, Goto
  <2> QED
    BY <1>h, <1>q, <1>r, <2>1, <2>2, <2>3 DEF TypeOK, SavedType, FrameType
<1>15. CASE CancelVideoCodec
  <2>1. avi' \in AviType /\ avi'.open = avi.open
    BY <1>15, CancelVideoEffect DEF AviIs
  <2>2. UNCHANGED <<queueVars, stream, count, encoder, callVars, history>> /\ aviCS' = FALSE
    BY <1>15 DEF CancelVideoCodec
  <2> QED
    BY <1>h, <1>q, <1>r, <2>1, <2>2 DEF TypeOK, SavedType, FrameType
<1>16. CASE CancelAudioCodec
  <2>1. avi' \in AviType /\ avi'.open = avi.open
    BY <1>16, CancelAudioEffect DEF AviIs
  <2>2. UNCHANGED <<queueVars, stream, count, encoder, callVars, history>> /\ aviCS' = FALSE
    BY <1>16 DEF CancelAudioCodec
  <2> QED
    BY <1>h, <1>q, <1>r, <2>1, <2>2 DEF TypeOK, SavedType, FrameType
<1>17. CASE OpenedAVIAudioStream
  <2>1. UNCHANGED <<queueVars, avi, encoder, callVars, history>> /\ aviCS' = FALSE /\ avi.open
    BY <1>17 DEF OpenedAVIAudioStream, At, ControlInv
  <2>2. stream' \in [Halves -> BOOLEAN] /\ count' \in [Halves -> Nat]
    BY <1>q, <1>17 DEF OpenedAVIAudioStream
  <2> QED
    BY <1>h, <1>q, <1>r, <2>1, <2>2 DEF TypeOK, SavedType, FrameType
<1>18. ASSUME NEW mode \in SUBSET Halves \ {{}}, StartCapture(mode) PROVE TypeOK'
  <2>1. avi' \in AviType /\ avi'.open = avi.open
    BY <1>18, StartEffect DEF AviIs
  <2>2. /\ UNCHANGED <<queueVars, stream, count, aviCS, pc, encoder, callVars, frames, splits>>
        /\ captured' \in [Halves -> Seq(Items)]
    BY <1>18 DEF StartCapture
  <2>3. files' \in Seq(FileType)
    <3>1. CASE avi.open
      <4>1. files # <<>> /\ files' = <<Last(files)>>
        BY <1>18, <3>1 DEF ControlInv, StartCapture
      <4>2. Last(files) \in FileType
        BY <1>h, <4>1 DEF Last
      <4> QED
        BY <4>1, <4>2
    <3>2. CASE ~avi.open
      BY <1>18, <3>2 DEF StartCapture
    <3> QED
      BY <3>1, <3>2
  <2> QED
    BY <1>h, <1>q, <1>r, <2>1, <2>2, <2>3 DEF TypeOK, SavedType, FrameType
<1>19. CASE UNCHANGED vars
  BY <1>19, <1>q, <1>h, <1>r DEF vars, TypeOK, SavedType, FrameType
<1> QED
  BY <1>1, <1>2, <1>3, <1>4, <1>5, <1>6, <1>7, <1>8, <1>9, <1>10, <1>11, <1>12, <1>13, <1>14,
     <1>15, <1>16, <1>17, <1>18, <1>19, NextCases

-----------------------------------------------------------------------------
(* The places of the debugger thread.                                      *)
LEMMA ControlStep ==
  ASSUME TypeOK, ControlInv, SegmentOrder, [Next]_vars
  PROVE  ControlInv'
<1> USE DEF queueVars, aviVars, callVars, history
<1>q. /\ threadDone \in BOOLEAN /\ aviCS \in BOOLEAN
      /\ stream \in [Halves -> BOOLEAN] /\ "video" \in Halves /\ "audio" \in Halves
      /\ MaxFrames \in Nat
  BY QueueTyped, AviAssumption DEF Halves
<1>h. /\ files \in Seq(FileType)
      /\ \A c \in Halves : stream[c] => avi.open
      /\ aviCS => pc \in {"flush", "delete", "join", "opened", "audioStream"}
  BY HistoryTyped
<1>r. avi \in AviType /\ saved \in SavedType /\ frame \in FrameType
  BY AviTyped, SavedTyped, FrameTyped
<1>1. CASE Turn
  <2>1. /\ UNCHANGED <<queueVars, stream, count, avi, encoder, saved, after, captured, files, splits>>
        /\ pc \in Plain /\ pc' \in Plain /\ frame' \in FrameType
    BY <1>1, TurnEffect
  <2>2. frames' \in 0 .. MaxFrames
    BY <1>1, <1>q DEF Turn, WriteAVIFrame, RewriteAVIFrame, SkipAudio, WriteAVIAudio, CaughtUp,
         OpenAVIAudioStream, HasFile, Boundary, FrameBoundary, ControlInv
  <2>3. /\ aviCS' => "audio" \in avi.mode
        /\ pc' \in {"audioStream", "write", "sound", "silence"} => "audio" \in avi.mode /\ avi.open
        /\ pc' = "audioStream" => ~stream["audio"] /\ aviCS'
        /\ pc' \in {"write", "sound", "silence"} => stream["audio"]
        /\ pc' = "fill" => stream["video"] /\ frame'.size \in {avi.size, NoSize}
    <3>1. CASE WriteAVIFrame /\ SameFile(frame.size)
      BY <1>h, <3>1 DEF WriteAVIFrame, SameFile, At, Goto
    <3>2. CASE RewriteAVIFrame
      BY <1>h, <3>2 DEF RewriteAVIFrame, At, Goto
    <3>3. CASE SkipAudio \/ CaughtUp
      BY <1>h, <3>3 DEF SkipAudio, CaughtUp, At, Goto, ControlInv
    <3>4. CASE WriteAVIAudio
      BY <1>h, <1>q, <3>4 DEF WriteAVIAudio, NothingToHear, At, Goto, ControlInv
    <3>5. CASE OpenAVIAudioStream /\ avi.open
      BY <1>h, <3>5 DEF OpenAVIAudioStream, HasFile, NothingToHear, At, Goto
    <3>6. ASSUME NEW size \in Sizes \cup {NoSize}, NEW hasSound \in BOOLEAN,
                 Boundary(size, hasSound)
          PROVE  pc' = "video" /\ ~aviCS'
      BY <1>h, <3>6 DEF Boundary, FrameBoundary, At, Goto
    <3> QED
      BY <1>1, <3>1, <3>2, <3>3, <3>4, <3>5, <3>6 DEF Turn
  <2> QED
    BY <2>1, <2>2, <2>3 DEF ControlInv, Closing, Stopping, Opening, Mode, Plain
<1>2. CASE Calls
  <2>1. /\ UNCHANGED <<queueVars, stream, count, encoder, captured, files, splits>>
        /\ avi' \in AviType /\ avi'.mode = avi.mode /\ avi'.open = avi.open
        /\ pc' = "flush" /\ after' \in {"split", "opened"}
        /\ saved' \in SavedType /\ saved'.mode = avi.mode
        /\ pc \in {"game", "video", "audio"}
    BY <1>2, CallsEffect
  <2>2. /\ after' = "opened" =>
             /\ avi.mode # {}
             /\ frame'.opening # NoSize => "video" \in avi.mode
             /\ ~aviCS' => frame'.opening # NoSize /\ frame'.opening = frame'.size
        /\ aviCS' => after' = "opened" /\ "audio" \in avi.mode
        /\ frames' \in 0 .. MaxFrames
    <3>1. CASE WritesToNewFile
      <4>1. frame'.opening = frame.size /\ frame'.size = frame.size
        BY <3>1, NewFileEffect, Zenon
      <4>2. "video" \in avi.mode /\ frame.size # NoSize /\ ~aviCS'
        BY <1>h, <3>1 DEF WritesToNewFile, WriteAVIFrame, At
      <4> QED
        BY <3>1, <4>1, <4>2 DEF WritesToNewFile, WriteAVIFrame, ControlInv
    <3>2. CASE SoundWithoutFile
      <4>1. frame'.opening = (IF "video" \in avi.mode THEN avi.size ELSE NoSize)
            /\ after' = "opened"
        BY <3>2, SoundFileEffect, Zenon
      <4>2. "audio" \in avi.mode /\ aviCS' /\ frames' = frames
        BY <3>2 DEF SoundWithoutFile, OpenAVIAudioStream, NothingToHear
      <4> QED
        BY <4>1, <4>2 DEF ControlInv
    <3>3. ASSUME NEW size \in Sizes \cup {NoSize}, NEW hasSound \in BOOLEAN, Splits(size, hasSound)
          PROVE  after' = "split" /\ ~aviCS' /\ frames' \in 0 .. MaxFrames
      <4>1. after' = "split"
        BY <3>3, SplitsEffect
      <4> QED
        BY <1>h, <1>q, <3>3, <4>1 DEF Splits, FrameBoundary, At, ControlInv
    <3> QED
      BY <1>2, <3>1, <3>2, <3>3 DEF Calls
  <2>3. threadDone' = FALSE /\ \A c \in Halves : stream[c] => c \in avi.mode
    BY <2>1 DEF ControlInv, Stopping, Closing
  <2> QED
    BY <2>1, <2>2, <2>3 DEF ControlInv, Closing, Stopping, Opening, Mode
<1>3. CASE Fills
  <2>1. PICK c \in Halves, item \in Items :
           /\ Fill(c, item) /\ pc \in Plain /\ pc' \in Plain
           /\ c = "video" => pc' = "audio"
           /\ c = "audio" => \/ pc = "sound" /\ pc' = "game"
                             \/ pc = "silence" /\ pc' = "silence"
    BY <1>3, FillsEffect, Zenon
  <2>2. UNCHANGED <<nextRead, threadDone, aviVars, encoder, callVars, files, frames, splits>>
    BY <2>1 DEF Fill
  <2>3. c = "video" \/ c = "audio"
    BY DEF Halves
  <2>4. ~aviCS \/ pc = "audioStream"
    BY <1>h, <2>1 DEF Plain
  <2> QED
    BY <2>1, <2>2, <2>3, <2>4 DEF ControlInv, Closing, Stopping, Opening, Mode, Plain
<1>4. CASE StopCapture
  <2>1. /\ avi'.mode = {} /\ avi'.open = avi.open /\ pc' = "flush" /\ after' = "game"
    BY <1>4, StopEffect DEF AviIs
  <2>2. UNCHANGED <<queueVars, stream, count, aviCS, encoder, frame, saved, history>>
        /\ pc = "game"
    BY <1>4 DEF StopCapture, At
  <2>3. ~aviCS
    BY <1>h, <2>2
  <2> QED
    BY <2>1, <2>2, <2>3 DEF ControlInv, Closing, Stopping, Opening, Mode
<1>5. CASE SplitAVINow
  <2>1. avi'.mode = avi.mode /\ avi'.open = avi.open /\ avi'.size = avi.size
    BY <1>5, SplitNowEffect DEF AviIs
  <2>2. UNCHANGED <<queueVars, stream, count, aviCS, pc, encoder, callVars, captured, files, frames>>
    BY <1>5 DEF SplitAVINow
  <2> QED
    BY <2>1, <2>2 DEF ControlInv, Closing, Stopping, Opening, Mode
<1>6. ASSUME NEW c \in Halves, WaitUntilTrue(c) \/ NextFrame(c) PROVE ControlInv'
  <2>2. UNCHANGED <<threadDone, aviVars, pc, callVars, history>>
    BY <1>6 DEF WaitUntilTrue, NextFrame
  <2> QED
    BY <2>2 DEF ControlInv, Closing, Stopping, Opening, Mode
<1>7. ASSUME NEW c \in Halves, OutputFrame(c) PROVE ControlInv'
  <2>1. /\ UNCHANGED <<queueVars, aviVars, pc, callVars, captured, frames, splits>>
        /\ files' = files \/ (avi.open /\ files' # <<>>)
    <3>1. UNCHANGED <<queueVars, aviVars, pc, callVars, captured, frames, splits>>
      BY <1>7, OutputEffect
    <3>2. files' = files \/ (avi.open /\ files' # <<>>)
      BY <1>7, OutputEffect, Zenon
    <3> QED
      BY <3>1, <3>2
  <2> QED
    BY <2>1 DEF ControlInv, Closing, Stopping, Opening, Mode
<1>8. ASSUME NEW c \in Halves, CountFrame(c) PROVE ControlInv'
  <2>1. avi'.mode = avi.mode /\ avi'.open = avi.open /\ avi'.size = avi.size
    BY <1>8, CountFrameEffect DEF AviIs
  <2>2. UNCHANGED <<queueVars, stream, aviCS, pc, callVars, history>>
    BY <1>8 DEF CountFrame
  <2> QED
    BY <2>1, <2>2 DEF ControlInv, Closing, Stopping, Opening, Mode
<1>10. CASE Flush
  <2>1. UNCHANGED <<queueVars, aviVars, encoder, callVars, history>> /\ pc' = "delete" /\ pc = "flush"
    BY <1>10 DEF Flush, Goto, At
  <2> QED
    BY <2>1 DEF ControlInv, Closing, Stopping, Opening, Mode
<1>11. CASE DeleteQueue
  <2>1. UNCHANGED <<contents, nextWrite, nextRead, aviVars, encoder, callVars, history>>
        /\ pc' = "join" /\ pc = "delete" /\ threadDone' = TRUE
    BY <1>11 DEF DeleteQueue, Goto, At
  <2> QED
    BY <2>1 DEF ControlInv, Closing, Stopping, Opening, Mode
<1>12. CASE CloseAVI
  <2>1. avi'.mode = {} /\ avi'.open = FALSE
    BY <1>12, CloseEffect DEF AviIs
  <2>2. /\ threadDone' = FALSE /\ pc = "join" /\ pc' = after
        /\ \A c \in Halves : ~stream'[c]
        /\ UNCHANGED <<aviCS, callVars, history>>
    BY <1>12 DEF CloseAVI, NewQueue, At, Goto
  <2> QED
    BY <2>1, <2>2 DEF ControlInv, Closing, Stopping, Opening, Mode, Plain
<1>13. CASE HandleAviSplitRequests
  <2>1. avi'.mode = saved.mode /\ avi'.open = avi.open
    BY <1>13, HandleEffect DEF AviIs
  <2>2. UNCHANGED <<queueVars, stream, count, aviCS, encoder, callVars, history>> /\ pc = "split"
        /\ pc' = "video"
    BY <1>13 DEF HandleAviSplitRequests, At, Goto
  <2>3. ~aviCS
    BY <1>h, <2>2
  <2> QED
    BY <1>h, <2>1, <2>2, <2>3 DEF ControlInv, Closing, Stopping, Opening, Mode, Plain
<1>14. CASE OpenedAVIFile
  <2>1. PICK f \in FileType : /\ avi'.open = TRUE /\ avi'.mode = saved.mode
                              /\ avi'.size = frame.opening
                              /\ files' = Append(files, f)
    BY <1>14, OpenedFile, Zenon DEF AviIs
  <2>2. files' # <<>>
    BY <1>h, <2>1
  <2>3. /\ stream'["video"] = (frame.opening # NoSize)
        /\ \A c \in Halves : c # "video" => stream'[c] = stream[c]
        /\ pc = "opened"
        /\ aviCS => pc' = "audioStream"
        /\ ~aviCS => pc' = "fill"
        /\ UNCHANGED <<queueVars, count, aviCS, encoder, callVars, captured, frames, splits>>
    BY <1>q, <1>14 DEF OpenedAVIFile, At, Goto
  <2>4. ~stream["audio"]
    BY <1>q, <2>3 DEF ControlInv, Stopping, Closing
  <2>o. Opening /\ Mode = saved.mode
    BY <2>3 DEF Opening, Mode
  <2>5. /\ saved.mode # {} /\ (frame.opening # NoSize => "video" \in saved.mode)
        /\ (~aviCS => frame.opening # NoSize /\ frame.opening = frame.size)
        /\ (aviCS => "audio" \in saved.mode)
    BY <2>o DEF ControlInv
  <2>6. \A c \in Halves : stream'[c] => c \in saved.mode
    BY <2>3, <2>4, <2>5 DEF Halves
  <2>7. threadDone' = FALSE /\ after' \in {"game", "split", "opened"} /\ frames' \in 0 .. MaxFrames
    BY <2>3 DEF ControlInv
  <2>8. CASE aviCS
    BY <1>q, <2>1, <2>2, <2>3, <2>4, <2>5, <2>6, <2>7, <2>8
       DEF ControlInv, Closing, Stopping, Opening, Mode, Plain
  <2>9. CASE ~aviCS
    BY <1>q, <2>1, <2>2, <2>3, <2>4, <2>5, <2>6, <2>7, <2>9
       DEF ControlInv, Closing, Stopping, Opening, Mode, Plain
  <2> QED
    BY <2>8, <2>9
<1>15. CASE CancelVideoCodec
  <2>1. avi'.mode = avi.mode /\ avi'.open = avi.open
    BY <1>15, CancelVideoEffect DEF AviIs
  <2>2. UNCHANGED <<queueVars, stream, count, encoder, callVars, history>> /\ aviCS' = FALSE
        /\ pc = "opened" /\ pc' = "game"
    BY <1>15 DEF CancelVideoCodec, At, Goto
  <2> QED
    BY <1>h, <2>1, <2>2 DEF ControlInv, Closing, Stopping, Opening, Mode, Plain
<1>16. CASE CancelAudioCodec
  <2>1. avi'.mode = avi.mode \ {"audio"} /\ avi'.open = avi.open
    BY <1>16, CancelAudioEffect DEF AviIs
  <2>2. UNCHANGED <<queueVars, stream, count, encoder, callVars, history>> /\ aviCS' = FALSE
        /\ pc = "audioStream" /\ pc' = "game"
    BY <1>16 DEF CancelAudioCodec, At, Goto
  <2>3. \A c \in Halves : stream[c] => c \in avi.mode \ {"audio"}
    BY <2>2 DEF ControlInv, Stopping, Closing
  <2> QED
    BY <2>1, <2>2, <2>3 DEF ControlInv, Closing, Stopping, Opening, Mode, Plain
<1>17. CASE OpenedAVIAudioStream
  <2>1. UNCHANGED <<queueVars, avi, encoder, callVars, history>> /\ aviCS' = FALSE
        /\ pc = "audioStream" /\ pc' = "write"
        /\ stream'["audio"] /\ \A c \in Halves : c # "audio" => stream'[c] = stream[c]
    BY <1>17, <1>q DEF OpenedAVIAudioStream, At, Goto
  <2>2. "audio" \in avi.mode
    BY <2>1 DEF ControlInv
  <2>3. \A c \in Halves : stream'[c] => c \in avi.mode
    BY <2>1, <2>2 DEF ControlInv, Stopping, Closing
  <2> QED
    BY <2>1, <2>2, <2>3 DEF ControlInv, Closing, Stopping, Opening, Mode, Plain
<1>18. ASSUME NEW mode \in SUBSET Halves \ {{}}, StartCapture(mode) PROVE ControlInv'
  <2>1. avi'.mode = mode /\ avi'.open = avi.open
    BY <1>18, StartEffect DEF AviIs
  <2>2. /\ UNCHANGED <<queueVars, stream, count, aviCS, pc, encoder, callVars, frames, splits>>
        /\ pc = "game" /\ avi.mode = {}
        /\ files' = IF avi.open THEN <<Last(files)>> ELSE <<>>
    BY <1>18 DEF StartCapture, At
  <2>3. avi.open => files' # <<>>
    BY <2>2
  <2>4. ~aviCS
    BY <1>h, <2>2
  <2> QED
    BY <2>1, <2>2, <2>3, <2>4 DEF ControlInv, Closing, Stopping, Opening, Mode, Plain
<1>19. CASE UNCHANGED vars
  BY <1>19 DEF vars, ControlInv, Closing, Stopping, Opening, Mode
<1> QED
  BY <1>1, <1>2, <1>3, <1>4, <1>5, <1>6, <1>7, <1>8, <1>10, <1>11, <1>12, <1>13, <1>14,
     <1>15, <1>16, <1>17, <1>18, <1>19, NextCases

(* The count of splits, of discarded segments, and what is saved of them.  *)
LEMMA SegmentOrderStep ==
  ASSUME TypeOK, ControlInv, SegmentOrder, [Next]_vars
  PROVE  SegmentOrder'
<1> USE DEF queueVars, aviVars, callVars, history
<1>r. /\ avi.splitCount \in Nat /\ avi.discardCount \in Nat /\ avi.requestedSplitCount \in Nat
      /\ saved.splitCount \in Nat /\ saved.discardCount \in Nat /\ saved.requested \in Nat
  BY AviTyped, AviFields, SavedTyped
<1>1. CASE Turn
  <2>1. UNCHANGED <<avi, saved, after>> /\ pc \in Plain /\ pc' \in Plain
    BY <1>1, TurnEffect
  <2> QED
    BY <2>1 DEF SegmentOrder, Closing, Opening, Splitting, Plain
<1>2. CASE Calls
  <2>1. CASE WritesToNewFile
    <3>1. PICK split \in Nat :
         /\ split = IF avi.open THEN avi.splitCount + 1 ELSE avi.splitCount
         /\ AviIs(avi', avi.mode, avi.open, avi.size, avi.fileSize, split,
                  avi.discardCount, avi.requestedSplitCount, avi'.oldIsBasicallyEmpty)
         /\ after' = "opened" /\ pc' = "flush"
         /\ saved'.splitCount = split /\ saved'.discardCount = avi.discardCount
      BY <2>1, NewFileEffect, Zenon
    <3>2. pc = "video"
      BY <2>1 DEF WritesToNewFile, WriteAVIFrame, At
    <3>3. /\ avi'.open = avi.open /\ avi'.splitCount = split
          /\ avi'.discardCount = avi.discardCount
      BY <3>1 DEF AviIs
    <3> QED
      BY <1>r, <3>1, <3>2, <3>3 DEF SegmentOrder, Closing, Opening, Splitting
  <2>2. CASE SoundWithoutFile
    <3>1. PICK size \in Sizes \cup {NoSize} :
         /\ AviIs(avi', avi.mode, avi.open, size, avi.fileSize, avi.splitCount,
                  avi.discardCount, avi.requestedSplitCount, avi'.oldIsBasicallyEmpty)
         /\ after' = "opened" /\ pc' = "flush"
         /\ saved'.splitCount = avi.splitCount /\ saved'.discardCount = avi.discardCount
      BY <2>2, SoundFileEffect, Zenon
    <3>2. pc = "audio" /\ ~avi.open
      BY <2>2 DEF SoundWithoutFile, OpenAVIAudioStream, At
    <3>3. /\ avi'.open = avi.open /\ avi'.splitCount = avi.splitCount
          /\ avi'.discardCount = avi.discardCount
      BY <3>1 DEF AviIs
    <3> QED
      BY <1>r, <3>1, <3>2, <3>3 DEF SegmentOrder, Closing, Opening, Splitting
  <2>3. ASSUME NEW size \in Sizes \cup {NoSize}, NEW hasSound \in BOOLEAN, Splits(size, hasSound)
        PROVE  SegmentOrder'
    <3>1. /\ AviIs(avi', avi.mode, avi.open, avi.size, avi.fileSize, avi.splitCount,
                   avi.discardCount, avi.requestedSplitCount, avi'.oldIsBasicallyEmpty)
          /\ after' = "split" /\ pc' = "flush"
          /\ saved'.splitCount = avi.splitCount /\ saved'.discardCount = avi.discardCount
          /\ saved'.requested = avi.requestedSplitCount
      BY <2>3, SplitsEffect, Zenon
    <3>2. pc = "game" /\ avi.requestedSplitCount > avi.splitCount
      BY <2>3 DEF Splits, FrameBoundary, At
    <3>3. /\ avi'.open = avi.open /\ avi'.splitCount = avi.splitCount
          /\ avi'.discardCount = avi.discardCount
      BY <3>1 DEF AviIs
    <3> QED
      BY <1>r, <3>1, <3>2, <3>3 DEF SegmentOrder, Closing, Opening, Splitting
  <2> QED
    BY <1>2, <2>1, <2>2, <2>3 DEF Calls
<1>3. CASE Fills
  <2>1. PICK c \in Halves, item \in Items : Fill(c, item) /\ pc \in Plain /\ pc' \in Plain
    BY <1>3, FillsEffect, Zenon
  <2>2. UNCHANGED <<avi, saved, after>>
    BY <2>1 DEF Fill
  <2> QED
    BY <2>1, <2>2 DEF SegmentOrder, Closing, Opening, Splitting, Plain
<1>4. CASE StopCapture
  <2>1. /\ avi'.open = avi.open /\ avi'.splitCount = avi.splitCount
        /\ avi'.discardCount = avi.discardCount /\ pc' = "flush" /\ after' = "game"
    BY <1>4, StopEffect DEF AviIs
  <2> QED
    BY <2>1 DEF SegmentOrder, Closing, Opening, Splitting
<1>5. CASE SplitAVINow
  <2>1. /\ avi'.open = avi.open /\ avi'.splitCount = avi.splitCount
        /\ avi'.discardCount = avi.discardCount
    BY <1>5, SplitNowEffect DEF AviIs
  <2>2. UNCHANGED <<pc, saved, after>>
    BY <1>5 DEF SplitAVINow
  <2> QED
    BY <2>1, <2>2 DEF SegmentOrder, Closing, Opening, Splitting
<1>6. ASSUME NEW c \in Halves, WaitUntilTrue(c) \/ NextFrame(c) \/ OutputFrame(c)
      PROVE  SegmentOrder'
  <2>1. UNCHANGED <<pc, avi, saved, after>>
    BY <1>6 DEF WaitUntilTrue, NextFrame, OutputFrame
  <2> QED
    BY <2>1 DEF SegmentOrder, Closing, Opening, Splitting
<1>7. ASSUME NEW c \in Halves, CountFrame(c) PROVE SegmentOrder'
  <2>1. /\ avi'.open = avi.open /\ avi'.splitCount = avi.splitCount
        /\ avi'.discardCount = avi.discardCount
    BY <1>7, CountFrameEffect DEF AviIs
  <2>2. UNCHANGED <<pc, saved, after>>
    BY <1>7 DEF CountFrame
  <2> QED
    BY <2>1, <2>2 DEF SegmentOrder, Closing, Opening, Splitting
<1>8. CASE Flush \/ DeleteQueue
  <2>1. UNCHANGED <<avi, saved, after>> /\ Closing /\ pc' \in {"delete", "join"}
    BY <1>8 DEF Flush, DeleteQueue, At, Goto, Closing
  <2> QED
    BY <2>1 DEF SegmentOrder, Closing, Opening, Splitting
<1>9. CASE CloseAVI
  <2>1. avi'.splitCount = 0 /\ avi'.discardCount = 0
    BY <1>9, CloseEffect DEF AviIs
  <2>2. pc = "join" /\ pc' = after /\ UNCHANGED <<saved, after>>
    BY <1>9 DEF CloseAVI, At, Goto
  <2>3. after \in {"game", "split", "opened"}
    BY DEF ControlInv
  <2> QED
    BY <2>1, <2>2, <2>3 DEF SegmentOrder, Closing, Opening, Splitting
<1>10. CASE HandleAviSplitRequests
  <2>1. avi'.splitCount = saved.requested /\ avi'.discardCount = saved.discardCount
    BY <1>10, HandleEffect DEF AviIs
  <2>2. pc = "split" /\ pc' = "video"
    BY <1>10 DEF HandleAviSplitRequests, At, Goto
  <2> QED
    BY <1>r, <2>1, <2>2 DEF SegmentOrder, Closing, Opening, Splitting
<1>11. CASE OpenedAVIFile
  <2>1. PICK discard \in Nat : /\ avi'.open = TRUE /\ discard <= saved.splitCount
                               /\ avi'.splitCount = saved.splitCount
                               /\ avi'.discardCount = discard
    BY <1>11, OpenedFile, Zenon DEF AviIs
  <2>2. pc' \in {"audioStream", "fill"}
    BY <1>11 DEF OpenedAVIFile, Goto
  <2> QED
    BY <2>1, <2>2 DEF SegmentOrder, Closing, Opening, Splitting
<1>12. CASE CancelVideoCodec
  <2>1. /\ avi'.open = avi.open /\ avi'.splitCount = avi.splitCount
        /\ avi'.discardCount = avi.discardCount
    BY <1>12, CancelVideoEffect DEF AviIs
  <2>2. pc = "opened" /\ pc' = "game"
    BY <1>12 DEF CancelVideoCodec, At, Goto
  <2> QED
    BY <2>1, <2>2 DEF SegmentOrder, Closing, Opening, Splitting
<1>13. CASE CancelAudioCodec
  <2>1. /\ avi'.open = avi.open /\ avi'.splitCount = avi.splitCount
        /\ avi'.discardCount = avi.discardCount
    BY <1>13, CancelAudioEffect DEF AviIs
  <2>2. pc = "audioStream" /\ pc' = "game"
    BY <1>13 DEF CancelAudioCodec, At, Goto
  <2> QED
    BY <2>1, <2>2 DEF SegmentOrder, Closing, Opening, Splitting
<1>14. CASE OpenedAVIAudioStream
  <2>1. avi' = avi /\ pc = "audioStream" /\ pc' = "write"
    BY <1>14 DEF OpenedAVIAudioStream, At, Goto
  <2> QED
    BY <2>1 DEF SegmentOrder, Closing, Opening, Splitting
<1>15. ASSUME NEW mode \in SUBSET Halves \ {{}}, StartCapture(mode) PROVE SegmentOrder'
  <2>1. /\ avi'.open = avi.open /\ avi'.splitCount = avi.splitCount
        /\ avi'.discardCount = avi.discardCount
    BY <1>15, StartEffect DEF AviIs
  <2>2. pc = "game" /\ pc' = pc
    BY <1>15 DEF StartCapture, At
  <2> QED
    BY <2>1, <2>2 DEF SegmentOrder, Closing, Opening, Splitting
<1>16. CASE UNCHANGED vars
  BY <1>16 DEF vars, SegmentOrder, Closing, Opening, Splitting
<1> QED
  BY <1>1, <1>2, <1>3, <1>4, <1>5, <1>6, <1>7, <1>8, <1>9, <1>10, <1>11, <1>12, <1>13, <1>14,
     <1>15, <1>16, NextCases

-----------------------------------------------------------------------------
(* One half of the queue: what it holds is what was captured and is not yet*)
(* written, in its order.  A frame that is written stays in its slot until *)
(* the encoder clears it.                                                  *)
Prefix(s, t) == Len(s) <= Len(t) /\ \A i \in 1 .. Len(s) : s[i] = t[i]
LastHalf(c)  == Last(files)[c]
Holding(c)   == IF encoder[c] \in {"count", "clear"} THEN 1 ELSE 0
Uncounted(c) == IF encoder[c] = "count" THEN 1 ELSE 0
Unread(c)    == Len(captured[c]) - Len(Written(c)) + Holding(c)
RingOf(c, n) == Ring(hasProcessed[c], contents[c], nextWrite[c], nextRead[c], captured[c], n)
Idle(c)      == /\ \A i \in Slots : ~hasProcessed[c][i]
                /\ nextWrite[c] = nextRead[c] /\ encoder[c] = "wait"

Active(c)  == c \in avi.mode /\ pc # "join"
Resting(c) == c \notin avi.mode /\ ~Stopping /\ pc # "join"
Drained(c) == c \in Mode /\ pc \in {"delete", "join", "split", "opened"}

EncoderInv(c) ==
  /\ pc # "join" => encoder[c] # "exited" /\ (encoder[c] # "wait" => hasProcessed[c][nextRead[c]])
  /\ pc = "join" => encoder[c] \in {"wait", "clear", "exited"}
  /\ encoder[c] = "count" => stream[c]
  /\ pc = "delete" => \A i \in Slots : ~hasProcessed[c][i]

QueueInv(c) ==
  /\ Prefix(Written(c), captured[c])
  /\ Active(c) => RingOf(c, Unread(c)) /\ Unread(c) <= Len(captured[c])
  /\ Resting(c) => Idle(c)
  /\ Active(c) /\ ~stream[c] => Unread(c) = 0
  /\ Drained(c) => Written(c) = captured[c]

CountInv(c) ==
  /\ avi.open /\ ~stream[c] => LastHalf(c) = <<>>
  /\ stream[c] => Len(LastHalf(c)) = count[c] + Uncounted(c)
  /\ c = "video" /\ ~stream[c] => count[c] = 0

HalfInv(c) == EncoderInv(c) /\ QueueInv(c) /\ CountInv(c)
HalfState(c) == <<hasProcessed[c], contents[c], nextWrite[c], nextRead[c], encoder[c], captured[c],
                  stream[c], count[c]>>

LEMMA PrefixIs ==
  ASSUME NEW S, NEW s \in Seq(S), NEW t \in Seq(S)
  PROVE  Prefix(s, t) <=> IsPrefix(s, t)
<1>1. ASSUME Prefix(s, t) PROVE IsPrefix(s, t)
  <2>1. Len(s) \in Nat /\ Len(t) \in Nat /\ Len(s) <= Len(t)
    BY <1>1 DEF Prefix
  <2> DEFINE u == SubSeq(t, 1, Len(s))
             v == SubSeq(s, 1, Len(s))
  <2>2. u \in Seq(S) /\ Len(u) = Len(s) /\ \A i \in 1 .. Len(s) : u[i] = t[i]
    BY <2>1, SubSeqProperties
  <2>3. v \in Seq(S) /\ Len(v) = Len(s) /\ \A i \in 1 .. Len(s) : v[i] = s[i]
    BY <2>1, SubSeqProperties
  <2> HIDE DEF u, v
  <2>4. \A i \in 1 .. Len(s) : u[i] = v[i]
    BY <1>1, <2>2, <2>3 DEF Prefix
  <2>5. u = v
    BY <2>2, <2>3, <2>4, SeqEqual
  <2> QED
    BY <2>1, <2>5 DEF IsPrefix, u, v
<1>2. ASSUME IsPrefix(s, t) PROVE Prefix(s, t)
  <2>1. Len(s) \in Nat /\ Len(t) \in Nat /\ Len(s) <= Len(t)
    BY <1>2 DEF IsPrefix
  <2> DEFINE u == SubSeq(t, 1, Len(s))
             v == SubSeq(s, 1, Len(s))
  <2>2. u = v
    BY <1>2 DEF IsPrefix
  <2>3. \A i \in 1 .. Len(s) : u[i] = t[i]
    BY <2>1, SubSeqProperties
  <2>4. \A i \in 1 .. Len(s) : v[i] = s[i]
    BY <2>1, SubSeqProperties
  <2> HIDE DEF u, v
  <2> QED
    BY <2>1, <2>2, <2>3, <2>4 DEF Prefix
<1> QED
  BY <1>1, <1>2

LEMMA PrefixMore ==
  ASSUME NEW S, NEW s \in Seq(S), NEW t \in Seq(S), NEW x \in S, Prefix(s, t)
  PROVE  /\ Prefix(s, Append(t, x))
         /\ Len(s) < Len(t) /\ t[Len(s) + 1] = x => Prefix(Append(s, x), t)
         /\ Len(s) = Len(t) => s = t
<1>1. Len(s) \in Nat /\ Len(t) \in Nat /\ Len(s) <= Len(t) /\ \A i \in 1 .. Len(s) : s[i] = t[i]
  BY DEF Prefix
<1>2. Prefix(s, Append(t, x))
  <2> DEFINE u == Append(t, x)
  <2>1. Len(u) = Len(t) + 1 /\ \A i \in 1 .. Len(t) : u[i] = t[i]
    BY AppendProperties
  <2> HIDE DEF u
  <2>2. Len(s) <= Len(u) /\ \A i \in 1 .. Len(s) : s[i] = u[i]
    BY <1>1, <2>1
  <2> QED
    BY <2>2 DEF Prefix, u
<1>3. ASSUME Len(s) < Len(t), t[Len(s) + 1] = x PROVE Prefix(Append(s, x), t)
  <2> DEFINE u == Append(s, x)
  <2>1. Len(u) = Len(s) + 1 /\ u[Len(s) + 1] = x /\ \A i \in 1 .. Len(s) : u[i] = s[i]
    BY AppendProperties
  <2> HIDE DEF u
  <2>2. ASSUME NEW i \in 1 .. Len(s) + 1 PROVE u[i] = t[i]
    <3>1. i = Len(s) + 1 \/ i \in 1 .. Len(s)
      BY <1>1
    <3> QED
      BY <1>1, <1>3, <2>1, <3>1
  <2>3. Len(u) <= Len(t)
    BY <1>1, <1>3, <2>1
  <2> QED
    BY <2>1, <2>2, <2>3 DEF Prefix, u
<1>4. Len(s) = Len(t) => s = t
  BY <1>1, SeqEqual
<1> QED
  BY <1>2, <1>3, <1>4

LEMMA HalfTyped ==
  ASSUME TypeOK, NEW c \in Halves
  PROVE  /\ hasProcessed[c] \in [Slots -> BOOLEAN] /\ contents[c] \in [Slots -> Items]
         /\ nextWrite[c] \in Slots /\ nextRead[c] \in Slots
         /\ captured[c] \in Seq(Items) /\ Written(c) \in Seq(Items)
         /\ stream[c] \in BOOLEAN /\ count[c] \in Nat
         /\ Len(captured[c]) \in Nat /\ Len(Written(c)) \in Nat
<1>1. files \in Seq(FileType) /\ captured[c] \in Seq(Items)
  BY HistoryTyped
<1>2. Parts(files, c) \in Seq(Seq(Items))
  BY <1>1, PartsType
<1>3. FlattenSeq(Parts(files, c)) \in Seq(Items)
  BY <1>2, FlattenType
<1>4. Written(c) \in Seq(Items)
  BY <1>3, WrittenIsFlat
<1> QED
  BY <1>1, <1>4, QueueTyped

(* A half that stays as it is.                                             *)
LEMMA HalfSame ==
  ASSUME NEW c, HalfInv(c), UNCHANGED HalfState(c), Written(c)' = Written(c),
         avi'.open => avi.open /\ LastHalf(c)' = LastHalf(c),
         stream[c] => LastHalf(c)' = LastHalf(c),
         pc' = "join" <=> pc = "join", pc' = "delete" => pc = "delete",
         Active(c)' => Active(c), Resting(c)' => Resting(c), Drained(c)' => Drained(c)
  PROVE  HalfInv(c)'
<1>1. Unread(c)' = Unread(c) /\ Uncounted(c)' = Uncounted(c) /\ (Idle(c)' <=> Idle(c))
  BY DEF HalfState, Unread, Holding, Uncounted, Idle
<1>2. RingOf(c, Unread(c))' <=> RingOf(c, Unread(c))
  BY <1>1 DEF HalfState, RingOf
<1>3. EncoderInv(c)'
  BY DEF HalfInv, EncoderInv, HalfState
<1>4. QueueInv(c)'
  BY <1>1, <1>2 DEF HalfInv, QueueInv, HalfState
<1>5. CountInv(c)'
  BY <1>1 DEF HalfInv, CountInv, HalfState
<1> QED
  BY <1>3, <1>4, <1>5 DEF HalfInv

LEMMA WrittenSame ==
  ASSUME NEW c, files' = files
  PROVE  Written(c)' = Written(c) /\ LastHalf(c)' = LastHalf(c)
  BY DEF Written, LastHalf

LEMMA PhaseSame ==
  ASSUME NEW c, pc' = pc, after' = after, saved'.mode = saved.mode, avi'.mode = avi.mode
  PROVE  /\ Active(c)' <=> Active(c)
         /\ Resting(c)' <=> Resting(c)
         /\ Drained(c)' <=> Drained(c)
  BY DEF Active, Resting, Drained, Mode, Stopping, Closing

(* An encoder at work, which is so outside of join only if its slot is     *)
(* filled.                                                                 *)
LEMMA NotResting ==
  ASSUME NEW c, HalfInv(c), encoder[c] # "wait" \/ hasProcessed[c][nextRead[c]],
         nextRead[c] \in Slots
  PROVE  ~Resting(c)
  BY DEF HalfInv, QueueInv, Idle

LEMMA HalfWait ==
  ASSUME TypeOK, ControlInv, NEW c \in Halves, HalfInv(c), WaitUntilTrue(c)
  PROVE  HalfInv(c)'
<1>1. /\ encoder[c] = "wait" /\ hasProcessed[c][nextRead[c]]
      /\ encoder'[c] = (IF threadDone THEN "clear" ELSE "output")
      /\ UNCHANGED <<queueVars, aviVars, pc, callVars, history>>
  BY QueueTyped DEF WaitUntilTrue, EncoderAt, EncoderGoto
<1>2. Written(c)' = Written(c) /\ LastHalf(c)' = LastHalf(c)
  BY <1>1, WrittenSame DEF history
<1>3. /\ Active(c)' <=> Active(c)
      /\ Resting(c)' <=> Resting(c)
      /\ Drained(c)' <=> Drained(c)
  BY <1>1, PhaseSame DEF callVars, aviVars
<1>4. threadDone <=> pc = "join"
  BY DEF ControlInv
<1>5. ~Resting(c)
  BY <1>1, HalfTyped, NotResting
<1>6. pc # "join" => Unread(c)' = Unread(c)
  BY <1>1, <1>2, <1>4 DEF Unread, Holding, history
<1>7. Uncounted(c)' = Uncounted(c)
  BY <1>1 DEF Uncounted
<1>8. pc # "join" => (RingOf(c, Unread(c))' <=> RingOf(c, Unread(c)))
  BY <1>1, <1>6 DEF RingOf, queueVars, history
<1>9. EncoderInv(c)'
  BY <1>1, <1>4 DEF HalfInv, EncoderInv, queueVars, aviVars
<1>10. QueueInv(c)'
  BY <1>1, <1>2, <1>3, <1>5, <1>6, <1>8 DEF HalfInv, QueueInv, queueVars, aviVars, history, Active
<1>11. CountInv(c)'
  BY <1>1, <1>2, <1>7 DEF HalfInv, CountInv, aviVars
<1> QED
  BY <1>9, <1>10, <1>11 DEF HalfInv

(* The encoder clears its slot.                                            *)
LEMMA HalfNext ==
  ASSUME TypeOK, ControlInv, NEW c \in Halves, HalfInv(c), NextFrame(c)
  PROVE  HalfInv(c)'
<1>t. /\ hasProcessed[c] \in [Slots -> BOOLEAN] /\ nextRead[c] \in Slots /\ nextWrite[c] \in Slots
      /\ captured[c] \in Seq(Items) /\ Len(captured[c]) \in Nat /\ Len(Written(c)) \in Nat
  BY HalfTyped
<1>1. /\ encoder[c] = "clear"
      /\ encoder'[c] = (IF threadDone THEN "exited" ELSE "wait")
      /\ hasProcessed'[c] = [hasProcessed[c] EXCEPT ![nextRead[c]] = FALSE]
      /\ nextRead'[c] = NextSlot(nextRead[c])
      /\ UNCHANGED <<contents, nextWrite, threadDone, aviVars, pc, callVars, history>>
  BY QueueTyped DEF NextFrame, EncoderAt, EncoderGoto, Stops
<1>2. Written(c)' = Written(c) /\ LastHalf(c)' = LastHalf(c)
  BY <1>1, WrittenSame DEF history
<1>3. /\ Active(c)' <=> Active(c)
      /\ Resting(c)' <=> Resting(c)
      /\ Drained(c)' <=> Drained(c)
  BY <1>1, PhaseSame DEF callVars, aviVars
<1>4. threadDone <=> pc = "join"
  BY DEF ControlInv
<1>5. ~Resting(c)
  BY <1>1, <1>t, NotResting
<1>6. Unread(c)' = Unread(c) - 1 /\ Unread(c) \in Int
  BY <1>1, <1>2, <1>t DEF Unread, Holding, history
<1>7. Uncounted(c)' = Uncounted(c)
  BY <1>1 DEF Uncounted
<1>8. ASSUME Active(c)
      PROVE  RingOf(c, Unread(c))' /\ Unread(c) >= 1 /\ Unread(c) <= Len(captured[c])
  <2> DEFINE filled == hasProcessed[c]
             holds == contents[c]
             write == nextWrite[c]
             read == nextRead[c]
             items == captured[c]
             n == Unread(c)
  <2>1. Ring(filled, holds, write, read, items, n) /\ n <= Len(items)
    BY <1>8 DEF HalfInv, QueueInv, RingOf
  <2>2. filled[read]
    BY <1>1, <1>8 DEF HalfInv, EncoderInv, Active
  <2>3. filled \in [Slots -> BOOLEAN] /\ write \in Slots /\ read \in Slots /\ items \in Seq(Items)
    BY <1>t
  <2>d. RingOf(c, Unread(c))' <=>
          Ring([filled EXCEPT ![read] = FALSE], holds, write, NextSlot(read), items, n - 1)
    BY <1>1, <1>6 DEF RingOf, history
  <2>l. n <= Len(captured[c])
    BY <2>1
  <2> HIDE DEF filled, holds, write, read, items
  <2>4. n \in 1 .. NumSlots
    BY <2>1, <2>2, <2>3, RingHead
  <2>5. Ring([filled EXCEPT ![read] = FALSE], holds, write, NextSlot(read), items, n - 1)
    BY <2>1, <2>2, <2>3, RingGet
  <2> QED
    BY <2>4, <2>5, <2>d, <2>l
<1>9. EncoderInv(c)'
  <2>1. pc = "delete" => \A i \in Slots : ~hasProcessed'[c][i]
    BY <1>1, <1>t DEF HalfInv, EncoderInv
  <2> QED
    BY <1>1, <1>4, <2>1 DEF HalfInv, EncoderInv, aviVars
<1>10. QueueInv(c)'
  <2>1. /\ Prefix(Written(c), captured[c])
        /\ Drained(c) => Written(c) = captured[c]
    BY DEF HalfInv, QueueInv
  <2>2. ASSUME Active(c) PROVE stream[c]
    BY <1>8, <2>2 DEF HalfInv, QueueInv
  <2> QED
    BY <1>1, <1>2, <1>3, <1>5, <1>6, <1>8, <1>t, <2>1, <2>2 DEF QueueInv, aviVars, history
<1>11. CountInv(c)'
  BY <1>1, <1>2, <1>7 DEF HalfInv, CountInv, aviVars
<1> QED
  BY <1>9, <1>10, <1>11 DEF HalfInv

(* The frame is counted.                                                   *)
LEMMA HalfCount ==
  ASSUME TypeOK, ControlInv, NEW c \in Halves, HalfInv(c), CountFrame(c)
  PROVE  HalfInv(c)'
<1>t. count[c] \in Nat /\ nextRead[c] \in Slots
  BY HalfTyped
<1>1. /\ encoder[c] = "count" /\ encoder'[c] = "clear" /\ count'[c] = count[c] + 1
      /\ UNCHANGED <<queueVars, stream, aviCS, pc, callVars, history>>
  BY QueueTyped DEF CountFrame, EncoderAt, EncoderGoto
<1>a. avi'.mode = avi.mode /\ avi'.open = avi.open
  BY CountFrameEffect DEF AviIs
<1>2. Written(c)' = Written(c) /\ LastHalf(c)' = LastHalf(c)
  BY <1>1, WrittenSame DEF history
<1>3. /\ Active(c)' <=> Active(c)
      /\ Resting(c)' <=> Resting(c)
      /\ Drained(c)' <=> Drained(c)
  BY <1>1, <1>a, PhaseSame DEF callVars
<1>5. ~Resting(c)
  BY <1>1, <1>t, NotResting
<1>6. Unread(c)' = Unread(c)
  BY <1>1, <1>2 DEF Unread, Holding, history
<1>8. RingOf(c, Unread(c))' <=> RingOf(c, Unread(c))
  BY <1>1, <1>6 DEF RingOf, queueVars, history
<1>9. EncoderInv(c)'
  BY <1>1 DEF HalfInv, EncoderInv, queueVars
<1>10. QueueInv(c)'
  BY <1>1, <1>2, <1>3, <1>5, <1>6, <1>8 DEF HalfInv, QueueInv, history
<1>11. CountInv(c)'
  <2>1. stream[c]
    BY <1>1 DEF HalfInv, EncoderInv
  <2>2. Len(LastHalf(c)) = count[c] + 1
    BY <1>1, <2>1 DEF HalfInv, CountInv, Uncounted
  <2>3. Uncounted(c)' = 0
    BY <1>1 DEF Uncounted
  <2> QED
    BY <1>1, <1>2, <1>t, <2>1, <2>2, <2>3 DEF CountInv
<1> QED
  BY <1>9, <1>10, <1>11 DEF HalfInv

LEMMA WrittenMore ==
  ASSUME TypeOK, files # <<>>, NEW c \in Halves, NEW item \in Items,
         files' = [files EXCEPT ![Len(files)][c] = Append(@, item)]
  PROVE  /\ Written(c)' = Append(Written(c), item)
         /\ LastHalf(c)' = Append(LastHalf(c), item) /\ LastHalf(c) \in Seq(Items)
         /\ \A d \in Halves : d # c => Written(d)' = Written(d) /\ LastHalf(d)' = LastHalf(d)
<1> DEFINE fs == files
           gs == files'
<1>1. fs \in Seq(FileType) /\ fs # <<>> /\ Grown(fs, gs, c, item)
  BY HistoryTyped DEF Grown
<1>w. /\ \A d \in Halves : Written(d) = FlattenSeq(Parts(fs, d)) /\ LastHalf(d) = fs[Len(fs)][d]
      /\ \A d \in Halves : Written(d)' = FlattenSeq(Parts(gs, d)) /\ LastHalf(d)' = gs[Len(gs)][d]
  BY DEF Written, Parts, LastHalf, Last
<1> HIDE DEF fs, gs
<1>2. /\ gs \in Seq(FileType) /\ Len(gs) = Len(fs)
      /\ \A i \in 1 .. Len(fs) : i # Len(fs) => gs[i] = fs[i]
  BY <1>1, FilesMore
<1>3. /\ gs[Len(fs)][c] = Append(fs[Len(fs)][c], item)
      /\ \A d \in Halves : d # c => gs[Len(fs)][d] = fs[Len(fs)][d]
  BY <1>1, FilesMore
<1>4. FlattenSeq(Parts(gs, c)) = Append(FlattenSeq(Parts(fs, c)), item)
  BY <1>1, <1>2, <1>3, FlatMore
<1>5. ASSUME NEW d \in Halves, d # c
      PROVE  FlattenSeq(Parts(gs, d)) = FlattenSeq(Parts(fs, d))
  <2>1. \A i \in 1 .. Len(fs) : gs[i][d] = fs[i][d]
    BY <1>2, <1>3, <1>5
  <2> QED
    BY <1>1, <1>2, <2>1, FlatSame
<1>6. fs[Len(fs)][c] \in Seq(Items)
  <2>1. Len(fs) \in 1 .. Len(fs)
    BY <1>1
  <2>2. fs[Len(fs)] \in FileType
    BY <1>1, <2>1
  <2> QED
    BY <2>2, FileHalf
<1> QED
  BY <1>2, <1>3, <1>4, <1>5, <1>6, <1>w, Zenon

(* The encoder writes the oldest of what is unread, or finds that its half *)
(* is no longer captured.                                                  *)
LEMMA HalfOutput ==
  ASSUME TypeOK, ControlInv, NEW c \in Halves, HalfInv(c), OutputFrame(c)
  PROVE  HalfInv(c)'
<1>t. /\ hasProcessed[c] \in [Slots -> BOOLEAN] /\ nextRead[c] \in Slots /\ nextWrite[c] \in Slots
      /\ captured[c] \in Seq(Items) /\ Len(captured[c]) \in Nat /\ Len(Written(c)) \in Nat
      /\ Written(c) \in Seq(Items) /\ contents[c][nextRead[c]] \in Items /\ count[c] \in Nat
  BY HalfTyped
<1>1. encoder[c] = "output" /\ UNCHANGED <<queueVars, aviVars, pc, callVars, captured>>
  BY OutputEffect
<1>3. /\ Active(c)' <=> Active(c)
      /\ Resting(c)' <=> Resting(c)
      /\ Drained(c)' <=> Drained(c)
  BY <1>1, PhaseSame DEF callVars, aviVars
<1>4. pc # "join" /\ hasProcessed[c][nextRead[c]]
  BY <1>1 DEF HalfInv, EncoderInv
<1>5. ~Resting(c) /\ pc # "delete"
  BY <1>1, <1>4, <1>t, NotResting DEF HalfInv, EncoderInv
<1>6. Uncounted(c) = 0 /\ Holding(c) = 0
  BY <1>1 DEF Uncounted, Holding
<1>7. CASE /\ ~(c \in avi.mode /\ stream[c])
           /\ encoder'[c] = "clear" /\ files' = files
  <2>1. Written(c)' = Written(c) /\ LastHalf(c)' = LastHalf(c)
    BY <1>7, WrittenSame
  <2>2. ~Active(c)
    <3>1. SUFFICES ASSUME Active(c) PROVE FALSE
      OBVIOUS
    <3>2. RingOf(c, 0)
      BY <1>7, <3>1 DEF HalfInv, QueueInv, Active
    <3>3. 0 \in 1 .. NumSlots
      BY <1>4, <1>t, <3>2, RingHead DEF RingOf
    <3> QED
      BY <3>3
  <2>3. EncoderInv(c)'
    BY <1>1, <1>4, <1>7 DEF HalfInv, EncoderInv, queueVars
  <2>4. QueueInv(c)'
    BY <1>1, <1>3, <1>5, <2>1, <2>2 DEF HalfInv, QueueInv
  <2>5. CountInv(c)'
    <3>1. Uncounted(c)' = 0
      BY <1>7 DEF Uncounted
    <3> QED
      BY <1>1, <1>6, <2>1, <3>1 DEF HalfInv, CountInv, aviVars
  <2> QED
    BY <2>3, <2>4, <2>5 DEF HalfInv
<1>8. CASE /\ c \in avi.mode /\ stream[c] /\ files # <<>> /\ avi.open
           /\ encoder'[c] = "count" /\ files' # <<>>
           /\ files' = [files EXCEPT ![Len(files)][c] = Append(@, contents[c][nextRead[c]])]
  <2> DEFINE item == contents[c][nextRead[c]]
             n == Unread(c)
             w == Written(c)
             items == captured[c]
  <2>1. Active(c)
    BY <1>4, <1>8 DEF Active
  <2>2. RingOf(c, n) /\ n <= Len(captured[c])
    BY <2>1 DEF HalfInv, QueueInv
  <2>3. n \in 1 .. NumSlots /\ item = items[Len(items) - n + 1]
    <3>1. Ring(hasProcessed[c], contents[c], nextWrite[c], nextRead[c], captured[c], n)
      BY <2>2 DEF RingOf
    <3> HIDE DEF n
    <3> QED
      BY <1>4, <1>t, <3>1, RingHead
  <2>4. n = Len(items) - Len(w)
    BY <1>6, <1>t DEF Unread
  <2>i. item \in Items /\ w \in Seq(Items) /\ items \in Seq(Items) /\ Len(items) \in Nat
        /\ Len(w) \in Nat /\ Prefix(w, items)
    BY <1>t DEF HalfInv, QueueInv
  <2>5. /\ Written(c)' = Append(w, item)
        /\ LastHalf(c)' = Append(LastHalf(c), item) /\ LastHalf(c) \in Seq(Items)
    <3>1. /\ files # <<>> /\ item \in Items
          /\ files' = [files EXCEPT ![Len(files)][c] = Append(@, item)]
      BY <1>8, <2>i
    <3> HIDE DEF item, w
    <3> QED
      BY <3>1, WrittenMore DEF w
  <2>u. UNCHANGED <<hasProcessed, contents, nextWrite, nextRead, captured>>
    BY <1>1 DEF queueVars
  <2>6. Unread(c)' = Len(captured[c]) - Len(Written(c)') + 1
    BY <1>8, <2>u DEF Unread, Holding
  <2>7. Drained(c) => w = items
    BY DEF HalfInv, QueueInv
  <2>8. Len(LastHalf(c)) = count[c]
    BY <1>6, <1>8, <1>t DEF HalfInv, CountInv
  <2>9. Uncounted(c)' = 1
    BY <1>8 DEF Uncounted
  <2> HIDE DEF item, w, items, n
  <2>10. Len(w) < Len(items) /\ items[Len(w) + 1] = item
    <3>1. Len(items) - n + 1 = Len(w) + 1
      BY <2>3, <2>4, <2>i
    <3> QED
      BY <2>3, <2>4, <2>i, <3>1
  <2>11. Prefix(Append(w, item), items)
    BY <2>10, <2>i, PrefixMore
  <2>12. Len(Append(w, item)) = Len(w) + 1
    BY <2>i
  <2>13. Unread(c)' = n
    BY <2>4, <2>5, <2>6, <2>12, <2>i, <1>t DEF items
  <2>14. RingOf(c, Unread(c))'
    BY <2>2, <2>13, <2>u DEF RingOf
  <2>15. ~Drained(c)
    BY <2>7, <2>10, <2>i
  <2>16. EncoderInv(c)'
    BY <1>1, <1>4, <1>8, <1>5 DEF EncoderInv, queueVars, aviVars
  <2>17. QueueInv(c)'
    BY <1>1, <1>3, <1>5, <1>8, <2>2, <2>5, <2>11, <2>13, <2>14, <2>15 DEF QueueInv, items, aviVars
  <2>18. CountInv(c)'
    <3>1. Len(LastHalf(c)') = count[c] + 1
      BY <2>5, <2>8
    <3> QED
      BY <1>1, <1>8, <2>9, <3>1 DEF CountInv, aviVars
  <2> QED
    BY <2>16, <2>17, <2>18 DEF HalfInv
<1> QED
  BY <1>7, <1>8, OutputEffect, Zenon

(* Something more is handed over.                                          *)
LEMMA HalfFill ==
  ASSUME TypeOK, NEW c \in Halves, HalfInv(c), NEW item \in Items, Fill(c, item),
         c \in avi.mode, stream[c], pc \in Plain, pc' \in Plain
  PROVE  HalfInv(c)'
<1> DEFINE filled == hasProcessed[c]
           holds == contents[c]
           write == nextWrite[c]
           read == nextRead[c]
           items == captured[c]
           n == Unread(c)
<1>t. /\ filled \in [Slots -> BOOLEAN] /\ read \in Slots /\ write \in Slots
      /\ holds \in [Slots -> Items] /\ items \in Seq(Items) /\ Len(items) \in Nat
      /\ Len(Written(c)) \in Nat /\ Written(c) \in Seq(Items)
  BY HalfTyped
<1>1. /\ ~filled[write]
      /\ hasProcessed'[c] = [filled EXCEPT ![write] = TRUE]
      /\ contents'[c] = [holds EXCEPT ![write] = item]
      /\ nextWrite'[c] = NextSlot(write)
      /\ captured'[c] = Append(items, item)
      /\ UNCHANGED <<nextRead, threadDone, aviVars, encoder, callVars, files>>
  BY QueueTyped, HistoryTyped DEF Fill, MayFill
<1>2. Written(c)' = Written(c) /\ LastHalf(c)' = LastHalf(c)
  BY <1>1, WrittenSame
<1>3. Active(c) /\ Active(c)' /\ ~Resting(c)' /\ ~Drained(c)'
  BY <1>1 DEF Active, Resting, Drained, Plain, aviVars
<1>4. RingOf(c, n) /\ n <= Len(items) /\ Prefix(Written(c), items)
  BY <1>3 DEF HalfInv, QueueInv
<1>5. Unread(c)' = Len(captured[c]') - Len(Written(c)) + Holding(c)
  BY <1>1, <1>2 DEF Unread, Holding
<1>6. n = Len(items) - Len(Written(c)) + Holding(c) /\ Holding(c) \in Nat
  BY DEF Unread, Holding
<1>7. Uncounted(c)' = Uncounted(c)
  BY <1>1 DEF Uncounted
<1>8. Ring(filled, holds, write, read, items, n)
  BY <1>4 DEF RingOf
<1>9. RingOf(c, Unread(c))' <=>
        Ring([filled EXCEPT ![write] = TRUE], [holds EXCEPT ![write] = item],
             NextSlot(write), read, Append(items, item), Unread(c)')
  BY <1>1 DEF RingOf
<1>10. EncoderInv(c)'
  <2>1. hasProcessed[c][nextRead[c]] => hasProcessed'[c][nextRead'[c]]
    BY <1>1, <1>t
  <2> QED
    BY <1>1, <2>1 DEF HalfInv, EncoderInv, Plain, aviVars
<1>11. CountInv(c)'
  BY <1>1, <1>2, <1>7 DEF HalfInv, CountInv, aviVars
<1>12. stream'[c]
  BY <1>1 DEF aviVars
<1>13. captured'[c] = Append(items, item) /\ Prefix(Written(c), items)
  BY <1>1, <1>4
<1> HIDE DEF filled, holds, write, read, items, n
<1>14. Ring([filled EXCEPT ![write] = TRUE], [holds EXCEPT ![write] = item],
            NextSlot(write), read, Append(items, item), n + 1)
  BY <1>1, <1>4, <1>8, <1>t, RingPut
<1>15. Len(Append(items, item)) = Len(items) + 1 /\ n + 1 <= Len(items) + 1
  BY <1>4, <1>6, <1>t
<1>16. Unread(c)' = n + 1
  BY <1>5, <1>6, <1>13, <1>15, <1>t
<1>17. RingOf(c, Unread(c))'
  BY <1>9, <1>14, <1>16, Zenon
<1>18. Prefix(Written(c), Append(items, item))
  BY <1>13, <1>t, PrefixMore
<1>19. QueueInv(c)'
  BY <1>2, <1>3, <1>12, <1>13, <1>15, <1>16, <1>17, <1>18 DEF QueueInv
<1> QED
  BY <1>10, <1>11, <1>19 DEF HalfInv

LEMMA PrefixEqual ==
  ASSUME NEW S, NEW s \in Seq(S), NEW t \in Seq(S), Prefix(s, t), Len(s) >= Len(t)
  PROVE  s = t
<1>1. Len(s) = Len(t) /\ \A i \in 1 .. Len(s) : s[i] = t[i]
  BY DEF Prefix
<1> QED
  BY <1>1, SeqEqual

(* A queue whose flags are all down holds nothing that is unread.          *)
LEMMA EmptyQueue ==
  ASSUME TypeOK, NEW c \in Halves, HalfInv(c), Active(c), ~hasProcessed[c][nextRead[c]]
  PROVE  Unread(c) = 0 /\ Idle(c) /\ Written(c) = captured[c]
<1>t. /\ hasProcessed[c] \in [Slots -> BOOLEAN] /\ nextRead[c] \in Slots /\ nextWrite[c] \in Slots
      /\ captured[c] \in Seq(Items) /\ Len(captured[c]) \in Nat /\ Len(Written(c)) \in Nat
      /\ Written(c) \in Seq(Items)
  BY HalfTyped
<1>1. RingOf(c, Unread(c)) /\ Prefix(Written(c), captured[c])
  BY DEF HalfInv, QueueInv
<1>2. encoder[c] = "wait"
  BY DEF HalfInv, EncoderInv, Active
<1> DEFINE filled == hasProcessed[c]
           n == Unread(c)
<1>3. Ring(filled, contents[c], nextWrite[c], nextRead[c], captured[c], n)
  BY <1>1 DEF RingOf
<1>4. Unread(c) = Len(captured[c]) - Len(Written(c))
  BY <1>2, <1>t DEF Unread, Holding
<1> HIDE DEF n
<1>5. n = 0 /\ nextWrite[c] = nextRead[c] /\ \A i \in Slots : ~filled[i]
  BY <1>3, <1>t, RingEmpty
<1>6. Len(Written(c)) = Len(captured[c])
  BY <1>4, <1>5, <1>t DEF n
<1> QED
  BY <1>1, <1>2, <1>5, <1>6, <1>t, PrefixEqual DEF n, Idle

(* An idle half with nothing left to write is an empty queue.              *)
LEMMA IdleQueue ==
  ASSUME TypeOK, NEW c \in Halves, Idle(c), Written(c) = captured[c]
  PROVE  Unread(c) = 0 /\ RingOf(c, 0)
<1>t. /\ hasProcessed[c] \in [Slots -> BOOLEAN] /\ nextRead[c] \in Slots /\ nextWrite[c] \in Slots
      /\ Len(captured[c]) \in Nat
  BY HalfTyped
<1>1. Unread(c) = 0
  BY <1>t DEF Unread, Holding, Idle
<1>2. RingOf(c, 0)
  BY <1>t, RingEmpty DEF Idle, RingOf
<1> QED
  BY <1>1, <1>2

LEMMA HalfFlush ==
  ASSUME TypeOK, NEW c \in Halves, HalfInv(c), Flush
  PROVE  HalfInv(c)'
<1>1. /\ pc = "flush" /\ pc' = "delete" /\ \A i \in Slots : ~hasProcessed[c][i]
      /\ UNCHANGED <<queueVars, aviVars, encoder, callVars, history>>
  BY DEF Flush, At, Goto, Flushed
<1>2. Written(c)' = Written(c) /\ LastHalf(c)' = LastHalf(c)
  BY <1>1, WrittenSame DEF history
<1>3. /\ Active(c)' <=> Active(c)
      /\ Resting(c)' <=> Resting(c)
      /\ Drained(c)' => Active(c)
  BY <1>1 DEF Active, Resting, Drained, Mode, Stopping, Closing, callVars, aviVars
<1>4. nextRead[c] \in Slots
  BY HalfTyped
<1>5. Active(c) => Written(c) = captured[c]
  BY <1>1, <1>4, EmptyQueue
<1>6. Unread(c)' = Unread(c) /\ Uncounted(c)' = Uncounted(c) /\ (Idle(c)' <=> Idle(c))
  BY <1>1, <1>2 DEF Unread, Holding, Uncounted, Idle, queueVars, history
<1>7. RingOf(c, Unread(c))' <=> RingOf(c, Unread(c))
  BY <1>1, <1>6 DEF RingOf, queueVars, history
<1>8. EncoderInv(c)'
  BY <1>1 DEF HalfInv, EncoderInv, queueVars, aviVars
<1>9. QueueInv(c)'
  BY <1>1, <1>2, <1>3, <1>5, <1>6, <1>7 DEF HalfInv, QueueInv, history, aviVars
<1>10. CountInv(c)'
  BY <1>1, <1>2, <1>6 DEF HalfInv, CountInv, aviVars
<1> QED
  BY <1>8, <1>9, <1>10 DEF HalfInv

LEMMA HalfDelete ==
  ASSUME TypeOK, NEW c \in Halves, HalfInv(c), DeleteQueue
  PROVE  HalfInv(c)'
<1>1. /\ pc = "delete" /\ pc' = "join"
      /\ UNCHANGED <<contents, nextWrite, nextRead, aviVars, encoder, callVars, history>>
  BY DEF DeleteQueue, At, Goto
<1>2. Written(c)' = Written(c) /\ LastHalf(c)' = LastHalf(c)
  BY <1>1, WrittenSame DEF history
<1>3. ~Active(c)' /\ ~Resting(c)' /\ (Drained(c)' => Drained(c))
  BY <1>1 DEF Active, Resting, Drained, Mode, callVars, aviVars
<1>4. nextRead[c] \in Slots
  BY HalfTyped
<1>5. encoder[c] = "wait"
  BY <1>1, <1>4 DEF HalfInv, EncoderInv
<1>6. Uncounted(c)' = Uncounted(c)
  BY <1>1 DEF Uncounted
<1>8. EncoderInv(c)'
  BY <1>1, <1>5 DEF EncoderInv
<1>9. QueueInv(c)'
  BY <1>1, <1>2, <1>3 DEF HalfInv, QueueInv, history
<1>10. CountInv(c)'
  BY <1>1, <1>2, <1>6 DEF HalfInv, CountInv, aviVars
<1> QED
  BY <1>8, <1>9, <1>10 DEF HalfInv

LEMMA HalfClose ==
  ASSUME TypeOK, ControlInv, NEW c \in Halves, HalfInv(c), CloseAVI
  PROVE  HalfInv(c)'
<1>1. /\ pc = "join" /\ pc' = after
      /\ \A i \in Slots : ~hasProcessed'[c][i]
      /\ nextWrite'[c] = nextRead'[c] /\ encoder'[c] = "wait"
      /\ ~stream'[c] /\ count'[c] = 0
      /\ UNCHANGED <<callVars, history>>
  BY DEF CloseAVI, NewQueue, At, Goto
<1>a. avi'.mode = {} /\ avi'.open = FALSE
  BY CloseEffect DEF AviIs
<1>2. Written(c)' = Written(c)
  BY <1>1, WrittenSame DEF history
<1>3. after \in {"game", "split", "opened"} /\ (after # "game" => avi.mode = saved.mode)
  BY <1>1 DEF ControlInv, Closing
<1>4. ~Active(c)' /\ (Drained(c)' => Drained(c))
  BY <1>1, <1>3, <1>a DEF Active, Drained, Mode, callVars
<1>5. Idle(c)'
  BY <1>1 DEF Idle
<1>8. EncoderInv(c)'
  BY <1>1, <1>3 DEF EncoderInv
<1>9. QueueInv(c)'
  BY <1>1, <1>2, <1>4, <1>5 DEF HalfInv, QueueInv, history
<1>10. CountInv(c)'
  BY <1>1, <1>a DEF CountInv
<1> QED
  BY <1>8, <1>9, <1>10 DEF HalfInv

(* Between CloseAVI and the return of the flags the queue is new.          *)
LEMMA NewQueueInv ==
  ASSUME ControlInv, NEW c \in Halves, HalfInv(c), pc \in {"split", "opened"}
  PROVE  /\ Idle(c) /\ ~stream[c] /\ (c \in saved.mode => Written(c) = captured[c])
         /\ avi.mode = {} /\ ~avi.open
<1>1. avi.mode = {} /\ ~avi.open
  BY DEF ControlInv
<1>2. Resting(c) /\ ~Stopping
  BY <1>1 DEF Resting, Stopping, Closing
<1>3. ~stream[c]
  BY <1>1, <1>2 DEF ControlInv
<1>4. c \in saved.mode => Drained(c)
  BY DEF Drained, Mode
<1> QED
  BY <1>1, <1>2, <1>3, <1>4 DEF HalfInv, QueueInv

LEMMA HalfHandle ==
  ASSUME TypeOK, ControlInv, NEW c \in Halves, HalfInv(c), HandleAviSplitRequests
  PROVE  HalfInv(c)'
<1>1. /\ pc = "split" /\ pc' = "video"
      /\ UNCHANGED <<queueVars, stream, count, aviCS, encoder, callVars, history>>
  BY DEF HandleAviSplitRequests, At, Goto
<1>a. avi'.mode = saved.mode /\ avi'.open = avi.open
  BY HandleEffect DEF AviIs
<1>2. Written(c)' = Written(c) /\ LastHalf(c)' = LastHalf(c)
  BY <1>1, WrittenSame DEF history
<1>3. /\ Idle(c) /\ ~stream[c] /\ (c \in saved.mode => Written(c) = captured[c])
      /\ ~avi.open
  BY <1>1, NewQueueInv
<1>4. /\ Active(c)' <=> c \in saved.mode
      /\ ~Drained(c)'
  BY <1>1, <1>a DEF Active, Drained
<1>5. c \in saved.mode => Unread(c) = 0 /\ RingOf(c, 0)
  BY <1>3, IdleQueue
<1>6. Unread(c)' = Unread(c) /\ (Idle(c)' <=> Idle(c))
  BY <1>1, <1>2 DEF Unread, Holding, Idle, queueVars, history
<1>7. RingOf(c, 0) => RingOf(c, 0)'
  BY <1>1 DEF RingOf, queueVars, history
<1>8. EncoderInv(c)'
  BY <1>1, <1>3 DEF Idle, EncoderInv
<1>l. Len(captured[c]) \in Nat /\ captured'[c] = captured[c]
  BY <1>1, HalfTyped DEF history
<1>r. ASSUME Active(c)' PROVE RingOf(c, Unread(c))' /\ Unread(c)' = 0
  <2>1. Unread(c)' = 0 /\ RingOf(c, 0)'
    BY <1>4, <1>5, <1>6, <1>7, <1>r
  <2> QED
    BY <2>1 DEF RingOf
<1>9. QueueInv(c)'
  BY <1>1, <1>2, <1>3, <1>4, <1>6, <1>l, <1>r DEF HalfInv, QueueInv
<1>10. CountInv(c)'
  BY <1>1, <1>3, <1>a DEF HalfInv, CountInv
<1> QED
  BY <1>8, <1>9, <1>10 DEF HalfInv

LEMMA WrittenNew ==
  ASSUME TypeOK, NEW c \in Halves, NEW f \in FileType, f[c] = <<>>, files' = Append(files, f)
  PROVE  Written(c)' = Written(c) /\ LastHalf(c)' = <<>> /\ Last(files)' = f
<1> DEFINE fs == files
           gs == files'
<1>1. fs \in Seq(FileType) /\ gs = Append(fs, f)
  BY HistoryTyped
<1>w. /\ Written(c) = FlattenSeq(Parts(fs, c))
      /\ Written(c)' = FlattenSeq(Parts(gs, c)) /\ LastHalf(c)' = gs[Len(gs)][c]
      /\ Last(files)' = gs[Len(gs)]
  BY DEF Written, Parts, LastHalf, Last
<1> HIDE DEF fs, gs
<1>2. FlattenSeq(Parts(Append(fs, f), c)) = FlattenSeq(Parts(fs, c))
  BY <1>1, FlatNew
<1>3. gs[Len(gs)] = f
  BY <1>1
<1> QED
  BY <1>1, <1>2, <1>3, <1>w

LEMMA HalfOpened ==
  ASSUME TypeOK, ControlInv, SegmentOrder, NEW c \in Halves, HalfInv(c), OpenedAVIFile
  PROVE  HalfInv(c)'
<1>1. /\ pc = "opened" /\ pc' \in {"audioStream", "fill"}
      /\ UNCHANGED <<queueVars, count, aviCS, encoder, callVars, captured, frames, splits>>
  BY DEF OpenedAVIFile, At, Goto
<1>a. PICK f \in FileType : /\ avi'.mode = saved.mode /\ avi'.open = TRUE
                            /\ files' = Append(files, f) /\ f[c] = <<>>
  BY OpenedFile, Zenon DEF AviIs
<1>2. Written(c)' = Written(c) /\ LastHalf(c)' = <<>>
  BY <1>a, WrittenNew
<1>3. /\ Idle(c) /\ ~stream[c] /\ (c \in saved.mode => Written(c) = captured[c])
  BY <1>1, NewQueueInv
<1>s. stream'[c] => c = "video"
  BY <1>3, QueueTyped DEF OpenedAVIFile
<1>k. c = "video" => count[c] = 0
  BY <1>3 DEF HalfInv, CountInv
<1>4. /\ Active(c)' <=> c \in saved.mode
      /\ ~Drained(c)'
  BY <1>1, <1>a DEF Active, Drained
<1>5. c \in saved.mode => Unread(c) = 0 /\ RingOf(c, 0)
  BY <1>3, IdleQueue
<1>6. Unread(c)' = Unread(c) /\ (Idle(c)' <=> Idle(c)) /\ Uncounted(c)' = 0
  BY <1>1, <1>2, <1>3 DEF Unread, Holding, Uncounted, Idle, queueVars
<1>7. RingOf(c, 0) => RingOf(c, 0)'
  BY <1>1 DEF RingOf, queueVars
<1>8. EncoderInv(c)'
  BY <1>1, <1>3 DEF Idle, EncoderInv
<1>l. Len(captured[c]) \in Nat /\ captured'[c] = captured[c]
  BY <1>1, HalfTyped
<1>r. ASSUME Active(c)' PROVE RingOf(c, Unread(c))' /\ Unread(c)' = 0
  <2>1. Unread(c)' = 0 /\ RingOf(c, 0)'
    BY <1>4, <1>5, <1>6, <1>7, <1>r
  <2> QED
    BY <2>1 DEF RingOf
<1>9. QueueInv(c)'
  BY <1>1, <1>2, <1>3, <1>4, <1>6, <1>l, <1>r DEF HalfInv, QueueInv
<1>10. CountInv(c)'
  <2>1. c = "video" => count'[c] = 0
    BY <1>1, <1>k
  <2> QED
    BY <1>2, <1>6, <1>a, <1>s, <2>1 DEF CountInv
<1> QED
  BY <1>8, <1>9, <1>10 DEF HalfInv

(* The sound is no longer captured: its queue is empty.                    *)
LEMMA HalfCancelAudio ==
  ASSUME TypeOK, ControlInv, NEW c \in Halves, HalfInv(c), CancelAudioCodec
  PROVE  HalfInv(c)'
<1>1. /\ pc = "audioStream" /\ pc' = "game"
      /\ UNCHANGED <<queueVars, stream, count, encoder, callVars, history>>
  BY DEF CancelAudioCodec, At, Goto
<1>a. avi'.mode = avi.mode \ {"audio"} /\ avi'.open = avi.open
  BY CancelAudioEffect DEF AviIs
<1>2. Written(c)' = Written(c) /\ LastHalf(c)' = LastHalf(c)
  BY <1>1, WrittenSame DEF history
<1>3. "audio" \in avi.mode /\ ~stream["audio"]
  BY <1>1 DEF ControlInv
<1>4. CASE c = "audio"
  <2>1. Active(c) /\ ~Active(c)' /\ ~Drained(c)'
    BY <1>1, <1>3, <1>4, <1>a DEF Active, Drained
  <2>2. Unread(c) = 0 /\ RingOf(c, Unread(c))
    BY <1>3, <1>4, <2>1 DEF HalfInv, QueueInv
  <2>3. ~hasProcessed[c][nextRead[c]]
    <3>1. SUFFICES ASSUME hasProcessed[c][nextRead[c]] PROVE FALSE
      OBVIOUS
    <3>2. Ring(hasProcessed[c], contents[c], nextWrite[c], nextRead[c], captured[c], 0)
      BY <2>2 DEF RingOf
    <3>3. 0 \in 1 .. NumSlots
      BY <3>1, <3>2, HalfTyped, RingHead
    <3> QED
      BY <3>3
  <2>4. Idle(c)
    BY <2>1, <2>3, EmptyQueue
  <2>5. Idle(c)' /\ Uncounted(c)' = Uncounted(c)
    BY <1>1, <2>4 DEF Idle, Uncounted, queueVars
  <2>6. EncoderInv(c)'
    BY <1>1, <2>5 DEF EncoderInv, Idle
  <2>7. QueueInv(c)'
    BY <1>1, <1>2, <2>1, <2>5 DEF HalfInv, QueueInv, history
  <2>8. CountInv(c)'
    BY <1>1, <1>2, <1>a, <2>5 DEF HalfInv, CountInv
  <2> QED
    BY <2>6, <2>7, <2>8 DEF HalfInv
<1>5. CASE c # "audio"
  <2>1. /\ Active(c)' => Active(c)
        /\ Resting(c)' => Resting(c)
        /\ ~Drained(c)'
    BY <1>1, <1>5, <1>a DEF Active, Resting, Drained, Stopping, Closing
  <2>2. UNCHANGED HalfState(c)
    BY <1>1 DEF HalfState, queueVars, history
  <2>3. pc' # "join" /\ pc # "join" /\ pc' # "delete"
    BY <1>1
  <2> QED
    BY <1>2, <1>a, <2>1, <2>2, <2>3, HalfSame
<1> QED
  BY <1>4, <1>5

(* The stream for sound is opened, and its count set back.                 *)
LEMMA HalfAudioStream ==
  ASSUME TypeOK, ControlInv, NEW c \in Halves, HalfInv(c), OpenedAVIAudioStream
  PROVE  HalfInv(c)'
<1>1. /\ pc = "audioStream" /\ pc' = "write"
      /\ stream' = [stream EXCEPT !["audio"] = TRUE]
      /\ count' = [count EXCEPT !["audio"] = 0]
      /\ UNCHANGED <<queueVars, avi, encoder, callVars, history>>
  BY DEF OpenedAVIAudioStream, At, Goto
<1>2. Written(c)' = Written(c) /\ LastHalf(c)' = LastHalf(c)
  BY <1>1, WrittenSame DEF history
<1>3. "audio" \in avi.mode /\ ~stream["audio"] /\ avi.open
  BY <1>1 DEF ControlInv
<1>p. /\ Active(c)' <=> Active(c)
      /\ Resting(c)' <=> Resting(c)
      /\ ~Drained(c)'
  BY <1>1 DEF Active, Resting, Drained, Stopping, Closing, callVars
<1>4. CASE c = "audio"
  <2>1. stream'[c] /\ count'[c] = 0
    BY <1>1, <1>4, QueueTyped
  <2>2. LastHalf(c) = <<>> /\ encoder[c] # "count"
    BY <1>3, <1>4 DEF HalfInv, CountInv, EncoderInv
  <2>3. Unread(c)' = Unread(c) /\ Uncounted(c)' = 0 /\ (Idle(c)' <=> Idle(c))
    BY <1>1, <1>2, <2>2 DEF Unread, Holding, Uncounted, Idle, queueVars, history
  <2>4. RingOf(c, Unread(c))' <=> RingOf(c, Unread(c))
    BY <1>1, <2>3 DEF RingOf, queueVars, history
  <2>5. EncoderInv(c)'
    BY <1>1, <2>2 DEF HalfInv, EncoderInv, queueVars
  <2>6. QueueInv(c)'
    BY <1>1, <1>2, <1>p, <2>1, <2>3, <2>4 DEF HalfInv, QueueInv, history
  <2>7. CountInv(c)'
    BY <1>2, <2>1, <2>2, <2>3 DEF CountInv
  <2> QED
    BY <2>5, <2>6, <2>7 DEF HalfInv
<1>5. CASE c # "audio"
  <2>2. UNCHANGED HalfState(c)
    BY <1>1, <1>5, QueueTyped DEF HalfState, queueVars, history
  <2>3. pc' # "join" /\ pc # "join" /\ pc' # "delete" /\ avi' = avi
    BY <1>1
  <2> QED
    BY <1>2, <1>p, <2>2, <2>3, HalfSame
<1> QED
  BY <1>4, <1>5

(* A new capture, with the file that is still open or with none.           *)
LEMMA HalfStart ==
  ASSUME TypeOK, ControlInv, NEW c \in Halves, HalfInv(c), NEW mode \in SUBSET Halves,
         StartCapture(mode)
  PROVE  HalfInv(c)'
<1>1. /\ pc = "game" /\ avi.mode = {}
      /\ captured'[c] = <<>>
      /\ files' = IF avi.open THEN <<Last(files)>> ELSE <<>>
      /\ UNCHANGED <<queueVars, stream, count, aviCS, pc, encoder, callVars, frames, splits>>
  BY DEF StartCapture, At
<1>a. avi'.mode = mode /\ avi'.open = avi.open
  BY StartEffect DEF AviIs
<1>2. Resting(c) /\ ~stream[c] /\ Idle(c)
  <2>1. Resting(c) /\ ~Stopping
    BY <1>1 DEF Resting, Stopping, Closing
  <2>2. ~stream[c]
    BY <1>1, <2>1 DEF ControlInv
  <2> QED
    BY <2>1, <2>2 DEF HalfInv, QueueInv
<1>3. Written(c)' = <<>> /\ (avi.open => LastHalf(c)' = <<>>)
  <2> DEFINE gs == files'
             f == Last(files)
  <2>w. Written(c)' = FlattenSeq(Parts(gs, c)) /\ LastHalf(c)' = gs[Len(gs)][c]
    BY DEF Written, Parts, LastHalf, Last
  <2>e. Parts(<<>>, c) = <<>>
    BY DEF Parts
  <2>1. CASE ~avi.open
    <3>1. gs = <<>>
      BY <1>1, <2>1
    <3> HIDE DEF gs
    <3>2. FlattenSeq(Parts(gs, c)) = <<>>
      BY <2>e, <3>1, FlattenEmpty
    <3> QED
      BY <2>1, <2>w, <3>2
  <2>2. CASE avi.open
    <3>1. files # <<>> /\ files \in Seq(FileType)
      BY <2>2, HistoryTyped DEF ControlInv
    <3>2. f \in FileType
      BY <3>1 DEF Last
    <3>3. f[c] = <<>>
      BY <1>2, <2>2 DEF HalfInv, CountInv, LastHalf
    <3>4. gs = Append(<<>>, f) /\ gs[Len(gs)] = f
      BY <1>1, <2>2
    <3> HIDE DEF gs, f
    <3>5. <<>> \in Seq(FileType)
      OBVIOUS
    <3>6. FlattenSeq(Parts(Append(<<>>, f), c)) = FlattenSeq(Parts(<<>>, c))
      BY <3>2, <3>3, <3>5, FlatNew
    <3>7. FlattenSeq(Parts(gs, c)) = <<>>
      BY <2>e, <3>4, <3>6, FlattenEmpty
    <3> QED
      BY <2>w, <3>3, <3>4, <3>7
  <2> QED
    BY <2>1, <2>2
<1>4. ~Drained(c)' /\ (Active(c)' => c \in mode)
  BY <1>1, <1>a DEF Active, Drained
<1>5. Idle(c)' /\ Uncounted(c)' = Uncounted(c)
  BY <1>1, <1>2 DEF Idle, Uncounted, queueVars
<1>6. Unread(c)' = 0 /\ Len(captured[c]') = 0
  <2>1. Len(captured[c]') = 0 /\ Len(Written(c)') = 0
    BY <1>1, <1>3
  <2>2. Holding(c)' = 0
    BY <1>5 DEF Idle, Holding
  <2> QED
    BY <2>1, <2>2 DEF Unread
<1>7. RingOf(c, Unread(c))'
  <2>1. /\ hasProcessed[c] \in [Slots -> BOOLEAN] /\ nextRead[c] \in Slots /\ nextWrite[c] \in Slots
    BY HalfTyped
  <2> DEFINE items == captured'[c]
  <2>2. Ring(hasProcessed[c], contents[c], nextWrite[c], nextRead[c], items, 0)
    <3> HIDE DEF items
    <3> QED
      BY <1>2, <2>1, RingEmpty DEF Idle
  <2> QED
    BY <1>1, <1>6, <2>2 DEF RingOf, queueVars
<1>8. EncoderInv(c)'
  BY <1>1, <1>5 DEF Idle, EncoderInv
<1>9. QueueInv(c)'
  <2>1. Prefix(Written(c), captured[c])'
    BY <1>1, <1>3 DEF Prefix
  <2> QED
    BY <1>4, <1>5, <1>6, <1>7, <2>1 DEF QueueInv
<1>10. CountInv(c)'
  BY <1>1, <1>2, <1>3, <1>a DEF HalfInv, CountInv
<1> QED
  BY <1>8, <1>9, <1>10 DEF HalfInv

(* What an encoder does to the other half.                                 *)
LEMMA OtherEncoder ==
  ASSUME TypeOK, ControlInv, NEW c \in Halves, NEW d \in Halves, c # d, HalfInv(c),
         WaitUntilTrue(d) \/ OutputFrame(d) \/ CountFrame(d) \/ NextFrame(d)
  PROVE  HalfInv(c)'
<1>1. UNCHANGED HalfState(c)
  BY QueueTyped DEF HalfState, WaitUntilTrue, OutputFrame, CountFrame, NextFrame, EncoderGoto,
     queueVars, aviVars, history
<1>2. avi'.mode = avi.mode /\ avi'.open = avi.open
  <2>1. CASE CountFrame(d)
    BY <2>1, CountFrameEffect DEF AviIs
  <2>2. CASE WaitUntilTrue(d) \/ OutputFrame(d) \/ NextFrame(d)
    BY <2>2 DEF WaitUntilTrue, OutputFrame, NextFrame, aviVars
  <2> QED
    BY <2>1, <2>2
<1>3. UNCHANGED <<pc, after, saved>>
  BY DEF WaitUntilTrue, OutputFrame, CountFrame, NextFrame, callVars
<1>4. /\ Active(c)' <=> Active(c)
      /\ Resting(c)' <=> Resting(c)
      /\ Drained(c)' <=> Drained(c)
  BY <1>2, <1>3, PhaseSame
<1>5. Written(c)' = Written(c) /\ LastHalf(c)' = LastHalf(c)
  <2>1. CASE files' = files
    BY <2>1, WrittenSame
  <2>2. CASE files' # files
    <3>1. OutputFrame(d)
      BY <2>2 DEF WaitUntilTrue, CountFrame, NextFrame, history
    <3> DEFINE item == contents[d][nextRead[d]]
    <3>2. files # <<>> /\ files' = [files EXCEPT ![Len(files)][d] = Append(@, item)]
      BY <2>2, <3>1, OutputEffect, Zenon
    <3>3. item \in Items
      BY QueueTyped
    <3> HIDE DEF item
    <3> QED
      BY <3>2, <3>3, WrittenMore
  <2> QED
    BY <2>1, <2>2
<1> QED
  BY <1>1, <1>2, <1>3, <1>4, <1>5, HalfSame

LEMMA HalfStep ==
  ASSUME TypeOK, ControlInv, SegmentOrder, NEW c \in Halves, HalfInv(c), [Next]_vars
  PROVE  HalfInv(c)'
<1> USE DEF queueVars, aviVars, callVars, history
<1>1. CASE Turn
  <2>1. /\ UNCHANGED <<queueVars, stream, count, avi, encoder, saved, after, captured, files>>
        /\ pc \in Plain /\ pc' \in Plain
    BY <1>1, TurnEffect
  <2>2. Written(c)' = Written(c) /\ LastHalf(c)' = LastHalf(c)
    BY <2>1, WrittenSame
  <2>3. /\ Active(c)' => Active(c)
        /\ Resting(c)' => Resting(c)
        /\ Drained(c)' => Drained(c)
    BY <2>1 DEF Active, Resting, Drained, Mode, Stopping, Closing, Plain
  <2>4. UNCHANGED HalfState(c)
    BY <2>1 DEF HalfState
  <2>5. pc # "join" /\ pc' # "join" /\ pc' # "delete"
    BY <2>1 DEF Plain
  <2> QED
    BY <2>1, <2>2, <2>3, <2>4, <2>5, HalfSame
<1>2. CASE Calls
  <2>1. /\ UNCHANGED <<queueVars, stream, count, encoder, captured, files, splits>>
        /\ avi'.mode = avi.mode /\ avi'.open = avi.open
        /\ pc' = "flush" /\ after' \in {"split", "opened"}
        /\ pc \in {"game", "video", "audio"}
    BY <1>2, CallsEffect
  <2>2. Written(c)' = Written(c) /\ LastHalf(c)' = LastHalf(c)
    BY <2>1, WrittenSame
  <2>3. /\ Active(c)' => Active(c)
        /\ Resting(c)' => Resting(c)
        /\ Drained(c)' => Drained(c)
    BY <2>1 DEF Active, Resting, Drained, Mode, Stopping, Closing
  <2>4. UNCHANGED HalfState(c)
    BY <2>1 DEF HalfState
  <2> QED
    BY <2>1, <2>2, <2>3, <2>4, HalfSame
<1>3. CASE Fills
  <2>1. PICK d \in Halves, item \in Items :
           /\ Fill(d, item) /\ d \in avi.mode /\ stream[d]
           /\ pc \in Plain /\ pc' \in Plain
    BY <1>3, FillsEffect, Zenon
  <2>2. CASE c = d
    BY <2>1, <2>2, HalfFill
  <2>3. CASE c # d
    <3>1. UNCHANGED <<nextRead, threadDone, aviVars, encoder, callVars, files, frames, splits>>
      BY <2>1 DEF Fill
    <3>2. Written(c)' = Written(c) /\ LastHalf(c)' = LastHalf(c)
      BY <3>1, WrittenSame
    <3>3. /\ Active(c)' => Active(c)
          /\ Resting(c)' => Resting(c)
          /\ Drained(c)' => Drained(c)
      BY <2>1, <3>1 DEF Active, Resting, Drained, Mode, Stopping, Closing, Plain
    <3>4. UNCHANGED HalfState(c)
      BY <2>1, <2>3, QueueTyped, HistoryTyped DEF HalfState, Fill
    <3>5. pc # "join" /\ pc' # "join" /\ pc' # "delete" /\ avi' = avi
      BY <2>1, <3>1 DEF Plain
    <3> QED
      BY <3>1, <3>2, <3>3, <3>4, <3>5, HalfSame
  <2> QED
    BY <2>2, <2>3
<1>4. CASE StopCapture
  <2>1. /\ avi'.mode = {} /\ avi'.open = avi.open /\ pc' = "flush" /\ after' = "game"
    BY <1>4, StopEffect DEF AviIs
  <2>2. UNCHANGED <<queueVars, stream, count, aviCS, encoder, frame, saved, history>>
        /\ pc = "game"
    BY <1>4 DEF StopCapture, At
  <2>3. Written(c)' = Written(c) /\ LastHalf(c)' = LastHalf(c)
    BY <2>2, WrittenSame
  <2>4. ~Active(c)' /\ ~Resting(c)' /\ ~Drained(c)'
    BY <2>1 DEF Active, Resting, Drained, Mode, Stopping, Closing
  <2>5. UNCHANGED HalfState(c)
    BY <2>2 DEF HalfState
  <2> QED
    BY <2>1, <2>2, <2>3, <2>4, <2>5, HalfSame
<1>5. CASE SplitAVINow
  <2>1. avi'.mode = avi.mode /\ avi'.open = avi.open
    BY <1>5, SplitNowEffect DEF AviIs
  <2>2. UNCHANGED <<queueVars, stream, count, aviCS, pc, encoder, callVars, captured, files, frames>>
    BY <1>5 DEF SplitAVINow
  <2>3. Written(c)' = Written(c) /\ LastHalf(c)' = LastHalf(c)
    BY <2>2, WrittenSame
  <2>4. /\ Active(c)' <=> Active(c)
        /\ Resting(c)' <=> Resting(c)
        /\ Drained(c)' <=> Drained(c)
    BY <2>1, <2>2, PhaseSame
  <2>5. UNCHANGED HalfState(c)
    BY <2>2 DEF HalfState
  <2> QED
    BY <2>1, <2>2, <2>3, <2>4, <2>5, HalfSame
<1>6. ASSUME NEW d \in Halves, WaitUntilTrue(d) \/ OutputFrame(d) \/ CountFrame(d) \/ NextFrame(d)
      PROVE  HalfInv(c)'
  BY <1>6, OtherEncoder, HalfWait, HalfOutput, HalfCount, HalfNext
<1>7. CASE Flush
  BY <1>7, HalfFlush
<1>8. CASE DeleteQueue
  BY <1>8, HalfDelete
<1>9. CASE CloseAVI
  BY <1>9, HalfClose
<1>10. CASE HandleAviSplitRequests
  BY <1>10, HalfHandle
<1>11. CASE OpenedAVIFile
  BY <1>11, HalfOpened
<1>12. CASE CancelVideoCodec
  <2>1. avi'.mode = avi.mode /\ avi'.open = avi.open
    BY <1>12, CancelVideoEffect DEF AviIs
  <2>2. UNCHANGED <<queueVars, stream, count, encoder, callVars, history>>
        /\ pc = "opened" /\ pc' = "game"
    BY <1>12 DEF CancelVideoCodec, At, Goto
  <2>3. Written(c)' = Written(c) /\ LastHalf(c)' = LastHalf(c)
    BY <2>2, WrittenSame
  <2>4. /\ Active(c)' => Active(c)
        /\ Resting(c)' => Resting(c)
        /\ ~Drained(c)'
    BY <2>1, <2>2 DEF Active, Resting, Drained, Stopping, Closing
  <2>5. UNCHANGED HalfState(c)
    BY <2>2 DEF HalfState
  <2>6. pc # "join" /\ pc' # "join" /\ pc' # "delete"
    BY <2>2
  <2> QED
    BY <2>1, <2>3, <2>4, <2>5, <2>6, HalfSame
<1>13. CASE CancelAudioCodec
  BY <1>13, HalfCancelAudio
<1>14. CASE OpenedAVIAudioStream
  BY <1>14, HalfAudioStream
<1>15. ASSUME NEW mode \in SUBSET Halves \ {{}}, StartCapture(mode) PROVE HalfInv(c)'
  BY <1>15, HalfStart
<1>16. CASE UNCHANGED vars
  <2>1. Written(c)' = Written(c) /\ LastHalf(c)' = LastHalf(c)
    BY <1>16, WrittenSame DEF vars
  <2>2. /\ Active(c)' <=> Active(c)
        /\ Resting(c)' <=> Resting(c)
        /\ Drained(c)' <=> Drained(c)
    BY <1>16, PhaseSame DEF vars
  <2>3. UNCHANGED HalfState(c) /\ avi' = avi /\ pc' = pc
    BY <1>16 DEF HalfState, vars
  <2> QED
    BY <2>1, <2>2, <2>3, HalfSame
<1> QED
  BY <1>1, <1>2, <1>3, <1>4, <1>5, <1>6, <1>7, <1>8, <1>9, <1>10, <1>11, <1>12, <1>13, <1>14,
     <1>15, <1>16, NextCases

(* The invariant, and that the files hold what was captured, in its order. *)
DumperInv == /\ TypeOK /\ ControlInv /\ SegmentOrder
             /\ \A c \in Halves : HalfInv(c)

LEMMA DumperInit == Init => DumperInv
<1> SUFFICES ASSUME Init PROVE DumperInv
  OBVIOUS
<1>c. 0 \in Slots /\ Nothing \in Items /\ MaxFrames \in Nat
  BY AviAssumption DEF Slots, Nothing, Items
<1>1. TypeOK
  <2>1. avi \in AviType
    BY DEF Init, AviType, NoSize
  <2>2. /\ frame \in FrameType /\ saved \in SavedType
        /\ files \in Seq(FileType) /\ captured \in [Halves -> Seq(Items)]
    BY DEF Init, FrameType, SavedType
  <2>3. /\ hasProcessed \in [Halves -> [Slots -> BOOLEAN]]
        /\ contents \in [Halves -> [Slots -> Items]]
        /\ nextWrite \in [Halves -> Slots] /\ nextRead \in [Halves -> Slots]
        /\ threadDone \in BOOLEAN /\ aviCS = FALSE
        /\ stream \in [Halves -> BOOLEAN] /\ count \in [Halves -> Nat]
        /\ encoder \in [Halves -> {"wait", "output", "count", "clear", "exited"}]
        /\ \A c \in Halves : ~stream[c]
    BY <1>c DEF Init
  <2> QED
    BY <2>1, <2>2, <2>3 DEF TypeOK, FrameType, SavedType
<1>2. ControlInv /\ SegmentOrder
  BY <1>c DEF Init, ControlInv, SegmentOrder, Plain, Closing, Stopping, Opening, Splitting, Mode
<1>3. ASSUME NEW c \in Halves PROVE HalfInv(c)
  <2>1. Written(c) = <<>>
    <3>1. Parts(files, c) = <<>>
      BY DEF Init, Parts
    <3> QED
      BY <3>1, FlattenEmpty, WrittenIsFlat
  <2>2. captured[c] = <<>> /\ ~Active(c) /\ ~Drained(c) /\ Idle(c)
    BY DEF Init, Active, Drained, Idle
  <2>3. EncoderInv(c) /\ CountInv(c)
    BY DEF Init, EncoderInv, CountInv
  <2>4. QueueInv(c)
    BY <2>1, <2>2 DEF QueueInv, Prefix
  <2> QED
    BY <2>3, <2>4 DEF HalfInv
<1> QED
  BY <1>1, <1>2, <1>3 DEF DumperInv

LEMMA DumperStep == DumperInv /\ [Next]_vars => DumperInv'
<1> SUFFICES ASSUME DumperInv, [Next]_vars PROVE DumperInv'
  OBVIOUS
<1>1. TypeOK /\ ControlInv /\ SegmentOrder /\ \A c \in Halves : HalfInv(c)
  BY DEF DumperInv
<1>2. TypeOK' /\ ControlInv' /\ SegmentOrder'
  BY <1>1, TypeStep, ControlStep, SegmentOrderStep
<1>3. \A c \in Halves : HalfInv(c)'
  BY <1>1, HalfStep
<1> QED
  BY <1>2, <1>3 DEF DumperInv

(* The files hold the pictures and the sounds in the order in which they   *)
(* were captured, each once, across every split and change of size         *)
(* (AVIDumper.cpp): for every number of slots and every limit.             *)
THEOREM CapturedInOrderCorrect == Spec => []CapturedInOrder
<1>1. Init => DumperInv
  BY DumperInit
<1>2. DumperInv /\ [Next]_vars => DumperInv'
  BY DumperStep
<1>3. DumperInv => CapturedInOrder
  <2> SUFFICES ASSUME DumperInv, NEW c \in Halves PROVE IsPrefix(Written(c), captured[c])
    BY DEF CapturedInOrder
  <2>1. TypeOK /\ Prefix(Written(c), captured[c])
    BY DEF DumperInv, HalfInv, QueueInv
  <2>2. Written(c) \in Seq(Items) /\ captured[c] \in Seq(Items)
    BY <2>1, HalfTyped
  <2> QED
    BY <2>1, <2>2, PrefixIs
<1> QED
  BY <1>1, <1>2, <1>3, PTL DEF Spec

-----------------------------------------------------------------------------
(* The files: one size of picture in each, segments in their order, and the*)
(* same segment again only after one that was almost empty.                *)
Sized(f)    == \A i \in 1 .. Len(f.video) : f.video[i].size \in {f.size, "unset"}
Discarded(f) == /\ Len(f.video) < BasicallyEmptyVideo + NumSlots
                /\ Len(f.audio) < BasicallyEmptyAudio + NumSlots
FilesInv(fs) ==
  /\ \A i \in 1 .. Len(fs) : Sized(fs[i])
  /\ \A i, j \in 1 .. Len(fs) : i < j =>
       /\ fs[i].segment <= fs[j].segment
       /\ fs[i].segment = fs[j].segment => Discarded(fs[i])

LEMMA FileFields ==
  ASSUME NEW f \in FileType
  PROVE  f.segment \in Nat /\ f["video"] = f.video /\ f["audio"] = f.audio
         /\ f.video \in Seq(Items) /\ f.audio \in Seq(Items)
  BY DEF FileType

LEMMA FilesInvNew ==
  ASSUME NEW fs \in Seq(FileType), FilesInv(fs), NEW f \in FileType, f["video"] = <<>>,
         fs # <<>> => /\ fs[Len(fs)].segment <= f.segment
                      /\ fs[Len(fs)].segment = f.segment => Discarded(fs[Len(fs)])
  PROVE  FilesInv(Append(fs, f))
<1> DEFINE gs == Append(fs, f)
           n == Len(fs)
<1>1. n \in Nat /\ Len(gs) = n + 1 /\ gs[n + 1] = f /\ \A i \in 1 .. n : gs[i] = fs[i]
  BY AppendProperties
<1>2. \A i \in 1 .. n : fs[i] \in FileType /\ fs[i].segment \in Nat
  BY FileFields
<1>3. f.segment \in Nat /\ f.video = <<>>
  BY FileFields
<1>l. n # 0 => fs[n].segment <= f.segment /\ (fs[n].segment = f.segment => Discarded(fs[n]))
  OBVIOUS
<1>o. /\ \A i \in 1 .. n : Sized(fs[i])
      /\ \A i, j \in 1 .. n : i < j =>
           /\ fs[i].segment <= fs[j].segment
           /\ fs[i].segment = fs[j].segment => Discarded(fs[i])
  BY DEF FilesInv
<1> HIDE DEF gs, n
<1>4. ASSUME NEW i \in 1 .. n + 1 PROVE Sized(gs[i])
  <2>1. Sized(f)
    BY <1>3 DEF Sized
  <2>2. i = n + 1 \/ i \in 1 .. n
    BY <1>1
  <2> QED
    BY <1>1, <1>o, <2>1, <2>2
<1>5. ASSUME NEW i \in 1 .. n + 1, NEW j \in 1 .. n + 1, i < j
      PROVE  /\ gs[i].segment <= gs[j].segment
             /\ gs[i].segment = gs[j].segment => Discarded(gs[i])
  <2>1. i \in 1 .. n /\ gs[i] = fs[i]
    BY <1>1, <1>5
  <2>2. CASE j \in 1 .. n
    BY <1>1, <1>5, <1>o, <2>1, <2>2
  <2>3. CASE j = n + 1
    <3>1. gs[j] = f
      BY <1>1, <2>3
    <3>2. n \in 1 .. n
      BY <1>1, <2>1
    <3>3. CASE i = n
      BY <1>l, <2>1, <3>1, <3>3, <3>2
    <3>4. CASE i # n
      <4>1. i < n
        BY <1>1, <2>1, <3>4
      <4>2. /\ fs[i].segment <= fs[n].segment
            /\ fs[i].segment = fs[n].segment => Discarded(fs[i])
        BY <1>o, <2>1, <3>2, <4>1
      <4>3. fs[i].segment \in Nat /\ fs[n].segment \in Nat /\ fs[n].segment <= f.segment
        BY <1>2, <1>l, <2>1, <3>2
      <4>4. fs[i].segment <= f.segment
            /\ (fs[i].segment = f.segment => fs[i].segment = fs[n].segment)
        BY <1>3, <4>2, <4>3
      <4> QED
        BY <2>1, <3>1, <4>2, <4>4
    <3> QED
      BY <3>3, <3>4
  <2> QED
    BY <1>1, <2>2, <2>3
<1> QED
  BY <1>1, <1>4, <1>5 DEF FilesInv, gs

LEMMA FilesInvGrown ==
  ASSUME NEW fs \in Seq(FileType), FilesInv(fs), fs # <<>>, NEW c \in Halves, NEW item \in Items,
         NEW gs, Grown(fs, gs, c, item),
         c = "video" => item.size \in {fs[Len(fs)].size, "unset"}
  PROVE  FilesInv(gs)
<1> DEFINE n == Len(fs)
<1>1. /\ gs \in Seq(FileType) /\ Len(gs) = n
      /\ \A i \in 1 .. n : i # n => gs[i] = fs[i]
  BY FilesMore
<1>2. /\ gs[n].segment = fs[n].segment /\ gs[n].size = fs[n].size
      /\ gs[n][c] = Append(fs[n][c], item)
      /\ \A d \in Halves : d # c => gs[n][d] = fs[n][d]
  BY FilesMore
<1>3. n \in 1 .. n
  OBVIOUS
<1>o. /\ \A i \in 1 .. n : Sized(fs[i])
      /\ \A i, j \in 1 .. n : i < j =>
           /\ fs[i].segment <= fs[j].segment
           /\ fs[i].segment = fs[j].segment => Discarded(fs[i])
  BY DEF FilesInv
<1>i. c = "video" => item.size \in {fs[n].size, "unset"}
  OBVIOUS
<1>t. fs[n] \in FileType /\ gs[n] \in FileType
  BY <1>1, <1>3
<1> HIDE DEF n
<1>4. \A i \in 1 .. n : gs[i].segment = fs[i].segment
  BY <1>1, <1>2
<1>5. Sized(gs[n])
  <2>f. /\ fs[n].video \in Seq(Items) /\ fs[n]["video"] = fs[n].video /\ gs[n]["video"] = gs[n].video
    BY <1>t, FileFields
  <2>1. CASE c = "video"
    <3> DEFINE old == fs[n].video
               new == Append(old, item)
    <3>1. gs[n].video = new
      BY <1>2, <2>1, <2>f
    <3>2. Len(new) = Len(old) + 1 /\ new[Len(old) + 1] = item /\ Len(old) \in Nat
          /\ \A i \in 1 .. Len(old) : new[i] = old[i]
      BY <2>f, AppendProperties
    <3>3. \A i \in 1 .. Len(old) : old[i].size \in {fs[n].size, "unset"}
      BY <1>3, <1>o DEF Sized
    <3> HIDE DEF new, old
    <3>4. ASSUME NEW i \in 1 .. Len(new) PROVE new[i].size \in {fs[n].size, "unset"}
      <4>1. i = Len(old) + 1 \/ i \in 1 .. Len(old)
        BY <3>2
      <4> QED
        BY <1>i, <2>1, <3>2, <3>3, <4>1
    <3> QED
      BY <1>2, <3>1, <3>4 DEF Sized
  <2>2. CASE c # "video"
    <3>1. gs[n].video = fs[n].video
      BY <1>2, <2>2, <2>f DEF Halves
    <3> QED
      BY <1>2, <1>3, <1>o, <3>1 DEF Sized
  <2> QED
    BY <2>1, <2>2
<1>6. \A i \in 1 .. n : Sized(gs[i])
  BY <1>1, <1>5, <1>o
<1>7. ASSUME NEW i \in 1 .. n, NEW j \in 1 .. n, i < j
      PROVE  /\ gs[i].segment <= gs[j].segment
             /\ gs[i].segment = gs[j].segment => Discarded(gs[i])
  <2>1. i # n /\ gs[i] = fs[i]
    BY <1>1, <1>3, <1>7
  <2> QED
    BY <1>4, <1>7, <1>o, <2>1
<1> QED
  BY <1>1, <1>6, <1>7 DEF FilesInv

LEMMA FilesInvFew ==
  ASSUME NEW fs \in Seq(FileType), FilesInv(fs)
  PROVE  FilesInv(<<>>) /\ (fs # <<>> => FilesInv(<<Last(fs)>>))
<1>1. FilesInv(<<>>)
  BY DEF FilesInv
<1>2. ASSUME fs # <<>> PROVE FilesInv(<<Last(fs)>>)
  <2> DEFINE f == Last(fs)
  <2>1. Sized(f)
    BY <1>2 DEF FilesInv, Last
  <2> HIDE DEF f
  <2>2. Len(<<f>>) = 1 /\ <<f>>[1] = f
    OBVIOUS
  <2>3. FilesInv(<<f>>)
    BY <2>1, <2>2 DEF FilesInv
  <2> QED
    BY <2>3 DEF f
<1> QED
  BY <1>1, <1>2

(* What the state has to say of it.                                        *)
FilesAreSound(fs) ==
  /\ \A f \in ToSet(fs) : \A item \in ToSet(f.video) : item.size \in {f.size, Nothing.size}
  /\ \A i, j \in DOMAIN fs :
       i < j /\ fs[i].segment = fs[j].segment =>
         /\ Len(fs[i].video) < BasicallyEmptyVideo + NumSlots
         /\ Len(fs[i].audio) < BasicallyEmptyAudio + NumSlots
LEMMA FilesInvSound ==
  ASSUME NEW fs \in Seq(FileType), FilesInv(fs)
  PROVE  FilesAreSound(fs)
<1>1. DOMAIN fs = 1 .. Len(fs) /\ \A i \in 1 .. Len(fs) : fs[i] \in FileType
  OBVIOUS
<1>2. ASSUME NEW f \in ToSet(fs), NEW item \in ToSet(f.video)
      PROVE  item.size \in {f.size, Nothing.size}
  <2>1. PICK i \in 1 .. Len(fs) : f = fs[i]
    BY <1>1, <1>2 DEF ToSet
  <2>2. f.video \in Seq(Items)
    BY <1>1, <2>1, FileFields
  <2>3. PICK k \in 1 .. Len(f.video) : item = f.video[k]
    BY <1>2, <2>2 DEF ToSet
  <2>4. Sized(f)
    BY <2>1 DEF FilesInv
  <2> QED
    BY <2>3, <2>4 DEF Sized, Nothing
<1>3. ASSUME NEW i \in DOMAIN fs, NEW j \in DOMAIN fs, i < j, fs[i].segment = fs[j].segment
      PROVE  /\ Len(fs[i].video) < BasicallyEmptyVideo + NumSlots
             /\ Len(fs[i].audio) < BasicallyEmptyAudio + NumSlots
  BY <1>1, <1>3 DEF FilesInv, Discarded
<1> QED
  BY <1>2, <1>3 DEF FilesAreSound

(* The pictures in the slots are of the size of the file, and the segment  *)
(* and the flag are those that the next file is opened with.               *)
SizeInv ==
  /\ stream["video"] => Last(files).size = avi.size
  /\ \A i \in Slots : contents["video"][i].size \in
        (IF stream["video"] THEN {avi.size, "unset"} ELSE {"unset"})

Limit(c) == IF c = "video" THEN BasicallyEmptyVideo ELSE BasicallyEmptyAudio
Total(c) == Len(LastHalf(c)) + (IF c \in avi.mode THEN Len(captured[c]) - Len(Written(c)) ELSE 0)
AlmostEmpty == \A c \in Halves : Total(c) < Limit(c) + NumSlots

SegmentInv ==
  /\ avi.open /\ ~Closing => /\ Last(files).segment = (avi.splitCount + 1) - avi.discardCount
                             /\ ~avi.oldIsBasicallyEmpty
  /\ files # <<>> /\ Mode # {} =>
       /\ ~avi.open /\ pc \in Plain => Last(files).segment <= avi.splitCount - avi.discardCount
       /\ Opening => Last(files).segment <= saved.splitCount - saved.discardCount
       /\ Splitting => Last(files).segment <= (saved.splitCount + 1) - saved.discardCount
       /\ avi.oldIsBasicallyEmpty => AlmostEmpty

LEMMA FilesChange ==
  ASSUME TypeOK, ControlInv, [Next]_vars
  PROVE  \/ files' = files
         \/ \E c \in Halves : OutputFrame(c)
         \/ OpenedAVIFile
         \/ \E mode \in SUBSET Halves \ {{}} : StartCapture(mode)
<1> USE DEF history
<1>1. CASE Turn
  BY <1>1, TurnEffect
<1>2. CASE Calls
  BY <1>2, CallsEffect
<1>3. CASE Fills
  BY <1>3, FillsEffect DEF Fill
<1>4. CASE \/ StopCapture \/ SplitAVINow \/ Flush \/ DeleteQueue \/ CloseAVI
           \/ HandleAviSplitRequests \/ CancelVideoCodec \/ CancelAudioCodec
           \/ OpenedAVIAudioStream
  BY <1>4 DEF StopCapture, SplitAVINow, Flush, DeleteQueue, CloseAVI, HandleAviSplitRequests,
     CancelVideoCodec, CancelAudioCodec, OpenedAVIAudioStream
<1>5. ASSUME NEW c \in Halves, WaitUntilTrue(c) \/ CountFrame(c) \/ NextFrame(c)
      PROVE  files' = files
  BY <1>5 DEF WaitUntilTrue, CountFrame, NextFrame
<1>6. CASE UNCHANGED vars
  BY <1>6 DEF vars
<1> QED
  BY <1>1, <1>2, <1>3, <1>4, <1>5, <1>6, NextCases

(* Where an item is added to the last file.                                *)
LEMMA OutputGrows ==
  ASSUME TypeOK, ControlInv, NEW c \in Halves, OutputFrame(c), files' # files
  PROVE  \E item \in Items :
           /\ item = contents[c][nextRead[c]] /\ Grown(files, files', c, item)
           /\ files # <<>> /\ c \in avi.mode /\ stream[c] /\ avi.open
<1> DEFINE item == contents[c][nextRead[c]]
<1>1. /\ c \in avi.mode /\ stream[c] /\ files # <<>> /\ avi.open
      /\ files' = [files EXCEPT ![Len(files)][c] = Append(@, contents[c][nextRead[c]])]
  BY OutputEffect, Zenon
<1>2. item \in Items
  BY QueueTyped
<1>3. Grown(files, files', c, item)
  BY <1>1 DEF Grown
<1> QED
  BY <1>1, <1>2, <1>3

LEMMA SegmentNumber ==
  ASSUME TypeOK, files # <<>>
  PROVE  Last(files) \in FileType /\ Last(files).segment \in Nat
         /\ Last(files) = files[Len(files)]
<1>1. files \in Seq(FileType)
  BY HistoryTyped
<1>2. Last(files) \in FileType /\ Last(files) = files[Len(files)]
  BY <1>1 DEF Last
<1> QED
  BY <1>2, FileFields

LEMMA FilesInvStep ==
  ASSUME DumperInv, SizeInv, SegmentInv, FilesInv(files), [Next]_vars
  PROVE  FilesInv(files')
<1>0. TypeOK /\ ControlInv /\ SegmentOrder /\ files \in Seq(FileType)
  BY HistoryTyped DEF DumperInv
<1>1. ASSUME NEW c \in Halves, OutputFrame(c), files' # files PROVE FilesInv(files')
  <2>1. PICK item \in Items :
           /\ item = contents[c][nextRead[c]] /\ Grown(files, files', c, item)
           /\ files # <<>> /\ stream[c]
    BY <1>0, <1>1, OutputGrows, Zenon
  <2>2. c = "video" => item.size \in {files[Len(files)].size, "unset"}
    <3>1. nextRead[c] \in Slots
      BY <1>0, QueueTyped
    <3>2. Last(files) = files[Len(files)]
      BY DEF Last
    <3> QED
      BY <2>1, <3>1, <3>2 DEF SizeInv
  <2> DEFINE gs == files'
  <2>3. Grown(files, gs, c, item)
    BY <2>1
  <2> HIDE DEF gs
  <2>4. FilesInv(gs)
    BY <1>0, <2>1, <2>2, <2>3, FilesInvGrown
  <2> QED
    BY <2>4 DEF gs
<1>2. CASE OpenedAVIFile
  <2>1. PICK discard \in Nat, f \in FileType :
         /\ \/ discard = saved.discardCount
            \/ discard = saved.discardCount + 1 /\ avi.oldIsBasicallyEmpty
         /\ f.segment = (saved.splitCount + 1) - discard
         /\ \A c \in Halves : f[c] = <<>>
         /\ files' = Append(files, f)
    BY <1>0, <1>2, OpenedFile, Zenon
  <2>2. f["video"] = <<>>
    BY <2>1 DEF Halves
  <2>3. ASSUME files # <<>>
        PROVE  /\ files[Len(files)].segment <= f.segment
               /\ files[Len(files)].segment = f.segment => Discarded(files[Len(files)])
    <3> DEFINE l == Last(files)
    <3>1. l = files[Len(files)] /\ l \in FileType /\ l.segment \in Nat
      BY <1>0, <2>3, SegmentNumber
    <3>2. pc = "opened" /\ saved.mode # {} /\ avi.mode = {}
      BY <1>0, <1>2 DEF OpenedAVIFile, At, ControlInv, Opening
    <3>3. l.segment <= saved.splitCount - saved.discardCount
          /\ (avi.oldIsBasicallyEmpty => AlmostEmpty)
      BY <2>3, <3>2 DEF SegmentInv, Mode, Opening
    <3>4. saved.splitCount \in Nat /\ saved.discardCount \in Nat
      BY <1>0, SavedTyped
    <3>5. AlmostEmpty => Discarded(l)
      <4>1. l["video"] = l.video /\ l["audio"] = l.audio
            /\ Len(l.video) \in Nat /\ Len(l.audio) \in Nat
        BY <3>1, FileFields
      <4>2. Total("video") = Len(l["video"]) + 0 /\ Total("audio") = Len(l["audio"]) + 0
        BY <3>2 DEF Total, LastHalf
      <4>3. Limit("video") = BasicallyEmptyVideo /\ Limit("audio") = BasicallyEmptyAudio
        BY DEF Limit
      <4> HIDE DEF l
      <4> QED
        BY <4>1, <4>2, <4>3 DEF AlmostEmpty, Discarded, Halves
    <3> HIDE DEF l
    <3>6. l.segment <= f.segment /\ (l.segment = f.segment => Discarded(l))
      <4>1. CASE discard = saved.discardCount
        BY <2>1, <3>1, <3>3, <3>4, <4>1
      <4>2. CASE discard = saved.discardCount + 1 /\ avi.oldIsBasicallyEmpty
        <5>1. l.segment <= f.segment
          BY <2>1, <3>1, <3>3, <3>4, <4>2
        <5> QED
          BY <3>3, <3>5, <4>2, <5>1
      <4> QED
        BY <2>1, <4>1, <4>2
    <3> QED
      BY <3>1, <3>6
  <2>4. FilesInv(Append(files, f))
    BY <1>0, <2>2, <2>3, FilesInvNew
  <2> QED
    BY <2>1, <2>4
<1>3. ASSUME NEW mode \in SUBSET Halves \ {{}}, StartCapture(mode) PROVE FilesInv(files')
  <2>1. files' = (IF avi.open THEN <<Last(files)>> ELSE <<>>) /\ (avi.open => files # <<>>)
    BY <1>0, <1>3 DEF StartCapture, ControlInv
  <2>2. FilesInv(<<>>) /\ (files # <<>> => FilesInv(<<Last(files)>>))
    BY <1>0, FilesInvFew
  <2> QED
    BY <2>1, <2>2
<1>4. CASE files' = files
  BY <1>4
<1> QED
  BY <1>0, <1>1, <1>2, <1>3, <1>4, FilesChange

LEMMA SizeSame ==
  ASSUME SizeInv, stream'["video"] = stream["video"], contents'["video"] = contents["video"],
         stream["video"] => avi'.size = avi.size /\ Last(files)'.size = Last(files).size
  PROVE  SizeInv'
  BY DEF SizeInv

LEMMA SizeStep ==
  ASSUME DumperInv, SizeInv, [Next]_vars
  PROVE  SizeInv'
<1> USE DEF queueVars, aviVars, callVars, history
<1>0. TypeOK /\ ControlInv /\ SegmentOrder /\ files \in Seq(FileType)
      /\ (stream["video"] => avi.open)
  BY HistoryTyped DEF DumperInv, Halves
<1>q. /\ contents \in [Halves -> [Slots -> Items]] /\ stream \in [Halves -> BOOLEAN]
      /\ nextWrite \in [Halves -> Slots] /\ nextRead \in [Halves -> Slots]
      /\ "video" \in Halves /\ "audio" \in Halves /\ "audio" # "video"
  BY <1>0, QueueTyped DEF Halves
<1>1. CASE Turn
  <2>1. UNCHANGED <<queueVars, stream, avi, files>>
    BY <1>0, <1>1, TurnEffect
  <2> QED
    BY <2>1, SizeSame
<1>2. CASE Calls
  <2>1. UNCHANGED <<queueVars, stream, files>>
    BY <1>0, <1>2, CallsEffect
  <2>2. stream["video"] => avi'.size = avi.size
    <3>1. CASE WritesToNewFile
      BY <1>0, <3>1, NewFileEffect, Zenon DEF AviIs
    <3>2. CASE SoundWithoutFile
      BY <1>0, <3>2 DEF SoundWithoutFile
    <3>3. ASSUME NEW size \in Sizes \cup {NoSize}, NEW hasSound \in BOOLEAN, Splits(size, hasSound)
          PROVE  avi'.size = avi.size
      BY <1>0, <3>3, SplitsEffect, Zenon DEF AviIs
    <3> QED
      BY <1>2, <3>1, <3>2, <3>3 DEF Calls
  <2> QED
    BY <2>1, <2>2, SizeSame
<1>3. CASE Fills
  <2>1. PICK c \in Halves, item \in Items :
           /\ Fill(c, item) /\ c \in avi.mode /\ stream[c]
           /\ pc \in Plain /\ pc' \in Plain
           /\ c = "video" => /\ pc = "fill" /\ pc' = "audio"
                             /\ item.size \in {avi.size, contents["video"][LastSlot("video")].size}
    BY <1>0, <1>3, FillsEffect, Zenon
  <2>2. /\ UNCHANGED <<stream, avi, files>>
        /\ contents' = [contents EXCEPT ![c][nextWrite[c]] = item]
    BY <2>1 DEF Fill
  <2>3. CASE c = "video"
    <3>1. LastSlot("video") \in Slots
      <4>1. nextWrite["video"] \in Slots /\ NumSlots \in Nat \ {0}
        BY <1>q, AviAssumption
      <4>2. NumSlots + nextWrite["video"] - 1 \in Nat
        BY <4>1 DEF Slots
      <4> QED
        BY <4>1, <4>2 DEF LastSlot, Slots
    <3>2. item.size \in {avi.size, "unset"}
      BY <2>1, <2>3, <3>1 DEF SizeInv
    <3>3. \A i \in Slots : \/ contents'["video"][i] = contents["video"][i]
                           \/ contents'["video"][i] = item
      BY <1>q, <2>2, <2>3
    <3> QED
      BY <2>1, <2>2, <2>3, <3>2, <3>3 DEF SizeInv
  <2>4. CASE c # "video"
    <3>1. contents'["video"] = contents["video"]
      BY <1>q, <2>2, <2>4
    <3> QED
      BY <2>2, <3>1, SizeSame
  <2> QED
    BY <2>3, <2>4
<1>4. CASE StopCapture
  <2>1. UNCHANGED <<queueVars, stream, files>>
    BY <1>4 DEF StopCapture
  <2>2. avi'.size = avi.size
    BY <1>0, <1>4, StopEffect, Zenon DEF AviIs
  <2> QED
    BY <2>1, <2>2, SizeSame
<1>5. CASE SplitAVINow
  <2>1. UNCHANGED <<queueVars, stream, files>>
    BY <1>5 DEF SplitAVINow
  <2>2. avi'.size = avi.size
    BY <1>0, <1>5, SplitNowEffect, Zenon DEF AviIs
  <2> QED
    BY <2>1, <2>2, SizeSame
<1>6. ASSUME NEW c \in Halves, WaitUntilTrue(c) \/ NextFrame(c) PROVE SizeInv'
  <2>1. UNCHANGED <<contents, stream, avi, files>>
    BY <1>6 DEF WaitUntilTrue, NextFrame
  <2> QED
    BY <2>1, SizeSame
<1>7. ASSUME NEW c \in Halves, CountFrame(c) PROVE SizeInv'
  <2>1. UNCHANGED <<contents, stream, files>>
    BY <1>7 DEF CountFrame
  <2>2. avi'.size = avi.size
    BY <1>0, <1>7, CountFrameEffect, Zenon DEF AviIs
  <2> QED
    BY <2>1, <2>2, SizeSame
<1>8. ASSUME NEW c \in Halves, OutputFrame(c) PROVE SizeInv'
  <2>1. UNCHANGED <<contents, stream, avi>>
    BY <1>8 DEF OutputFrame
  <2>2. CASE files' = files
    BY <2>1, <2>2, SizeSame
  <2>3. CASE files' # files
    <3>1. PICK item \in Items : Grown(files, files', c, item) /\ files # <<>>
      BY <1>0, <1>8, <2>3, OutputGrows, Zenon
    <3> DEFINE gs == files'
    <3>2. Grown(files, gs, c, item)
      BY <3>1
    <3>l. Last(files)' = gs[Len(gs)] /\ Last(files) = files[Len(files)]
      BY DEF Last
    <3> HIDE DEF gs
    <3>3. Len(gs) = Len(files)
      BY <1>0, <3>1, <3>2, FilesMore
    <3>4. gs[Len(files)].size = files[Len(files)].size
      BY <1>0, <3>1, <3>2, FilesMore
    <3>5. Last(files)'.size = Last(files).size
      BY <3>3, <3>4, <3>l
    <3> QED
      BY <2>1, <3>5, SizeSame
  <2> QED
    BY <2>2, <2>3
<1>9. CASE Flush \/ DeleteQueue
  <2>1. UNCHANGED <<contents, stream, avi, files>>
    BY <1>9 DEF Flush, DeleteQueue
  <2> QED
    BY <2>1, SizeSame
<1>10. CASE CloseAVI
  <2>1. ~stream'["video"] /\ \A i \in Slots : contents'["video"][i] = Nothing
    BY <1>q, <1>10 DEF CloseAVI, NewQueue
  <2> QED
    BY <2>1 DEF SizeInv, Nothing
<1>11. CASE HandleAviSplitRequests
  <2>1. UNCHANGED <<queueVars, stream, files>>
    BY <1>11 DEF HandleAviSplitRequests
  <2>2. avi'.size = avi.size
    BY <1>0, <1>11, HandleEffect, Zenon DEF AviIs
  <2> QED
    BY <2>1, <2>2, SizeSame
<1>12. CASE OpenedAVIFile
  <2>1. PICK f \in FileType : /\ avi'.size = frame.opening /\ f.size = frame.opening
                              /\ files' = Append(files, f) /\ f["video"] = <<>>
    BY <1>0, <1>12, <1>q, OpenedFile, Zenon DEF AviIs
  <2>2. Last(files)' = f
    BY <1>0, <1>q, <2>1, WrittenNew
  <2>3. ~stream["video"] /\ contents' = contents
    BY <1>0, <1>12 DEF OpenedAVIFile, At, ControlInv
  <2> QED
    BY <2>1, <2>2, <2>3 DEF SizeInv
<1>13. CASE CancelVideoCodec
  <2>1. UNCHANGED <<queueVars, stream, files>>
    BY <1>13 DEF CancelVideoCodec
  <2>2. avi'.size = avi.size
    BY <1>0, <1>13, CancelVideoEffect, Zenon DEF AviIs
  <2> QED
    BY <2>1, <2>2, SizeSame
<1>14. CASE CancelAudioCodec
  <2>1. UNCHANGED <<queueVars, stream, files>>
    BY <1>14 DEF CancelAudioCodec
  <2>2. avi'.size = avi.size
    BY <1>0, <1>14, CancelAudioEffect, Zenon DEF AviIs
  <2> QED
    BY <2>1, <2>2, SizeSame
<1>15. CASE OpenedAVIAudioStream
  <2>1. UNCHANGED <<contents, avi, files>> /\ stream'["video"] = stream["video"]
    BY <1>15, <1>q DEF OpenedAVIAudioStream
  <2> QED
    BY <2>1, SizeSame
<1>16. ASSUME NEW mode \in SUBSET Halves \ {{}}, StartCapture(mode) PROVE SizeInv'
  <2>1. UNCHANGED <<contents, stream>> /\ pc = "game" /\ avi.mode = {}
    BY <1>16 DEF StartCapture, At
  <2>2. ~stream["video"]
    BY <1>0, <1>q, <2>1 DEF ControlInv, Stopping, Closing
  <2> QED
    BY <2>1, <2>2, SizeSame
<1>17. CASE UNCHANGED vars
  BY <1>17, SizeSame DEF vars
<1> QED
  BY <1>0, <1>1, <1>2, <1>3, <1>4, <1>5, <1>6, <1>7, <1>8, <1>9, <1>10, <1>11, <1>12, <1>13, <1>14,
     <1>15, <1>16, <1>17, NextCases

LEMMA SegmentSame ==
  ASSUME SegmentInv,
         avi'.open = avi.open, avi'.splitCount = avi.splitCount,
         avi'.discardCount = avi.discardCount,
         avi'.oldIsBasicallyEmpty = avi.oldIsBasicallyEmpty,
         saved' = saved, Last(files)'.segment = Last(files).segment,
         files' # <<>> => files # <<>>,
         Closing => Closing', Mode' = Mode, pc' \in Plain => pc \in Plain,
         Opening' => Opening, Splitting' => Splitting,
         avi.open /\ ~Closing' => ~Closing,
         AlmostEmpty => AlmostEmpty'
  PROVE  SegmentInv'
  BY DEF SegmentInv

LEMMA AlmostEmptySame ==
  ASSUME files' = files, captured' = captured, avi'.mode = avi.mode, AlmostEmpty
  PROVE  AlmostEmpty'
<1>1. ASSUME NEW c \in Halves PROVE Total(c)' < Limit(c) + NumSlots
  <2>1. Written(c)' = Written(c) /\ LastHalf(c)' = LastHalf(c)
    BY WrittenSame
  <2>2. Total(c)' = Total(c)
    BY <2>1 DEF Total
  <2> QED
    BY <2>2 DEF AlmostEmpty
<1>2. \A c \in Halves : Limit(c)' = Limit(c)
  BY DEF Limit
<1> QED
  BY <1>1, <1>2 DEF AlmostEmpty

LEMMA LimitType ==
  ASSUME NEW c \in Halves
  PROVE  Limit(c) \in Nat /\ NumSlots \in Nat \ {0}
  BY AviAssumption DEF Limit

LEMMA TotalType ==
  ASSUME TypeOK, NEW c \in Halves, files # <<>>
  PROVE  LastHalf(c) \in Seq(Items) /\ Len(LastHalf(c)) \in Nat
         /\ Len(captured[c]) \in Nat /\ Len(Written(c)) \in Nat
<1>1. Last(files) \in FileType
  BY SegmentNumber
<1>2. LastHalf(c) \in Seq(Items)
  BY <1>1, FileHalf DEF LastHalf
<1> QED
  BY <1>2, HalfTyped

(* A file that CloseAVI finds almost empty still is when its queue has been*)
(* written: there is at most a ring more.                                  *)
LEMMA AlmostEmptyAt ==
  ASSUME DumperInv, AlmostEmptyNow, pc \in {"game", "video", "audio"}
  PROVE  AlmostEmpty
<1>1. TypeOK /\ ControlInv /\ ~Closing
  BY DEF DumperInv, Closing
<1>2. avi.open /\ files # <<>>
  BY <1>1, HistoryTyped DEF AlmostEmptyNow, ControlInv, Halves
<1>3. ASSUME NEW c \in Halves PROVE Total(c) < Limit(c) + NumSlots
  <2>t. /\ Len(LastHalf(c)) \in Nat /\ Len(captured[c]) \in Nat /\ Len(Written(c)) \in Nat
        /\ count[c] \in Nat /\ Limit(c) \in Nat /\ NumSlots \in Nat \ {0}
        /\ Holding(c) \in {0, 1} /\ Uncounted(c) \in {0, 1} /\ Uncounted(c) <= Holding(c)
    BY <1>1, <1>2, TotalType, HalfTyped, LimitType DEF Holding, Uncounted
  <2>u. Unread(c) = Len(captured[c]) - Len(Written(c)) + Holding(c)
    BY DEF Unread
  <2>h. EncoderInv(c) /\ QueueInv(c) /\ CountInv(c)
    BY DEF DumperInv, HalfInv
  <2>c. count[c] < Limit(c)
    BY DEF AlmostEmptyNow, Limit, Halves
  <2>1. CASE stream[c]
    <3>1. c \in avi.mode
      BY <1>1, <2>1 DEF ControlInv, Stopping
    <3>2. Active(c)
      BY <3>1 DEF Active
    <3>3. Unread(c) <= NumSlots
      BY <2>h, <2>t, <3>2 DEF QueueInv, RingOf, Ring
    <3>4. Len(LastHalf(c)) = count[c] + Uncounted(c)
      BY <2>1, <2>h DEF CountInv
    <3>5. Total(c) = Len(LastHalf(c)) + (Len(captured[c]) - Len(Written(c)))
      BY <3>1 DEF Total
    <3>6. Len(captured[c]) - Len(Written(c)) <= NumSlots - Holding(c)
      BY <2>t, <2>u, <3>3
    <3> DEFINE pending == Len(captured[c]) - Len(Written(c))
    <3>7. pending \in Int /\ pending <= NumSlots - Holding(c) /\ Total(c) = Len(LastHalf(c)) + pending
      BY <2>t, <3>5, <3>6
    <3> HIDE DEF pending
    <3> QED
      BY <2>c, <2>t, <3>4, <3>7
  <2>2. CASE ~stream[c]
    <3>1. LastHalf(c) = <<>>
      BY <1>2, <2>2, <2>h DEF CountInv
    <3>2. Len(LastHalf(c)) = 0
      BY <3>1
    <3>3. CASE c \in avi.mode
      <4>1. Unread(c) = 0
        BY <2>2, <2>h, <3>3 DEF QueueInv, Active
      <4>2. Total(c) = Len(LastHalf(c)) + (Len(captured[c]) - Len(Written(c)))
        BY <3>3 DEF Total
      <4> QED
        BY <2>t, <2>u, <3>2, <4>1, <4>2
    <3>4. CASE c \notin avi.mode
      <4>1. Total(c) = Len(LastHalf(c)) + 0
        BY <3>4 DEF Total
      <4> QED
        BY <2>t, <3>2, <4>1
    <3> QED
      BY <3>3, <3>4
  <2> QED
    BY <2>1, <2>2
<1> QED
  BY <1>3 DEF AlmostEmpty

(* A call of CloseAVI to open or to split: the segment of the last file.   *)
LEMMA SegmentCalls ==
  ASSUME DumperInv, SegmentInv, Calls
  PROVE  SegmentInv'
<1>0. TypeOK /\ ControlInv /\ SegmentOrder
  BY DEF DumperInv
<1>1. /\ UNCHANGED <<captured, files>>
      /\ avi'.mode = avi.mode /\ avi'.open = avi.open /\ avi'.discardCount = avi.discardCount
      /\ pc' = "flush" /\ pc \in {"game", "video", "audio"}
  BY <1>0, CallsEffect
<1>2. avi'.oldIsBasicallyEmpty => avi.oldIsBasicallyEmpty \/ AlmostEmptyNow
  <2>1. ASSUME NEW size \in Sizes \cup {NoSize}, NEW hasSound \in BOOLEAN, Splits(size, hasSound)
        PROVE  avi'.oldIsBasicallyEmpty => avi.oldIsBasicallyEmpty \/ AlmostEmptyNow
    BY <1>0, <2>1, SplitsEffect
  <2>2. CASE WritesToNewFile
    BY <1>0, <2>2, NewFileEffect, Zenon
  <2>3. CASE SoundWithoutFile
    BY <1>0, <2>3, SoundFileEffect, Zenon
  <2> QED
    BY <2>1, <2>2, <2>3 DEF Calls
<1>3. pc \in Plain /\ ~Closing /\ Closing' /\ Mode = avi.mode /\ Mode' = avi.mode
      /\ pc' \notin Plain
  BY <1>1 DEF Plain, Closing, Mode
<1>4. ASSUME files # <<>>, Mode # {}, avi'.oldIsBasicallyEmpty PROVE AlmostEmpty'
  <2>1. AlmostEmpty
    BY <1>1, <1>2, <1>4, AlmostEmptyAt DEF SegmentInv
  <2> QED
    BY <1>1, <2>1, AlmostEmptySame
<1>5. Last(files)' = Last(files)
  BY <1>1
<1>6. ASSUME files # <<>>, Mode # {}
      PROVE  /\ Opening' => Last(files).segment <= saved'.splitCount - saved'.discardCount
             /\ Splitting' => Last(files).segment <= (saved'.splitCount + 1) - saved'.discardCount
  <2>t. Last(files).segment \in Nat /\ avi.splitCount \in Nat /\ avi.discardCount \in Nat
    BY <1>0, <1>6, SegmentNumber, AviTyped, AviFields
  <2>o. avi.open => Last(files).segment = (avi.splitCount + 1) - avi.discardCount
    BY <1>3 DEF SegmentInv
  <2>c. ~avi.open => Last(files).segment <= avi.splitCount - avi.discardCount
    BY <1>3, <1>6 DEF SegmentInv
  <2>1. CASE WritesToNewFile
    <3>1. PICK split \in Nat :
         /\ split = IF avi.open THEN avi.splitCount + 1 ELSE avi.splitCount
         /\ after' = "opened"
         /\ saved'.splitCount = split /\ saved'.discardCount = avi.discardCount
      BY <1>0, <2>1, NewFileEffect, Zenon
    <3>2. ~Splitting'
      BY <1>1, <3>1 DEF Splitting
    <3> QED
      BY <2>c, <2>o, <2>t, <3>1, <3>2
  <2>2. CASE SoundWithoutFile
    <3>1. /\ after' = "opened"
          /\ saved'.splitCount = avi.splitCount /\ saved'.discardCount = avi.discardCount
      BY <1>0, <2>2, SoundFileEffect, Zenon
    <3>2. ~Splitting' /\ ~avi.open
      BY <1>1, <2>2, <3>1 DEF Splitting, SoundWithoutFile
    <3> QED
      BY <2>c, <3>1, <3>2
  <2>3. ASSUME NEW size \in Sizes \cup {NoSize}, NEW hasSound \in BOOLEAN, Splits(size, hasSound)
        PROVE  /\ Opening' => Last(files).segment <= saved'.splitCount - saved'.discardCount
               /\ Splitting' => Last(files).segment <= (saved'.splitCount + 1) - saved'.discardCount
    <3>1. /\ after' = "split"
          /\ saved'.splitCount = avi.splitCount /\ saved'.discardCount = avi.discardCount
      BY <1>0, <2>3, SplitsEffect, Zenon
    <3>2. ~Opening'
      BY <1>1, <3>1 DEF Opening
    <3> QED
      BY <2>c, <2>o, <2>t, <3>1, <3>2
  <2> QED
    BY <1>1, <2>1, <2>2, <2>3 DEF Calls
<1> QED
  BY <1>1, <1>3, <1>4, <1>5, <1>6 DEF SegmentInv

(* A picture or a sound that is written stays in the total of its half.    *)
LEMMA AlmostEmptyGrown ==
  ASSUME TypeOK, files # <<>>, NEW c \in Halves, c \in avi.mode, NEW item \in Items,
         files' = [files EXCEPT ![Len(files)][c] = Append(@, item)],
         captured' = captured, avi' = avi, AlmostEmpty
  PROVE  AlmostEmpty'
<1>1. ASSUME NEW d \in Halves PROVE Total(d)' = Total(d)
  <2>t. /\ LastHalf(d) \in Seq(Items) /\ Len(LastHalf(d)) \in Nat
        /\ Len(captured[d]) \in Nat /\ Len(Written(d)) \in Nat /\ Written(d) \in Seq(Items)
    BY TotalType, HalfTyped
  <2>1. CASE d = c
    <3>1. Written(d)' = Append(Written(d), item) /\ LastHalf(d)' = Append(LastHalf(d), item)
      BY <2>1, WrittenMore
    <3>2. Len(Written(d)') = Len(Written(d)) + 1 /\ Len(LastHalf(d)') = Len(LastHalf(d)) + 1
      BY <2>t, <3>1
    <3>3. /\ Total(d) = Len(LastHalf(d)) + (Len(captured[d]) - Len(Written(d)))
          /\ Total(d)' = Len(LastHalf(d)') + (Len(captured[d]) - Len(Written(d)'))
      BY <2>1 DEF Total
    <3>4. \A l, n, w \in Nat : (l + 1) + (n - (w + 1)) = l + (n - w)
      OBVIOUS
    <3>5. Total(d)' = (Len(LastHalf(d)) + 1) + (Len(captured[d]) - (Len(Written(d)) + 1))
      BY <3>2, <3>3, Zenon
    <3> QED
      BY <2>t, <3>3, <3>4, <3>5, Zenon
  <2>2. CASE d # c
    <3>1. Written(d)' = Written(d) /\ LastHalf(d)' = LastHalf(d)
      BY <2>2, WrittenMore
    <3> QED
      BY <3>1 DEF Total
  <2> QED
    BY <2>1, <2>2
<1>2. \A d \in Halves : Limit(d)' = Limit(d)
  BY DEF Limit
<1> QED
  BY <1>1, <1>2 DEF AlmostEmpty

(* A half whose queue has been written counts as much when it is no longer *)
(* captured, and when it is again.                                         *)
LEMMA AlmostEmptyMode ==
  ASSUME DumperInv, files # <<>>, UNCHANGED <<files, captured>>, AlmostEmpty,
         \A c \in Halves : c \in avi'.mode \ avi.mode => Written(c) = captured[c]
  PROVE  AlmostEmpty'
<1>1. ASSUME NEW c \in Halves PROVE Total(c)' < Limit(c) + NumSlots
  <2>t. /\ Len(LastHalf(c)) \in Nat /\ Len(captured[c]) \in Nat /\ Len(Written(c)) \in Nat
        /\ Limit(c) \in Nat /\ NumSlots \in Nat
    BY TotalType, LimitType DEF DumperInv
  <2>p. Len(Written(c)) <= Len(captured[c])
    BY DEF DumperInv, HalfInv, QueueInv, Prefix
  <2>1. Written(c)' = Written(c) /\ LastHalf(c)' = LastHalf(c)
    BY WrittenSame
  <2>2. Total(c) < Limit(c) + NumSlots
    BY DEF AlmostEmpty
  <2>3. CASE c \in avi'.mode
    <3>1. Total(c)' = Len(LastHalf(c)) + (Len(captured[c]) - Len(Written(c)))
      BY <2>1, <2>3 DEF Total
    <3>2. CASE c \in avi.mode
      BY <2>2, <3>1, <3>2 DEF Total
    <3>3. CASE c \notin avi.mode
      <4>1. Total(c) = Len(LastHalf(c)) + 0 /\ Written(c) = captured[c]
        BY <2>3, <3>3 DEF Total
      <4> QED
        BY <2>2, <2>t, <3>1, <4>1
    <3> QED
      BY <3>2, <3>3
  <2>4. CASE c \notin avi'.mode
    <3>1. Total(c)' = Len(LastHalf(c)) + 0
      BY <2>1, <2>4 DEF Total
    <3>2. Total(c) = Len(LastHalf(c)) + 0
          \/ Total(c) = Len(LastHalf(c)) + (Len(captured[c]) - Len(Written(c)))
      BY DEF Total
    <3> QED
      BY <2>2, <2>p, <2>t, <3>1, <3>2
  <2> QED
    BY <2>3, <2>4
<1>2. \A c \in Halves : Limit(c)' = Limit(c)
  BY DEF Limit
<1> QED
  BY <1>1, <1>2 DEF AlmostEmpty

(* A step after which nothing is captured, or the open file is new enough. *)
LEMMA SegmentNone ==
  ASSUME avi'.open => Closing', Mode' = {}
  PROVE  SegmentInv'
  BY DEF SegmentInv

LEMMA SegmentOpen ==
  ASSUME pc' \in Plain, avi'.open, ~avi'.oldIsBasicallyEmpty,
         Last(files)'.segment = (avi'.splitCount + 1) - avi'.discardCount
  PROVE  SegmentInv'
<1>1. ~Opening' /\ ~Splitting'
  BY DEF Plain, Opening, Splitting, Closing
<1> QED
  BY <1>1 DEF SegmentInv

(* A step of the debugger at no place of CloseAVI, or of another thread,   *)
(* which does not touch the segment.                                       *)
LEMMA SegmentQuiet ==
  ASSUME SegmentInv, UNCHANGED <<files, captured, saved, after>>,
         \/ pc' = pc
         \/ pc \in Plain /\ pc' \in Plain
         \/ pc \in {"flush", "delete"} /\ pc' \in {"delete", "join"},
         avi'.mode = avi.mode, avi'.open = avi.open, avi'.splitCount = avi.splitCount,
         avi'.discardCount = avi.discardCount,
         avi'.oldIsBasicallyEmpty = avi.oldIsBasicallyEmpty
  PROVE  SegmentInv'
<1>1. /\ Closing' <=> Closing
      /\ pc' \in Plain => pc \in Plain
      /\ Opening' => Opening
      /\ Splitting' => Splitting
      /\ Mode' = Mode
  BY DEF Closing, Plain, Opening, Splitting, Mode
<1>2. Last(files)'.segment = Last(files).segment
  OBVIOUS
<1>3. AlmostEmpty => AlmostEmpty'
  BY AlmostEmptySame
<1> QED
  BY <1>1, <1>2, <1>3, SegmentSame

LEMMA SegmentStep ==
  ASSUME DumperInv, SegmentInv, [Next]_vars
  PROVE  SegmentInv'
<1> USE DEF queueVars, aviVars, callVars, history
<1>0. TypeOK /\ ControlInv /\ SegmentOrder /\ files \in Seq(FileType)
  BY HistoryTyped DEF DumperInv
<1>1. CASE Turn
  BY <1>0, <1>1, TurnEffect, SegmentQuiet
<1>2. CASE Calls
  BY <1>2, SegmentCalls
<1>3. CASE Fills
  <2>1. PICK c \in Halves, item \in Items :
           Fill(c, item) /\ c \in avi.mode /\ stream[c] /\ pc \in Plain /\ pc' \in Plain
    BY <1>0, <1>3, FillsEffect, Zenon
  <2>2. avi' = avi /\ files' = files
    BY <2>1 DEF Fill
  <2>3. avi.open /\ ~Closing
    BY <1>0, <2>1, HistoryTyped DEF Plain, Closing
  <2> QED
    BY <2>1, <2>2, <2>3, SegmentOpen DEF SegmentInv
<1>4. CASE StopCapture
  <2>1. avi'.mode = {} /\ pc' = "flush"
    BY <1>0, <1>4, StopEffect, Zenon DEF AviIs
  <2> QED
    BY <2>1, SegmentNone DEF Closing, Mode
<1>5. CASE SplitAVINow
  <2>1. UNCHANGED <<files, captured, saved, after, pc>>
    BY <1>5 DEF SplitAVINow
  <2>2. /\ avi'.mode = avi.mode /\ avi'.open = avi.open /\ avi'.splitCount = avi.splitCount
        /\ avi'.discardCount = avi.discardCount
        /\ avi'.oldIsBasicallyEmpty = avi.oldIsBasicallyEmpty
    BY <1>0, <1>5, SplitNowEffect, Zenon DEF AviIs
  <2> QED
    BY <2>1, <2>2, SegmentQuiet
<1>6. ASSUME NEW c \in Halves, WaitUntilTrue(c) \/ NextFrame(c) PROVE SegmentInv'
  <2>1. UNCHANGED <<files, captured, saved, after, pc, avi>>
    BY <1>6 DEF WaitUntilTrue, NextFrame
  <2> QED
    BY <2>1, SegmentQuiet
<1>7. ASSUME NEW c \in Halves, CountFrame(c) PROVE SegmentInv'
  <2>1. UNCHANGED <<files, captured, saved, after, pc>>
    BY <1>7 DEF CountFrame
  <2>2. /\ avi'.mode = avi.mode /\ avi'.open = avi.open /\ avi'.splitCount = avi.splitCount
        /\ avi'.discardCount = avi.discardCount
        /\ avi'.oldIsBasicallyEmpty = avi.oldIsBasicallyEmpty
    BY <1>0, <1>7, CountFrameEffect, Zenon DEF AviIs
  <2> QED
    BY <2>1, <2>2, SegmentQuiet
<1>8. ASSUME NEW c \in Halves, OutputFrame(c) PROVE SegmentInv'
  <2>1. UNCHANGED <<captured, saved, after, pc, avi>>
    BY <1>8 DEF OutputFrame
  <2>2. CASE files' = files
    BY <2>1, <2>2, SegmentQuiet
  <2>3. CASE files' # files
    <3>1. PICK item \in Items : Grown(files, files', c, item) /\ files # <<>> /\ c \in avi.mode
      BY <1>0, <1>8, <2>3, OutputGrows, Zenon
    <3>2. files' = [files EXCEPT ![Len(files)][c] = Append(@, item)]
      BY <3>1 DEF Grown
    <3>3. AlmostEmpty => AlmostEmpty'
      BY <1>0, <2>1, <3>1, <3>2, AlmostEmptyGrown
    <3> DEFINE gs == files'
    <3>4. Grown(files, gs, c, item)
      BY <3>1
    <3>l. Last(files)' = gs[Len(gs)] /\ Last(files) = files[Len(files)]
      BY DEF Last
    <3> HIDE DEF gs
    <3>5. Len(gs) = Len(files)
      BY <1>0, <3>1, <3>4, FilesMore
    <3>6. gs[Len(files)].segment = files[Len(files)].segment
      BY <1>0, <3>1, <3>4, FilesMore
    <3>7. Last(files)'.segment = Last(files).segment
      BY <3>5, <3>6, <3>l
    <3>8. (Closing' <=> Closing) /\ Mode' = Mode /\ (Opening' <=> Opening)
          /\ (Splitting' <=> Splitting)
      BY <2>1 DEF Closing, Mode, Opening, Splitting
    <3> QED
      BY <2>1, <3>1, <3>3, <3>7, <3>8, SegmentSame
  <2> QED
    BY <2>2, <2>3
<1>9. CASE Flush \/ DeleteQueue
  <2>1. /\ UNCHANGED <<files, captured, saved, after, avi>>
        /\ pc \in {"flush", "delete"} /\ pc' \in {"delete", "join"}
    BY <1>9 DEF Flush, DeleteQueue, At, Goto
  <2> QED
    BY <2>1, SegmentQuiet
<1>10. CASE CloseAVI
  <2>1. /\ UNCHANGED <<files, captured, saved, after>> /\ pc = "join" /\ pc' = after
    BY <1>10 DEF CloseAVI, At, Goto
  <2>2. avi'.mode = {} /\ ~avi'.open /\ avi'.oldIsBasicallyEmpty = avi.oldIsBasicallyEmpty
    BY <1>0, <1>10, CloseEffect, Zenon DEF AviIs
  <2>3. CASE after = "game"
    BY <2>1, <2>2, <2>3, SegmentNone DEF Mode
  <2>4. CASE after # "game"
    <3>1. after \in {"split", "opened"} /\ avi.mode = saved.mode
      BY <1>0, <2>1, <2>4 DEF ControlInv, Closing
    <3>2. /\ Mode' = Mode /\ pc' \notin Plain
          /\ Opening' => Opening
          /\ Splitting' => Splitting
      BY <2>1, <3>1 DEF Mode, Plain, Opening, Splitting, Closing
    <3>3. files # <<>> /\ AlmostEmpty => AlmostEmpty'
      BY <2>1, <2>2, AlmostEmptyMode
    <3> QED
      BY <2>1, <2>2, <3>2, <3>3 DEF SegmentInv
  <2> QED
    BY <2>3, <2>4
<1>11. CASE HandleAviSplitRequests
  <2>1. UNCHANGED <<files, captured, saved, after>> /\ pc = "split" /\ pc' = "video"
    BY <1>11 DEF HandleAviSplitRequests, At, Goto
  <2>2. /\ avi'.mode = saved.mode /\ avi'.open = avi.open /\ avi'.splitCount = saved.requested
        /\ avi'.discardCount = saved.discardCount
        /\ avi'.oldIsBasicallyEmpty = avi.oldIsBasicallyEmpty
    BY <1>0, <1>11, HandleEffect, Zenon DEF AviIs
  <2>3. /\ avi.mode = {} /\ ~avi.open
        /\ \A c \in Halves : c \in saved.mode => Written(c) = captured[c]
    <3>1. avi.mode = {} /\ ~avi.open
      BY <1>0, <2>1 DEF ControlInv
    <3>2. ASSUME NEW c \in Halves, c \in saved.mode PROVE Written(c) = captured[c]
      BY <1>0, <2>1, <3>2, NewQueueInv DEF DumperInv
    <3> QED
      BY <3>1, <3>2
  <2>4. files # <<>> /\ AlmostEmpty => AlmostEmpty'
    BY <2>1, <2>2, <2>3, AlmostEmptyMode
  <2>5. ASSUME files # <<>>, saved.mode # {}
        PROVE  /\ Last(files).segment <= saved.requested - saved.discardCount
               /\ avi.oldIsBasicallyEmpty => AlmostEmpty
    <3>1. /\ Last(files).segment <= (saved.splitCount + 1) - saved.discardCount
          /\ avi.oldIsBasicallyEmpty => AlmostEmpty
      BY <2>1, <2>5 DEF SegmentInv, Mode, Splitting
    <3>2. saved.requested > saved.splitCount
      BY <1>0, <2>1 DEF SegmentOrder, Splitting
    <3>3. Last(files).segment \in Nat /\ saved.requested \in Nat /\ saved.splitCount \in Nat
          /\ saved.discardCount \in Nat
      BY <1>0, <2>5, SegmentNumber, SavedTyped
    <3> QED
      BY <3>1, <3>2, <3>3
  <2>6. ~Opening' /\ ~Splitting' /\ Mode' = saved.mode /\ Last(files)' = Last(files)
    BY <2>1, <2>2 DEF Opening, Splitting, Closing, Mode
  <2> QED
    BY <2>1, <2>2, <2>3, <2>4, <2>5, <2>6 DEF SegmentInv
<1>12. CASE OpenedAVIFile
  <2>1. PICK discard \in Nat, f \in FileType :
         /\ avi'.open /\ avi'.splitCount = saved.splitCount /\ avi'.discardCount = discard
         /\ ~avi'.oldIsBasicallyEmpty
         /\ f.segment = (saved.splitCount + 1) - discard
         /\ \A c \in Halves : f[c] = <<>>
         /\ files' = Append(files, f)
    BY <1>0, <1>12, OpenedFile, Zenon DEF AviIs
  <2>2. Last(files)' = f
    BY <1>0, <2>1, WrittenNew DEF Halves
  <2>3. pc' \in Plain
    BY <1>12 DEF OpenedAVIFile, Goto, Plain
  <2> QED
    BY <2>1, <2>2, <2>3, SegmentOpen
<1>13. CASE CancelVideoCodec
  <2>1. avi'.mode = avi.mode /\ avi'.open = avi.open
    BY <1>0, <1>13, CancelVideoEffect, Zenon DEF AviIs
  <2>2. avi.mode = {} /\ ~avi.open /\ pc' = "game"
    BY <1>0, <1>13 DEF CancelVideoCodec, At, Goto, ControlInv
  <2> QED
    BY <2>1, <2>2, SegmentNone DEF Mode
<1>14. CASE CancelAudioCodec
  <2>1. pc = "audioStream" /\ pc' = "game" /\ files' = files
    BY <1>14 DEF CancelAudioCodec, At, Goto
  <2>2. /\ avi'.open = avi.open /\ avi'.splitCount = avi.splitCount
        /\ avi'.discardCount = avi.discardCount
        /\ avi'.oldIsBasicallyEmpty = avi.oldIsBasicallyEmpty
    BY <1>0, <1>14, CancelAudioEffect, Zenon DEF AviIs
  <2>3. avi.open /\ ~Closing /\ pc' \in Plain
    BY <1>0, <2>1 DEF ControlInv, Closing, Plain
  <2> QED
    BY <2>1, <2>2, <2>3, SegmentOpen DEF SegmentInv
<1>15. CASE OpenedAVIAudioStream
  <2>1. UNCHANGED <<files, captured, saved, after, avi>> /\ pc \in Plain /\ pc' \in Plain
    BY <1>15 DEF OpenedAVIAudioStream, At, Goto, Plain
  <2> QED
    BY <2>1, SegmentQuiet
<1>16. ASSUME NEW mode \in SUBSET Halves \ {{}}, StartCapture(mode) PROVE SegmentInv'
  <2>1. /\ pc = "game" /\ pc' = "game"
        /\ files' = IF avi.open THEN <<Last(files)>> ELSE <<>>
    BY <1>16 DEF StartCapture, At
  <2>2. /\ avi'.open = avi.open /\ avi'.splitCount = avi.splitCount
        /\ avi'.discardCount = avi.discardCount
        /\ avi'.oldIsBasicallyEmpty = avi.oldIsBasicallyEmpty
    BY <1>0, <1>16, StartEffect, Zenon DEF AviIs
  <2>3. pc' \in Plain /\ ~Closing
    BY <2>1 DEF Plain, Closing
  <2>4. CASE avi.open
    <3> DEFINE l == Last(files)
               gs == files'
    <3>1. gs = <<l>> /\ Last(files)' = gs[Len(gs)]
      BY <2>1, <2>4 DEF Last
    <3> HIDE DEF l, gs
    <3>2. Last(files)' = l
      BY <3>1
    <3>3. Last(files)' = Last(files)
      BY <3>2 DEF l
    <3> QED
      BY <2>2, <2>3, <2>4, <3>3, SegmentOpen DEF SegmentInv
  <2>5. CASE ~avi.open
    BY <2>1, <2>2, <2>5 DEF SegmentInv
  <2> QED
    BY <2>4, <2>5
<1>17. CASE UNCHANGED vars
  <2>1. UNCHANGED <<files, captured, saved, after, pc, avi>>
    BY <1>17 DEF vars
  <2> QED
    BY <2>1, SegmentQuiet
<1> QED
  BY <1>0, <1>1, <1>2, <1>3, <1>4, <1>5, <1>6, <1>7, <1>8, <1>9, <1>10, <1>11, <1>12, <1>13, <1>14,
     <1>15, <1>16, <1>17, NextCases

FileInv == DumperInv /\ SizeInv /\ SegmentInv /\ FilesInv(files)

LEMMA FileInit == Init => FileInv
<1> SUFFICES ASSUME Init PROVE FileInv
  OBVIOUS
<1>1. /\ files = <<>> /\ ~stream["video"] /\ pc = "game" /\ ~avi.open /\ avi.mode = {}
      /\ \A i \in Slots : contents["video"][i] = Nothing
  BY DEF Init, Halves
<1>2. SizeInv
  BY <1>1 DEF SizeInv, Nothing
<1>3. SegmentInv
  BY <1>1 DEF SegmentInv
<1>4. FilesInv(files)
  BY <1>1 DEF FilesInv
<1> QED
  BY <1>2, <1>3, <1>4, DumperInit DEF FileInv

LEMMA FileStep == FileInv /\ [Next]_vars => FileInv'
<1> SUFFICES ASSUME FileInv, [Next]_vars PROVE FileInv'
  OBVIOUS
<1>1. DumperInv /\ SizeInv /\ SegmentInv /\ FilesInv(files)
  BY DEF FileInv
<1>2. DumperInv' /\ SizeInv' /\ SegmentInv'
  BY <1>1, DumperStep, SizeStep, SegmentStep
<1>3. FilesInv(files')
  BY <1>1, FilesInvStep
<1>4. FilesInv(files)'
  BY <1>3 DEF FilesInv, Sized, Discarded
<1> QED
  BY <1>1, <1>2, <1>4 DEF FileInv

(* No picture is encoded into a file of another size, and a segment that is*)
(* discarded was almost empty (AVIDumper.cpp:874, :910): for every number  *)
(* of slots and every limit.                                               *)
THEOREM FilesSoundCorrect == Spec => []FilesSound
<1>1. Init => FileInv
  BY FileInit
<1>2. FileInv /\ [Next]_vars => FileInv'
  BY FileStep
<1>3. FileInv => FilesSound
  <2> SUFFICES ASSUME FileInv PROVE FilesSound
    OBVIOUS
  <2>1. TypeOK /\ files \in Seq(FileType) /\ FilesInv(files)
    BY HistoryTyped DEF FileInv, DumperInv
  <2>2. FilesAreSound(files)
    BY <2>1, FilesInvSound
  <2> QED
    BY <2>1, <2>2 DEF FilesSound, OneSizePerFile, DiscardsAlmostEmpty, FilesAreSound
<1> QED
  BY <1>1, <1>2, <1>3, PTL DEF Spec

-----------------------------------------------------------------------------
(* The lead of the sound.  The first segment of a capture is alone in      *)
(* files, so what is written of it is what the encoders counted.           *)
Slack == IF pc \in {"audio", "audioStream", "write", "silence", "sound"} THEN 1 ELSE 0
FirstAlone == Mode # {} /\ avi.open /\ ~Closing /\ avi.splitCount = 0 => Len(files) = 1
LeadInv == avi.mode = Halves /\ stream["video"] /\ avi.splitCount = 0 =>
             Len(captured["audio"]) + Slack <= Len(captured["video"]) + NumSlots

LEMMA WrittenAlone ==
  ASSUME TypeOK, NEW c \in Halves
  PROVE  /\ Len(files) = 1 => Written(c) = LastHalf(c)
         /\ files = <<>> => Written(c) = <<>>
<1> DEFINE p == Parts(files, c)
<1>1. files \in Seq(FileType) /\ p \in Seq(Seq(Items)) /\ Len(p) = Len(files)
      /\ (\A i \in 1 .. Len(files) : p[i] = files[i][c]) /\ Written(c) = FlattenSeq(p)
  BY HistoryTyped, PartsType, WrittenIsFlat
<1> HIDE DEF p
<1>2. ASSUME files = <<>> PROVE Written(c) = <<>>
  <2>1. p = <<>>
    BY <1>1, <1>2
  <2> QED
    BY <1>1, <2>1, FlattenEmpty
<1>3. ASSUME Len(files) = 1 PROVE Written(c) = LastHalf(c)
  <2> DEFINE s == p[1]
             q == Append(<<>>, s)
  <2>0. Len(p) = 1 /\ 1 \in 1 .. Len(p) /\ 1 \in 1 .. Len(files)
    BY <1>1, <1>3
  <2>1. s \in Seq(Items) /\ p[1] = files[1][c]
    <3>1. s \in Seq(Items)
      BY <1>1, <2>0, ElementOfSeq
    <3>2. p[1] = files[1][c]
      BY <1>1, <2>0
    <3> QED
      BY <3>1, <3>2
  <2>2. q = p
    <3>1. q \in Seq(Seq(Items)) /\ Len(q) = 1 /\ q[1] = s
      BY <2>1
    <3> HIDE DEF q
    <3> QED
      BY <1>1, <1>3, <3>1, SeqEqual
  <2>3. FlattenSeq(q) = FlattenSeq(<<>>) \o s
    <3>1. <<>> \in Seq(Seq(Items))
      OBVIOUS
    <3> HIDE DEF s
    <3> QED
      BY <2>1, <3>1, FlattenAppend
  <2>4. FlattenSeq(<<>>) \o s = s
    BY <2>1, FlattenEmpty
  <2>5. LastHalf(c) = files[1][c]
    BY <1>3 DEF LastHalf, Last
  <2> HIDE DEF q, s
  <2>6. Written(c) = s
    BY <1>1, <2>2, <2>3, <2>4, Zenon
  <2> QED
    BY <2>1, <2>5, <2>6 DEF s
<1> QED
  BY <1>2, <1>3

(* No file of this capture: none in files either.                          *)
LEMMA NoFileYet ==
  ASSUME TypeOK, SegmentInv, Mode # {}, pc = "opened", saved.splitCount = 0
  PROVE  files = <<>>
<1> SUFFICES ASSUME files # <<>> PROVE FALSE
  OBVIOUS
<1>1. Last(files).segment <= saved.splitCount - saved.discardCount
  BY DEF SegmentInv, Opening
<1>2. Last(files) \in FileType /\ saved.discardCount \in Nat
  BY SegmentNumber, SavedTyped
<1>3. Last(files).segment \in Nat \ {0}
  BY <1>2 DEF FileType
<1> QED
  BY <1>1, <1>2, <1>3

LEMMA FirstAloneSame ==
  ASSUME FirstAlone, Len(files') = Len(files),
         Mode' # {} => Mode # {},
         avi'.open => avi.open, avi'.splitCount = 0 => avi.splitCount = 0,
         ~Closing' /\ avi'.open => ~Closing
  PROVE  FirstAlone'
<1>1. Len(files)' = Len(files)
  OBVIOUS
<1> QED
  BY <1>1 DEF FirstAlone

LEMMA LeadSame ==
  ASSUME LeadInv, avi'.mode = Halves => avi.mode = Halves,
         stream'["video"] => stream["video"], avi'.splitCount = 0 => avi.splitCount = 0,
         captured' = captured, Slack' = Slack \/ Slack' = 0, Slack \in Nat,
         Len(captured["audio"]) \in Nat, Len(captured["video"]) \in Nat, NumSlots \in Nat
  PROVE  LeadInv'
<1> DEFINE a == Len(captured["audio"])
           v == Len(captured["video"])
<1>1. Len(captured["audio"])' = a /\ Len(captured["video"])' = v /\ a \in Nat /\ v \in Nat
  OBVIOUS
<1> SUFFICES ASSUME avi'.mode = Halves, stream'["video"], avi'.splitCount = 0
             PROVE  a + Slack' <= v + NumSlots
  BY <1>1 DEF LeadInv
<1>2. a + Slack <= v + NumSlots
  BY DEF LeadInv
<1> HIDE DEF a, v
<1> QED
  BY <1>1, <1>2

LEMMA FirstAloneStep ==
  ASSUME DumperInv, SegmentInv, FirstAlone, [Next]_vars
  PROVE  FirstAlone'
<1> USE DEF queueVars, aviVars, callVars, history
<1>0. TypeOK /\ ControlInv /\ SegmentOrder /\ files \in Seq(FileType)
  BY HistoryTyped DEF DumperInv
<1>1. CASE Turn
  <2>1. UNCHANGED <<avi, files, saved>> /\ pc \in Plain /\ pc' \in Plain
    BY <1>0, <1>1, TurnEffect
  <2>2. Mode' = Mode /\ ~Closing
    BY <2>1 DEF Mode, Plain, Closing
  <2> QED
    BY <2>1, <2>2, FirstAloneSame
<1>2. CASE Calls \/ StopCapture
  <2>1. pc' = "flush"
    BY <1>0, <1>2, CallsEffect, StopEffect
  <2> QED
    BY <2>1 DEF FirstAlone, Closing
<1>3. CASE Fills
  <2>1. PICK c \in Halves, item \in Items : Fill(c, item) /\ pc \in Plain /\ pc' \in Plain
    BY <1>0, <1>3, FillsEffect, Zenon
  <2>2. avi' = avi /\ files' = files
    BY <2>1 DEF Fill
  <2>3. Mode' = Mode /\ ~Closing
    BY <2>1, <2>2 DEF Mode, Plain, Closing
  <2> QED
    BY <2>2, <2>3, FirstAloneSame
<1>4. CASE SplitAVINow
  <2>1. UNCHANGED <<files, saved, pc>>
    BY <1>4 DEF SplitAVINow
  <2>2. avi'.mode = avi.mode /\ avi'.open = avi.open /\ avi'.splitCount = avi.splitCount
    BY <1>0, <1>4, SplitNowEffect, Zenon DEF AviIs
  <2>3. Mode' = Mode /\ (Closing' <=> Closing)
    BY <2>1, <2>2 DEF Mode, Closing
  <2> QED
    BY <2>1, <2>2, <2>3, FirstAloneSame
<1>5. ASSUME NEW c \in Halves, WaitUntilTrue(c) \/ NextFrame(c) PROVE FirstAlone'
  <2>1. UNCHANGED <<files, saved, pc, avi>>
    BY <1>5 DEF WaitUntilTrue, NextFrame
  <2> QED
    BY <2>1 DEF FirstAlone, Mode, Closing
<1>6. ASSUME NEW c \in Halves, CountFrame(c) PROVE FirstAlone'
  <2>1. UNCHANGED <<files, saved, pc>>
    BY <1>6 DEF CountFrame
  <2>2. avi'.mode = avi.mode /\ avi'.open = avi.open /\ avi'.splitCount = avi.splitCount
    BY <1>0, <1>6, CountFrameEffect, Zenon DEF AviIs
  <2>3. Mode' = Mode /\ (Closing' <=> Closing)
    BY <2>1, <2>2 DEF Mode, Closing
  <2> QED
    BY <2>1, <2>2, <2>3, FirstAloneSame
<1>7. ASSUME NEW c \in Halves, OutputFrame(c) PROVE FirstAlone'
  <2>1. UNCHANGED <<saved, pc, avi>>
    BY <1>7 DEF OutputFrame
  <2>2. Len(files') = Len(files)
    <3>1. ASSUME files' # files PROVE Len(files') = Len(files)
      <4>1. PICK item \in Items : Grown(files, files', c, item) /\ files # <<>>
        BY <1>0, <1>7, <3>1, OutputGrows, Zenon
      <4> DEFINE gs == files'
      <4>2. Grown(files, gs, c, item)
        BY <4>1
      <4> HIDE DEF gs
      <4>3. Len(gs) = Len(files)
        BY <1>0, <4>1, <4>2, FilesMore
      <4> QED
        BY <4>3 DEF gs
    <3> QED
      BY <3>1
  <2>3. Mode' = Mode /\ (Closing' <=> Closing)
    BY <2>1 DEF Mode, Closing
  <2> QED
    BY <2>1, <2>2, <2>3, FirstAloneSame
<1>8. CASE Flush \/ DeleteQueue
  <2>1. pc' \in {"delete", "join"}
    BY <1>8 DEF Flush, DeleteQueue, Goto
  <2> QED
    BY <2>1 DEF FirstAlone, Closing
<1>9. CASE CloseAVI
  <2>1. ~avi'.open
    BY <1>0, <1>9, CloseEffect, Zenon DEF AviIs
  <2> QED
    BY <2>1 DEF FirstAlone
<1>10. CASE HandleAviSplitRequests
  <2>1. ~avi.open
    BY <1>0, <1>10 DEF HandleAviSplitRequests, At, ControlInv
  <2>2. ~avi'.open
    BY <1>0, <1>10, <2>1, HandleEffect, Zenon DEF AviIs
  <2> QED
    BY <2>2 DEF FirstAlone
<1>11. CASE OpenedAVIFile
  <2>1. PICK f \in FileType :
         /\ avi'.splitCount = saved.splitCount /\ avi'.mode = saved.mode
         /\ files' = Append(files, f)
    BY <1>0, <1>11, OpenedFile, Zenon DEF AviIs
  <2>2. pc = "opened" /\ pc' \in {"audioStream", "fill"}
    BY <1>11 DEF OpenedAVIFile, At, Goto
  <2>3. Mode = saved.mode /\ Mode' = saved.mode
    BY <2>1, <2>2 DEF Mode
  <2>4. ASSUME saved.mode # {}, saved.splitCount = 0 PROVE Len(files') = 1
    <3>1. files = <<>>
      BY <1>0, <2>2, <2>3, <2>4, NoFileYet
    <3> QED
      BY <2>1, <3>1
  <2> QED
    BY <2>1, <2>3, <2>4 DEF FirstAlone
<1>12. CASE CancelVideoCodec
  <2>1. ~avi.open
    BY <1>0, <1>12 DEF CancelVideoCodec, At, ControlInv
  <2>2. ~avi'.open
    BY <1>0, <1>12, <2>1, CancelVideoEffect, Zenon DEF AviIs
  <2> QED
    BY <2>2 DEF FirstAlone
<1>13. CASE CancelAudioCodec
  <2>1. UNCHANGED <<files, saved>> /\ pc = "audioStream" /\ pc' = "game"
    BY <1>13 DEF CancelAudioCodec, At, Goto
  <2>2. avi'.mode = avi.mode \ {"audio"} /\ avi'.open = avi.open
        /\ avi'.splitCount = avi.splitCount
    BY <1>0, <1>13, CancelAudioEffect, Zenon DEF AviIs
  <2>3. Mode' = Mode \ {"audio"} /\ ~Closing
    BY <2>1, <2>2 DEF Mode, Closing
  <2> QED
    BY <2>1, <2>2, <2>3, FirstAloneSame
<1>14. CASE OpenedAVIAudioStream
  <2>1. UNCHANGED <<files, saved, avi>> /\ pc \in Plain /\ pc' \in Plain
    BY <1>14 DEF OpenedAVIAudioStream, At, Goto, Plain
  <2>2. Mode' = Mode /\ ~Closing
    BY <2>1 DEF Mode, Plain, Closing
  <2> QED
    BY <2>1, <2>2, FirstAloneSame
<1>15. ASSUME NEW mode \in SUBSET Halves \ {{}}, StartCapture(mode) PROVE FirstAlone'
  <2>1. files' = IF avi.open THEN <<Last(files)>> ELSE <<>>
    BY <1>15 DEF StartCapture
  <2>2. avi'.open = avi.open
    BY <1>0, <1>15, StartEffect, Zenon DEF AviIs
  <2>3. avi.open => Len(files') = 1
    BY <2>1
  <2> QED
    BY <2>2, <2>3 DEF FirstAlone
<1>16. CASE UNCHANGED vars
  BY <1>16 DEF vars, FirstAlone, Mode, Closing
<1> QED
  BY <1>0, <1>1, <1>2, <1>3, <1>4, <1>5, <1>6, <1>7, <1>8, <1>9, <1>10, <1>11, <1>12, <1>13, <1>14,
     <1>15, <1>16, NextCases

(* From place to place within a boundary: the one that is reached before a *)
(* sound, not having passed the picture, is reached without a video stream.*)
LEMMA SlackTurn ==
  ASSUME TypeOK, ControlInv, Turn \/ OpenedAVIAudioStream, avi.mode = Halves, stream["video"]
  PROVE  Slack' = Slack \/ Slack' = 0
<1>1. ASSUME NEW size \in Sizes \cup {NoSize}, NEW hasSound \in BOOLEAN, Boundary(size, hasSound)
      PROVE  Slack' = 0
  BY <1>1 DEF Boundary, FrameBoundary, Goto, Slack
<1>2. CASE WriteAVIFrame /\ SameFile(frame.size)
  BY <1>2 DEF WriteAVIFrame, Goto, Slack
<1>3. CASE RewriteAVIFrame
  BY <1>3 DEF RewriteAVIFrame, Goto, Slack, Halves
<1>4. CASE SkipAudio
  BY <1>4 DEF SkipAudio, Goto, Slack
<1>5. CASE WriteAVIAudio
  BY <1>5 DEF WriteAVIAudio, At, Goto, Slack
<1>6. CASE CaughtUp
  BY <1>6 DEF CaughtUp, At, Goto, Slack
<1>7. CASE OpenAVIAudioStream /\ avi.open
  BY <1>7 DEF OpenAVIAudioStream, HasFile, At, Goto, Slack
<1>8. CASE OpenedAVIAudioStream
  BY <1>8 DEF OpenedAVIAudioStream, At, Goto, Slack
<1> QED
  BY <1>1, <1>2, <1>3, <1>4, <1>5, <1>6, <1>7, <1>8 DEF Turn

(* The slot to be filled is empty, so the ring is not full; what it does   *)
(* not hold is written and counted.                                        *)
LEMMA SilenceOvershoot ==
  ASSUME DumperInv, FirstAlone, MayFill("audio"), NeedsSilence, pc = "silence",
         avi.mode = Halves, stream["video"], stream["audio"], avi.splitCount = 0
  PROVE  Len(captured["audio"]) + 2 <= Len(captured["video"]) + NumSlots
<1>0. TypeOK /\ ControlInv /\ NumSlots \in Nat \ {0} /\ "audio" \in Halves /\ "video" \in Halves
  BY AviAssumption DEF DumperInv, Halves
<1>1. Len(files) = 1
  <2>1. Mode # {} /\ ~Closing /\ avi.open
    BY <1>0 DEF Mode, Closing, ControlInv, Halves
  <2> QED
    BY <2>1 DEF FirstAlone
<1>2. ASSUME NEW c \in Halves
      PROVE  /\ Len(Written(c)) = count[c] + Uncounted(c) /\ Len(Written(c)) <= Len(captured[c])
             /\ RingOf(c, Unread(c))
             /\ Unread(c) = Len(captured[c]) - Len(Written(c)) + Holding(c)
             /\ Len(captured[c]) \in Nat /\ count[c] \in Nat
             /\ Holding(c) \in {0, 1} /\ Uncounted(c) \in {0, 1} /\ Uncounted(c) <= Holding(c)
  <2>1. Written(c) = LastHalf(c)
    BY <1>0, <1>1, WrittenAlone
  <2>2. stream[c] /\ Active(c)
    BY DEF Active, Halves
  <2>3. QueueInv(c) /\ CountInv(c)
    BY DEF DumperInv, HalfInv
  <2>4. Len(Written(c)) = count[c] + Uncounted(c)
    BY <2>1, <2>2, <2>3 DEF CountInv
  <2>5. Len(Written(c)) <= Len(captured[c]) /\ RingOf(c, Unread(c))
    BY <2>2, <2>3 DEF QueueInv, Prefix
  <2> QED
    BY <1>0, <2>4, <2>5, HalfTyped DEF Unread, Holding, Uncounted
<1>3. Unread("audio") \in Nat /\ Unread("audio") < NumSlots
  <2> DEFINE n == Unread("audio")
             w == nextWrite["audio"]
             r == nextRead["audio"]
  <2>1. n \in 0 .. NumSlots /\ w = Ahead(r, n)
        /\ (\A i \in Slots : hasProcessed["audio"][i] <=> Distance(r, i) < n)
    BY <1>0, <1>2 DEF RingOf, Ring
  <2>2. w \in Slots /\ r \in Slots /\ ~hasProcessed["audio"][w]
    BY <1>0, HalfTyped DEF MayFill
  <2> HIDE DEF n, w, r
  <2>3. ~(Distance(r, w) < n)
    BY <2>1, <2>2
  <2>4. n # NumSlots
    <3>1. ASSUME n = NumSlots PROVE FALSE
      <4>1. w = r
        BY <1>0, <2>1, <2>2, <3>1 DEF Ahead, Slots
      <4>2. Distance(r, w) = 0
        BY <2>2, <4>1 DEF Distance, Slots
      <4> QED
        BY <1>0, <2>3, <3>1, <4>2
    <3> QED
      BY <3>1
  <2>5. n \in Nat /\ n < NumSlots
    BY <1>0, <2>1, <2>4
  <2> QED
    BY <2>5 DEF n
<1>4. count["audio"] < count["video"]
  BY DEF NeedsSilence
<1>5. Len(captured["audio"]) <= count["audio"] + Unread("audio")
  <2>1. /\ Len(Written("audio")) = count["audio"] + Uncounted("audio")
        /\ Unread("audio") = Len(captured["audio"]) - Len(Written("audio")) + Holding("audio")
        /\ Len(captured["audio"]) \in Nat /\ count["audio"] \in Nat
        /\ Holding("audio") \in {0, 1} /\ Uncounted("audio") \in {0, 1}
        /\ Uncounted("audio") <= Holding("audio")
    BY <1>0, <1>2, Zenon
  <2> QED
    BY <2>1
<1>6. count["video"] <= Len(captured["video"])
  BY <1>0, <1>2
<1>7. Len(captured["audio"]) \in Nat /\ Len(captured["video"]) \in Nat
      /\ count["audio"] \in Nat /\ count["video"] \in Nat
  BY <1>0, <1>2
<1>8. \A a, v, ca, cv, u, n \in Nat :
         a <= ca + u /\ cv <= v /\ ca < cv /\ u < n => a + 2 <= v + n
  OBVIOUS
<1> QED
  BY <1>0, <1>3, <1>4, <1>5, <1>6, <1>7, <1>8

LEMMA LeadFills ==
  ASSUME DumperInv, FirstAlone, LeadInv, Fills
  PROVE  LeadInv'
<1>0. TypeOK /\ ControlInv /\ NumSlots \in Nat \ {0} /\ "audio" \in Halves /\ "video" \in Halves
  BY AviAssumption DEF DumperInv, Halves
<1>1. PICK c \in Halves, item \in Items :
           /\ Fill(c, item) /\ c \in avi.mode /\ stream[c]
           /\ c = "video" => pc = "fill" /\ pc' = "audio"
           /\ c = "audio" => \/ pc = "sound" /\ pc' = "game"
                             \/ pc = "silence" /\ pc' = "silence" /\ NeedsSilence
  BY <1>0, Zenon, FillsEffect
<1>2. /\ UNCHANGED <<stream, avi>> /\ MayFill(c)
      /\ captured' = [captured EXCEPT ![c] = Append(@, item)]
  BY <1>1 DEF Fill, aviVars
<1>3. captured \in [Halves -> Seq(Items)]
  BY <1>0, HistoryTyped
<1>4. /\ captured'[c] = Append(captured[c], item)
      /\ \A d \in Halves : d # c => captured'[d] = captured[d]
  BY <1>2, <1>3
<1>5. Len(captured'[c]) = Len(captured[c]) + 1
      /\ (\A d \in Halves : Len(captured[d]) \in Nat)
      /\ (\A d \in Halves : d # c => Len(captured'[d]) = Len(captured[d]))
  <2>1. Len(captured'[c]) = Len(captured[c]) + 1
    BY <1>3, <1>4
  <2> QED
    BY <1>3, <1>4, <2>1
<1> SUFFICES ASSUME avi.mode = Halves, stream["video"], avi.splitCount = 0
             PROVE  Len(captured'["audio"]) + Slack' <= Len(captured'["video"]) + NumSlots
  BY <1>2 DEF LeadInv
<1>6. Len(captured["audio"]) + Slack <= Len(captured["video"]) + NumSlots
  BY DEF LeadInv
<1>7. CASE c = "video"
  <2>1. Slack = 0 /\ Slack' = 1
    BY <1>1, <1>7 DEF Slack
  <2>2. Len(captured'["audio"]) = Len(captured["audio"])
    BY <1>0, <1>5, <1>7
  <2>3. Len(captured'["video"]) = Len(captured["video"]) + 1
    BY <1>5, <1>7
  <2> QED
    BY <1>0, <1>5, <1>6, <2>1, <2>2, <2>3
<1>8. CASE c = "audio"
  <2>1. Len(captured'["video"]) = Len(captured["video"])
    BY <1>0, <1>5, <1>8
  <2>2. Len(captured'["audio"]) = Len(captured["audio"]) + 1
    BY <1>5, <1>8
  <2>3. CASE pc = "sound" /\ pc' = "game"
    <3>1. Slack = 1 /\ Slack' = 0
      BY <2>3 DEF Slack
    <3> QED
      BY <1>0, <1>5, <1>6, <2>1, <2>2, <3>1
  <2>4. CASE pc = "silence" /\ pc' = "silence" /\ NeedsSilence
    <3>1. Len(captured["audio"]) + 2 <= Len(captured["video"]) + NumSlots
      BY <1>1, <1>2, <1>8, <2>4, SilenceOvershoot
    <3>2. Slack' = 1
      BY <2>4 DEF Slack
    <3> QED
      BY <1>0, <1>5, <2>1, <2>2, <3>1, <3>2
  <2> QED
    BY <1>1, <1>8, <2>3, <2>4
<1> QED
  BY <1>7, <1>8 DEF Halves

LEMMA LeadStep ==
  ASSUME DumperInv, SegmentInv, FirstAlone, LeadInv, [Next]_vars
  PROVE  LeadInv'
<1> USE DEF queueVars, aviVars, callVars, history
<1>0. TypeOK /\ ControlInv /\ SegmentOrder /\ files \in Seq(FileType)
  BY HistoryTyped DEF DumperInv
<1>t. /\ Len(captured["audio"]) \in Nat /\ Len(captured["video"]) \in Nat
      /\ NumSlots \in Nat \ {0} /\ Slack \in Nat
  BY <1>0, HalfTyped, AviAssumption DEF Halves, Slack
<1>1. CASE Turn \/ OpenedAVIAudioStream
  <2>1. UNCHANGED <<avi, captured>> /\ stream'["video"] = stream["video"]
    <3>1. CASE Turn
      BY <1>0, <3>1, TurnEffect
    <3>2. CASE OpenedAVIAudioStream
      <4>1. stream' = [stream EXCEPT !["audio"] = TRUE] /\ UNCHANGED <<avi, captured>>
        BY <3>2 DEF OpenedAVIAudioStream
      <4>2. stream \in [Halves -> BOOLEAN] /\ "video" \in Halves /\ "video" # "audio"
        BY <1>0, QueueTyped DEF Halves
      <4> QED
        BY <4>1, <4>2
    <3> QED
      BY <1>1, <3>1, <3>2
  <2>2. CASE avi.mode = Halves /\ stream["video"]
    BY <1>0, <1>1, <1>t, <2>1, <2>2, SlackTurn, LeadSame
  <2>3. CASE ~(avi.mode = Halves /\ stream["video"])
    BY <2>1, <2>3 DEF LeadInv
  <2> QED
    BY <2>2, <2>3
<1>2. CASE Calls
  <2>1. /\ UNCHANGED <<stream, captured>> /\ avi'.mode = avi.mode /\ pc' = "flush"
    BY <1>0, <1>2, CallsEffect
  <2>2. stream["video"] /\ avi'.splitCount = 0 => avi.splitCount = 0
    <3>1. CASE WritesToNewFile
      <4>1. PICK split \in Nat :
              /\ split = IF avi.open THEN avi.splitCount + 1 ELSE avi.splitCount
              /\ avi'.splitCount = split
        BY <1>0, <3>1, NewFileEffect, Zenon DEF AviIs
      <4>2. stream["video"] => avi.open /\ avi.splitCount \in Nat
        BY <1>0, HistoryTyped, AviTyped, AviFields DEF Halves
      <4> QED
        BY <4>1, <4>2
    <3>2. CASE SoundWithoutFile
      BY <1>0, <3>2, SoundFileEffect, Zenon DEF AviIs
    <3>3. ASSUME NEW size \in Sizes \cup {NoSize}, NEW hasSound \in BOOLEAN, Splits(size, hasSound)
          PROVE  avi'.splitCount = avi.splitCount
      BY <1>0, <3>3, SplitsEffect, Zenon DEF AviIs
    <3> QED
      BY <1>2, <3>1, <3>2, <3>3 DEF Calls
  <2>3. Slack' = 0
    BY <2>1 DEF Slack
  <2>4. CASE stream["video"]
    BY <1>t, <2>1, <2>2, <2>3, <2>4, LeadSame
  <2>5. CASE ~stream["video"]
    BY <2>1, <2>5 DEF LeadInv
  <2> QED
    BY <2>4, <2>5
<1>3. CASE Fills
  BY <1>3, LeadFills
<1>4. CASE StopCapture
  <2>1. avi'.mode = {}
    BY <1>0, <1>4, StopEffect, Zenon DEF AviIs
  <2> QED
    BY <2>1 DEF LeadInv, Halves
<1>5. CASE SplitAVINow
  <2>1. UNCHANGED <<stream, captured, pc>>
    BY <1>5 DEF SplitAVINow
  <2>2. avi'.mode = avi.mode /\ avi'.splitCount = avi.splitCount
    BY <1>0, <1>5, SplitNowEffect, Zenon DEF AviIs
  <2> QED
    BY <2>1, <2>2 DEF LeadInv, Slack
<1>6. ASSUME NEW c \in Halves, WaitUntilTrue(c) \/ OutputFrame(c) \/ NextFrame(c) PROVE LeadInv'
  <2>1. UNCHANGED <<stream, captured, pc, avi>>
    BY <1>6 DEF WaitUntilTrue, OutputFrame, NextFrame
  <2> QED
    BY <2>1 DEF LeadInv, Slack
<1>7. ASSUME NEW c \in Halves, CountFrame(c) PROVE LeadInv'
  <2>1. UNCHANGED <<stream, captured, pc>>
    BY <1>7 DEF CountFrame
  <2>2. avi'.mode = avi.mode /\ avi'.splitCount = avi.splitCount
    BY <1>0, <1>7, CountFrameEffect, Zenon DEF AviIs
  <2> QED
    BY <2>1, <2>2 DEF LeadInv, Slack
<1>8. CASE Flush \/ DeleteQueue
  <2>1. UNCHANGED <<stream, captured, avi>> /\ pc' \in {"delete", "join"}
    BY <1>8 DEF Flush, DeleteQueue, Goto
  <2>2. Slack' = 0
    BY <2>1 DEF Slack
  <2> QED
    BY <1>t, <2>1, <2>2, LeadSame
<1>9. CASE CloseAVI
  <2>1. avi'.mode = {}
    BY <1>0, <1>9, CloseEffect, Zenon DEF AviIs
  <2> QED
    BY <2>1 DEF LeadInv, Halves
<1>10. CASE HandleAviSplitRequests \/ CancelVideoCodec
  <2>1. pc \in {"split", "opened"} /\ stream' = stream
    BY <1>10 DEF HandleAviSplitRequests, CancelVideoCodec, At
  <2>2. ~stream["video"]
    BY <1>0, <2>1, NewQueueInv DEF DumperInv, Halves
  <2> QED
    BY <2>1, <2>2 DEF LeadInv
<1>11. CASE OpenedAVIFile
  <2>1. /\ avi'.splitCount = saved.splitCount /\ avi'.mode = saved.mode
    BY <1>0, <1>11, OpenedFile, Zenon DEF AviIs
  <2>2. captured' = captured /\ pc = "opened"
    BY <1>11 DEF OpenedAVIFile, At
  <2>3. ASSUME saved.mode = Halves, saved.splitCount = 0
        PROVE  Len(captured["audio"]) = 0 /\ Len(captured["video"]) = 0
    <3>1. files = <<>>
      BY <1>0, <2>2, <2>3, NoFileYet DEF Mode, Halves
    <3>2. ASSUME NEW c \in Halves PROVE captured[c] = <<>>
      <4>1. Written(c) = <<>>
        BY <1>0, <3>1, WrittenAlone
      <4>2. Written(c) = captured[c]
        BY <1>0, <2>2, <2>3, NewQueueInv DEF DumperInv
      <4> QED
        BY <4>1, <4>2
    <3> QED
      BY <3>2 DEF Halves
  <2>4. Slack' \in {0, 1}
    BY DEF Slack
  <2> SUFFICES ASSUME saved.mode = Halves, saved.splitCount = 0
               PROVE  Len(captured["audio"]) + Slack' <= Len(captured["video"]) + NumSlots
    BY <2>1, <2>2 DEF LeadInv
  <2> QED
    BY <1>t, <2>3, <2>4
<1>12. CASE CancelAudioCodec
  <2>1. avi'.mode = avi.mode \ {"audio"}
    BY <1>0, <1>12, CancelAudioEffect, Zenon DEF AviIs
  <2> QED
    BY <2>1 DEF LeadInv, Halves
<1>13. ASSUME NEW mode \in SUBSET Halves \ {{}}, StartCapture(mode) PROVE LeadInv'
  <2>1. pc = "game" /\ avi.mode = {} /\ stream' = stream
    BY <1>13 DEF StartCapture, At
  <2>2. ~stream["video"]
    BY <1>0, <2>1 DEF ControlInv, Stopping, Closing, Halves
  <2> QED
    BY <2>1, <2>2 DEF LeadInv
<1>14. CASE UNCHANGED vars
  BY <1>14 DEF vars, LeadInv, Slack
<1> QED
  BY <1>0, <1>1, <1>2, <1>3, <1>4, <1>5, <1>6, <1>7, <1>8, <1>9, <1>10, <1>11, <1>12, <1>13, <1>14,
     NextCases

(* The sound stays within a ring ahead of the pictures (AVIDumper.cpp:1225)*)
(* while both are written to the first segment: what the loop that fills in*)
(* silence overshoots by is what the ring holds, for sounds that last and  *)
(* count one frame each.                                                   *)
THEOREM SoundLeadCorrect == Spec => []SoundLeadBounded
<1> DEFINE Inv == DumperInv /\ SegmentInv /\ FirstAlone /\ LeadInv
<1>1. Init => Inv
  <2>1. Init => DumperInv /\ SegmentInv
    BY FileInit DEF FileInv
  <2>2. Init => FirstAlone /\ LeadInv
    BY DEF Init, FirstAlone, LeadInv, Halves
  <2> QED
    BY <2>1, <2>2
<1>2. Inv /\ [Next]_vars => Inv'
  <2> SUFFICES ASSUME Inv, [Next]_vars PROVE Inv'
    OBVIOUS
  <2>1. DumperInv' /\ SegmentInv'
    BY DumperStep, SegmentStep
  <2>2. FirstAlone' /\ LeadInv'
    BY FirstAloneStep, LeadStep
  <2> QED
    BY <2>1, <2>2
<1>3. Inv => SoundLeadBounded
  <2> SUFFICES ASSUME Inv, avi.mode = Halves, stream["video"], avi.splitCount = 0
               PROVE  Len(captured["audio"]) <= Len(captured["video"]) + NumSlots
    BY DEF SoundLeadBounded
  <2>1. Len(captured["audio"]) + Slack <= Len(captured["video"]) + NumSlots /\ Slack \in {0, 1}
    BY DEF LeadInv, Slack
  <2>2. Len(captured["audio"]) \in Nat /\ Len(captured["video"]) \in Nat /\ NumSlots \in Nat
    BY HalfTyped, AviAssumption DEF DumperInv, Halves
  <2> QED
    BY <2>1, <2>2
<1> QED
  <2> HIDE DEF Inv
  <2> QED
    BY <1>1, <1>2, <1>3, PTL DEF Spec
=============================================================================
