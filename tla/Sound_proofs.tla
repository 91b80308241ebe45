---------------------------- MODULE Sound_proofs ----------------------------
(***************************************************************************)
(* Proofs about Sound for every choice of its constants.                   *)
(***************************************************************************)
EXTENDS Sound, SequenceTheorems, TLAPS

-----------------------------------------------------------------------------
(* Arithmetic.                                                             *)

(* Division with remainder.                                                *)
LEMMA Division ==
  ASSUME NEW n \in Nat, NEW d \in Nat \ {0}
  PROVE  /\ n \div d \in Nat
         /\ n % d \in 0 .. d - 1
         /\ n = ((n \div d) * d) + (n % d)
  OBVIOUS

(* Products grow with their factors.                                       *)
LEMMA Monotone ==
  ASSUME NEW p \in Nat, NEW q \in Nat, NEW d \in Nat, p <= q
  PROVE  p * d <= q * d
<1>1. PICK k \in Nat : q = p + k
  OBVIOUS
<1>2. q * d = (p * d) + (k * d)
  BY <1>1
<1>3. p * d \in Nat /\ k * d \in Nat
  OBVIOUS
<1> QED
  BY <1>2, <1>3

(* Quotient and remainder are the only ones that fit.                      *)
LEMMA DivisionUnique ==
  ASSUME NEW n \in Nat, NEW d \in Nat \ {0}, NEW q \in Nat, NEW r \in 0 .. d - 1,
         n = (q * d) + r
  PROVE  n \div d = q /\ n % d = r
<1> DEFINE p == n \div d
           s == n % d
<1>1. p \in Nat /\ s \in 0 .. d - 1 /\ n = (p * d) + s
  BY Division
<1> HIDE DEF p, s
<1>p. p * d \in Nat /\ q * d \in Nat
  BY <1>1
<1>2. ~(p < q)
  <2>1. SUFFICES ASSUME p < q PROVE FALSE
    OBVIOUS
  <2>2. (p + 1) * d <= q * d
    BY <1>1, <2>1, Monotone
  <2>3. (p + 1) * d = (p * d) + d
    BY <1>1
  <2> QED
    BY <1>1, <1>p, <2>2, <2>3
<1>3. ~(q < p)
  <2>1. SUFFICES ASSUME q < p PROVE FALSE
    OBVIOUS
  <2>2. (q + 1) * d <= p * d
    BY <1>1, <2>1, Monotone
  <2>3. (q + 1) * d = (q * d) + d
    OBVIOUS
  <2> QED
    BY <1>1, <1>p, <2>2, <2>3
<1>4. p = q
  BY <1>1, <1>2, <1>3
<1> QED
  BY <1>1, <1>4, <1>p DEF p, s

(* Sums and differences of whole samples are whole samples.                *)
LEMMA WholeSum ==
  ASSUME NEW m \in Nat, NEW n \in Nat, NEW d \in Nat \ {0}, m % d = 0, n % d = 0
  PROVE  (m + n) % d = 0 /\ (n <= m => (m - n) % d = 0)
<1> DEFINE p == m \div d
           q == n \div d
<1>1. p \in Nat /\ m = p * d
  BY Division
<1>2. q \in Nat /\ n = q * d
  BY Division
<1> HIDE DEF p, q
<1>3. m + n = ((p + q) * d) + 0
  BY <1>1, <1>2
<1>4. (m + n) % d = 0
  BY <1>1, <1>2, <1>3, DivisionUnique
<1>5. ASSUME n <= m PROVE (m - n) % d = 0
  <2>1. CASE q <= p
    <3>1. m - n = ((p - q) * d) + 0 /\ p - q \in Nat /\ m - n \in Nat
      BY <1>1, <1>2, <1>5, <2>1
    <3> QED
      BY <3>1, DivisionUnique
  <2>2. CASE p < q
    <3>1. p * d <= q * d
      BY <1>1, <1>2, <2>2, Monotone
    <3>2. m - n = 0
      BY <1>1, <1>2, <1>5, <3>1
    <3>3. m - n = (0 * d) + 0
      BY <3>2
    <3> QED
      BY <3>2, <3>3, DivisionUnique
  <2> QED
    BY <1>1, <1>2, <2>1, <2>2
<1> QED
  BY <1>4, <1>5

(* The sample that holds a byte lies inside a range of whole samples.      *)
LEMMA SampleInside ==
  ASSUME NEW m \in Nat, NEW n \in Nat, NEW d \in Nat \ {0}, n % d = 0, m < n
  PROVE  /\ m - (m % d) \in Nat
         /\ m - (m % d) + d <= n
<1> DEFINE p == m \div d
           r == m % d
           q == n \div d
<1>1. p \in Nat /\ r \in 0 .. d - 1 /\ m = (p * d) + r
  BY Division
<1>2. q \in Nat /\ n = q * d
  BY Division
<1> HIDE DEF p, q, r
<1>p. p * d \in Nat
  BY <1>1
<1>3. p < q
  <2>1. SUFFICES ASSUME q <= p PROVE FALSE
    BY <1>1, <1>2
  <2>2. q * d <= p * d
    BY <1>1, <1>2, <2>1, Monotone
  <2> QED
    BY <1>1, <1>2, <1>p, <2>2
<1>4. (p + 1) * d <= q * d
  BY <1>1, <1>2, <1>3, Monotone
<1>5. (p + 1) * d = (p * d) + d
  BY <1>1
<1>6. m - r = p * d
  BY <1>1, <1>p
<1> QED
  BY <1>2, <1>4, <1>5, <1>6, <1>p DEF r

-----------------------------------------------------------------------------
(* The data: who holds which critical section, what lockBuf holds while it *)
(* is locked, and that only an unlock in progress leaves copies of an older*)
(* sound behind.                                                           *)
Owners ==
  \A u \in Users :
    /\ user[u] \in {"lock", "unlock"} <=> bufferCS = u
    /\ user[u] \in {"locked", "written", "unlock"} <=> lockBufferCS = u
LockBufOK ==
  \A u \in Users : user[u] \in {"locked", "written"} =>
    /\ lockBuf \in [0 .. Size - 1 -> Nat]
    /\ \A q \in 0 .. Size - 1 : lockBuf[q] = IF q \in written THEN version ELSE sound[q]
    /\ user[u] = "locked" => written = {}
OriginalOK == \A q \in 0 .. Size - 1 : buffer[q] = sound[q]
CopiesOK ==
  (\A u \in Users : user[u] # "unlock") =>
    \A q \in 0 .. allocated - 1 : buffer[q] = sound[q % Size]
DataInv == DataTyped /\ Owners /\ LockBufOK /\ OriginalOK /\ CopiesOK

(* An offset modulo the size lies in the buffer.                           *)
LEMMA OffsetInside ==
  /\ Size \in Nat \ {0} /\ Block \in Nat \ {0}
  /\ \A n \in Nat : n % Size \in 0 .. Size - 1
  /\ \A n \in 0 .. Size - 1 : n % Size = n
<1>1. Size \in Nat \ {0} /\ Block \in Nat \ {0}
  BY SizesAssumption
<1>2. ASSUME NEW n \in Nat PROVE n % Size \in 0 .. Size - 1
  BY <1>1, Division
<1>3. ASSUME NEW n \in 0 .. Size - 1 PROVE n % Size = n
  <2>1. n = (0 * Size) + n /\ n \in Nat
    BY <1>1
  <2> QED
    BY <1>1, <2>1, DivisionUnique
<1> QED
  BY <1>1, <1>2, <1>3

(* The size and the sample as numbers.                                     *)
LEMMA Sizes ==
  Size \in Nat \ {0} /\ Block \in Nat \ {0} /\ 0 \in 0 .. Size - 1
  BY SizesAssumption

(* The initial data.                                                       *)
LEMMA DataInit ==
  Init => DataInv
<1> SUFFICES ASSUME Init PROVE DataInv
  OBVIOUS
<1> USE DEF Init
<1>1. DataTyped
  BY SizesAssumption DEF DataTyped
<1>2. Owners
  BY NobodyAssumption DEF Owners
<1>3. LockBufOK
  BY DEF LockBufOK
<1>4. OriginalOK
  BY DEF OriginalOK
<1>5. CopiesOK
  BY OffsetInside DEF CopiesOK
<1> QED
  BY <1>1, <1>2, <1>3, <1>4, <1>5 DEF DataInv

(* Data that nobody touches stay as they are.                              *)
LEMMA DataKept ==
  ASSUME DataInv, UNCHANGED <<dataVars, user>>
  PROVE  DataInv'
  BY DEF DataInv, DataTyped, Owners, LockBufOK, OriginalOK, CopiesOK, dataVars

(* Waiting for m_lockBufferCS changes no data.                             *)
LEMMA LockData ==
  ASSUME DataInv, NEW u \in Users, Lock(u)
  PROVE  DataInv'
<1> USE DEF DataInv, Lock, Goes
<1>1. DataTyped'
  BY DEF DataTyped
<1>2. Owners'
  BY NobodyAssumption DEF Owners, DataTyped
<1>3. LockBufOK'
  BY DEF LockBufOK, DataTyped
<1>4. OriginalOK' /\ CopiesOK'
  BY DEF OriginalOK, CopiesOK, DataTyped
<1> QED
  BY <1>1, <1>2, <1>3, <1>4

(* The copy a locker gets is the sound.                                    *)
LEMMA LockReturnsData ==
  ASSUME DataInv, NEW u \in Users, NEW offset \in Nat, NEW bytes \in Nat,
         LockReturns(u, offset, bytes)
  PROVE  DataInv'
<1> USE DEF DataInv, LockReturns, Goes, LeavesBuffer
<1>1. lockBuf' \in [0 .. Size - 1 -> Nat]
  BY SizesAssumption DEF Copied, DataTyped
<1>2. DataTyped'
  BY <1>1 DEF DataTyped
<1>3. Owners'
  BY NobodyAssumption DEF Owners, DataTyped
<1>4. \A q \in 0 .. Size - 1 : lockBuf'[q] = sound[q]
  BY DEF Copied, OriginalOK
<1>5. LockBufOK'
  BY <1>1, <1>4 DEF LockBufOK
<1>6. OriginalOK' /\ CopiesOK'
  BY DEF OriginalOK, CopiesOK, DataTyped
<1> QED
  BY <1>2, <1>3, <1>5, <1>6

(* The locker writes into its copy.                                        *)
LEMMA WriteData ==
  ASSUME DataInv, NEW u \in Users, NEW bytes \in SUBSET (0 .. Size - 1), Write(u, bytes)
  PROVE  DataInv'
<1> USE DEF DataInv, Write, Goes
<1>1. lockBuf \in [0 .. Size - 1 -> Nat]
  BY DEF LockBufOK
<1>2. \A v \in Users : user'[v] \in {"locked", "written"} => v = u
  BY DEF Owners, DataTyped
<1>3. lockBuf' \in [0 .. Size - 1 -> Nat]
  BY <1>1 DEF DataTyped
<1>4. DataTyped'
  BY <1>3 DEF DataTyped
<1>5. Owners'
  BY DEF Owners, DataTyped
<1>6. ASSUME NEW q \in 0 .. Size - 1
      PROVE  lockBuf'[q] = IF q \in written' THEN version' ELSE sound'[q]
  <2>1. written = {}
    BY DEF LockBufOK
  <2> QED
    BY <2>1 DEF LockBufOK
<1>7. LockBufOK'
  <2>1. user'[u] = "written"
    BY DEF DataTyped
  <2> QED
    BY <1>2, <1>3, <1>6, <2>1 DEF LockBufOK
<1>8. OriginalOK' /\ CopiesOK'
  BY DEF OriginalOK, CopiesOK, DataTyped
<1> QED
  BY <1>4, <1>5, <1>7, <1>8

(* What an unlock copies back is the sound, as the game sees it now.       *)
LEMMA UnlockData ==
  ASSUME DataInv, NEW u \in Users, NEW bytes \in SUBSET (0 .. Size - 1), Unlock(u, bytes),
         written \subseteq bytes
  PROVE  DataInv'
<1> USE DEF DataInv, Unlock, Goes
<1>1. lockBuf \in [0 .. Size - 1 -> Nat]
  BY DEF LockBufOK
<1>2. \A q \in 0 .. Size - 1 : lockBuf[q] = IF q \in written THEN version ELSE sound[q]
  BY DEF LockBufOK
<1>3. DataTyped'
  BY <1>1 DEF DataTyped
<1>4. Owners'
  BY NobodyAssumption DEF Owners, DataTyped
<1>5. LockBufOK'
  BY <1>4 DEF LockBufOK, Owners, DataTyped
<1>6. OriginalOK'
  BY <1>2, SizesAssumption DEF OriginalOK, DataTyped
<1>7. CopiesOK'
  <2>1. user'[u] = "unlock"
    BY DEF DataTyped
  <2> QED
    BY <2>1 DEF CopiesOK
<1> QED
  BY <1>3, <1>4, <1>5, <1>6, <1>7

(* Copying the sound over the rest of the buffer.                          *)
LEMMA ReplicatedSound ==
  ASSUME DataTyped, OriginalOK, NEW length \in Nat, length >= Size
  PROVE  /\ Replicated(buffer, length) \in [0 .. length - 1 -> Nat]
         /\ \A q \in 0 .. length - 1 : Replicated(buffer, length)[q] = sound[q % Size]
         /\ \A q \in 0 .. Size - 1 : Replicated(buffer, length)[q] = sound[q]
<1>1. ASSUME NEW q \in 0 .. length - 1
      PROVE  /\ Replicated(buffer, length)[q] = sound[q % Size]
             /\ sound[q % Size] \in Nat
  <2>1. q % Size \in 0 .. Size - 1
    BY <1>1, OffsetInside
  <2> QED
    BY <2>1 DEF Replicated, OriginalOK, DataTyped
<1>2. Replicated(buffer, length) \in [0 .. length - 1 -> Nat]
  BY <1>1 DEF Replicated
<1>3. \A q \in 0 .. Size - 1 : q \in 0 .. length - 1 /\ q % Size = q
  BY OffsetInside
<1> QED
  BY <1>1, <1>2, <1>3

LEMMA UnlockReturnsData ==
  ASSUME DataInv, NEW u \in Users, UnlockReturns(u)
  PROVE  DataInv'
<1> USE DEF DataInv, UnlockReturns, Goes
<1>1. /\ buffer' \in [0 .. allocated - 1 -> Nat]
      /\ \A q \in 0 .. allocated - 1 : buffer'[q] = sound[q % Size]
      /\ \A q \in 0 .. Size - 1 : buffer'[q] = sound[q]
  BY ReplicatedSound DEF DataTyped
<1>2. DataTyped'
  <2>1. numRemaining' \in Nat /\ (lockBuf' = <<>> \/ lockBuf' \in [0 .. Size - 1 -> Nat])
    BY DEF DataTyped
  <2>2. locked' \in [offset : Nat, bytes : Nat]
    OBVIOUS
  <2> QED
    BY <1>1, <2>1, <2>2 DEF DataTyped
<1>3. Owners'
  BY NobodyAssumption DEF Owners, DataTyped
<1>4. LockBufOK'
  BY <1>3, NobodyAssumption DEF LockBufOK, Owners
<1>5. OriginalOK' /\ CopiesOK'
  BY <1>1 DEF OriginalOK, CopiesOK
<1> QED
  BY <1>2, <1>3, <1>4, <1>5

(* Growing copies the sound, and nobody is in the middle of an unlock.     *)
LEMMA GrowData ==
  ASSUME DataInv, Grow, frame.base \in Nat, frame.bytes \in Nat, Unwrapped + Block >= Size
  PROVE  DataInv'
<1> USE DEF DataInv, Grow
<1>1. Unwrapped + Block \in Nat
  BY OffsetInside DEF Unwrapped
<1>2. /\ buffer' \in [0 .. allocated' - 1 -> Nat]
      /\ \A q \in 0 .. allocated' - 1 : buffer'[q] = sound[q % Size]
      /\ \A q \in 0 .. Size - 1 : buffer'[q] = sound[q]
  BY <1>1, ReplicatedSound
<1>3. DataTyped'
  BY <1>1, <1>2 DEF DataTyped
<1>4. Owners' /\ LockBufOK'
  BY DEF Owners, LockBufOK
<1>5. OriginalOK' /\ CopiesOK'
  BY <1>2 DEF OriginalOK, CopiesOK
<1> QED
  BY <1>3, <1>4, <1>5

(* Play moves its thread only.                                             *)
LEMMA PlayData ==
  ASSUME DataInv, NEW u \in Users, UNCHANGED dataVars,
         \/ user[u] = "game" /\ Goes(u, "play")
         \/ user[u] = "play" /\ Goes(u, "game")
  PROVE  DataInv'
<1> USE DEF DataInv, Goes, dataVars
<1>1. DataTyped'
  BY DEF DataTyped
<1>2. Owners'
  BY DEF Owners, DataTyped
<1>3. LockBufOK'
  BY DEF LockBufOK, DataTyped
<1>4. OriginalOK' /\ CopiesOK'
  BY DEF OriginalOK, CopiesOK, DataTyped
<1> QED
  BY <1>1, <1>2, <1>3, <1>4

-----------------------------------------------------------------------------
(* The arithmetic of one turn of the mixing loop: whole bytes and rest ... *)
LEMMA OffsetTurn ==
  ASSUME NEW o \in Nat \ {0}, NEW i \in Nat, NEW size \in Nat, NEW block \in Nat,
         NEW offset \in Nat, NEW rest \in Nat, (offset * o) + rest = i * size,
         NEW R, R = rest + (size * block)
  PROVE  /\ offset + (R \div o) \in Nat
         /\ R % o \in 0 .. o - 1
         /\ ((offset + (R \div o)) * o) + (R % o) = (i + block) * size
<1> DEFINE a == R \div o
           r == R % o
<1>1. R \in Nat /\ size * block \in Nat /\ offset * o \in Nat /\ i * size \in Nat
  OBVIOUS
<1>2. a \in Nat /\ r \in 0 .. o - 1 /\ R = (a * o) + r
  BY <1>1, Division
<1>3. R = rest + (size * block)
  OBVIOUS
<1> HIDE DEF a, r
<1>4. (offset + a) * o = (offset * o) + (a * o)
  BY <1>2
<1>5. (i + block) * size = (i * size) + (size * block)
  OBVIOUS
<1>6. a * o \in Nat
  BY <1>2
<1>7. ((offset + a) * o) + r = (i + block) * size
  BY <1>1, <1>2, <1>3, <1>4, <1>5, <1>6
<1>8. offset + a \in Nat
  BY <1>2
<1> QED
  BY <1>2, <1>7, <1>8 DEF a, r

(* ... 1024ths of a byte with their rest, of which at most one is carried, *)
LEMMA ErrorTurn ==
  ASSUME NEW o \in Nat \ {0}, NEW N \in Nat, NEW error \in 0 .. o - 1,
         NEW c \in {0, 1}, c = 1 <=> error + (N % o) >= o
  PROVE  /\ (error + (N % o)) - (c * o) \in 0 .. o - 1
         /\ ((c + (N \div o)) * o) + ((error + (N % o)) - (c * o)) = error + N
<1> DEFINE a == N \div o
           b == N % o
<1>1. a \in Nat /\ b \in 0 .. o - 1 /\ N = (a * o) + b
  BY Division
<1> HIDE DEF a, b
<1>2. (error + b) - (c * o) \in 0 .. o - 1
  <2>1. CASE c = 1
    <3>1. c * o = o /\ error + b >= o
      BY <2>1 DEF b
    <3> QED
      BY <1>1, <3>1
  <2>2. CASE c = 0
    <3>1. c * o = 0 /\ ~(error + b >= o)
      BY <2>2 DEF b
    <3> QED
      BY <1>1, <3>1
  <2> QED
    BY <2>1, <2>2
<1>3. (c + a) * o = (c * o) + (a * o)
  BY <1>1
<1>4. c * o \in Nat /\ a * o \in Nat
  BY <1>1
<1>5. ((c + a) * o) + ((error + b) - (c * o)) = error + N
  BY <1>1, <1>3, <1>4
<1> QED
  BY <1>2, <1>5 DEF a, b

(* ... and the whole bytes that 1024 of them make.                         *)
LEMMA Thousandths ==
  ASSUME NEW f \in Nat
  PROVE  /\ f \div 1024 \in Nat
         /\ f % 1024 \in Nat /\ f % 1024 < 1024
         /\ f = ((f \div 1024) * 1024) + (f % 1024)
  OBVIOUS

-----------------------------------------------------------------------------
(* The frame: the way of the frame fits its bytes, and for a game that     *)
(* sizes and seeks by whole samples bases and cursors are whole samples    *)
(* wherever a base is taken from them.                                     *)
Whole(n) == WholeSamples => n % Block = 0
FrameOK ==
  /\ Whole(frame.base) /\ Whole(frame.bytes) /\ Whole(frame.prev)
  /\ ~At("restore") => Whole(playCursor)
  /\ frame.way = "within" /\ ~At("idle") /\ ~At("end") => Unwrapped < Size
  /\ frame.way # "within" \/ At("end") => Unwrapped >= Size
  /\ At("grow") => frame.way = "wrap"
  /\ At("mix") /\ frame.way = "wrap" => Unwrapped + Block <= allocated

(* The mixing loop: its range lies in the buffer, and its counters add up. *)
MixRange ==
  /\ mix.outSize > 0 /\ mix.size > 0 /\ Whole(mix.size)
  /\ mix.pos + mix.size + (IF mix.last THEN 0 ELSE Block) <= allocated
MixCounters ==
  /\ mix.offsetRemainder < mix.outSize
  /\ (mix.inOffset * mix.outSize) + mix.offsetRemainder = mix.i * mix.size
  /\ mix.fracError < mix.outSize
  /\ \E k \in Nat :
       (((k * 1024) + mix.frac) * mix.outSize) + mix.fracError = (mix.i * mix.size) * 1024
MixOK == At("sample") => MixRange /\ MixCounters

FrameInv == CursorsTyped /\ FrameOK /\ MixOK

(* The rest of whole samples over the size of the buffer.                  *)
LEMMA WholeRest ==
  ASSUME NEW n \in Nat, n % Block = 0, Size % Block = 0
  PROVE  (n % Size) % Block = 0
<1> DEFINE p == n \div Size
           q == Size \div Block
           r == n % Size
<1>1. p \in Nat /\ r \in 0 .. Size - 1 /\ n = (p * Size) + r
  BY OffsetInside, Division
<1>2. q \in Nat /\ Size = q * Block
  BY OffsetInside, Division
<1> HIDE DEF p, q, r
<1>3. p * Size = ((p * q) * Block) + 0
  BY <1>1, <1>2, OffsetInside
<1>4. p * Size \in Nat /\ p * q \in Nat
  BY <1>1, <1>2, OffsetInside
<1>5. 0 \in 0 .. Block - 1
  BY OffsetInside
<1>6. (p * Size) % Block = 0
  <2> DEFINE k == p * q
             m == p * Size
  <2>1. m \in Nat /\ k \in Nat /\ m = (k * Block) + 0
    BY <1>3, <1>4
  <2> HIDE DEF k, m
  <2>2. m % Block = 0
    BY <1>5, <2>1, OffsetInside, DivisionUnique
  <2> QED
    BY <2>2 DEF m
<1>7. n - (p * Size) = r /\ p * Size <= n
  BY <1>1, <1>4
<1>8. (n - (p * Size)) % Block = 0
  BY <1>4, <1>6, <1>7, OffsetInside, WholeSum
<1> QED
  BY <1>7, <1>8 DEF r

(* What is whole.                                                          *)
LEMMA WholeThings ==
  /\ Whole(0) /\ Whole(Size)
  /\ \A n \in FrameBytes : Whole(n)
  /\ \A n \in Seeks : Whole(n)
  BY OffsetInside, BytesAssumption DEF Whole, WholeSamples

LEMMA WholeAdded ==
  ASSUME NEW m \in Nat, NEW n \in Nat, Whole(m), Whole(n)
  PROVE  /\ Whole(m + n)
         /\ n <= m => Whole(m - n)
         /\ Whole(n % Size)
<1>1. CASE WholeSamples
  <2>1. m % Block = 0 /\ n % Block = 0 /\ Size % Block = 0
    BY <1>1 DEF Whole, WholeSamples
  <2>2. (m + n) % Block = 0
    BY <2>1, OffsetInside, WholeSum
  <2>3. n <= m => (m - n) % Block = 0
    BY <2>1, OffsetInside, WholeSum
  <2>4. (n % Size) % Block = 0
    BY <2>1, WholeRest
  <2> QED
    BY <2>2, <2>3, <2>4 DEF Whole
<1>2. CASE ~WholeSamples
  BY <1>2 DEF Whole
<1> QED
  BY <1>1, <1>2

LEMMA FrameInit ==
  Init => FrameInv
<1> SUFFICES ASSUME Init PROVE FrameInv
  OBVIOUS
<1> USE DEF Init
<1>1. CursorsTyped
  <2>1. FrameTyped
    BY OffsetInside DEF FrameTyped, Idle, Places, Positive
  <2>2. MixTyped
    BY DEF MixTyped, NoMix
  <2>3. StatusTyped
    <3>1. playCursor \in 0 .. Size - 1 /\ writeCursor \in 0 .. Size - 1
      BY Sizes
    <3>2. signalled \in [DOMAIN Positions -> 0 .. 2]
      OBVIOUS
    <3> QED
      BY <3>1, <3>2 DEF StatusTyped
  <2> QED
    BY <2>1, <2>2, <2>3 DEF CursorsTyped
<1>2. FrameOK
  BY WholeThings, OffsetInside DEF FrameOK, Idle, At, Unwrapped
<1>3. MixOK
  BY DEF MixOK, Idle, At
<1> QED
  BY <1>1, <1>2, <1>3 DEF FrameInv

(* A thread of the game that leaves the cursor alone.                      *)
LEMMA FrameKept ==
  ASSUME FrameInv, UNCHANGED <<playCursor, writeCursor, frame, mix, frames, allocated>>,
         playing' \in BOOLEAN, looping' \in BOOLEAN,
         signalled' \in [DOMAIN Positions -> 0 .. 2]
  PROVE  FrameInv'
<1> USE DEF FrameInv, CursorsTyped
<1>1. StatusTyped'
  BY DEF StatusTyped
<1>2. FrameTyped' /\ MixTyped'
  BY DEF FrameTyped, MixTyped
<1>3. FrameOK'
  BY DEF FrameOK, At, Unwrapped
<1>4. MixOK'
  BY DEF MixOK, MixRange, MixCounters, At
<1> QED
  BY <1>1, <1>2, <1>3, <1>4

(* Signals stay within their bound.                                        *)
LEMMA SignalTyped ==
  ASSUME signalled \in [DOMAIN Positions -> 0 .. 2]
  PROVE  /\ NotifyOfStop => signalled' \in [DOMAIN Positions -> 0 .. 2]
         /\ \A n \in DOMAIN Positions : Signal(n) => signalled' \in [DOMAIN Positions -> 0 .. 2]
  BY DEF NotifyOfStop, Signal

LEMMA SetCurrentPositionFrame ==
  ASSUME FrameInv, NEW u \in Users, NEW position \in Seeks, SetCurrentPosition(u, position)
  PROVE  FrameInv'
<1> USE DEF FrameInv, CursorsTyped, SetCurrentPosition, dataVars, frameVars
<1>p. position \in Nat /\ playCursor' = position % Size
  BY BytesAssumption
<1>1. StatusTyped'
  BY <1>p, OffsetInside DEF StatusTyped
<1>2. FrameTyped' /\ MixTyped'
  BY DEF FrameTyped, MixTyped
<1>w. Whole(playCursor')
  BY <1>p, WholeThings, WholeAdded
<1>3. FrameOK'
  BY <1>w DEF FrameOK, At, Unwrapped
<1>4. MixOK'
  BY DEF MixOK, MixRange, MixCounters, At
<1> QED
  BY <1>1, <1>2, <1>3, <1>4

-----------------------------------------------------------------------------
(* The steps of a frame.                                                   *)
LEMMA AdvanceFrame ==
  ASSUME FrameInv, NEW bytes \in FrameBytes, NEW out \in OutBytes, AdvanceTimeAndMix(bytes, out)
  PROVE  FrameInv'
<1> USE DEF FrameInv, CursorsTyped, AdvanceTimeAndMix
<1>1. bytes \in Nat /\ Whole(bytes) /\ out \in Nat
  BY BytesAssumption, WholeThings
<1>2. playCursor \in 0 .. Size - 1
  BY DEF StatusTyped
<1>3. frame'.pc \in {"notify", "end"} /\ FrameTyped'
  <2>1. frame' = [pc |-> IF playCursor + bytes < Size THEN "notify" ELSE "end",
                  way |-> "within", base |-> playCursor, bytes |-> bytes, out |-> out,
                  round |-> 1, notify |-> 1, prev |-> 0]
    BY DEF Idle, At
  <2>2. 1 \in Positive /\ 0 \in 0 .. Size - 1
    BY Sizes DEF Positive
  <2>3. frame'.pc \in {"notify", "end"} /\ {"notify", "end"} \subseteq Places
    BY <2>1 DEF Places
  <2> HIDE DEF AdvanceTimeAndMix
  <2> QED
    BY <1>1, <1>2, <2>1, <2>2, <2>3 DEF FrameTyped
<1>4. StatusTyped'
  BY <1>1, <1>2, OffsetInside DEF StatusTyped
<1>5. MixTyped'
  BY DEF MixTyped
<1>6. FrameOK'
  BY <1>1, <1>2, WholeThings, OffsetInside DEF FrameOK, Idle, At, Unwrapped
<1>7. MixOK'
  BY <1>3 DEF MixOK, At
<1> QED
  BY <1>3, <1>4, <1>5, <1>6, <1>7

(* Where the cursor goes.                                                  *)
LEMMA UnwrappedWhole ==
  ASSUME FrameTyped, FrameOK
  PROVE  /\ frame.base \in 0 .. Size - 1 /\ frame.bytes \in Nat
         /\ Unwrapped \in Nat /\ Whole(Unwrapped)
         /\ Wrapped \in 0 .. Size - 1 /\ Whole(Wrapped)
<1>1. frame.base \in 0 .. Size - 1 /\ frame.bytes \in Nat
  BY DEF FrameTyped
<1>2. Unwrapped \in Nat
  BY <1>1, OffsetInside DEF Unwrapped
<1>3. Whole(Unwrapped)
  <2>1. Whole(frame.base) /\ Whole(frame.bytes)
    BY DEF FrameOK
  <2>2. frame.base \in Nat
    BY <1>1, Sizes
  <2> QED
    BY <1>1, <2>1, <2>2, WholeAdded DEF Unwrapped
<1> QED
  BY <1>1, <1>2, <1>3, OffsetInside, WholeAdded DEF Wrapped

LEMMA ReachEndFrame ==
  ASSUME FrameInv, ReachEnd
  PROVE  FrameInv'
<1> USE DEF FrameInv, CursorsTyped, ReachEnd
<1>1. frame'.pc = "notify" /\ FrameTyped'
  BY DEF FrameTyped, Places
<1>2. StatusTyped'
  BY UnwrappedWhole, OffsetInside DEF StatusTyped
<1>3. MixTyped'
  BY DEF MixTyped
<1>4. FrameOK'
  BY DEF FrameOK, FrameTyped, At, Unwrapped
<1>5. MixOK'
  BY <1>1 DEF MixOK, At
<1> QED
  BY <1>1, <1>2, <1>3, <1>4, <1>5

(* The ranges of signals lie in the buffer.                                *)
LEMMA NotifyRangeInside ==
  ASSUME FrameTyped, FrameOK, At("notify")
  PROVE  NotifyRange \subseteq 0 .. Size - 1
<1>1. frame.base \in 0 .. Size - 1 /\ Wrapped \in 0 .. Size - 1 /\ Unwrapped \in Nat
  BY UnwrappedWhole
<1>2. frame.way = "within" => Unwrapped < Size
  BY DEF FrameOK, At
<1> QED
  BY <1>1, <1>2, OffsetInside DEF NotifyRange, SecondEnd

LEMMA NotifyFrame ==
  ASSUME FrameInv, Notify
  PROVE  FrameInv'
<1> USE DEF FrameInv, CursorsTyped, Notify
<1>1. frame.notify \in DOMAIN Positions
  <2>1. frame.notify \in Nat /\ frame.notify > 0
    BY DEF FrameTyped, Positive
  <2> QED
    BY <2>1, PositionsAssumption
<1>2. MixTyped'
  BY DEF MixTyped
<1>3. CASE Positions[frame.notify] \in NotifyRange
  <2>1. playCursor' \in 0 .. Size - 1
    BY <1>3, NotifyRangeInside
  <2>2. signalled' \in [DOMAIN Positions -> 0 .. 2]
    BY <1>1, <1>3, SignalTyped DEF StatusTyped
  <2>3. StatusTyped'
    BY <2>1, <2>2 DEF StatusTyped
  <2>4. frame'.pc = "restore" /\ FrameTyped'
    BY <1>3 DEF FrameTyped, StatusTyped, Places
  <2>5. FrameOK'
    BY <1>3 DEF FrameOK, FrameTyped, At, Unwrapped
  <2>6. MixOK'
    BY <2>4 DEF MixOK, At
  <2> QED
    BY <1>2, <2>3, <2>4, <2>5, <2>6
<1>4. CASE Positions[frame.notify] \notin NotifyRange
  <2>1. StatusTyped'
    BY <1>4 DEF StatusTyped
  <2>2. frame'.pc = "notify" /\ FrameTyped'
    BY <1>4 DEF FrameTyped, Positive, At
  <2>3. FrameOK'
    BY <1>4 DEF FrameOK, FrameTyped, At, Unwrapped
  <2>4. MixOK'
    BY <2>2 DEF MixOK, At
  <2> QED
    BY <1>2, <2>1, <2>2, <2>3, <2>4
<1> QED
  BY <1>3, <1>4

LEMMA RestoreFrame ==
  ASSUME FrameInv, Restore
  PROVE  FrameInv'
<1> USE DEF FrameInv, CursorsTyped, Restore
<1>1. StatusTyped' /\ MixTyped'
  BY DEF StatusTyped, MixTyped, FrameTyped
<1>2. frame'.pc = "notify" /\ FrameTyped'
  <2>1. frame.notify + 1 \in Positive
    BY DEF FrameTyped, Positive
  <2>2. frame' \in [pc : Places, way : {"within", "wrap", "stop"}, base : 0 .. Size - 1,
                    bytes : Nat, out : Nat, round : {1, 2}, notify : Positive,
                    prev : 0 .. Size - 1]
    BY <2>1, Sizes DEF FrameTyped, Places
  <2> QED
    BY <2>2 DEF FrameTyped
<1>3. FrameOK'
  BY WholeThings DEF FrameOK, FrameTyped, At, Unwrapped
<1>4. MixOK'
  BY <1>2 DEF MixOK, At
<1> QED
  BY <1>1, <1>2, <1>3, <1>4

LEMMA NextRoundFrame ==
  ASSUME FrameInv, NextRound
  PROVE  FrameInv'
<1> USE DEF FrameInv, CursorsTyped, NextRound, cursorVars
<1>1. StatusTyped' /\ MixTyped'
  BY DEF StatusTyped, MixTyped
<1>2. frame'.pc \in {"notify", "move"} /\ FrameTyped'
  <2>1. CASE frame.round < Rounds
    <3>1. 1 \in Positive
      BY DEF Positive
    <3> QED
      BY <2>1, <3>1 DEF FrameTyped, At
  <2>2. CASE ~(frame.round < Rounds)
    BY <2>2 DEF FrameTyped, Places
  <2> QED
    BY <2>1, <2>2
<1>3. FrameOK'
  BY DEF FrameOK, FrameTyped, At, Unwrapped
<1>4. MixOK'
  BY <1>2 DEF MixOK, At
<1> QED
  BY <1>1, <1>2, <1>3, <1>4

(* The frame is over, or has to stop the buffer first.                     *)
LEMMA MixedFrame ==
  ASSUME FrameTyped, FrameOK, ~At("end"), Mixed
  PROVE  /\ FrameTyped' /\ frame'.pc \in {"idle", "stop"}
         /\ Whole(playCursor') => FrameOK'
<1>1. CASE frame.way = "stop"
  BY <1>1 DEF Mixed, FrameTyped, FrameOK, Places, At, Unwrapped
<1>2. CASE frame.way # "stop"
  <2>1. frame' = Idle
    BY <1>2 DEF Mixed
  <2>2. FrameTyped' /\ frame'.pc = "idle"
    BY <2>1, OffsetInside DEF FrameTyped, Idle, Places, Positive
  <2>3. Whole(playCursor') => FrameOK'
    BY <2>1, WholeThings DEF FrameOK, Idle, At, Unwrapped
  <2> QED
    BY <2>2, <2>3
<1> QED
  BY <1>1, <1>2

LEMMA MovePlayCursorFrame ==
  ASSUME FrameInv, allocated \in Nat, MovePlayCursor
  PROVE  FrameInv'
<1> USE DEF FrameInv, CursorsTyped, MovePlayCursor
<1>1. frame.way \in {"within", "wrap", "stop"}
  BY DEF FrameTyped
<1>2. playCursor' \in 0 .. Size - 1 /\ Whole(playCursor')
  <2>1. frame.way = "within" => Unwrapped < Size
    BY DEF FrameOK, At
  <2>2. CASE frame.way = "within"
    <3>1. playCursor' = Unwrapped
      BY <2>2
    <3> QED
      BY <2>1, <2>2, <3>1, UnwrappedWhole, Sizes
  <2>3. CASE frame.way = "wrap"
    <3>1. playCursor' = Wrapped
      BY <2>3
    <3> QED
      BY <3>1, UnwrappedWhole
  <2>4. CASE frame.way = "stop"
    <3>1. playCursor' = 0
      BY <2>4
    <3> QED
      BY <3>1, WholeThings, Sizes
  <2> QED
    BY <1>1, <2>2, <2>3, <2>4
<1>3. StatusTyped'
  <2>1. signalled' \in [DOMAIN Positions -> 0 .. 2]
    OBVIOUS
  <2> QED
    BY <1>2, <2>1 DEF StatusTyped
<1>4. MixTyped'
  BY DEF MixTyped
<1>5. FrameTyped' /\ frame'.pc \in {"idle", "stop", "grow", "mix"} /\ FrameOK'
  <2>1. CASE frame.out = 0
    BY <1>2, <2>1, MixedFrame DEF At
  <2>2. CASE frame.out # 0
    <3>1. FrameTyped' /\ frame'.pc = IF NeedsMore THEN "grow" ELSE "mix"
      BY <2>2 DEF FrameTyped, FrameGoes, Places
    <3>2. UNCHANGED Unwrapped /\ frame'.way = frame.way
      BY <2>2 DEF FrameTyped, FrameGoes, Unwrapped
    <3>3. Unwrapped \in Nat /\ Block \in Nat
      BY UnwrappedWhole, OffsetInside
    <3>4. NeedsMore => frame.way = "wrap"
      BY DEF NeedsMore
    <3>5. ~NeedsMore /\ frame.way = "wrap" => Unwrapped + Block <= allocated
      BY <3>3 DEF NeedsMore
    <3>6. /\ Whole(frame.base) /\ Whole(frame.bytes) /\ Whole(frame.prev)
          /\ frame'.base = frame.base /\ frame'.bytes = frame.bytes /\ frame'.prev = frame.prev
          /\ frame.way = "within" => Unwrapped < Size
          /\ frame.way # "within" => Unwrapped >= Size
      BY <2>2 DEF FrameOK, FrameTyped, FrameGoes, At
    <3>7. NeedsMore => allocated' = allocated
      BY DEF dataVars
    <3>8. FrameOK'
      BY <1>2, <3>1, <3>2, <3>4, <3>5, <3>6 DEF FrameOK, At, dataVars
    <3> QED
      BY <3>1, <3>8
  <2> QED
    BY <2>1, <2>2
<1>6. MixOK'
  BY <1>5 DEF MixOK, At
<1> QED
  BY <1>3, <1>4, <1>5, <1>6

LEMMA GrowFrame ==
  ASSUME FrameInv, Grow
  PROVE  FrameInv'
<1> USE DEF FrameInv, CursorsTyped, Grow
<1>1. StatusTyped' /\ MixTyped'
  BY DEF StatusTyped, MixTyped, cursorVars
<1>2. FrameTyped' /\ frame'.pc = "mix"
  BY DEF FrameTyped, FrameGoes, Places
<1>3. UNCHANGED Unwrapped /\ Unwrapped \in Nat /\ Block \in Nat
  BY UnwrappedWhole, OffsetInside DEF FrameTyped, FrameGoes, Unwrapped
<1>4. FrameOK'
  BY <1>2, <1>3 DEF FrameOK, FrameTyped, FrameGoes, At, cursorVars
<1>5. MixOK'
  BY <1>2 DEF MixOK, At
<1> QED
  BY <1>1, <1>2, <1>4, <1>5

-----------------------------------------------------------------------------
(* The mixing.                                                             *)

(* What MixFromTo is told to mix lies in the buffer, with the sample after *)
(* it where the loop will look for one.                                    *)
LEMMA MixEndInside ==
  ASSUME CursorsTyped, FrameOK, At("mix"), allocated \in Nat, allocated >= Size
  PROVE  /\ MixEnd \in Nat /\ Whole(MixEnd)
         /\ MixEnd + (IF LastSample THEN 0 ELSE Block) <= allocated
<1>1. Size \in Nat /\ Block \in Nat \ {0} /\ Whole(Size)
  BY Sizes, WholeThings
<1>2. CASE frame.way = "within"
  <2>1. playCursor \in 0 .. Size - 1 /\ Whole(playCursor)
    BY DEF CursorsTyped, StatusTyped, FrameOK, At
  <2>2. MixEnd = playCursor
    BY <1>2 DEF MixEnd
  <2>3. LastSample <=> playCursor >= (IF looping THEN allocated ELSE Size) - Block
    BY <1>2 DEF LastSample
  <2> HIDE DEF LastSample
  <2> QED
    BY <1>1, <2>1, <2>2, <2>3
<1>3. CASE frame.way = "wrap"
  <2>1. MixEnd = Unwrapped /\ ~LastSample
    BY <1>3 DEF MixEnd, LastSample
  <2>2. Unwrapped + Block <= allocated
    BY <1>3 DEF FrameOK
  <2> QED
    BY <2>1, <2>2, UnwrappedWhole DEF CursorsTyped
<1>4. CASE frame.way = "stop"
  <2>1. MixEnd = Size /\ LastSample
    BY <1>4 DEF MixEnd, LastSample
  <2> QED
    BY <1>1, <2>1
<1> QED
  BY <1>2, <1>3, <1>4 DEF CursorsTyped, FrameTyped

LEMMA OutEndTyped ==
  ASSUME FrameTyped, FrameOK, At("mix")
  PROVE  OutEnd \in Nat
<1>1. frame.base \in 0 .. Size - 1 /\ frame.bytes \in Nat /\ frame.out \in Nat
  BY DEF FrameTyped
<1>2. CASE frame.way = "stop"
  <2>1. Unwrapped >= Size
    BY <1>2 DEF FrameOK
  <2>2. frame.bytes \in Nat \ {0} /\ Size - frame.base \in Nat
    BY <1>1, <2>1, Sizes DEF Unwrapped
  <2>3. frame.out * (Size - frame.base) \in Nat
    BY <1>1, <2>2
  <2> QED
    BY <1>2, <2>2, <2>3, Division DEF OutEnd
<1>3. CASE frame.way # "stop"
  BY <1>1, <1>3 DEF OutEnd
<1> QED
  BY <1>2, <1>3

LEMMA MixFromToFrame ==
  ASSUME FrameInv, allocated \in Nat, allocated >= Size, MixFromTo
  PROVE  FrameInv'
<1> USE DEF FrameInv, CursorsTyped
<1>a. At("mix") /\ UNCHANGED <<frames, cursorVars, dataVars, user>>
  BY DEF MixFromTo
<1>1. StatusTyped'
  BY <1>a DEF StatusTyped, cursorVars
<1>w. Whole(playCursor')
  BY <1>a DEF FrameOK, At, cursorVars
<1>2. CASE MixEnd > frame.base /\ OutEnd > 0
  <2>1. /\ mix' = [NoMix EXCEPT !.pos = frame.base, !.size = MixEnd - frame.base,
                                !.outSize = OutEnd, !.last = LastSample]
        /\ FrameGoes("sample")
    BY <1>2 DEF MixFromTo
  <2>2. FrameTyped' /\ frame'.pc = "sample"
    BY <2>1 DEF FrameTyped, FrameGoes, Places
  <2>3. FrameOK'
    <3>1. UNCHANGED Unwrapped
      BY <2>1 DEF FrameTyped, FrameGoes, Unwrapped
    <3> QED
      BY <1>a, <1>w, <2>1, <2>2, <3>1 DEF FrameOK, FrameTyped, FrameGoes, At
  <2>4. /\ MixEnd \in Nat /\ Whole(MixEnd)
        /\ MixEnd + (IF LastSample THEN 0 ELSE Block) <= allocated
    BY <1>a, MixEndInside
  <2>5. OutEnd \in Nat
    BY <1>a, OutEndTyped
  <2>6. frame.base \in Nat /\ Whole(frame.base)
    BY Sizes DEF FrameTyped, FrameOK
  <2>7. MixEnd - frame.base \in Nat /\ Whole(MixEnd - frame.base)
    BY <1>2, <2>4, <2>6, WholeAdded
  <2>8. LastSample \in BOOLEAN
    BY DEF LastSample
  <2>9. mix' = [pos |-> frame.base, size |-> MixEnd - frame.base, outSize |-> OutEnd,
                last |-> LastSample, i |-> 0, inOffset |-> 0, offsetRemainder |-> 0,
                frac |-> 0, fracError |-> 0]
    BY <2>1 DEF NoMix
  <2> HIDE DEF MixEnd, OutEnd, LastSample
  <2>10. MixTyped'
    BY <2>5, <2>6, <2>7, <2>8, <2>9 DEF MixTyped
  <2>11. MixRange'
    <3>1. /\ mix'.outSize > 0 /\ mix'.size > 0 /\ Whole(mix'.size)
      BY <1>2, <2>4, <2>5, <2>6, <2>7, <2>9
    <3>2. mix'.pos + mix'.size = MixEnd /\ mix'.last = LastSample
      BY <2>4, <2>6, <2>9
    <3>3. allocated' = allocated
      BY <1>a DEF dataVars
    <3> QED
      BY <2>4, <3>1, <3>2, <3>3 DEF MixRange
  <2>12. MixCounters'
    <3>1. /\ mix'.offsetRemainder < mix'.outSize /\ mix'.fracError < mix'.outSize
          /\ mix'.inOffset = 0 /\ mix'.offsetRemainder = 0 /\ mix'.i = 0
          /\ mix'.frac = 0 /\ mix'.fracError = 0
          /\ mix'.outSize \in Nat /\ mix'.size \in Nat
      BY <1>2, <2>5, <2>7, <2>9
    <3>2. 0 * mix'.outSize = 0 /\ 0 * mix'.size = 0
      BY <3>1
    <3>3. (((0 * 1024) + mix'.frac) * mix'.outSize) + mix'.fracError = (mix'.i * mix'.size) * 1024
      BY <3>1, <3>2
    <3> QED
      BY <3>1, <3>2, <3>3 DEF MixCounters
  <2> QED
    BY <1>1, <2>2, <2>3, <2>10, <2>11, <2>12 DEF MixOK
<1>3. CASE ~(MixEnd > frame.base /\ OutEnd > 0)
  <2>1. Mixed /\ UNCHANGED mix
    BY <1>3 DEF MixFromTo
  <2>2. FrameTyped' /\ frame'.pc \in {"idle", "stop"} /\ FrameOK'
    BY <1>a, <1>w, <2>1, MixedFrame DEF At
  <2>3. MixTyped'
    BY <2>1 DEF MixTyped
  <2> QED
    BY <1>1, <2>2, <2>3 DEF MixOK, At
<1> QED
  BY <1>2, <1>3

LEMMA MixReturnsFrame ==
  ASSUME FrameInv, MixReturns
  PROVE  FrameInv'
<1> USE DEF FrameInv, CursorsTyped
<1>1. At("sample") /\ Mixed /\ mix' = NoMix /\ UNCHANGED <<frames, cursorVars, dataVars, user>>
  BY DEF MixReturns
<1>2. StatusTyped'
  BY <1>1 DEF StatusTyped, cursorVars
<1>3. MixTyped'
  BY <1>1 DEF MixTyped, NoMix
<1>4. Whole(playCursor')
  BY <1>1 DEF FrameOK, At, cursorVars
<1>5. FrameTyped' /\ frame'.pc \in {"idle", "stop"} /\ FrameOK'
  BY <1>1, <1>4, MixedFrame DEF At
<1> QED
  BY <1>2, <1>3, <1>5 DEF MixOK, At

LEMMA StopAtEndFrame ==
  ASSUME FrameInv, StopAtEnd
  PROVE  FrameInv'
<1> USE DEF FrameInv, CursorsTyped
<1>1. /\ At("stop") /\ playing' = FALSE /\ NotifyOfStop /\ frame' = Idle
      /\ UNCHANGED <<looping, playCursor, writeCursor, mix, frames, dataVars, user>>
  BY DEF StopAtEnd
<1>2. signalled' \in [DOMAIN Positions -> 0 .. 2]
  BY <1>1, SignalTyped DEF StatusTyped
<1>3. StatusTyped'
  BY <1>1, <1>2 DEF StatusTyped
<1>4. MixTyped'
  BY <1>1 DEF MixTyped
<1>5. FrameTyped'
  BY <1>1, Sizes DEF FrameTyped, Idle, Places, Positive
<1>6. FrameOK'
  BY <1>1, WholeThings DEF FrameOK, Idle, At, Unwrapped
<1>7. MixOK'
  BY <1>1 DEF MixOK, Idle, At
<1> QED
  BY <1>3, <1>4, <1>5, <1>6, <1>7

(* One turn of the loop keeps the sums.                                    *)
LEMMA SampleFrame ==
  ASSUME FrameInv, Sample
  PROVE  FrameInv'
<1>1. /\ At("sample") /\ mix.i < mix.outSize
      /\ UNCHANGED <<frame, frames, cursorVars, dataVars, user>>
      /\ mix' = [mix EXCEPT
           !.i = @ + OutBlock,
           !.inOffset = @ + (Remainder \div mix.outSize),
           !.offsetRemainder = Remainder % mix.outSize,
           !.fracError = FracError - (FracCarry * mix.outSize),
           !.frac = (@ + FracCarry + (FracNumer \div mix.outSize)) % 1024]
  BY DEF Sample
<1>2. StatusTyped' /\ FrameTyped' /\ FrameOK'
  BY <1>1 DEF FrameInv, CursorsTyped, StatusTyped, FrameTyped, FrameOK, At, Unwrapped,
              cursorVars, dataVars
<1>3. MixTyped /\ MixRange /\ MixCounters
  BY <1>1 DEF FrameInv, CursorsTyped, MixOK
<1> DEFINE o == mix.outSize
           size == mix.size
           i == mix.i
<1>4. /\ o \in Nat \ {0} /\ size \in Nat /\ i \in Nat /\ OutBlock \in Nat
      /\ mix.inOffset \in Nat /\ mix.offsetRemainder \in Nat
      /\ mix.frac \in Nat /\ mix.fracError \in 0 .. o - 1
      /\ mix.pos \in Nat /\ mix.last \in BOOLEAN
      /\ (mix.inOffset * o) + mix.offsetRemainder = i * size
  BY <1>3, SizesAssumption DEF MixTyped, MixRange, MixCounters
<1>5. PICK k \in Nat : (((k * 1024) + mix.frac) * o) + mix.fracError = (i * size) * 1024
  BY <1>3 DEF MixCounters
<1>6. /\ Step = size * OutBlock /\ Step \in Nat
      /\ Remainder = mix.offsetRemainder + (size * OutBlock)
      /\ FracNumer = Step * 1024 /\ FracNumer \in Nat
  <2>1. Step = size * OutBlock
    BY DEF Step
  <2>2. Step \in Nat
    BY <1>4, <2>1
  <2> QED
    BY <2>1, <2>2 DEF Remainder, FracNumer
<1> HIDE DEF o, size, i
<1>7. /\ mix.inOffset + (Remainder \div o) \in Nat
      /\ Remainder % o \in 0 .. o - 1
      /\ ((mix.inOffset + (Remainder \div o)) * o) + (Remainder % o) = (i + OutBlock) * size
  <2> DEFINE R == Remainder
             offset == mix.inOffset
             rest == mix.offsetRemainder
  <2>1. /\ o \in Nat \ {0} /\ i \in Nat /\ size \in Nat /\ OutBlock \in Nat
        /\ offset \in Nat /\ rest \in Nat /\ (offset * o) + rest = i * size
    BY <1>4
  <2>2. R = rest + (size * OutBlock)
    BY <1>6
  <2> HIDE DEF R, offset, rest
  <2>3. /\ offset + (R \div o) \in Nat
        /\ R % o \in 0 .. o - 1
        /\ ((offset + (R \div o)) * o) + (R % o) = (i + OutBlock) * size
    BY <2>1, <2>2, OffsetTurn
  <2> QED
    BY <2>3 DEF R, offset, rest
<1>8. FracError = mix.fracError + (FracNumer % o) /\ FracCarry = IF FracError >= o THEN 1 ELSE 0
  BY DEF FracError, FracCarry, o
<1> DEFINE place == ((i * size) * 1024) + FracNumer
           fe == FracError - (FracCarry * o)
           fr == (mix.frac + FracCarry + (FracNumer \div o)) % 1024
<1>9. /\ fe \in 0 .. o - 1
      /\ fr \in Nat /\ fr < 1024
      /\ \E n \in Nat : (((n * 1024) + fr) * o) + fe = place
  <2> DEFINE W == (i * size) * 1024
             N == FracNumer
             frac == mix.frac
             error == mix.fracError
             c == FracCarry
             e == fe
             a == N \div o
             f == frac + c + a
             h == f \div 1024
             g == f % 1024
  <2>1. o \in Nat \ {0} /\ N \in Nat /\ frac \in Nat /\ error \in 0 .. o - 1
    BY <1>4, <1>6
  <2>2. W \in Nat
    BY <1>4
  <2>3. (((k * 1024) + frac) * o) + error = W
    BY <1>5
  <2>4. c \in {0, 1} /\ (c = 1 <=> error + (N % o) >= o)
    BY <1>8
  <2>5. e = (error + (N % o)) - (c * o)
    BY <1>8
  <2> HIDE DEF W, N, frac, error, c, e
  <2>6. /\ (error + (N % o)) - (c * o) \in 0 .. o - 1
        /\ ((c + a) * o) + ((error + (N % o)) - (c * o)) = error + N
    BY <2>1, <2>4, ErrorTurn
  <2>7. a \in Nat
    BY <2>1, Division
  <2> HIDE DEF a
  <2>8. e \in 0 .. o - 1 /\ ((c + a) * o) + e = error + N
    BY <2>5, <2>6
  <2>9. f \in Nat
    BY <2>1, <2>4, <2>7
  <2>10. f = frac + c + a
    OBVIOUS
  <2> HIDE DEF f
  <2>11. h \in Nat /\ g \in Nat /\ g < 1024 /\ f = (h * 1024) + g
    BY <2>9, Thousandths
  <2> HIDE DEF h, g
  <2>12. k + h \in Nat
    BY <2>11
  <2>13. ((((k + h) * 1024) + g) * o) + e = W + N
    <3> DEFINE T == (k * 1024) + frac
    <3>1. T \in Nat /\ c + a \in Nat /\ ((k + h) * 1024) + g = T + (c + a)
      BY <2>1, <2>4, <2>7, <2>10, <2>11
    <3>2. (T * o) + error = W
      BY <2>3
    <3> HIDE DEF T
    <3>3. (T + (c + a)) * o = (T * o) + ((c + a) * o)
      BY <2>1, <3>1
    <3> DEFINE X == T * o
               Y == (c + a) * o
               P == (((k + h) * 1024) + g) * o
    <3>4. X \in Nat /\ Y \in Nat
      BY <2>1, <3>1
    <3>5. P = X + Y /\ X + error = W /\ Y + e = error + N
      BY <2>8, <3>1, <3>2, <3>3
    <3>6. N \in Nat /\ W \in Nat /\ e \in Nat /\ error \in Nat
      BY <2>1, <2>2, <2>8
    <3> HIDE DEF X, Y, P
    <3>7. P + e = W + N
      BY <3>4, <3>5, <3>6
    <3> QED
      BY <3>7 DEF P
  <2>15. \E n \in Nat : (((n * 1024) + g) * o) + e = W + N
    BY <2>12, <2>13
  <2>16. place = W + N
    BY DEF W, N
  <2>17. fr = g
    BY DEF g, f, frac, c, a, N
  <2>18. fe = e
    BY DEF e
  <2> HIDE DEF place, fr, fe
  <2> QED
    BY <2>8, <2>11, <2>15, <2>16, <2>17, <2>18
<1>10. place = ((i + OutBlock) * size) * 1024
  <2>1. (i + OutBlock) * size = (i * size) + (size * OutBlock)
    BY <1>4
  <2>2. i * size \in Nat
    BY <1>4
  <2> QED
    BY <1>6, <2>1, <2>2
<1>11. /\ mix'.outSize = o /\ mix'.size = size /\ mix'.pos = mix.pos /\ mix'.last = mix.last
       /\ mix'.i = i + OutBlock
       /\ mix'.inOffset = mix.inOffset + (Remainder \div o)
       /\ mix'.offsetRemainder = Remainder % o
       /\ mix'.fracError = fe
       /\ mix'.frac = fr
  BY <1>1, <1>3 DEF MixTyped, o, size, i
<1> HIDE DEF place, fe, fr
<1>12. MixCounters'
  <2>1. mix'.offsetRemainder < mix'.outSize /\ mix'.fracError < mix'.outSize
    BY <1>4, <1>7, <1>9, <1>11
  <2>2. (mix'.inOffset * mix'.outSize) + mix'.offsetRemainder = mix'.i * mix'.size
    BY <1>7, <1>11
  <2>3. PICK n \in Nat : (((n * 1024) + fr) * o) + fe = place
    BY <1>9
  <2>4. (((n * 1024) + mix'.frac) * mix'.outSize) + mix'.fracError = (mix'.i * mix'.size) * 1024
    BY <1>10, <1>11, <2>3
  <2> QED
    BY <2>1, <2>2, <2>4 DEF MixCounters
<1>13. MixRange'
  BY <1>1, <1>3, <1>11 DEF MixRange, o, size, dataVars
<1>14. MixTyped'
  <2>1. mix' \in [pos : Nat, size : Nat, outSize : Nat, last : BOOLEAN, i : Nat, inOffset : Nat,
                  offsetRemainder : Nat, frac : Nat, fracError : Nat]
    <3>1. i + OutBlock \in Nat /\ Remainder % o \in Nat /\ fe \in Nat
      BY <1>4, <1>7, <1>9
    <3> DEFINE io == mix.inOffset + (Remainder \div o)
               rm == Remainder % o
               ii == i + OutBlock
    <3>2. mix' = [mix EXCEPT !.i = ii, !.inOffset = io, !.offsetRemainder = rm,
                             !.fracError = fe, !.frac = fr]
      BY <1>1 DEF o, i, fe, fr
    <3>3. io \in Nat /\ rm \in Nat /\ fe \in Nat /\ fr \in Nat /\ ii \in Nat
      BY <1>7, <1>9, <3>1
    <3>4. mix = [pos |-> mix.pos, size |-> mix.size, outSize |-> mix.outSize,
                 last |-> mix.last, i |-> mix.i, inOffset |-> mix.inOffset,
                 offsetRemainder |-> mix.offsetRemainder, frac |-> mix.frac,
                 fracError |-> mix.fracError]
      BY <1>3 DEF MixTyped
    <3>5. mix.pos \in Nat /\ mix.size \in Nat /\ mix.outSize \in Nat /\ mix.last \in BOOLEAN
      BY <1>4 DEF size, o
    <3> HIDE DEF io, rm, ii
    <3>6. mix' = [pos |-> mix.pos, size |-> mix.size, outSize |-> mix.outSize,
                  last |-> mix.last, i |-> ii, inOffset |-> io,
                  offsetRemainder |-> rm, frac |-> fr, fracError |-> fe]
      BY <3>2, <3>4
    <3> QED
      BY <3>3, <3>5, <3>6
  <2>2. mix'.frac < 1024
    BY <1>9, <1>11
  <2> QED
    BY <2>1, <2>2 DEF MixTyped
<1> QED
  BY <1>2, <1>12, <1>13, <1>14 DEF FrameInv, CursorsTyped, MixOK

-----------------------------------------------------------------------------
(* The inductive invariant: the data, the frame, and that the locker has   *)
(* written nothing but what it locked.                                     *)
WrittenInside == written \subseteq LockedBytes(locked.bytes)
IInv == DataInv /\ FrameInv /\ WrittenInside

(* The bytes of a lock lie in the buffer, the first of them in the lock.   *)
LEMMA LockedInside ==
  ASSUME DataTyped, NEW n \in Nat, n <= locked.bytes
  PROVE  /\ LockedBytes(n) \subseteq 0 .. Size - 1
         /\ LockedBytes(n) \subseteq LockedBytes(locked.bytes)
<1>1. locked.offset \in Nat /\ locked.bytes \in Nat
  BY DEF DataTyped
<1>2. ASSUME NEW k \in 0 .. n - 1 PROVE (locked.offset + k) % Size \in 0 .. Size - 1
  <2>1. locked.offset + k \in Nat
    BY <1>1
  <2> QED
    BY <2>1, OffsetInside
<1>3. 0 .. n - 1 \subseteq 0 .. locked.bytes - 1
  BY <1>1
<1> QED
  BY <1>2, <1>3 DEF LockedBytes

LEMMA IInvInit ==
  Init => IInv
<1>1. Init => WrittenInside
  BY DEF Init, WrittenInside
<1> QED
  BY <1>1, DataInit, FrameInit DEF IInv

(* A step of the frame that leaves the data alone.                         *)
LEMMA FrameStepKeeps ==
  ASSUME IInv, UNCHANGED <<dataVars, user>>, FrameInv'
  PROVE  IInv'
<1>1. DataInv'
  BY DataKept DEF IInv
<1>2. WrittenInside'
  BY DEF IInv, WrittenInside, LockedBytes, dataVars
<1> QED
  BY <1>1, <1>2 DEF IInv

LEMMA FrameStepIInv ==
  ASSUME IInv, FrameStep
  PROVE  IInv'
<1> USE DEF IInv
<1>1. allocated \in Nat /\ allocated >= Size
  BY DEF DataInv, DataTyped
<1>2. CASE ReachEnd
  BY <1>2, ReachEndFrame, FrameStepKeeps DEF ReachEnd
<1>3. CASE Notify
  BY <1>3, NotifyFrame, FrameStepKeeps DEF Notify
<1>4. CASE Restore
  BY <1>4, RestoreFrame, FrameStepKeeps DEF Restore
<1>5. CASE NextRound
  BY <1>5, NextRoundFrame, FrameStepKeeps DEF NextRound
<1>6. CASE MovePlayCursor
  BY <1>1, <1>6, MovePlayCursorFrame, FrameStepKeeps DEF MovePlayCursor
<1>7. CASE Grow
  <2>1. FrameInv'
    BY <1>7, GrowFrame
  <2>2. DataInv'
    <3>1. frame.base \in Nat /\ frame.bytes \in Nat /\ Unwrapped \in Nat
      BY UnwrappedWhole, Sizes DEF FrameInv, CursorsTyped
    <3>2. Unwrapped >= Size
      BY <1>7 DEF Grow, FrameInv, FrameOK, At
    <3>3. Unwrapped + Block >= Size
      BY <3>1, <3>2, Sizes
    <3> QED
      BY <1>7, <3>1, <3>3, GrowData
  <2>3. WrittenInside'
    BY <1>7 DEF Grow, WrittenInside, LockedBytes
  <2> QED
    BY <2>1, <2>2, <2>3
<1>8. CASE MixFromTo
  BY <1>1, <1>8, MixFromToFrame, FrameStepKeeps DEF MixFromTo
<1>9. CASE Sample
  BY <1>9, SampleFrame, FrameStepKeeps DEF Sample
<1>10. CASE MixReturns
  BY <1>10, MixReturnsFrame, FrameStepKeeps DEF MixReturns
<1>11. CASE StopAtEnd
  BY <1>11, StopAtEndFrame, FrameStepKeeps DEF StopAtEnd
<1> QED
  BY <1>2, <1>3, <1>4, <1>5, <1>6, <1>7, <1>8, <1>9, <1>10, <1>11 DEF FrameStep

(* A call that changes the data leaves the frame as it is.                 *)
LEMMA FrameUntouched ==
  ASSUME IInv, UNCHANGED <<cursorVars, frameVars, allocated>>
  PROVE  FrameInv'
  BY FrameKept DEF IInv, FrameInv, CursorsTyped, StatusTyped, cursorVars, frameVars

LEMMA UserStepIInv ==
  ASSUME IInv, NEW u \in Users, UserStep(u)
  PROVE  IInv'
<1> USE DEF IInv
<1>1. ASSUME NEW offset \in Offsets \cup {writeCursor}, NEW bytes \in Lengths,
             LockReturns(u, offset, bytes)
      PROVE  IInv'
  <2>1. offset \in Nat /\ bytes \in Nat
    BY BytesAssumption, Sizes DEF FrameInv, CursorsTyped, StatusTyped
  <2>2. DataInv'
    BY <1>1, <2>1, LockReturnsData
  <2>3. FrameInv'
    BY <1>1, FrameUntouched DEF LockReturns
  <2>4. WrittenInside'
    BY <1>1 DEF LockReturns, WrittenInside
  <2> QED
    BY <2>2, <2>3, <2>4
<1>2. CASE UnlockReturns(u)
  <2>1. FrameInv'
    BY <1>2, FrameUntouched DEF UnlockReturns
  <2>2. WrittenInside'
    BY <1>2 DEF UnlockReturns, WrittenInside
  <2> QED
    BY <1>2, <2>1, <2>2, UnlockReturnsData
<1>3. ASSUME NEW loop \in BOOLEAN, PlayReturns(u, loop)
      PROVE  IInv'
  <2>1. FrameInv'
    <3>1. /\ UNCHANGED <<playCursor, writeCursor, frame, mix, frames, allocated>>
          /\ playing' = playing /\ looping' \in BOOLEAN /\ signalled' = signalled
      BY <1>3 DEF PlayReturns, dataVars, frameVars
    <3> QED
      BY <3>1, FrameKept DEF FrameInv, CursorsTyped, StatusTyped
  <2>2. DataInv'
    BY <1>3, PlayData DEF PlayReturns
  <2>3. WrittenInside'
    BY <1>3 DEF PlayReturns, WrittenInside, LockedBytes, dataVars
  <2> QED
    BY <2>1, <2>2, <2>3
<1> QED
  BY <1>1, <1>2, <1>3 DEF UserStep

LEMMA UserCallIInv ==
  ASSUME IInv, NEW u \in Users, UserCall(u)
  PROVE  IInv'
<1> USE DEF IInv
<1>t. locked.bytes \in Nat /\ DataTyped
  BY DEF DataInv, DataTyped
<1>1. CASE Lock(u)
  <2>1. FrameInv'
    BY <1>1, FrameUntouched DEF Lock
  <2>2. WrittenInside'
    BY <1>1 DEF Lock, WrittenInside, LockedBytes
  <2> QED
    BY <1>1, <2>1, <2>2, LockData
<1>2. ASSUME NEW n \in 1 .. locked.bytes, Write(u, LockedBytes(n))
      PROVE  IInv'
  <2>1. /\ LockedBytes(n) \subseteq 0 .. Size - 1
        /\ LockedBytes(n) \subseteq LockedBytes(locked.bytes)
    BY <1>t, LockedInside
  <2>2. DataInv'
    BY <1>2, <2>1, WriteData
  <2>3. FrameInv'
    BY <1>2, FrameUntouched DEF Write
  <2>4. WrittenInside'
    BY <1>2, <2>1 DEF Write, WrittenInside, LockedBytes
  <2> QED
    BY <2>2, <2>3, <2>4
<1>3. ASSUME NEW bytes \in {written, LockedBytes(locked.bytes)}, Unlock(u, bytes)
      PROVE  IInv'
  <2>1. bytes \in SUBSET (0 .. Size - 1) /\ written \subseteq bytes
    <3>1. LockedBytes(locked.bytes) \subseteq 0 .. Size - 1
      BY <1>t, LockedInside
    <3>2. written \subseteq 0 .. Size - 1 /\ written \subseteq LockedBytes(locked.bytes)
      BY <1>t DEF WrittenInside, DataTyped
    <3> QED
      BY <3>1, <3>2
  <2>2. DataInv'
    BY <1>3, <2>1, UnlockData
  <2>3. FrameInv'
    BY <1>3, FrameUntouched DEF Unlock
  <2>4. WrittenInside'
    BY <1>3 DEF Unlock, WrittenInside, LockedBytes
  <2> QED
    BY <2>2, <2>3, <2>4
<1>4. CASE Play(u)
  <2>1. FrameInv'
    <3>1. /\ UNCHANGED <<playCursor, writeCursor, frame, mix, frames, allocated>>
          /\ playing' = TRUE /\ looping' = looping /\ signalled' = signalled
      BY <1>4 DEF Play, dataVars, frameVars
    <3> QED
      BY <3>1, FrameKept DEF FrameInv, CursorsTyped, StatusTyped
  <2>2. DataInv'
    BY <1>4, PlayData DEF Play
  <2>3. WrittenInside'
    BY <1>4 DEF Play, WrittenInside, LockedBytes, dataVars
  <2> QED
    BY <2>1, <2>2, <2>3
<1>5. ASSUME NEW position \in Seeks, SetCurrentPosition(u, position)
      PROVE  IInv'
  BY <1>5, SetCurrentPositionFrame, FrameStepKeeps DEF SetCurrentPosition
<1>6. CASE Stop(u)
  <2>1. /\ UNCHANGED <<playCursor, writeCursor, frame, mix, frames, allocated>>
        /\ playing' = FALSE /\ looping' = FALSE /\ NotifyOfStop
    BY <1>6 DEF Stop, dataVars, frameVars
  <2>2. FrameInv'
    BY <2>1, FrameKept, SignalTyped DEF FrameInv, CursorsTyped, StatusTyped
  <2> QED
    BY <1>6, <2>2, FrameStepKeeps DEF Stop
<1> QED
  BY <1>1, <1>2, <1>3, <1>4, <1>5, <1>6 DEF UserCall

LEMMA IInvStep ==
  IInv /\ [Next]_vars => IInv'
<1> SUFFICES ASSUME IInv, [Next]_vars PROVE IInv'
  OBVIOUS
<1>1. CASE FrameStep
  BY <1>1, FrameStepIInv
<1>2. ASSUME NEW bytes \in FrameBytes, NEW out \in OutBytes, AdvanceTimeAndMix(bytes, out)
      PROVE  IInv'
  BY <1>2, AdvanceFrame, FrameStepKeeps DEF AdvanceTimeAndMix, IInv
<1>3. ASSUME NEW u \in Users, UserStep(u) \/ UserCall(u)
      PROVE  IInv'
  BY <1>3, UserStepIInv, UserCallIInv
<1>4. CASE UNCHANGED vars
  <2>1. UNCHANGED <<dataVars, user>> /\ UNCHANGED <<cursorVars, frameVars, allocated>>
    BY <1>4 DEF vars, dataVars
  <2> QED
    BY <2>1, FrameUntouched, FrameStepKeeps
<1> QED
  BY <1>1, <1>2, <1>3, <1>4 DEF Next

THEOREM IInvCorrect == Spec => []IInv
  BY IInvInit, IInvStep, PTL DEF Spec

-----------------------------------------------------------------------------
(* Every variable keeps its type (EmulatedDirectSoundBuffer).              *)
THEOREM TypeCorrect == Spec => []TypeOK
<1>1. IInv => TypeOK
  BY DEF IInv, DataInv, FrameInv, TypeOK
<1> QED
  BY <1>1, IInvCorrect, PTL

(* While nobody changes the buffer it holds the game's sound in every copy,*)
(* whatever the threads lock, write and unlock and however often the frame *)
(* makes it grow (Lock, Unlock, AdvanceTimeAndMix).                        *)
THEOREM SoundKeptCorrect == Spec => []SoundKept
<1>1. IInv => SoundKept
  BY NobodyAssumption DEF IInv, DataInv, Owners, CopiesOK, SoundKept
<1> QED
  BY <1>1, IInvCorrect, PTL

(* Before its last turn the loop is inside its range.                      *)
LEMMA OffsetInRange ==
  ASSUME MixTyped, MixRange, MixCounters, mix.i < mix.outSize
  PROVE  mix.inOffset < mix.size
<1> DEFINE o == mix.outSize
           size == mix.size
           i == mix.i
           offset == mix.inOffset
<1>1. /\ o \in Nat \ {0} /\ size \in Nat \ {0} /\ i \in Nat /\ i < o /\ offset \in Nat
      /\ mix.offsetRemainder \in Nat
      /\ (offset * o) + mix.offsetRemainder = i * size
  BY DEF MixTyped, MixRange, MixCounters
<1> HIDE DEF o, size, i, offset
<1>2. SUFFICES ASSUME size <= offset PROVE FALSE
  BY <1>1 DEF size, offset
<1>3. size * o <= offset * o
  BY <1>1, <1>2, Monotone
<1>4. (i + 1) * size <= o * size
  BY <1>1, Monotone
<1>5. (i + 1) * size = (i * size) + size /\ o * size = size * o
  BY <1>1
<1>6. offset * o \in Nat /\ i * size \in Nat /\ size * o \in Nat
  BY <1>1
<1> QED
  BY <1>1, <1>3, <1>4, <1>5, <1>6

(* Where the loop reads in a range of whole samples, and in any other.     *)
LEMMA ReadsOfRange ==
  ASSUME IInv, At("sample"), mix.i < mix.outSize
  PROVE  /\ mix.size % Block = 0 => ReadsInside
         /\ ReadsNear
<1>1. MixTyped /\ MixRange /\ MixCounters /\ allocated \in Nat
  BY DEF IInv, FrameInv, CursorsTyped, MixOK, DataInv, DataTyped
<1>2. mix.inOffset < mix.size
  BY <1>1, OffsetInRange
<1>3. /\ mix.pos \in Nat /\ mix.inOffset \in Nat /\ mix.size \in Nat
      /\ mix.last \in BOOLEAN /\ Block \in Nat \ {0}
      /\ mix.pos + mix.size + (IF mix.last THEN 0 ELSE Block) <= allocated
  BY <1>1, Sizes DEF MixTyped, MixRange
<1>4. ASSUME mix.size % Block = 0 PROVE ReadsInside
  <2>1. FirstSample \in Nat /\ FirstSample + Block <= mix.size
    BY <1>2, <1>3, <1>4, SampleInside DEF FirstSample
  <2> HIDE DEF FirstSample
  <2>2. CASE mix.last
    <3>1. NextSample + Block <= mix.size /\ NextSample \in Int
      BY <1>3, <2>1, <2>2 DEF NextSample
    <3> QED
      BY <1>1, <1>3, <2>1, <2>2, <3>1 DEF ReadsInside
  <2>3. CASE ~mix.last
    <3>1. NextSample = FirstSample + Block
      BY <2>3 DEF NextSample
    <3> QED
      BY <1>1, <1>3, <2>1, <2>3, <3>1 DEF ReadsInside
  <2> QED
    BY <2>2, <2>3
<1>5. ReadsNear
  <2>1. FirstSample \in Int /\ FirstSample <= mix.inOffset
    <3>1. mix.inOffset % Block \in 0 .. Block - 1
      BY <1>3, Division
    <3> QED
      BY <1>3, <3>1 DEF FirstSample
  <2> HIDE DEF FirstSample
  <2>2. NextSample \in Int /\ NextSample < mix.size + Block
    BY <1>2, <1>3, <2>1 DEF NextSample
  <2> HIDE DEF NextSample
  <2>3. mix.pos + mix.size <= allocated
    BY <1>1, <1>3
  <2> QED
    BY <1>1, <1>2, <1>3, <2>1, <2>2, <2>3 DEF ReadsNear
<1> QED
  BY <1>4, <1>5

(* The mixing loop, which holds no lock, reads inside the buffer when its  *)
(* range is of whole samples, for formats, frames and buffers of any size  *)
(* and wherever the game seeks; in any other range its reads begin less    *)
(* than a sample behind the end (MixFromTo, Mix).                          *)
THEOREM MixInBoundsCorrect == Spec => []MixInBounds
<1>1. IInv => MixInBounds
  BY ReadsOfRange DEF MixInBounds
<1> QED
  BY <1>1, IInvCorrect, PTL

(* For a game whose buffer and seeks are whole samples every range is, and *)
(* the loop reads inside always: "so mix only until the end of this sound  *)
(* buffer" holds for it (soundhooks.cpp:810).                              *)
THEOREM WholeSamplesInBounds ==
  ASSUME WholeSamples
  PROVE  Spec => []MixAlwaysInBounds
<1>1. IInv => MixAlwaysInBounds
  <2> SUFFICES ASSUME IInv, At("sample"), mix.i < mix.outSize
               PROVE  ReadsInside
    BY DEF MixAlwaysInBounds
  <2>1. mix.size % Block = 0
    BY DEF IInv, FrameInv, MixOK, MixRange, Whole
  <2> QED
    BY <2>1, ReadsOfRange
<1> QED
  BY <1>1, IInvCorrect, PTL

(* The loop, which does not divide, is for every byte of output at the     *)
(* place an exact division gives: it never drifts (Mix).                   *)
THEOREM ResampledExactlyCorrect == Spec => []ResampledExactly
<1>1. IInv => ResampledExactly
  <2> SUFFICES ASSUME IInv, At("sample")
               PROVE  /\ mix.inOffset = (mix.i * mix.size) \div mix.outSize
                      /\ mix.frac = ((mix.i * mix.size * 1024) \div mix.outSize) % 1024
    BY DEF ResampledExactly
  <2> DEFINE o == mix.outSize
             total == mix.i * mix.size
             more == mix.i * mix.size * 1024
  <2>1. MixTyped /\ MixRange /\ MixCounters
    BY DEF IInv, FrameInv, CursorsTyped, MixOK
  <2>2. /\ o \in Nat \ {0} /\ total \in Nat /\ mix.inOffset \in Nat
        /\ mix.offsetRemainder \in 0 .. o - 1 /\ mix.fracError \in 0 .. o - 1
        /\ total = (mix.inOffset * o) + mix.offsetRemainder
        /\ mix.frac \in Nat /\ mix.frac < 1024
    BY <2>1 DEF MixTyped, MixRange, MixCounters
  <2>f. mix.frac \in Nat /\ mix.frac < 1024
    BY <2>1 DEF MixTyped
  <2>3. PICK k \in Nat : (((k * 1024) + mix.frac) * o) + mix.fracError = total * 1024
    BY <2>1 DEF MixCounters
  <2>4. more = total * 1024 /\ more \in Nat
    BY <2>2
  <2> HIDE DEF o, total, more
  <2>5. total \div o = mix.inOffset
    <3> DEFINE q == mix.inOffset
               r == mix.offsetRemainder
    <3>1. /\ total \in Nat /\ o \in Nat \ {0} /\ q \in Nat /\ r \in 0 .. o - 1
          /\ total = (q * o) + r
      BY <2>2
    <3> HIDE DEF q, r
    <3>2. total \div o = q
      BY <3>1, DivisionUnique
    <3> QED
      BY <3>2 DEF q
  <2>6. more \div o = (k * 1024) + mix.frac
    <3> DEFINE q == (k * 1024) + mix.frac
               r == mix.fracError
    <3>a. q \in Nat
      BY <2>f
    <3>1. /\ more \in Nat /\ o \in Nat \ {0} /\ r \in 0 .. o - 1
          /\ more = (q * o) + r
      BY <2>2, <2>3, <2>4
    <3> HIDE DEF q, r
    <3>2. more \div o = q
      BY <3>a, <3>1, DivisionUnique
    <3> QED
      BY <3>2 DEF q
  <2>7. ((k * 1024) + mix.frac) % 1024 = mix.frac
    BY <2>f
  <2> QED
    BY <2>5, <2>6, <2>7 DEF o, total, more
<1> QED
  BY <1>1, IInvCorrect, PTL
-----------------------------------------------------------------------------
(* The notification positions.  A frame looks at two ranges, which have no *)
(* offset in common; a position is signalled when it has been looked at and*)
(* lies in the range of a round.                                           *)
FirstRange  == frame.base .. (IF frame.way = "within" THEN Unwrapped ELSE Size) - 1
SecondRange == 0 .. SecondEnd - 1
LookedAt(n) == At("move") \/ n < frame.notify \/ (n = frame.notify /\ At("restore"))
Hit(n) ==
  \/ Positions[n] \in FirstRange /\ (frame.round = 2 \/ LookedAt(n))
  \/ Positions[n] \in SecondRange /\ frame.round = 2 /\ LookedAt(n)
SignalledOnce ==
  \A n \in DOMAIN Positions :
    Positions[n] # OffsetStop => signalled[n] = IF Hit(n) THEN 1 ELSE 0
Notifying == frame.pc \in {"end", "notify", "restore", "move"}
NotifyInv ==
  Notifying =>
    /\ frame.round = 2 => frame.way = "wrap"
    /\ At("move") => frame.round = Rounds
    /\ At("end") => frame.round = 1 /\ frame.notify = 1
    /\ SignalledOnce

LEMMA PositionsTyped ==
  /\ Len(Positions) \in Nat /\ DOMAIN Positions = 1 .. Len(Positions)
  /\ \A n \in DOMAIN Positions : n \in Nat \ {0} /\ Positions[n] \in Nat
  BY PositionsAssumption

LEMMA FrameNumbers ==
  ASSUME FrameInv
  PROVE  /\ frame.base \in 0 .. Size - 1 /\ frame.bytes \in Nat /\ frame.notify \in Nat
         /\ frame.round \in {1, 2} /\ frame.way \in {"within", "wrap", "stop"}
         /\ frame.pc \in Places
  BY DEF FrameInv, CursorsTyped, FrameTyped, Positive

(* Past the end of the buffer the cursor is behind where it began, unless  *)
(* the frame plays the whole buffer.                                       *)
LEMMA WrappedBehind ==
  ASSUME NEW base \in 0 .. Size - 1, NEW bytes \in Nat, base + bytes >= Size, bytes < Size
  PROVE  (base + bytes) % Size = base + bytes - Size
<1>1. Size \in Nat \ {0}
  BY Sizes
<1>2. /\ base + bytes \in Nat /\ base + bytes - Size \in 0 .. Size - 1
      /\ base + bytes = (1 * Size) + (base + bytes - Size)
  BY <1>1
<1> QED
  BY <1>1, <1>2, DivisionUnique

LEMMA RangesDiffer ==
  ASSUME FrameInv, frame.way = "wrap"
  PROVE  /\ SecondEnd \in Nat /\ SecondEnd <= frame.base
         /\ frame.bytes < Size => SecondEnd = Unwrapped - Size
         /\ \A q \in SecondRange : q \notin FirstRange
<1>1. frame.base \in 0 .. Size - 1 /\ frame.bytes \in Nat /\ Size \in Nat
  BY FrameNumbers, Sizes
<1>2. frame.base + frame.bytes >= Size
  BY DEF FrameInv, FrameOK, Unwrapped
<1>3. CASE frame.bytes >= Size
  <2>1. SecondEnd = frame.base
    BY <1>3 DEF SecondEnd
  <2> QED
    BY <1>1, <1>3, <2>1 DEF SecondRange, FirstRange
<1>4. CASE frame.bytes < Size
  <2>1. SecondEnd = frame.base + frame.bytes - Size
    <3>1. ~(frame.bytes >= Size) /\ Size \in Nat
      BY <1>1, <1>4
    <3>2. SecondEnd = (frame.base + frame.bytes) % Size
      BY <3>1 DEF SecondEnd, Wrapped, Unwrapped
    <3>3. (frame.base + frame.bytes) % Size = frame.base + frame.bytes - Size
      BY <1>1, <1>2, <1>4, WrappedBehind
    <3> QED
      BY <3>2, <3>3
  <2>2. SecondEnd \in Nat /\ SecondEnd <= frame.base
    BY <1>1, <1>2, <1>4, <2>1
  <2> QED
    BY <1>1, <2>1, <2>2 DEF SecondRange, FirstRange, Unwrapped
<1> QED
  BY <1>1, <1>3, <1>4

(* The two ranges are the offsets that the cursor passes.                  *)
LEMMA RangesArePassed ==
  ASSUME FrameInv, frame.way # "within" \/ Unwrapped < Size
  PROVE  \A q \in Nat :
           q \in Passed <=> q \in FirstRange \/ (frame.way = "wrap" /\ q \in SecondRange)
<1> DEFINE base == frame.base
           bytes == frame.bytes
<1>1. /\ base \in 0 .. Size - 1 /\ bytes \in Nat /\ Size \in Nat \ {0}
      /\ frame.way \in {"within", "wrap", "stop"} /\ Unwrapped = base + bytes
      /\ frame.way # "within" => base + bytes >= Size
      /\ frame.way = "within" => base + bytes < Size
  BY FrameNumbers, Sizes DEF FrameInv, FrameOK, Unwrapped
<1>2. Passed = {q \in 0 .. Size - 1 : \E k \in 0 .. bytes - 1 :
                  q = IF frame.way = "wrap" THEN (base + k) % Size ELSE base + k}
  BY DEF Passed
<1>3. FirstRange = base .. (IF frame.way = "within" THEN base + bytes ELSE Size) - 1
  BY <1>1 DEF FirstRange
<1>4. frame.way = "wrap" =>
        /\ SecondEnd \in Nat /\ SecondEnd <= base
        /\ bytes < Size => SecondEnd = (base + bytes) - Size
        /\ bytes >= Size => SecondEnd = base
  BY <1>1, RangesDiffer DEF SecondEnd
<1>5. SecondRange = 0 .. SecondEnd - 1
  BY DEF SecondRange
<1> HIDE DEF base, bytes
<1>6. SUFFICES ASSUME NEW q \in Nat
               PROVE  q \in Passed <=> q \in FirstRange \/ (frame.way = "wrap" /\ q \in SecondRange)
  OBVIOUS
<1>7. CASE frame.way # "wrap"
  <2>1. q \in Passed <=> q \in 0 .. Size - 1 /\ \E k \in 0 .. bytes - 1 : q = base + k
    BY <1>2, <1>7
  <2>2. (\E k \in 0 .. bytes - 1 : q = base + k) <=> q \in base .. base + bytes - 1
    <3>1. ASSUME q \in base .. base + bytes - 1
          PROVE  \E k \in 0 .. bytes - 1 : q = base + k
      <4>1. q - base \in 0 .. bytes - 1 /\ q = base + (q - base)
        BY <1>1, <3>1
      <4> QED
        BY <4>1
    <3>2. ASSUME NEW k \in 0 .. bytes - 1, q = base + k
          PROVE  q \in base .. base + bytes - 1
      BY <1>1, <3>2
    <3> QED
      BY <3>1, <3>2
  <2> QED
    BY <1>1, <1>3, <1>7, <2>1, <2>2
<1>8. CASE frame.way = "wrap"
  <2>1. q \in Passed <=> q \in 0 .. Size - 1 /\ \E k \in 0 .. bytes - 1 : q = (base + k) % Size
    BY <1>2, <1>8
  <2>2. ASSUME q \in FirstRange
        PROVE  q \in Passed
    <3>1. /\ q \in 0 .. Size - 1 /\ q - base \in 0 .. bytes - 1 /\ base + (q - base) = q
      BY <1>1, <1>3, <1>8, <2>2
    <3>2. q % Size = q
      BY <3>1, OffsetInside
    <3> QED
      BY <2>1, <3>1, <3>2
  <2>3. ASSUME q \in SecondRange
        PROVE  q \in Passed
    <3> DEFINE k == (q + Size) - base
    <3>1. q \in Nat /\ q < SecondEnd
      BY <1>4, <1>5, <1>8, <2>3
    <3>2. q < base
      BY <1>1, <1>4, <1>8, <3>1
    <3>3. k \in Nat /\ k < bytes
      BY <1>1, <1>4, <1>8, <3>1, <3>2
    <3>4. base + k = (1 * Size) + q /\ base + k \in Nat
      BY <1>1, <3>2
    <3> HIDE DEF k
    <3>5. q \in 0 .. Size - 1
      BY <1>1, <3>2
    <3>6. (base + k) % Size = q
      BY <1>1, <3>4, <3>5, DivisionUnique
    <3>7. k \in 0 .. bytes - 1
      BY <1>1, <3>3
    <3> QED
      BY <2>1, <3>5, <3>6, <3>7
  <2>4. ASSUME q \in Passed, q \notin FirstRange
        PROVE  q \in SecondRange
    <3>1. q \in 0 .. Size - 1
      BY <2>1, <2>4
    <3>2. q < base
      BY <1>1, <1>3, <1>8, <2>4, <3>1
    <3>3. CASE bytes >= Size
      BY <1>1, <1>4, <1>5, <1>8, <3>2, <3>3
    <3>4. CASE bytes < Size
      <4>1. PICK k \in 0 .. bytes - 1 : q = (base + k) % Size
        BY <2>1, <2>4
      <4>2. CASE base + k < Size
        <5>1. (base + k) % Size = base + k
          BY <1>1, <4>2, OffsetInside
        <5> QED
          BY <1>1, <3>2, <4>1, <5>1
      <4>3. CASE base + k >= Size
        <5>1. k \in Nat /\ k < bytes /\ k < Size
          BY <1>1, <3>4, <4>1
        <5>2. (base + k) % Size = base + k - Size
          BY <1>1, <4>3, <5>1, WrappedBehind
        <5>3. q < SecondEnd
          BY <1>1, <1>4, <1>8, <3>4, <4>1, <5>1, <5>2
        <5> QED
          BY <1>1, <1>4, <1>5, <1>8, <5>3
      <4> QED
        BY <1>1, <4>1, <4>2, <4>3
    <3> QED
      BY <1>1, <3>3, <3>4
  <2> QED
    BY <1>8, <2>2, <2>3, <2>4
<1> QED
  BY <1>7, <1>8
(* What counts a step leaves: SignalledOnce, said of the next state.       *)
LEMMA NotifyInit ==
  Init => NotifyInv
  BY DEF Init, Idle, NotifyInv, Notifying

LEMMA NotifyKept ==
  ASSUME FrameInv, NotifyInv, UNCHANGED <<frame, allocated>>,
         \A n \in DOMAIN Positions : Positions[n] # OffsetStop => signalled'[n] = signalled[n]
  PROVE  NotifyInv'
  BY DEF NotifyInv, Notifying, At, Rounds, SignalledOnce, Hit, FirstRange, SecondRange,
         SecondEnd, LookedAt, Unwrapped, Wrapped

LEMMA AdvanceNotify ==
  ASSUME NEW bytes \in FrameBytes, NEW out \in OutBytes, AdvanceTimeAndMix(bytes, out)
  PROVE  NotifyInv'
<1>1. /\ frame'.pc \in {"notify", "end"} /\ frame'.round = 1 /\ frame'.notify = 1
      /\ signalled' = [n \in DOMAIN Positions |-> 0]
  BY DEF AdvanceTimeAndMix, Idle
<1>2. \A n \in DOMAIN Positions : n \in Nat \ {0}
  BY PositionsTyped
<1>3. \A n \in DOMAIN Positions : ~Hit(n)'
  BY <1>1, <1>2 DEF Hit, LookedAt, At
<1> QED
  BY <1>1, <1>3 DEF NotifyInv, SignalledOnce, At

LEMMA ReachEndNotify ==
  ASSUME FrameInv, NotifyInv, ReachEnd
  PROVE  NotifyInv'
<1>1. /\ frame'.pc = "notify" /\ frame'.round = 1 /\ frame'.notify = 1
      /\ signalled' = signalled /\ frame.round = 1 /\ frame.notify = 1
      /\ frame.pc = "end" /\ SignalledOnce
  BY DEF ReachEnd, FrameInv, CursorsTyped, FrameTyped, NotifyInv, Notifying, At
<1>2. \A n \in DOMAIN Positions : n \in Nat \ {0}
  BY PositionsTyped
<1>3. \A n \in DOMAIN Positions : ~Hit(n)' /\ ~Hit(n)
  BY <1>1, <1>2 DEF Hit, LookedAt, At
<1> QED
  BY <1>1, <1>3 DEF NotifyInv, SignalledOnce, At

(* The ranges do not change while a frame looks at the positions.          *)
LEMMA RangesKept ==
  ASSUME frame'.base = frame.base, frame'.bytes = frame.bytes, frame'.way = frame.way
  PROVE  /\ FirstRange' = FirstRange /\ SecondRange' = SecondRange /\ Rounds' = Rounds
  BY DEF FirstRange, SecondRange, SecondEnd, Unwrapped, Wrapped, Rounds

LEMMA NotifyNotify ==
  ASSUME FrameInv, NotifyInv, Notify
  PROVE  NotifyInv'
<1> DEFINE at == frame.notify
<1>1. /\ frame.pc = "notify" /\ at \in DOMAIN Positions
      /\ frame.round \in {1, 2} /\ (frame.round = 2 => frame.way = "wrap") /\ SignalledOnce
  <2>1. frame.notify \in Nat \ {0} /\ frame.round \in {1, 2}
    BY DEF FrameInv, CursorsTyped, FrameTyped, Positive
  <2>2. frame.notify <= Len(Positions)
    BY DEF Notify
  <2>3. frame.notify \in DOMAIN Positions
    BY <2>1, <2>2, PositionsTyped
  <2> QED
    BY <2>1, <2>3 DEF Notify, NotifyInv, Notifying, At
<1>2. /\ frame'.base = frame.base /\ frame'.bytes = frame.bytes /\ frame'.way = frame.way
      /\ frame'.round = frame.round
      /\ \/ /\ Positions[at] \in NotifyRange
            /\ frame'.pc = "restore" /\ frame'.notify = at
            /\ signalled' = [signalled EXCEPT ![at] = IF @ < 2 THEN @ + 1 ELSE 2]
         \/ /\ Positions[at] \notin NotifyRange
            /\ frame'.pc = "notify" /\ frame'.notify = at + 1 /\ signalled' = signalled
  <2>1. FrameTyped
    BY DEF FrameInv, CursorsTyped
  <2>2. CASE Positions[at] \in NotifyRange
    <3>1. /\ frame' = [frame EXCEPT !.pc = "restore", !.prev = playCursor]
          /\ signalled' = [signalled EXCEPT ![at] = IF @ < 2 THEN @ + 1 ELSE 2]
      BY <2>2, Zenon DEF Notify, Signal
    <3> QED
      BY <2>1, <2>2, <3>1 DEF FrameTyped
  <2>3. CASE Positions[at] \notin NotifyRange
    <3>1. frame' = [frame EXCEPT !.notify = @ + 1] /\ signalled' = signalled
      BY <2>3 DEF Notify
    <3>2. /\ frame'.base = frame.base /\ frame'.bytes = frame.bytes /\ frame'.way = frame.way
          /\ frame'.round = frame.round /\ frame'.pc = frame.pc /\ frame'.notify = at + 1
      BY <2>1, <3>1 DEF FrameTyped
    <3> QED
      BY <1>1, <2>3, <3>1, <3>2
  <2> QED
    BY <2>2, <2>3
<1>3. FirstRange' = FirstRange /\ SecondRange' = SecondRange
  BY <1>2, RangesKept
<1>4. /\ frame.round = 1 => NotifyRange = FirstRange
      /\ frame.round = 2 => NotifyRange = SecondRange
  BY <1>1 DEF NotifyRange, FirstRange, SecondRange
<1>5. frame.round = 2 => \A q \in SecondRange : q \notin FirstRange
  BY <1>1, RangesDiffer
<1>6. \A n \in DOMAIN Positions : n \in Nat
  BY PositionsTyped
<1>7. signalled \in [DOMAIN Positions -> 0 .. 2]
  BY DEF FrameInv, CursorsTyped, StatusTyped
<1> HIDE DEF at
<1>8. SUFFICES ASSUME NEW n \in DOMAIN Positions, Positions[n] # OffsetStop
               PROVE  signalled'[n] = IF Hit(n)' THEN 1 ELSE 0
  BY <1>1, <1>2 DEF NotifyInv, SignalledOnce, At
<1>9. signalled[n] = IF Hit(n) THEN 1 ELSE 0
  BY <1>1, <1>8 DEF SignalledOnce
<1>10. /\ LookedAt(n) <=> n < at
       /\ LookedAt(n)' <=> n < at \/ n = at
  <2>1. n \in Nat /\ at \in Nat
    BY <1>1, <1>6
  <2> QED
    BY <1>1, <1>2, <2>1 DEF LookedAt, At, at
<1>11. CASE n # at
  <2>1. n < at <=> n < at \/ n = at
    BY <1>11
  <2>2. Hit(n)' <=> Hit(n)
    BY <1>2, <1>3, <1>10, <2>1 DEF Hit
  <2>3. signalled'[n] = signalled[n]
    BY <1>2, <1>7, <1>11
  <2> QED
    BY <1>9, <2>2, <2>3
<1>12. CASE n = at
  <2>1. ~(n < at) /\ (n < at \/ n = at)
    BY <1>6, <1>12
  <2>2. /\ Hit(n) <=> Positions[n] \in FirstRange /\ frame.round = 2
        /\ Hit(n)' <=> Positions[n] \in FirstRange \/ (Positions[n] \in SecondRange /\ frame.round = 2)
    BY <1>2, <1>3, <1>10, <2>1 DEF Hit
  <2>3. CASE Positions[at] \in NotifyRange
    <3>1. ~Hit(n) /\ Hit(n)'
      BY <1>1, <1>4, <1>5, <1>12, <2>2, <2>3
    <3>2. signalled'[n] = 1
      <4>1. signalled[n] = 0
        BY <1>9, <3>1
      <4> QED
        BY <1>2, <1>7, <1>12, <2>3, <4>1
    <3> QED
      BY <3>1, <3>2
  <2>4. CASE Positions[at] \notin NotifyRange
    <3>1. Hit(n)' <=> Hit(n)
      BY <1>1, <1>4, <1>12, <2>2, <2>4
    <3>2. signalled'[n] = signalled[n]
      BY <1>2, <2>4
    <3> QED
      BY <1>9, <3>1, <3>2
  <2> QED
    BY <2>3, <2>4
<1> QED
  BY <1>11, <1>12

LEMMA RestoreNotify ==
  ASSUME FrameInv, NotifyInv, Restore
  PROVE  NotifyInv'
<1>1. /\ frame.pc = "restore" /\ frame'.pc = "notify" /\ frame'.notify = frame.notify + 1
      /\ frame'.base = frame.base /\ frame'.bytes = frame.bytes /\ frame'.way = frame.way
      /\ frame'.round = frame.round /\ signalled' = signalled /\ frame.notify \in Nat
  BY DEF Restore, At, FrameInv, CursorsTyped, FrameTyped, Positive
<1>2. FirstRange' = FirstRange /\ SecondRange' = SecondRange
  BY <1>1, RangesKept
<1>3. \A n \in DOMAIN Positions : n \in Nat
  BY PositionsTyped
<1>4. \A n \in DOMAIN Positions : n < frame.notify + 1 <=> n < frame.notify \/ n = frame.notify
  BY <1>1, <1>3
<1>5. \A n \in DOMAIN Positions : LookedAt(n)' <=> LookedAt(n)
  BY <1>1, <1>4 DEF LookedAt, At
<1>6. \A n \in DOMAIN Positions : Hit(n)' <=> Hit(n)
  BY <1>1, <1>2, <1>5 DEF Hit
<1> QED
  BY <1>1, <1>6 DEF NotifyInv, Notifying, SignalledOnce, At

LEMMA NextRoundNotify ==
  ASSUME FrameInv, NotifyInv, NextRound
  PROVE  NotifyInv'
<1>1. /\ frame.pc = "notify" /\ frame.notify > Len(Positions) /\ frame.notify \in Nat
      /\ frame.round \in {1, 2} /\ (frame.round = 2 => frame.way = "wrap") /\ SignalledOnce
      /\ signalled' = signalled
      /\ frame'.base = frame.base /\ frame'.bytes = frame.bytes /\ frame'.way = frame.way
      /\ \/ /\ frame.round < Rounds /\ frame'.pc = "notify" /\ frame'.round = 2
            /\ frame'.notify = 1
         \/ /\ ~(frame.round < Rounds) /\ frame'.pc = "move" /\ frame'.round = frame.round
  BY DEF NextRound, At, FrameInv, CursorsTyped, FrameTyped, Positive, NotifyInv, Notifying,
         cursorVars
<1>2. FirstRange' = FirstRange /\ SecondRange' = SecondRange /\ Rounds' = Rounds
  BY <1>1, RangesKept
<1>3. \A n \in DOMAIN Positions : n \in Nat \ {0} /\ n < frame.notify
  BY <1>1, PositionsTyped
<1>4. \A n \in DOMAIN Positions : LookedAt(n)
  BY <1>3 DEF LookedAt
<1>5. CASE frame.round < Rounds
  <2>1. frame.round = 1 /\ frame.way = "wrap" /\ frame'.round = 2 /\ frame'.pc = "notify"
        /\ frame'.notify = 1
    BY <1>1, <1>5 DEF Rounds
  <2>2. \A n \in DOMAIN Positions : ~LookedAt(n)'
    BY <1>3, <2>1 DEF LookedAt, At
  <2>3. \A n \in DOMAIN Positions : Hit(n)' <=> Hit(n)
    BY <1>2, <1>4, <2>1, <2>2 DEF Hit
  <2> QED
    BY <1>1, <2>1, <2>3 DEF NotifyInv, SignalledOnce, At
<1>6. CASE ~(frame.round < Rounds)
  <2>1. frame'.pc = "move" /\ frame'.round = frame.round /\ frame'.round = Rounds
    BY <1>1, <1>6 DEF Rounds
  <2>2. \A n \in DOMAIN Positions : LookedAt(n)'
    BY <2>1 DEF LookedAt, At
  <2>3. \A n \in DOMAIN Positions : Hit(n)' <=> Hit(n)
    BY <1>2, <1>4, <2>1, <2>2 DEF Hit
  <2> QED
    BY <1>1, <1>2, <2>1, <2>3 DEF NotifyInv, SignalledOnce, At
<1> QED
  BY <1>5, <1>6

LEMMA NotifyStep ==
  IInv /\ NotifyInv /\ [Next]_vars => NotifyInv'
<1> SUFFICES ASSUME IInv, NotifyInv, [Next]_vars PROVE NotifyInv'
  OBVIOUS
<1>1. FrameInv
  BY DEF IInv
<1>2. ASSUME frame'.pc \notin {"end", "notify", "restore", "move"}
      PROVE  NotifyInv'
  BY <1>2 DEF NotifyInv, Notifying
<1>3. ASSUME UNCHANGED <<frame, allocated>>,
             signalled' = signalled \/ NotifyOfStop
      PROVE  NotifyInv'
  <2>1. \A n \in DOMAIN Positions : Positions[n] # OffsetStop => signalled'[n] = signalled[n]
    BY <1>3 DEF NotifyOfStop
  <2> QED
    BY <1>1, <1>3, <2>1, NotifyKept
<1>4. frame = [pc |-> frame.pc, way |-> frame.way, base |-> frame.base, bytes |-> frame.bytes,
               out |-> frame.out, round |-> frame.round, notify |-> frame.notify,
               prev |-> frame.prev]
  BY <1>1 DEF FrameInv, CursorsTyped, FrameTyped
<1>5. CASE ReachEnd BY <1>1, <1>5, ReachEndNotify
<1>6. CASE Notify BY <1>1, <1>6, NotifyNotify
<1>7. CASE Restore BY <1>1, <1>7, RestoreNotify
<1>8. CASE NextRound BY <1>1, <1>8, NextRoundNotify
<1>9. Mixed => frame'.pc \in {"stop", "idle"}
  BY <1>4 DEF Mixed, Idle
<1>10. CASE MovePlayCursor
  BY <1>2, <1>4, <1>9, <1>10 DEF MovePlayCursor, FrameGoes
<1>11. CASE Grow
  BY <1>2, <1>4, <1>11 DEF Grow, FrameGoes
<1>12. CASE MixFromTo
  BY <1>2, <1>4, <1>9, <1>12 DEF MixFromTo, FrameGoes
<1>13. CASE MixReturns
  BY <1>2, <1>9, <1>13 DEF MixReturns
<1>14. CASE StopAtEnd
  BY <1>2, <1>14 DEF StopAtEnd, Idle
<1>15. CASE Sample
  BY <1>3, <1>15 DEF Sample, cursorVars, dataVars
<1>16. ASSUME NEW bytes \in FrameBytes, NEW out \in OutBytes, AdvanceTimeAndMix(bytes, out)
       PROVE  NotifyInv'
  BY <1>16, AdvanceNotify
<1>17. ASSUME NEW u \in Users, UserStep(u)
       PROVE  NotifyInv'
  BY <1>3, <1>17 DEF UserStep, LockReturns, UnlockReturns, PlayReturns, cursorVars, frameVars,
         dataVars
<1>18. ASSUME NEW u \in Users, UserCall(u)
       PROVE  NotifyInv'
  BY <1>3, <1>18 DEF UserCall, Lock, Write, Unlock, Play, SetCurrentPosition, Stop, cursorVars,
         frameVars, dataVars
<1>19. CASE UNCHANGED vars
  BY <1>3, <1>19 DEF vars, cursorVars, frameVars, dataVars
<1> QED
  BY <1>5, <1>6, <1>7, <1>8, <1>10, <1>11, <1>12, <1>13, <1>14, <1>15, <1>16, <1>17, <1>18,
     <1>19 DEF Next, FrameStep

(* A frame signals each notification position that the cursor passes, and  *)
(* signals it once, for buffers, frames and positions of any number and    *)
(* size, and whatever the game does meanwhile (AdvanceTimeAndMix,          *)
(* NotifyInRange).                                                         *)
THEOREM NotifiedOnceCorrect == Spec => []NotifiedOnce
<1>1. IInv /\ NotifyInv => NotifiedOnce
  <2> SUFFICES ASSUME IInv, NotifyInv, At("move"), NEW n \in DOMAIN Positions,
                      Positions[n] # OffsetStop
               PROVE  signalled[n] = IF Positions[n] \in Passed THEN 1 ELSE 0
    BY DEF NotifiedOnce
  <2>1. FrameInv
    BY DEF IInv
  <2>2. /\ frame.round = Rounds /\ signalled[n] = IF Hit(n) THEN 1 ELSE 0
    BY DEF NotifyInv, Notifying, SignalledOnce, At
  <2>3. Hit(n) <=> \/ Positions[n] \in FirstRange
                   \/ frame.way = "wrap" /\ Positions[n] \in SecondRange
    BY <2>2 DEF Hit, LookedAt, Rounds
  <2>4. frame.way # "within" \/ Unwrapped < Size
    BY <2>1 DEF FrameInv, FrameOK, At
  <2>5. Positions[n] \in Passed <=> \/ Positions[n] \in FirstRange
                                    \/ frame.way = "wrap" /\ Positions[n] \in SecondRange
    BY <2>1, <2>4, PositionsTyped, RangesArePassed
  <2> QED
    BY <2>2, <2>3, <2>5
<1> QED
  BY <1>1, IInvCorrect, NotifyInit, NotifyStep, PTL DEF Spec
=============================================================================
