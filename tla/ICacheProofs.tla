---------------------------- MODULE ICacheProofs ----------------------------
(***************************************************************************)
(* Proofs about the instruction cache, for lines and caches of every size  *)
(* and any program that enters its lines at their first words.             *)
(***************************************************************************)
EXTENDS ICache, TLAPS

\* What the cache needs of the core: it is reset and jumps to the first word
\* of a line, and a miss always fills one of the two ways.
CacheFits == CacheSizes /\ AlignedJumps /\ FillWays \subseteq {0, 1}

BlockOf(tag, index) == (tag * NumSets + index) * LineBytes

\* With a pc inside a line, the line is in the cache: its first word came by.
InsideALine == OffsetOf(pc) # 0 => Hit(0) \/ Hit(1)

CacheTypes ==
    /\ rst \in BOOLEAN
    /\ pc \in Word
    /\ OffsetOf(pc) % 4 = 0
    /\ bubble \in BOOLEAN /\ stall \in BOOLEAN /\ ~(bubble /\ stall)
    /\ cache \in [0 .. NumSets - 1 -> [{0, 1} ->
           [valid : BOOLEAN, tag : Nat, data : [0 .. LineWords - 1 -> Instr]]]]

\* The invariant that makes LinesHoldMemory inductive.
CacheInv ==
    /\ CacheTypes
    /\ imem \in Programs
    /\ InsideALine
    /\ LinesHoldMemory

-----------------------------------------------------------------------------
\* Quotient and remainder, which split an address into block and offset.
LEMMA Division ==
  ASSUME NEW a \in Nat, NEW b \in Nat \ {0}
  PROVE  /\ a \div b \in Nat
         /\ a % b \in 0 .. b - 1
         /\ a % b = a - (a \div b) * b
<1>1. a \div b \in Nat
  BY SMT
<1>2. a % b \in 0 .. b - 1
  BY SMT
<1>3. a % b = a - (a \div b) * b
  BY SMT
<1>4. QED
  BY <1>1, <1>2, <1>3

\* There is one way to split a number so.
LEMMA DivisionUnique ==
  ASSUME NEW a \in Nat, NEW b \in Nat \ {0}, NEW q \in Nat, NEW r \in 0 .. b - 1,
         a = q * b + r
  PROVE  a \div b = q /\ a % b = r
<1> DEFINE p == a \div b
           s == a % b
<1>1. p \in Nat /\ s \in 0 .. b - 1 /\ s = a - p * b
  BY Division
<1> HIDE DEF p, s
<1>2. (p - q) * b = r - s
  BY <1>1
<1>3. p >= q + 1 => (p - q) * b >= b
  BY <1>1
<1>4. q >= p + 1 => (p - q) * b <= 0 - b
  BY <1>1
<1>5. p = q
  BY <1>1, <1>2, <1>3, <1>4
<1>6. QED
  BY <1>1, <1>5 DEF p, s

\* A number without remainder is its quotient times the divisor.
LEMMA Multiple ==
  ASSUME NEW a \in Nat, NEW b \in Nat \ {0}, a % b = 0
  PROVE  a \div b \in Nat /\ (a \div b) * b = a
<1> DEFINE q == a \div b
           r == a % b
<1>1. q \in Nat /\ r = a - q * b
  BY Division
<1>2. r = 0
  OBVIOUS
<1> HIDE DEF q, r
<1>3. q * b \in Nat
  BY <1>1
<1>4. q * b = a
  BY <1>1, <1>2, <1>3
<1>5. QED
  BY <1>1, <1>4 DEF q

\* Set and tag of an address name its block: the quotient by the line size,
\* split once more.
LEMMA BlockNumber ==
  ASSUME CacheFits, NEW a \in Nat
  PROVE  /\ TagOf(a) \in Nat /\ IndexOf(a) \in 0 .. NumSets - 1
         /\ OffsetOf(a) \in 0 .. LineBytes - 1
         /\ TagOf(a) = (a \div LineBytes) \div NumSets
         /\ BlockOf(TagOf(a), IndexOf(a)) = a - OffsetOf(a)
<1>1. LineBytes \in Nat \ {0} /\ NumSets \in Nat \ {0} /\ LineBytes * NumSets \in Nat \ {0}
  <2>1. LineWords \in Nat \ {0} /\ NumSets \in Nat \ {0}
    BY DEF CacheFits, CacheSizes, AlignedJumps
  <2>2. LineBytes \in Nat \ {0}
    BY <2>1 DEF LineBytes
  <2>3. \A x, y \in Nat \ {0} : x * y \in Nat \ {0}
    OBVIOUS
  <2>4. QED
    BY <2>1, <2>2, <2>3
<1> DEFINE L == LineBytes
           q == a \div L
           r == a % L
           t == q \div NumSets
           i == q % NumSets
<1> HIDE DEF L
<1>2. q \in Nat /\ r \in 0 .. L - 1 /\ r = a - q * L
  BY <1>1, Division DEF L
<1> HIDE DEF q, r
<1>3. t \in Nat /\ i \in 0 .. NumSets - 1 /\ i = q - t * NumSets
  BY <1>1, <1>2, Division
<1> HIDE DEF t, i
<1>4. i * L + r \in 0 .. L * NumSets - 1
  <2>1. i * L \in Nat /\ i * L <= (NumSets - 1) * L
    BY <1>1, <1>3 DEF L
  <2>2. (NumSets - 1) * L = L * NumSets - L
    BY <1>1 DEF L
  <2>3. QED
    BY <1>1, <1>2, <2>1, <2>2 DEF L
<1>5. a = t * (L * NumSets) + (i * L + r)
  <2>1. q = t * NumSets + i
    BY <1>1, <1>2, <1>3
  <2>2. q * L = (t * NumSets) * L + i * L
    BY <1>1, <1>2, <1>3, <2>1 DEF L
  <2>3. (t * NumSets) * L = t * (L * NumSets)
    BY <1>1, <1>3 DEF L
  <2>4. /\ q * L \in Int /\ i * L \in Int /\ t * (L * NumSets) \in Int
        /\ q * L = t * (L * NumSets) + i * L
    BY <1>1, <1>2, <1>3, <2>2, <2>3 DEF L
  <2>5. QED
    BY <1>2, <2>4
<1>6. a \div (L * NumSets) = t
  BY <1>1, <1>3, <1>4, <1>5, DivisionUnique DEF L
<1>7. TagOf(a) = t /\ IndexOf(a) = i /\ OffsetOf(a) = r
  BY <1>6 DEF TagOf, IndexOf, OffsetOf, t, i, q, r, L
<1>8. t * NumSets + i = q
  BY <1>1, <1>2, <1>3
<1>9. BlockOf(t, i) = a - r
  BY <1>1, <1>2, <1>8 DEF BlockOf, L
<1>10. QED
  BY <1>2, <1>3, <1>7, <1>9 DEF t, q, L

\* The word at an address is word OffsetOf(a) \div 4 of its block.
LEMMA WordOfBlock ==
  ASSUME CacheFits, NEW a \in Word, OffsetOf(a) % 4 = 0
  PROVE  /\ OffsetOf(a) \div 4 \in 0 .. LineWords - 1
         /\ Add(BlockOf(TagOf(a), IndexOf(a)), 4 * (OffsetOf(a) \div 4)) = a
<1>1. a \in Nat /\ LineWords \in Nat \ {0}
  BY SizesAssumption DEF CacheFits, CacheSizes, AlignedJumps, Word
<1> DEFINE r == OffsetOf(a)
           k == r \div 4
<1>2. r \in 0 .. LineBytes - 1 /\ BlockOf(TagOf(a), IndexOf(a)) = a - r
  BY <1>1, BlockNumber
<1>3. r % 4 = 0
  OBVIOUS
<1> HIDE DEF r
<1>4. k \in Nat /\ 4 * k = r
  BY <1>2, <1>3, Division
<1> HIDE DEF k
<1>5. k \in 0 .. LineWords - 1
  BY <1>1, <1>2, <1>4 DEF LineBytes
<1>6. Add(a - r, 4 * k) = a % Modulus
  BY <1>1, <1>2, <1>4 DEF Add
<1>7. a % Modulus = a
  BY <1>1, SizesAssumption DEF Word
<1>8. QED
  BY <1>2, <1>5, <1>6, <1>7 DEF r, k

\* The next word is in the same line or the first of another one.
LEMMA NextWord ==
  ASSUME CacheFits, NEW a \in Word, OffsetOf(a) % 4 = 0
  PROVE  /\ Add(a, 4) \in Word /\ OffsetOf(Add(a, 4)) % 4 = 0
         /\ OffsetOf(Add(a, 4)) # 0 =>
               TagOf(Add(a, 4)) = TagOf(a) /\ IndexOf(Add(a, 4)) = IndexOf(a)
<1> DEFINE L == LineBytes
           q == a \div L
           r == a % L
           m == Modulus \div L
<1>1. /\ a \in Nat /\ LineWords \in Nat \ {0} /\ L = 4 * LineWords
      /\ L \in Nat \ {0} /\ Modulus \in Nat \ {0} /\ a < Modulus
  BY SizesAssumption DEF CacheFits, CacheSizes, AlignedJumps, Word, LineBytes
<1>2. Modulus % L = 0 /\ r % 4 = 0
  BY DEF CacheFits, CacheSizes, AlignedJumps, OffsetOf
<1>3. OffsetOf(a) = r
  BY DEF OffsetOf
<1> HIDE DEF L
<1>4. q \in Nat /\ r \in 0 .. L - 1 /\ r = a - q * L
  BY <1>1, Division
<1>5. m \in Nat /\ m * L = Modulus
  BY <1>1, <1>2, Multiple
<1> HIDE DEF q, r, m
<1>6. r + 4 <= L
  <2>1. PICK k \in Nat : k * 4 = r
    BY <1>2, <1>4, Multiple
  <2>2. k < LineWords
    BY <1>1, <1>4, <2>1
  <2>3. QED
    BY <1>1, <2>1, <2>2
<1>7. (q + 1) * L <= Modulus
  <2>1. q >= m => q * L >= m * L
    BY <1>1, <1>4, <1>5
  <2>2. q < m
    BY <1>1, <1>4, <1>5, <2>1
  <2>3. (q + 1) * L <= m * L
    BY <1>1, <1>4, <1>5, <2>2
  <2>4. QED
    BY <1>5, <2>3
<1>8. q * L + L = (q + 1) * L /\ q * L \in Nat
  BY <1>1, <1>4
<1>9. CASE r + 4 < L
  <2>1. a + 4 < Modulus /\ a + 4 = q * L + (r + 4)
    BY <1>1, <1>4, <1>7, <1>8, <1>9
  <2>2. Add(a, 4) = a + 4
    BY <1>1, <2>1 DEF Add
  <2>3. (a + 4) \div L = q /\ (a + 4) % L = r + 4
    <3> DEFINE b == a + 4
               s == r + 4
    <3>1. b \in Nat /\ s \in 0 .. L - 1 /\ b = q * L + s
      BY <1>1, <1>4, <1>9, <2>1
    <3> HIDE DEF b, s
    <3>2. b \div L = q /\ b % L = s
      BY <1>1, <1>4, <3>1, DivisionUnique
    <3>3. QED
      BY <3>2 DEF b, s
  <2>4. (r + 4) % 4 = 0
    BY <1>2, <1>4
  <2>5. TagOf(a + 4) = TagOf(a)
    BY <1>1, <2>3, BlockNumber DEF L, q
  <2>6. a + 4 \in Word
    BY <1>1, <2>1 DEF Word
  <2>7. IndexOf(a + 4) = IndexOf(a)
    BY <2>3 DEF IndexOf, L, q
  <2>8. QED
    BY <2>2, <2>3, <2>4, <2>5, <2>6, <2>7 DEF OffsetOf, L
<1>10. CASE r + 4 = L
  <2>1. a + 4 = (q + 1) * L /\ a + 4 <= Modulus
    BY <1>1, <1>4, <1>7, <1>8, <1>10
  <2>2. (a + 4) % L = 0
    <3>1. a + 4 \in Nat /\ q + 1 \in Nat /\ 0 \in 0 .. L - 1
      BY <1>1, <1>4
    <3>2. a + 4 = (q + 1) * L + 0
      BY <2>1, <3>1
    <3>3. QED
      BY <1>1, <3>1, <3>2, DivisionUnique
  <2>3. Add(a, 4) \in Word /\ Add(a, 4) % L = 0
    <3>1. CASE a + 4 < Modulus
      BY <1>1, <2>2, <3>1 DEF Add, Word
    <3>2. CASE a + 4 = Modulus
      BY <1>1, <3>2 DEF Add, Word
    <3>3. QED
      BY <1>1, <2>1, <3>1, <3>2
  <2>4. QED
    BY <2>3 DEF OffsetOf, L
<1>11. QED
  BY <1>1, <1>4, <1>6, <1>9, <1>10

-----------------------------------------------------------------------------
\* Index, tag and line of the pc are of their types.
LEMMA LinesTyped ==
  ASSUME CacheFits, CacheInv
  PROVE  /\ IndexOf(pc) \in 0 .. NumSets - 1 /\ TagOf(pc) \in Nat
         /\ MemoryData \in [0 .. LineWords - 1 -> Instr]
         /\ Hit(0) \in BOOLEAN /\ Hit(1) \in BOOLEAN
<1>1. pc \in Nat
  BY SizesAssumption DEF CacheInv, CacheTypes, Word
<1>2. IndexOf(pc) \in 0 .. NumSets - 1 /\ TagOf(pc) \in Nat
  BY <1>1, BlockNumber
<1>3. ZeroInstr \in Instr
  BY SizesAssumption DEF ZeroInstr, Instr, Class, Reg, Word
<1>4. MemoryData \in [0 .. LineWords - 1 -> Instr]
  BY <1>3, PowerOnAssumption DEF CacheInv, MemoryData, InstrAt
<1>5. QED
  BY <1>2, <1>4 DEF Hit

\* The core is served the word at its pc, from either way or on a miss, and
\* whatever was evicted before (icache.v, the read port).
LEMMA FetchIsMemory ==
  ASSUME CacheFits, CacheInv, ~rst, ~bubble, ~stall
  PROVE  NextInstr = InstrAt(imem, pc)
<1> DEFINE k == OffsetOf(pc) \div 4
<1>1. pc \in Word /\ OffsetOf(pc) % 4 = 0
  BY DEF CacheInv, CacheTypes
<1>2. k \in 0 .. LineWords - 1 /\ Add(BlockOf(TagOf(pc), IndexOf(pc)), 4 * k) = pc
  BY <1>1, WordOfBlock
<1>3. NextInstr = SelectedData[k]
  BY <1>1 DEF NextInstr
<1> HIDE DEF k
<1>4. ASSUME NEW way \in {0, 1}, Hit(way)
      PROVE  cache[IndexOf(pc)][way].data[k] = InstrAt(imem, pc)
  <2>1. IndexOf(pc) \in 0 .. NumSets - 1
    BY LinesTyped
  <2>2. cache[IndexOf(pc)][way].valid /\ cache[IndexOf(pc)][way].tag = TagOf(pc)
    BY <1>4 DEF Hit
  <2>3. cache[IndexOf(pc)][way].data[k]
          = InstrAt(imem, Add(BlockOf(TagOf(pc), IndexOf(pc)), 4 * k))
    BY <1>2, <2>1, <2>2 DEF CacheInv, LinesHoldMemory, BlockOf
  <2>4. QED
    BY <1>2, <2>3
<1>5. CASE Hit(0)
  BY <1>3, <1>4, <1>5 DEF SelectedData
<1>6. CASE ~Hit(0) /\ Hit(1)
  BY <1>3, <1>4, <1>6 DEF SelectedData
<1>7. CASE ~Hit(0) /\ ~Hit(1)
  <2>1. OffsetOf(pc) = 0
    BY <1>7 DEF CacheInv, InsideALine
  <2>2. k = 0
    BY <2>1 DEF k
  <2>3. pc % Modulus = pc
    BY <1>1, SizesAssumption DEF Word
  <2>4. MemoryData[0] = InstrAt(imem, Add(pc, 4 * 0))
    BY <1>2, <2>2 DEF MemoryData
  <2>5. Add(pc, 4 * 0) = pc
    BY <1>1, <2>3 DEF Add, Word
  <2>6. QED
    BY <1>3, <1>7, <2>2, <2>4, <2>5 DEF SelectedData
<1>8. QED
  BY <1>5, <1>6, <1>7

\* A fill puts a block of the memory under its own set and tag, and leaves
\* the other lines alone.
LEMMA FillIsRight ==
  ASSUME CacheFits, CacheInv, NEW way \in FillWays,
         cache' = NextCache(way), imem' = imem
  PROVE  /\ cache' \in [0 .. NumSets - 1 -> [{0, 1} ->
                [valid : BOOLEAN, tag : Nat, data : [0 .. LineWords - 1 -> Instr]]]]
         /\ LinesHoldMemory'
<1> DEFINE Line == [valid : BOOLEAN, tag : Nat, data : [0 .. LineWords - 1 -> Instr]]
           new == [valid |-> TRUE, tag |-> TagOf(pc), data |-> MemoryData]
<1>1. cache \in [0 .. NumSets - 1 -> [{0, 1} -> Line]] /\ way \in {0, 1}
  BY DEF CacheFits, CacheSizes, AlignedJumps, CacheInv, CacheTypes
<1>2. CASE ~Filling
  BY <1>1, <1>2 DEF NextCache, CacheInv, LinesHoldMemory, LineBytes
<1>3. CASE Filling
  <2>1. cache' = [cache EXCEPT ![IndexOf(pc)][way] = new]
    BY <1>1, <1>3 DEF NextCache
  <2>2. IndexOf(pc) \in 0 .. NumSets - 1 /\ new \in Line
    BY LinesTyped
  <2>3. OffsetOf(pc) = 0
    BY <1>3 DEF CacheInv, InsideALine, Filling
  <2>4. BlockOf(new.tag, IndexOf(pc)) = pc
    <3>1. pc \in Nat
      BY SizesAssumption DEF CacheInv, CacheTypes, Word
    <3>2. QED
      BY <2>3, <3>1, BlockNumber
  <2>5. \A j \in 0 .. LineWords - 1 :
            new.data[j] = InstrAt(imem, Add(BlockOf(new.tag, IndexOf(pc)), 4 * j))
    BY <2>4 DEF MemoryData
  <2> HIDE DEF new, Line
  <2>6. cache' \in [0 .. NumSets - 1 -> [{0, 1} -> Line]]
    BY <1>1, <2>1, <2>2
  <2>7. ASSUME NEW s \in 0 .. NumSets - 1, NEW w \in {0, 1}, cache'[s][w].valid,
               NEW j \in 0 .. LineWords - 1
        PROVE  cache'[s][w].data[j] = InstrAt(imem, Add(BlockOf(cache'[s][w].tag, s), 4 * j))
    <3>1. CASE s = IndexOf(pc) /\ w = way
      <4>1. cache'[s][w] = new
        BY <1>1, <2>1, <2>2, <3>1
      <4>2. QED
        BY <2>5, <3>1, <4>1
    <3>2. CASE ~(s = IndexOf(pc) /\ w = way)
      <4>1. cache'[s][w] = cache[s][w]
        BY <1>1, <2>1, <2>2, <3>2
      <4>2. QED
        BY <2>7, <4>1 DEF CacheInv, LinesHoldMemory, BlockOf
    <3>3. QED
      BY <3>1, <3>2
  <2>8. LinesHoldMemory'
    BY <2>7 DEF LinesHoldMemory, BlockOf, LineBytes
  <2>9. QED
    BY <2>6, <2>8 DEF Line
<1>4. QED
  BY <1>2, <1>3 DEF Filling

\* Once the first word of a line has been fetched the whole line is there:
\* nothing else fills a line before the core has run through it or jumps.
LEMMA LineStays ==
  ASSUME CacheFits, CacheInv, NEW way \in FillWays,
         cache' = NextCache(way), pc' = Add(pc, 4), ~rst, ~bubble, ~stall
  PROVE  InsideALine'
<1> SUFFICES ASSUME OffsetOf(pc') # 0
             PROVE  Hit(0)' \/ Hit(1)'
  BY DEF InsideALine, OffsetOf, LineBytes
<1>1. TagOf(pc') = TagOf(pc) /\ IndexOf(pc') = IndexOf(pc)
  BY NextWord DEF CacheInv, CacheTypes
<1>2. IndexOf(pc) \in 0 .. NumSets - 1 /\ way \in {0, 1}
  BY LinesTyped DEF CacheFits, CacheSizes, AlignedJumps
<1>3. \A w \in {0, 1} : Hit(w)' <=> /\ cache'[IndexOf(pc)][w].valid
                                    /\ cache'[IndexOf(pc)][w].tag = TagOf(pc)
  BY <1>1 DEF Hit, IndexOf, TagOf, LineBytes
<1>4. CASE Filling
  <2>1. cache' = [cache EXCEPT ![IndexOf(pc)][way] =
                    [valid |-> TRUE, tag |-> TagOf(pc), data |-> MemoryData]]
    BY <1>2, <1>4 DEF NextCache
  <2>2. cache'[IndexOf(pc)][way]
          = [valid |-> TRUE, tag |-> TagOf(pc), data |-> MemoryData]
    BY <1>2, <2>1 DEF CacheInv, CacheTypes
  <2>3. Hit(way)'
    BY <1>2, <1>3, <2>2
  <2>4. QED
    BY <1>2, <2>3
<1>5. CASE ~Filling
  <2>1. cache' = cache
    BY <1>5 DEF NextCache
  <2>2. Hit(0) \/ Hit(1)
    BY <1>5 DEF Filling
  <2>3. QED
    BY <1>3, <2>1, <2>2 DEF Hit
<1>6. QED
  BY <1>4, <1>5

\* Reset and jumps lead to the first word of a line.
LEMMA AlignedFacts ==
  ASSUME CacheFits
  PROVE  /\ ResetPc \in Word /\ OffsetOf(ResetPc) = 0
         /\ \A a \in JumpTargets : a \in Word /\ OffsetOf(a) = 0
         /\ 0 \in Word /\ OffsetOf(0) = 0
<1>1. LineBytes \in Nat \ {0}
  BY DEF CacheFits, CacheSizes, AlignedJumps, LineBytes
<1>2. 0 % LineBytes = 0
  BY <1>1
<1>3. QED
  BY <1>2, SizesAssumption DEF CacheFits, CacheSizes, AlignedJumps, OffsetOf, Word

\* What CacheInv says is left by every edge of the cache and of the core
\* that drives it.
LEMMA CacheStep ==
  ASSUME CacheFits, CacheInv, [Next]_vars
  PROVE  CacheInv'
<1>1. CASE UNCHANGED vars
  BY <1>1 DEF vars, CacheInv, CacheTypes, InsideALine, LinesHoldMemory, Hit,
     OffsetOf, IndexOf, TagOf, LineBytes
<1>2. CASE Next
  <2>1. CacheEdge /\ ~rst' /\ rst' = FALSE /\ imem' = imem
    BY <1>2 DEF Next, ResetClock, Clock, CacheEdge
  <2>2. PICK way \in FillWays : cache' = NextCache(way)
    BY <2>1 DEF CacheEdge
  <2>3. /\ cache' \in [0 .. NumSets - 1 -> [{0, 1} ->
                [valid : BOOLEAN, tag : Nat, data : [0 .. LineWords - 1 -> Instr]]]]
        /\ LinesHoldMemory'
    BY <2>1, <2>2, FillIsRight
  <2>4. bubble' \in BOOLEAN /\ stall' \in BOOLEAN /\ ~(bubble' /\ stall')
    BY <1>2 DEF Next, ResetClock, Clock
  <2>5. pc' \in Word /\ OffsetOf(pc') % 4 = 0 /\ InsideALine'
    <3>1. CASE ~rst /\ ~bubble /\ ~stall
      <4>1. pc' = Add(pc, 4)
        BY <1>2, <3>1 DEF Next, ResetClock, Clock
      <4>2. InsideALine'
        BY <2>2, <3>1, <4>1, LineStays
      <4>3. QED
        BY <4>1, <4>2, NextWord DEF CacheInv, CacheTypes
    <3>2. CASE ~rst /\ ~bubble /\ stall
      <4>1. pc' = pc /\ cache' = cache
        BY <1>2, <2>2, <3>2 DEF Next, ResetClock, Clock, NextCache, Filling
      <4>2. QED
        BY <4>1 DEF CacheInv, CacheTypes, InsideALine, Hit, OffsetOf, IndexOf, TagOf,
           LineBytes
    <3>3. CASE rst \/ bubble
      <4>1. pc' = ResetPc \/ pc' \in JumpTargets
        BY <1>2, <3>3 DEF Next, ResetClock, Clock, CacheInv, CacheTypes
      <4>2. pc' \in Word /\ OffsetOf(pc') = 0
        BY <4>1, AlignedFacts
      <4>3. QED
        BY <4>2 DEF InsideALine, OffsetOf, LineBytes
    <3>4. QED
      BY <3>1, <3>2, <3>3
  <2>6. QED
    BY <2>1, <2>3, <2>4, <2>5 DEF CacheInv, CacheTypes, OffsetOf, LineBytes
<1>3. QED
  BY <1>1, <1>2

\* The empty cache out of reset satisfies the invariant.
LEMMA CacheStarts ==
  ASSUME CacheFits, Init
  PROVE  CacheInv
<1>1. \A s \in 0 .. NumSets - 1, way \in {0, 1} : cache[s][way] = EmptyLine
  BY DEF Init
<1>2. EmptyLine \in [valid : BOOLEAN, tag : Nat, data : [0 .. LineWords - 1 -> Instr]]
  BY SizesAssumption DEF EmptyLine, ZeroInstr, Instr, Class, Reg, Word
<1>3. CacheTypes
  <2>1. OffsetOf(pc) % 4 = 0
    BY AlignedFacts DEF Init
  <2>2. pc \in Word
    BY AlignedFacts DEF Init
  <2>3. QED
    BY <1>2, <2>1, <2>2 DEF Init, CacheTypes
<1>4. InsideALine
  BY AlignedFacts DEF Init, InsideALine
<1>5. LinesHoldMemory
  BY <1>1 DEF LinesHoldMemory, EmptyLine
<1>6. QED
  BY <1>3, <1>4, <1>5 DEF Init, CacheInv

-----------------------------------------------------------------------------
\* Every line the cache holds is a copy of memory, whatever sequence of
\* jumps, stalls and evictions led to it (icache.v).
THEOREM LinesCorrect ==
  ASSUME CacheFits
  PROVE  Spec => []LinesHoldMemory
<1>1. Init => CacheInv
  BY CacheStarts
<1>2. CacheInv /\ [Next]_vars => CacheInv'
  BY CacheStep
<1>3. CacheInv => LinesHoldMemory
  BY DEF CacheInv
<1>4. QED
  BY <1>1, <1>2, <1>3, PTL DEF Spec

\* So the core is never told apart from one with the memory on its port.
THEOREM FetchesCorrect ==
  ASSUME CacheFits
  PROVE  Spec => DeliversFetchedWord
<1>1. Init => CacheInv
  BY CacheStarts
<1>2. CacheInv /\ [Next]_vars => CacheInv'
  BY CacheStep
<1>3. CacheInv /\ [Next]_vars
        => [~rst /\ ~bubble /\ ~stall => icache_o_instr' = InstrAt(imem, pc)]_vars
  <2> SUFFICES ASSUME CacheInv, Next, ~rst, ~bubble, ~stall
               PROVE  icache_o_instr' = InstrAt(imem, pc)
    OBVIOUS
  <2>1. icache_o_instr' = NextInstr
    BY DEF Next, ResetClock, Clock, CacheEdge
  <2>2. QED
    BY <2>1, FetchIsMemory
<1>4. QED
  BY <1>1, <1>2, <1>3, PTL DEF Spec, DeliversFetchedWord
=============================================================================
