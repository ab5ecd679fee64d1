------------------------------- MODULE ICache -------------------------------
(***************************************************************************)
(* The instruction cache of src/IP/rv64/linux_cpu/cache/icache.v (and of   *)
(* cache-cpu/icache.v, which differs in the way a miss fills): a           *)
(* registered read port in front of the instruction memory, two ways per   *)
(* set, a line of LineWords instructions.                                  *)
(*                                                                         *)
(* The core drives pc, bubble and stall.  Here they are variables that the *)
(* environment sets as the core does: a stalled core holds its pc, a       *)
(* bubble comes with a jump, and otherwise the pc advances by one          *)
(* instruction.  CachedCpu puts the real core in the environment's place.  *)
(***************************************************************************)
EXTENDS RvIsa

CONSTANTS
    LineWords,     \* instructions in a line: 4 in the code
    NumSets,       \* num_sets: 256 in the code
    FillWays,      \* the ways a miss may pick: {0}, or {-1, 0, 1} in cache-cpu
    JumpTargets    \* where the environment jumps

CacheSizes ==
    /\ LineWords \in Nat \ {0}
    /\ NumSets \in Nat \ {0}
    /\ FillWays \subseteq {-1, 0, 1} /\ FillWays # {}
    /\ JumpTargets \subseteq Word /\ JumpTargets # {}

ASSUME ICacheAssumption == CacheSizes

VARIABLES
    rst, imem,        \* the reset line; the instruction memory, constant
    pc,               \* input: the address to fetch
    bubble, stall,    \* inputs: empty the read port, hold it
    cache,            \* the lines, by set and way
    icache_o_instr    \* output register

vars == <<rst, imem, pc, bubble, stall, cache, icache_o_instr>>

LineBytes == 4 * LineWords

\* A miss puts the words from pc on under the set and tag of pc, so that a
\* line is right only if the core enters it at its first word.
AlignedJumps ==
    /\ Modulus % LineBytes = 0
    /\ ResetPc % LineBytes = 0
    /\ \A a \in JumpTargets : a % LineBytes = 0

EmptyLine == [valid |-> FALSE, tag |-> 0,
              data |-> [k \in 0 .. LineWords - 1 |-> ZeroInstr]]

\* pc = [tag, index, offset]
\* (Mutant: a tag one bit too short.)
TagTooShort(a) ==
    (a \div (LineBytes * NumSets)) % (Modulus \div (2 * LineBytes * NumSets))
TagOf(a) == a \div (LineBytes * NumSets)
IndexOf(a) == (a \div LineBytes) % NumSets
OffsetOf(a) == a % LineBytes

-----------------------------------------------------------------------------
\* memory_data: the line a miss fetches, which begins at pc itself.
MemoryData == [k \in 0 .. LineWords - 1 |-> InstrAt(imem, Add(pc, 4 * k))]

\* (Mutant: a line that was never filled hits.)
HitUnfilled(way) == cache[IndexOf(pc)][way].tag = TagOf(pc)
\* cache_hit_index0, cache_hit_index1
Hit(way) ==
    LET line == cache[IndexOf(pc)][way]
    IN  line.valid /\ line.tag = TagOf(pc)

\* The data the read port selects from: the hit way's, way 0 first, or on a
\* miss the line on its way into the cache.
SelectedData ==
    CASE Hit(0)             -> cache[IndexOf(pc)][0].data
      [] ~Hit(0) /\ Hit(1)  -> cache[IndexOf(pc)][1].data
      [] ~Hit(0) /\ ~Hit(1) -> MemoryData

\* icache_o_instr at the next edge; an offset inside a word holds it.
NextInstr ==
    CASE rst \/ bubble -> ZeroInstr
      [] ~rst /\ ~bubble /\ ~stall /\ OffsetOf(pc) % 4 = 0
            -> SelectedData[OffsetOf(pc) \div 4]
      [] OTHER -> icache_o_instr

Filling == ~rst /\ ~bubble /\ ~stall /\ ~Hit(0) /\ ~Hit(1)
\* A miss fills the way it picks, whatever that way held.  $random % 2 in
\* cache-cpu is signed: a build that does not take -1 for way 1 drops the write.
NextCache(way) ==
    IF Filling /\ way \in {0, 1}
    THEN [cache EXCEPT ![IndexOf(pc)][way] =
             [valid |-> TRUE, tag |-> TagOf(pc), data |-> MemoryData]]
    ELSE cache

-----------------------------------------------------------------------------
\* The valid bits are not reset: they start at 0 in the build.
Init ==
    /\ rst = TRUE
    /\ imem \in Programs
    /\ pc = 0
    /\ bubble = FALSE /\ stall = FALSE
    /\ cache = [s \in 0 .. NumSets - 1 |-> [way \in {0, 1} |-> EmptyLine]]
    /\ icache_o_instr = ZeroInstr

\* The read port and the cache at a rising edge.
CacheEdge ==
    /\ \E way \in FillWays : cache' = NextCache(way)
    /\ icache_o_instr' = NextInstr
    /\ UNCHANGED imem

\* The inputs of the next cycle, as ctrl.v drives them: never both at once,
\* and no jump in the first cycles after a jump or a reset.
ResetClock ==
    /\ rst
    /\ CacheEdge
    /\ rst' = FALSE
    /\ pc' = ResetPc
    /\ bubble' = FALSE /\ stall' = FALSE

Clock ==
    /\ ~rst
    /\ CacheEdge
    /\ rst' = FALSE
    /\ \/ bubble /\ pc' \in JumpTargets
       \/ ~bubble /\ stall /\ pc' = pc
       \/ ~bubble /\ ~stall /\ pc' = Add(pc, 4)
    /\ bubble' \in BOOLEAN
    /\ stall' \in BOOLEAN
    /\ ~(bubble' /\ stall')

Next == ResetClock \/ Clock

Spec == Init /\ [][Next]_vars

-----------------------------------------------------------------------------
\* A cache is invisible: the word it puts out is the word the memory holds at
\* pc, on a hit in either way, on a miss and after any evictions.
DeliversFetchedWord ==
    [][~rst /\ ~bubble /\ ~stall => icache_o_instr' = InstrAt(imem, pc)]_vars

\* Every valid line is a copy of the memory block that its set and tag name,
\* word by word, so a later hit anywhere in the line is right.
LinesHoldMemory ==
    \A s \in 0 .. NumSets - 1, way \in {0, 1} :
        LET line == cache[s][way]
            base == (line.tag * NumSets + s) * LineBytes
        IN  line.valid => \A k \in 0 .. LineWords - 1 :
                line.data[k] = InstrAt(imem, Add(base, 4 * k))
=============================================================================
